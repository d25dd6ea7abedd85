--------------------------- MODULE PlanningProofs ---------------------------
(***************************************************************************)
(* What holds of every grid, request and search of PlanSearch, of every    *)
(* set of corridors and flip budget of DetourBan, and of every mapping     *)
(* session that draws the map to plan on (MapRender).                      *)
(***************************************************************************)
EXTENDS PlanSearch, DetourBan, MapRender, WellFoundedInduction, FiniteSetTheorems,
        SequenceTheorems, TLAPS

-----------------------------------------------------------------------------
(* The search: what is known of a cell that was reached, whatever the      *)
(* costs, the heuristic and the order of the queue.                        *)

\* The parent of a cell is the cell itself or an expanded one; then some
\* neighbour is expanded that it could fall back to.  A*'s parent is one.
Anchored(c) ==
    \/ parent[c] = c
    \/ /\ parent[c] \in closed
       /\ Near(c) \cap closed # {}
       /\ job.alg # "theta" => parent[c] \in Near(c)

\* The cell sees or touches its parent.
Joined(p, c) == p = c \/ p \in Near(c) \/ LineOfSight(costs, p, c)

\* A cell whose cost is known was expanded or waits in the queue.
Awaits(n) == \E e \in queue : e.cell = n /\ (job.alg = "theta" => n \in open)

ExpandedOpen == closed \subseteq Open(costs) /\ \A e \in queue : e.cell \in Open(costs)
QueueKnown == \A e \in queue : e.cell \in DOMAIN g
ExpandedOnce == job.alg = "theta" => open \cap closed = {}
ParentsAnchored == \A c \in Cells : Anchored(c)
ParentsJoined == \A c \in closed : Joined(parent[c], c)
KnownAwaits == \A n \in DOMAIN g : n \in closed \/ Awaits(n)
NeighboursKnown == \A c \in closed : c \in DOMAIN g /\ Near(c) \cap Open(costs) \subseteq DOMAIN g
GoalNotExpanded == from \in DOMAIN g /\ to \notin closed

SearchHolds ==
    /\ ExpandedOpen /\ ExpandedOnce /\ ParentsAnchored /\ ParentsJoined
    /\ QueueKnown /\ KnownAwaits /\ NeighboursKnown /\ GoalNotExpanded

SearchIInv ==
    /\ stage \in {"search", "no path"} => SearchHolds
    /\ stage = "no path" => queue = {}

\* A cell is not its own neighbour, and neighbours are mutual.
LEMMA NearIsMutual ==
    ASSUME NEW c \in Cells, NEW d \in Near(c)
    PROVE  d \in Cells /\ c \in Near(d) /\ c # d
BY DEF Near, Cells, Abs

\* A plan starts where the footprint fits: the cell itself is open.
LEMMA StartIsOpen ==
    ASSUME NEW cs, NEW pose, NEW c \in StartCells(cs, pose)
    PROVE  c \in Open(cs)
<1>1. c \in NearestFreePose(cs, pose)
  BY DEF StartCells
<1>2. c \in Cells /\ FootprintTraversable(cs, c)
  BY <1>1 DEF NearestFreePose, Ring
<1>3. c \in Plus(c)
  <2>1. c = <<c[1] + 0, c[2] + 0>>
    BY <1>2 DEF Cells
  <2> QED
    BY <2>1 DEF Plus
<1> QED
  BY <1>2, <1>3 DEF FootprintTraversable

\* The parent with which a cell is expanded is expanded before it, and the
\* cell sees or touches it.
LEMMA SettledIsJoined ==
    ASSUME SearchHolds, NEW s \in Open(costs), NEW v \in Settled(s)
    PROVE  v.parent \in closed \cup {s} /\ Joined(v.parent, s)
<1> s \in Cells
  BY DEF Open
<1> Anchored(s)
  BY DEF SearchHolds, ParentsAnchored
<1>1. CASE job.alg = "theta"
  <2> DEFINE near == {n \in Near(s) \cap closed : IsTraversable(costs, n)}
  <2>1. near = Near(s) \cap closed
    BY DEF SearchHolds, ExpandedOpen, Open
  <2>2. v \in SetVertex(s)
    BY <1>1 DEF Settled
  <2>3. CASE parent[s] = s \/ LineOfSight(costs, parent[s], s) \/ near = {}
    <3>1. v.parent = parent[s]
      BY <2>2, <2>3 DEF SetVertex
    <3> QED
      BY <3>1, <2>3, <2>1 DEF Anchored, Joined
  <2>4. CASE ~(parent[s] = s \/ LineOfSight(costs, parent[s], s) \/ near = {})
    <3>1. v.parent \in near
      BY <2>2, <2>4 DEF SetVertex, Cheapest
    <3> QED
      BY <3>1, <2>1 DEF Joined
  <2> QED
    BY <2>3, <2>4
<1>2. CASE job.alg # "theta"
  BY <1>2 DEF Settled, Anchored, Joined
<1> QED
  BY <1>1, <1>2

\* The first state of a search.
LEMMA PrepareHolds ==
    ASSUME Prepare
    PROVE  SearchHolds'
<1>1. from' \in Open(costs')
  BY StartIsOpen DEF Prepare
<1> QED
  BY <1>1 DEF Prepare, SearchHolds, ExpandedOpen, ExpandedOnce, ParentsAnchored, ParentsJoined,
       QueueKnown, KnownAwaits, NeighboursKnown, GoalNotExpanded, Anchored, Joined, Awaits, Task

\* Dropping an entry of a cell that was expanded loses nothing.
LEMMA SkipHolds ==
    ASSUME SearchHolds, NEW e \in queue, SkipStale(e)
    PROVE  SearchHolds'
<1> USE DEF SkipStale, Task
<1>1. /\ ExpandedOpen' /\ ExpandedOnce' /\ ParentsAnchored' /\ ParentsJoined'
      /\ QueueKnown' /\ NeighboursKnown' /\ GoalNotExpanded'
  BY DEF SearchHolds, ExpandedOpen, QueueKnown, ExpandedOnce, ParentsAnchored, ParentsJoined, NeighboursKnown,
         GoalNotExpanded, Anchored, Joined
<1>2. KnownAwaits'
  BY DEF SearchHolds, KnownAwaits, Awaits, Stale
<1> QED
  BY <1>1, <1>2 DEF SearchHolds

\* Expanding a cell: those it improves wait with its settled parent, or with
\* it; the rest of what is known stays.
LEMMA ExpandHolds ==
    ASSUME SearchHolds, NEW e \in queue, Expand(e)
    PROVE  SearchHolds'
<1> DEFINE s == e.cell
<1>1. PICK v \in Settled(s) :
        LET gs == [g EXCEPT ![s] = v.g]
            better == Improved(gs, s, v.parent)
            offer(n) == Offer(gs, s, v.parent, n)
        IN /\ g' = [n \in DOMAIN g \cup better |-> IF n \in better THEN offer(n) ELSE gs[n]]
           /\ parent' = [n \in Cells |-> IF n \in better THEN From(s, v.parent)
                                         ELSE IF n = s THEN v.parent ELSE parent[n]]
           /\ queue' = (queue \ {e}) \cup
                {[f |-> offer(n) + Heuristic(n, to), n |-> pushes + Rank(s, n), cell |-> n] : n \in better}
           /\ open' = (open \ {s}) \cup better
  BY DEF Expand
<1> DEFINE gs == [g EXCEPT ![s] = v.g]
           better == Improved(gs, s, v.parent)
<1>2. s \in Open(costs) /\ s \in Cells
  BY DEF SearchHolds, ExpandedOpen, Open
<1>3. v.parent \in closed \cup {s} /\ Joined(v.parent, s)
  BY <1>2, SettledIsJoined
<1>4. closed' = closed \cup {s} /\ s # to /\ ~Stale(e) /\ UNCHANGED <<job, costs, from, to>>
  BY DEF Expand, Task
<1>5. /\ better \subseteq Near(s) \cap Open(costs)
      /\ job.alg = "theta" => better \cap closed = {}
      /\ \A n \in Near(s) \cap Open(costs) : n \in better \/ n \in DOMAIN g \/ (job.alg = "theta" /\ n \in closed)
  BY DEF Improved
<1>6. /\ DOMAIN g' = DOMAIN g \cup better
      /\ open' = (open \ {s}) \cup better
      /\ \A n \in Cells : parent'[n] = IF n \in better THEN From(s, v.parent) ELSE IF n = s THEN v.parent ELSE parent[n]
      /\ queue \ {e} \subseteq queue'
      /\ \A d \in queue' : d \in queue \/ d.cell \in better
      /\ \A n \in better : \E d \in queue' : d.cell = n
  <2>1. DOMAIN g' = DOMAIN g \cup better /\ open' = (open \ {s}) \cup better
    BY <1>1
  <2>2. \A n \in Cells : parent'[n] = IF n \in better THEN From(s, v.parent) ELSE IF n = s THEN v.parent ELSE parent[n]
    BY <1>1
  <2> DEFINE entry(n) == [f |-> Offer(gs, s, v.parent, n) + Heuristic(n, to), n |-> pushes + Rank(s, n), cell |-> n]
  <2>3. queue' = (queue \ {e}) \cup {entry(n) : n \in better}
    BY <1>1
  <2>4. \A n \in better : entry(n).cell = n
    OBVIOUS
  <2> HIDE DEF entry, better
  <2> QED
    BY <2>1, <2>2, <2>3, <2>4
<1>7. \A n \in better : n \in Cells /\ s \in Near(n) /\ n # s
  BY <1>2, <1>5, NearIsMutual DEF Open
<1> HIDE DEF better, gs, s
<1>8. ExpandedOpen'
  BY <1>2, <1>4, <1>5, <1>6 DEF SearchHolds, ExpandedOpen
<1>9. ExpandedOnce'
  BY <1>4, <1>5, <1>6, <1>7 DEF SearchHolds, ExpandedOnce
<1>10. ParentsAnchored'
  <2> SUFFICES ASSUME NEW c \in Cells PROVE Anchored(c)'
    BY DEF ParentsAnchored
  <2>1. CASE c \in better
    <3>1. parent'[c] = From(s, v.parent) /\ s \in Near(c) \cap closed'
      BY <2>1, <1>4, <1>6, <1>7
    <3>2. parent'[c] \in closed' /\ (job.alg # "theta" => parent'[c] = s)
      BY <3>1, <1>3, <1>4 DEF From
    <3> QED
      BY <3>1, <3>2, <1>4 DEF Anchored
  <2>2. CASE c \notin better /\ c = s
    <3>1. parent'[c] = v.parent /\ Anchored(s)
      BY <2>2, <1>2, <1>6 DEF SearchHolds, ParentsAnchored
    <3>2. job.alg # "theta" => v.parent = parent[s]
      BY DEF Settled
    <3>3. v.parent = s \/ (v.parent \in closed /\ parent[s] # s)
      <4>1. CASE parent[s] = s
        BY <4>1 DEF Settled, SetVertex
      <4>2. CASE parent[s] # s
        BY <4>2, <1>3
      <4> QED
        BY <4>1, <4>2
    <3> QED
      BY <2>2, <3>1, <3>2, <3>3, <1>4 DEF Anchored
  <2>3. CASE c \notin better /\ c # s
    BY <2>3, <1>4, <1>6 DEF SearchHolds, ParentsAnchored, Anchored
  <2> QED
    BY <2>1, <2>2, <2>3
<1>11. ParentsJoined'
  <2> SUFFICES ASSUME NEW c \in closed' PROVE Joined(parent[c], c)'
    BY DEF ParentsJoined
  <2>0. c \in Cells
    BY <1>2, <1>4 DEF SearchHolds, ExpandedOpen, Open
  <2>1. CASE c \in better
    <3>1. job.alg # "theta"
      BY <2>1, <1>4, <1>5, <1>7
    <3>2. parent'[c] = s /\ s \in Near(c)
      BY <2>0, <2>1, <3>1, <1>6, <1>7 DEF From
    <3> QED
      BY <3>2 DEF Joined
  <2>2. CASE c \notin better /\ c = s
    BY <2>0, <2>2, <1>3, <1>4, <1>6 DEF Joined
  <2>3. CASE c \notin better /\ c # s
    BY <2>0, <2>3, <1>4, <1>6 DEF SearchHolds, ParentsJoined, Joined
  <2> QED
    BY <2>1, <2>2, <2>3
<1>12. KnownAwaits'
  <2> SUFFICES ASSUME NEW n \in DOMAIN g', n \notin closed' PROVE Awaits(n)'
    BY DEF KnownAwaits
  <2>1. CASE n \in better
    BY <2>1, <1>4, <1>6 DEF Awaits
  <2>2. CASE n \notin better
    <3>1. PICK d \in queue : d.cell = n /\ (job.alg = "theta" => n \in open)
      BY <2>2, <1>4, <1>6 DEF SearchHolds, KnownAwaits, Awaits
    <3>2. n # s /\ d # e
      BY <3>1, <1>4 DEF s
    <3> QED
      BY <3>1, <3>2, <1>4, <1>6 DEF Awaits
  <2> QED
    BY <2>1, <2>2
<1>13. closed \cup {s} \subseteq DOMAIN g
  BY DEF SearchHolds, NeighboursKnown, QueueKnown, s
<1>14. NeighboursKnown'
  BY <1>4, <1>5, <1>6, <1>13 DEF SearchHolds, NeighboursKnown
<1>16. QueueKnown'
  BY <1>6 DEF SearchHolds, QueueKnown
<1>15. GoalNotExpanded'
  BY <1>4, <1>6 DEF SearchHolds, GoalNotExpanded
<1> QED
  BY <1>8, <1>9, <1>10, <1>11, <1>12, <1>14, <1>15, <1>16 DEF SearchHolds

\* Every step of a plan keeps what is known of its search.
LEMMA SearchStep ==
    ASSUME SearchIInv, [PlanNext]_planVars
    PROVE  SearchIInv'
<1>1. CASE Refuse
  BY <1>1 DEF Refuse, SearchIInv
<1>2. CASE Prepare
  <2>1. stage' = "search"
    BY <1>2 DEF Prepare
  <2> QED
    BY <1>2, <2>1, PrepareHolds DEF SearchIInv
<1>3. CASE Pop
  <2>1. stage = "search" /\ SearchHolds
    BY <1>3 DEF Pop, SearchIInv
  <2>2. PICK e \in queue : SkipStale(e) \/ Expand(e) \/ Reach(e)
    BY <1>3 DEF Pop
  <2>3. CASE SkipStale(e)
    BY <2>1, <2>3, SkipHolds DEF SearchIInv, SkipStale
  <2>4. CASE Expand(e)
    BY <2>1, <2>4, ExpandHolds DEF SearchIInv, Expand
  <2>5. CASE Reach(e)
    BY <2>5 DEF Reach, SearchIInv
  <2> QED
    BY <2>2, <2>3, <2>4, <2>5
<1>4. CASE Exhausted
  BY <1>4 DEF Exhausted, Task, Search, SearchIInv, SearchHolds, ExpandedOpen, ExpandedOnce, ParentsAnchored,
       ParentsJoined, QueueKnown, KnownAwaits, NeighboursKnown, GoalNotExpanded, Anchored, Joined, Awaits
<1>5. CASE Connect
  BY <1>5 DEF Connect, SearchIInv
<1>6. CASE Finish
  BY <1>6 DEF Finish, SearchIInv
<1>7. CASE UNCHANGED planVars
  BY <1>7 DEF planVars, SearchIInv, SearchHolds, ExpandedOpen, ExpandedOnce, ParentsAnchored,
       ParentsJoined, QueueKnown, KnownAwaits, NeighboursKnown, GoalNotExpanded, Anchored, Joined, Awaits
<1> QED
  BY <1>1, <1>2, <1>3, <1>4, <1>5, <1>6, <1>7 DEF PlanNext

\* The invariant of the search, on which the two theorems below rest.
THEOREM SearchInductive == PlanSpec => []SearchIInv
<1>1. PlanInit => SearchIInv
  BY DEF PlanInit, SearchIInv
<1>2. SearchIInv /\ [PlanNext]_planVars => SearchIInv'
  BY SearchStep
<1> QED
  BY <1>1, <1>2, PTL DEF PlanSpec

\* Whatever the grid, the costs and the algorithm, every cell that was expanded
\* has an expanded parent that it sees or touches, although Lazy Theta* expands
\* cells whose parent it only assumed to be in sight.  (_lazy_theta_star,
\* _set_vertex, _astar)
THEOREM ExpandedCellsAreJoined == PlanSpec => []ClosedParents
<1>1. SearchIInv => ClosedParents
  <2> SUFFICES ASSUME SearchIInv, stage = "search", NEW c \in closed
               PROVE  parent[c] \in closed /\ Joined(parent[c], c)
    BY DEF ClosedParents, Joined
  <2>1. SearchHolds
    BY DEF SearchIInv
  <2>2. c \in Cells
    BY <2>1 DEF SearchHolds, ExpandedOpen, Open
  <2> QED
    BY <2>1, <2>2 DEF SearchHolds, ParentsAnchored, ParentsJoined, Anchored
<1> QED
  BY <1>1, SearchInductive, PTL

\* "No path" is said only when the expanded cells hold the start and not the
\* goal and no open cell touches them from outside: no way of neighbouring open
\* cells leads to the goal, whatever the grid and the costs.
\* (_astar, _lazy_theta_star)
THEOREM NoPathIsACut == PlanSpec => []NoPathMeansCut
<1>1. SearchIInv => NoPathMeansCut
  BY DEF SearchIInv, SearchHolds, GoalNotExpanded, KnownAwaits, Awaits, NeighboursKnown, NoPathMeansCut
<1> QED
  BY <1>1, SearchInductive, PTL

-----------------------------------------------------------------------------
(* Recursion and induction over an interval, which the recursive functions *)
(* of the planner need. *)

\* A set of natural numbers that is not empty has a least one.
LEMMA LeastOf ==
    ASSUME NEW S, S \subseteq Nat, S # {}
    PROVE  \E m \in S : \A n \in S : m <= n
<1> DEFINE R == OpToRel(<, Nat)
<1>1. IsWellFoundedOn(R, Nat)
  BY NatLessThanWellFounded
<1>2. \A m, n \in Nat : m < n => <<m, n>> \in R
  BY DEF OpToRel
<1> HIDE DEF R
<1>3. PICK m \in S : \A n \in S : ~(<<n, m>> \in R)
  BY <1>1, WFMin
<1>4. ASSUME NEW n \in S PROVE m <= n
  <2>1. ~(n < m)
    BY <1>2, <1>3
  <2> QED
    BY <2>1
<1> QED
  BY <1>4

\* What holds at the start of an interval and is handed on holds on all of it.
LEMMA IntervalInduction ==
    ASSUME NEW lo \in Int, NEW hi \in Int, NEW Good, lo \in Good,
           \A k \in lo + 1 .. hi : k - 1 \in Good => k \in Good
    PROVE  \A k \in lo .. hi : k \in Good
<1> SUFFICES ASSUME NEW j \in lo .. hi, j \notin Good PROVE FALSE
  OBVIOUS
<1> DEFINE Bad == {n \in Nat : lo + n <= hi /\ lo + n \notin Good}
<1>1. j - lo \in Bad
  OBVIOUS
<1>2. PICK m \in Bad : \A n \in Bad : m <= n
  BY <1>1, LeastOf
<1>3. m \in Nat /\ lo + m <= hi /\ lo + m \notin Good
  BY <1>2
<1>4. CASE m = 0
  BY <1>3, <1>4
<1>5. CASE m # 0
  <2>1. m - 1 \in Nat /\ m - 1 \notin Bad
    BY <1>2, <1>3, <1>5
  <2>2. lo + (m - 1) \in Good
    BY <1>3, <2>1
  <2>3. lo + m \in lo + 1 .. hi /\ (lo + m) - 1 = lo + (m - 1)
    BY <1>3, <1>5
  <2> QED
    BY <1>3, <2>2, <2>3
<1> QED
  BY <1>4, <1>5

\* The function f begins with b at lo and goes on, up to hi, by step.
GoesOn(f, b, lo, hi, step) == \A k \in lo .. hi : f[k] = IF k = lo THEN b ELSE step[<<k, f[k - 1]>>]

\* A function on an interval may be defined by its first value and a step.
LEMMA RecursionExists ==
    ASSUME NEW S, NEW b \in S, NEW lo \in Int, NEW hi \in Int, NEW step \in [Int \X S -> S]
    PROVE  \E f \in [lo .. hi -> S] : GoesOn(f, b, lo, hi, step)
<1> DEFINE Rec(f, n) == /\ f \in [lo .. n -> S] /\ f[lo] = b
                        /\ \A k \in lo + 1 .. n : f[k] = step[<<k, f[k - 1]>>]
           Good == {n \in lo .. hi : \E f : Rec(f, n)}
<1>1. CASE hi < lo
  <2> DEFINE f == [k \in lo .. hi |-> b]
  <2>1. lo .. hi = {}
    BY <1>1
  <2>2. f \in [lo .. hi -> S] /\ GoesOn(f, b, lo, hi, step)
    BY <2>1 DEF GoesOn
  <2> QED
    BY <2>2
<1>2. CASE lo <= hi
  <2>1. lo \in Good
    <3>1. Rec([k \in lo .. lo |-> b], lo)
      OBVIOUS
    <3> HIDE DEF Rec
    <3> QED
      BY <3>1, <1>2
  <2>2. ASSUME NEW n \in lo + 1 .. hi, n - 1 \in Good
        PROVE  n \in Good
    <3>1. PICK f : Rec(f, n - 1)
      BY <2>2
    <3> DEFINE e == [k \in lo .. n |-> IF k = n THEN step[<<n, f[n - 1]>>] ELSE f[k]]
    <3>2. f[n - 1] \in S
      BY <3>1
    <3>3. step[<<n, f[n - 1]>>] \in S
      BY <3>2
    <3>4. e \in [lo .. n -> S] /\ e[lo] = b
      BY <3>1, <3>3
    <3>5. ASSUME NEW k \in lo + 1 .. n PROVE e[k] = step[<<k, e[k - 1]>>]
      <4>1. k - 1 \in lo .. n - 1 /\ e[k - 1] = f[k - 1]
        OBVIOUS
      <4>2. CASE k = n
        <5>1. e[k] = step[<<n, f[n - 1]>>]
          BY <4>2
        <5> HIDE DEF e
        <5> QED
          BY <4>1, <4>2, <5>1
      <4>3. CASE k # n
        BY <4>1, <4>3, <3>1
      <4> QED
        BY <4>2, <4>3
    <3>6. Rec(e, n)
      BY <3>4, <3>5
    <3> HIDE DEF Rec, e
    <3> QED
      BY <3>6
  <2> HIDE DEF Good
  <2>21. \A n \in lo + 1 .. hi : n - 1 \in Good => n \in Good
    BY <2>2
  <2>3. \A n \in lo .. hi : n \in Good
    BY <2>1, <2>21, IntervalInduction, Zenon
  <2>31. hi \in lo .. hi
    BY <1>2
  <2>32. hi \in Good
    BY <2>3, <2>31
  <2> HIDE DEF Rec
  <2>4. PICK f : Rec(f, hi)
    BY <2>32, Zenon DEF Good
  <2> USE DEF Rec
  <2>5. f \in [lo .. hi -> S] /\ GoesOn(f, b, lo, hi, step)
    BY <2>4 DEF GoesOn
  <2> QED
    BY <2>5
<1> QED
  BY <1>1, <1>2

-----------------------------------------------------------------------------
(* The lines of cells *)

\* How far b lies from a down and across, and on which side; a cell and its error.
Height(a, b) == Abs(b[1] - a[1])
Width(a, b) == Abs(b[2] - a[2])
Down(a, b) == IF b[1] >= a[1] THEN 1 ELSE -1
Right(a, b) == IF b[2] >= a[2] THEN 1 ELSE -1
Spots == [cell : Int \X Int, err : Int]

\* One round of bresenham_cells' loop.
Stepped(a, b, p) ==
    LET alongX == 2 * p.err > -Height(a, b)
        alongY == 2 * p.err < Width(a, b)
    IN [cell |-> <<p.cell[1] + (IF alongY THEN Down(a, b) ELSE 0), p.cell[2] + (IF alongX THEN Right(a, b) ELSE 0)>>,
        err |-> p.err - (IF alongX THEN Height(a, b) ELSE 0) + (IF alongY THEN Width(a, b) ELSE 0)]

\* A step stays among cells, of the plane, with an integer error.
LEMMA SpotsStay ==
    ASSUME NEW a \in Cells, NEW b \in Cells, NEW p \in Spots
    PROVE  Stepped(a, b, p) \in Spots
<1>1. Height(a, b) \in Int /\ Width(a, b) \in Int /\ Down(a, b) \in Int /\ Right(a, b) \in Int
  BY DEF Height, Width, Down, Right, Abs, Cells
<1>2. p.cell[1] \in Int /\ p.cell[2] \in Int /\ p.err \in Int
  BY DEF Spots
<1>3. ASSUME NEW x \in BOOLEAN, NEW m \in Int PROVE (IF x THEN m ELSE 0) \in Int
  OBVIOUS
<1>4. /\ p.cell[1] + (IF 2 * p.err < Width(a, b) THEN Down(a, b) ELSE 0) \in Int
      /\ p.cell[2] + (IF 2 * p.err > -Height(a, b) THEN Right(a, b) ELSE 0) \in Int
      /\ p.err - (IF 2 * p.err > -Height(a, b) THEN Height(a, b) ELSE 0)
               + (IF 2 * p.err < Width(a, b) THEN Width(a, b) ELSE 0) \in Int
  BY <1>1, <1>2
<1> QED
  BY <1>4 DEF Stepped, Spots

\* The trace of a line is what its recursion says.
LEMMA TraceSteps ==
    ASSUME NEW a \in Cells, NEW b \in Cells
    PROVE  LET n == Larger(Width(a, b), Height(a, b)) IN
           /\ n \in Nat
           /\ Trace(a, b)[0] = [cell |-> a, err |-> Width(a, b) - Height(a, b)]
           /\ \A k \in 1 .. n : Trace(a, b)[k] = Stepped(a, b, Trace(a, b)[k - 1])
<1> DEFINE n == Larger(Width(a, b), Height(a, b))
           begun == [cell |-> a, err |-> Width(a, b) - Height(a, b)]
           step == [q \in Int \X Spots |-> Stepped(a, b, q[2])]
<1>1. Height(a, b) \in Nat /\ Width(a, b) \in Nat /\ n \in Nat
  BY DEF Height, Width, Abs, Cells, Larger
<1>2. begun \in Spots
  <2>1. a \in Int \X Int /\ Width(a, b) - Height(a, b) \in Int
    BY <1>1 DEF Cells
  <2> QED
    BY <2>1 DEF Spots
<1>3. step \in [Int \X Spots -> Spots]
  BY SpotsStay
<1> HIDE DEF n, begun, step
<1>4. PICK f \in [0 .. n -> Spots] : GoesOn(f, begun, 0, n, step)
  <2>1. 0 \in Int /\ n \in Int
    BY <1>1
  <2> QED
    BY Zenon, <1>2, <1>3, <2>1, RecursionExists
<1>5. \A k \in 0 .. n : f[k] = IF k = 0 THEN begun ELSE Stepped(a, b, f[k - 1])
  <2> TAKE k \in 0 .. n
  <2>1. CASE k = 0
    BY <2>1, <1>4 DEF GoesOn
  <2>2. CASE k # 0
    <3>1. k - 1 \in 0 .. n /\ f[k - 1] \in Spots
      BY <1>1, <2>2
    <3>2. step[<<k, f[k - 1]>>] = Stepped(a, b, f[k - 1])
      BY <3>1 DEF step
    <3> QED
      BY <1>4, <2>2, <3>2 DEF GoesOn
  <2> QED
    BY <2>1, <2>2
<1>8. f = [k \in 0 .. n |-> IF k = 0 THEN begun ELSE Stepped(a, b, f[k - 1])]
  BY <1>5
<1>9. Trace(a, b) = CHOOSE h : h = [k \in 0 .. n |-> IF k = 0 THEN begun ELSE Stepped(a, b, h[k - 1])]
  BY DEF Trace, Stepped, n, begun, Height, Width, Down, Right
<1>10. Trace(a, b) = [k \in 0 .. n |-> IF k = 0 THEN begun ELSE Stepped(a, b, Trace(a, b)[k - 1])]
  BY <1>8, <1>9
<1>11. Trace(a, b)[0] = begun /\ \A k \in 1 .. n : Trace(a, b)[k] = Stepped(a, b, Trace(a, b)[k - 1])
  BY <1>1, <1>10
<1> QED
  BY <1>1, <1>11 DEF n, begun

\* The error after k steps of a line of h cells that rises by m, of which it
\* has risen y: it tells how far the line is above its cell.
Balance(h, m, k, y, e) ==
    /\ e = h - m - k * m + y * h
    /\ m = h => e = 0 /\ y = k
    /\ m < h => -m < 2 * e /\ 2 * e < 3 * h - 2 * m

\* At the start the error is the line's own.
LEMMA BalanceBegins ==
    ASSUME NEW h \in Nat, NEW m \in 0 .. h
    PROVE  Balance(h, m, 0, 0, h - m)
BY DEF Balance

\* A step of a line that is at least as long as it rises goes on always, and up
\* only where the line is above; the error still tells how far.
LEMMA BalanceKept ==
    ASSUME NEW h \in Nat, NEW m \in 0 .. h, NEW k \in 0 .. h - 1, NEW y \in 0 .. m, NEW e \in Int,
           Balance(h, m, k, y, e)
    PROVE  /\ 2 * e > -m
           /\ LET rise == IF 2 * e < h THEN 1 ELSE 0
              IN /\ y + rise \in 0 .. m
                 /\ Balance(h, m, k + 1, y + rise, e - m + (IF 2 * e < h THEN h ELSE 0))
<1> DEFINE rise == IF 2 * e < h THEN 1 ELSE 0
           f == e - m + (IF 2 * e < h THEN h ELSE 0)
<1>1. h \in Int /\ m \in Int /\ k \in Int /\ y \in Int /\ 0 <= m /\ m <= h /\ 0 <= k /\ k < h /\ 0 <= y /\ y <= m
  OBVIOUS
<1>2. CASE m = h
  <2>1. e = 0 /\ y = k
    BY <1>2 DEF Balance
  <2>2. f = 0 /\ rise = 1
    BY <1>1, <1>2, <2>1
  <2>3. h - m - (k + 1) * m + (y + 1) * h = 0
    BY <1>1, <1>2, <2>1
  <2> QED
    BY <1>1, <1>2, <2>1, <2>2, <2>3 DEF Balance
<1>3. CASE m # h
  <2>1. -m < 2 * e /\ 2 * e < 3 * h - 2 * m /\ e = h - m - k * m + y * h
    BY <1>1, <1>3 DEF Balance
  <2>2. /\ (k + 1) * m = k * m + m /\ (y + 1) * h = y * h + h /\ (m + 1) * h = m * h + h
        /\ (k + 1) * m <= h * m /\ k * m \in Int /\ y * h \in Int /\ m * h = h * m /\ m * h \in Int
    <3>1. k + 1 <= h => (k + 1) * m <= h * m
      BY <1>1
    <3> QED
      BY <1>1, <3>1
  <2>3. CASE 2 * e < h
    <3>1. f = e - m + h /\ rise = 1
      BY <2>3
    <3>2. f = h - m - (k + 1) * m + (y + 1) * h
      BY <1>1, <2>1, <2>2, <3>1
    <3>3. -m < 2 * f /\ 2 * f < 3 * h - 2 * m
      BY <1>1, <1>3, <2>1, <2>3, <3>1
    <3>4. y + 1 <= m
      <4> SUFFICES ASSUME y = m PROVE FALSE
        BY <1>1
      <4>1. f = h - m - (k + 1) * m + m * h + h
        BY <2>2, <3>2
      <4> QED
        BY <1>1, <2>2, <3>3, <4>1
    <3> QED
      BY <1>1, <1>3, <2>1, <3>1, <3>2, <3>3, <3>4 DEF Balance
  <2>4. CASE ~(2 * e < h)
    <3>1. f = e - m /\ rise = 0
      BY <1>1, <2>4
    <3>2. f = h - m - (k + 1) * m + y * h
      BY <1>1, <2>1, <2>2, <3>1
    <3>3. -m < 2 * f /\ 2 * f < 3 * h - 2 * m
      BY <1>1, <1>3, <2>1, <2>4, <3>1
    <3> QED
      BY <1>1, <1>3, <2>1, <3>1, <3>2, <3>3 DEF Balance
  <2> QED
    BY <2>3, <2>4
<1> QED
  BY <1>2, <1>3

\* After all its steps the line has risen by all it rises.
LEMMA BalanceEnds ==
    ASSUME NEW h \in Nat, NEW m \in 0 .. h, NEW y \in 0 .. m, NEW e \in Int, Balance(h, m, h, y, e)
    PROVE  y = m
<1> SUFFICES ASSUME m < h, y < m PROVE FALSE
  BY DEF Balance
<1>1. -m < 2 * e /\ e = h - m - h * m + y * h
  BY DEF Balance
<1>2. (m - 1) * h = h * m - h /\ y * h <= (m - 1) * h /\ y * h \in Int /\ h * m \in Int
  <2>1. h \in Nat /\ y \in Int /\ m - 1 \in Int /\ y <= m - 1
    OBVIOUS
  <2> QED
    BY <2>1
<1> QED
  BY <1>1, <1>2

\* The spot p after k steps of a line that is at least as wide as it is high,
\* and of one that is at least as high as it is wide.
Across(a, b, k, p) ==
    \E y \in 0 .. Height(a, b) :
        /\ p.cell = <<a[1] + Down(a, b) * y, a[2] + Right(a, b) * k>>
        /\ Balance(Width(a, b), Height(a, b), k, y, p.err)
Upright(a, b, k, p) ==
    \E x \in 0 .. Width(a, b) :
        /\ p.cell = <<a[1] + Down(a, b) * k, a[2] + Right(a, b) * x>>
        /\ Balance(Height(a, b), Width(a, b), k, x, -p.err)

\* What lies between two cells of the grid.
LEMMA SpanIs ==
    ASSUME NEW a \in Cells, NEW b \in Cells
    PROVE  /\ a = <<a[1], a[2]>> /\ b = <<b[1], b[2]>>
           /\ a[1] \in 0 .. Rows - 1 /\ b[1] \in 0 .. Rows - 1 /\ a[2] \in 0 .. Cols - 1 /\ b[2] \in 0 .. Cols - 1
           /\ Height(a, b) \in Nat /\ Width(a, b) \in Nat
           /\ Down(a, b) \in {1, -1} /\ Right(a, b) \in {1, -1}
           /\ a[1] + Down(a, b) * Height(a, b) = b[1]
           /\ a[2] + Right(a, b) * Width(a, b) = b[2]
           /\ \A y \in 0 .. Height(a, b) : a[1] + Down(a, b) * y \in 0 .. Rows - 1
           /\ \A x \in 0 .. Width(a, b) : a[2] + Right(a, b) * x \in 0 .. Cols - 1
<1>1. /\ a = <<a[1], a[2]>> /\ b = <<b[1], b[2]>>
      /\ a[1] \in 0 .. Rows - 1 /\ b[1] \in 0 .. Rows - 1 /\ a[2] \in 0 .. Cols - 1 /\ b[2] \in 0 .. Cols - 1
  BY DEF Cells
<1>2. Rows \in Int /\ Cols \in Int
  BY GridAssumption
<1>3. /\ Height(a, b) = IF b[1] >= a[1] THEN b[1] - a[1] ELSE a[1] - b[1]
      /\ Width(a, b) = IF b[2] >= a[2] THEN b[2] - a[2] ELSE a[2] - b[2]
  BY <1>1 DEF Height, Width, Abs
<1>4. /\ Height(a, b) \in Nat /\ Down(a, b) \in {1, -1} /\ a[1] + Down(a, b) * Height(a, b) = b[1]
      /\ \A y \in 0 .. Height(a, b) : a[1] + Down(a, b) * y \in 0 .. Rows - 1
  <2>1. CASE b[1] >= a[1]
    BY <1>1, <1>2, <1>3, <2>1 DEF Down
  <2>2. CASE ~(b[1] >= a[1])
    BY <1>1, <1>2, <1>3, <2>2 DEF Down
  <2> QED
    BY <2>1, <2>2
<1>5. /\ Width(a, b) \in Nat /\ Right(a, b) \in {1, -1} /\ a[2] + Right(a, b) * Width(a, b) = b[2]
      /\ \A x \in 0 .. Width(a, b) : a[2] + Right(a, b) * x \in 0 .. Cols - 1
  <2>1. CASE b[2] >= a[2]
    BY <1>1, <1>2, <1>3, <2>1 DEF Right
  <2>2. CASE ~(b[2] >= a[2])
    BY <1>1, <1>2, <1>3, <2>2 DEF Right
  <2> QED
    BY <2>1, <2>2
<1> QED
  BY <1>1, <1>4, <1>5

\* A step along a wide line goes to a neighbour, and stays on the line.
LEMMA StepAcross ==
    ASSUME NEW a \in Cells, NEW b \in Cells, Height(a, b) <= Width(a, b),
           NEW k \in 0 .. Width(a, b) - 1, NEW p \in Spots, Across(a, b, k, p)
    PROVE  /\ Across(a, b, k + 1, Stepped(a, b, p))
           /\ Stepped(a, b, p).cell \in Near(p.cell)
<1> DEFINE h == Width(a, b)  m == Height(a, b)  d == Down(a, b)  r == Right(a, b)  e == p.err
           q == Stepped(a, b, p)
<1>1. PICK y \in 0 .. m : p.cell = <<a[1] + d * y, a[2] + r * k>> /\ Balance(h, m, k, y, e)
  BY DEF Across
<1> DEFINE rise == IF 2 * e < h THEN 1 ELSE 0
<1>2. h \in Nat /\ m \in 0 .. h /\ k \in 0 .. h - 1 /\ y \in 0 .. m /\ e \in Int
  BY SpanIs DEF Spots
<1>3. /\ 2 * e > -m /\ y + rise \in 0 .. m
      /\ Balance(h, m, k + 1, y + rise, e - m + (IF 2 * e < h THEN h ELSE 0))
  <2> HIDE DEF h, m, e
  <2> QED
    BY <1>1, <1>2, BalanceKept
<1>4. d \in {1, -1} /\ r \in {1, -1} /\ a[1] \in Int /\ a[2] \in Int
  BY SpanIs
<1>5. q = [cell |-> <<a[1] + d * y + (IF 2 * e < h THEN d ELSE 0), a[2] + r * k + r>>,
           err |-> e - m + (IF 2 * e < h THEN h ELSE 0)]
  BY <1>1, <1>3 DEF Stepped
<1> HIDE DEF h, m, d, r, e, q
<1>6. a[1] + d * y + (IF 2 * e < h THEN d ELSE 0) = a[1] + d * (y + rise) /\ a[2] + r * k + r = a[2] + r * (k + 1)
  <2>1. d * (y + 1) = d * y + d /\ r * (k + 1) = r * k + r /\ d * y \in Int /\ r * k \in Int
    BY <1>2, <1>4
  <2>2. CASE 2 * e < h
    BY <1>2, <1>4, <2>1, <2>2
  <2>3. CASE ~(2 * e < h)
    BY <1>2, <1>4, <2>1, <2>3
  <2> QED
    BY <2>2, <2>3
<1>7. q.cell = <<a[1] + d * (y + rise), a[2] + r * (k + 1)>> /\ q.err = e - m + (IF 2 * e < h THEN h ELSE 0)
  BY <1>5, <1>6
<1>8. Across(a, b, k + 1, q)
  BY <1>3, <1>7 DEF Across, h, m, d, r
<1>9. q.cell \in Near(p.cell)
  <2>1. q.cell \in Cells
    <3>1. k + 1 \in 0 .. h
      BY <1>2
    <3>2. a[1] + d * (y + rise) \in 0 .. Rows - 1 /\ a[2] + r * (k + 1) \in 0 .. Cols - 1
      BY <1>3, <3>1, SpanIs DEF h, m, d, r
    <3> QED
      BY <1>7, <3>2 DEF Cells
  <2>2. q.cell[1] - p.cell[1] = (IF 2 * e < h THEN d ELSE 0) /\ q.cell[2] - p.cell[2] = r
    <3>1. d * y \in Int /\ r * k \in Int
      BY <1>2, <1>4
    <3> QED
      BY <1>1, <1>4, <1>5, <3>1
  <2>3. p.cell[2] # q.cell[2]
    <3>1. p.cell[2] = a[2] + r * k /\ q.cell[2] = a[2] + r * k + r /\ r * k \in Int
      BY <1>1, <1>2, <1>4, <1>5
    <3> QED
      BY <3>1, <1>4
  <2> QED
    BY <1>4, <2>1, <2>2, <2>3 DEF Near, Abs
<1> QED
  BY <1>8, <1>9 DEF q

\* The same of a high line.
LEMMA StepUpright ==
    ASSUME NEW a \in Cells, NEW b \in Cells, Width(a, b) <= Height(a, b),
           NEW k \in 0 .. Height(a, b) - 1, NEW p \in Spots, Upright(a, b, k, p)
    PROVE  /\ Upright(a, b, k + 1, Stepped(a, b, p))
           /\ Stepped(a, b, p).cell \in Near(p.cell)
<1> DEFINE h == Height(a, b)  m == Width(a, b)  d == Down(a, b)  r == Right(a, b)  e == -p.err
           q == Stepped(a, b, p)
<1>1. PICK x \in 0 .. m : p.cell = <<a[1] + d * k, a[2] + r * x>> /\ Balance(h, m, k, x, e)
  BY DEF Upright
<1> DEFINE rise == IF 2 * e < h THEN 1 ELSE 0
<1>2. h \in Nat /\ m \in 0 .. h /\ k \in 0 .. h - 1 /\ x \in 0 .. m /\ e \in Int /\ p.err \in Int
  BY SpanIs DEF Spots
<1>3. /\ 2 * e > -m /\ x + rise \in 0 .. m
      /\ Balance(h, m, k + 1, x + rise, e - m + (IF 2 * e < h THEN h ELSE 0))
  <2> HIDE DEF h, m, e
  <2> QED
    BY <1>1, <1>2, BalanceKept
<1>4. d \in {1, -1} /\ r \in {1, -1} /\ a[1] \in Int /\ a[2] \in Int
  BY SpanIs
<1>5. /\ q.cell = <<a[1] + d * k + d, a[2] + r * x + (IF 2 * e < h THEN r ELSE 0)>>
      /\ -q.err = e - m + (IF 2 * e < h THEN h ELSE 0)
  <2>1. (2 * p.err < m) /\ ((2 * p.err > -h) <=> (2 * e < h))
    BY <1>2, <1>3
  <2>2. q = [cell |-> <<p.cell[1] + d, p.cell[2] + (IF 2 * e < h THEN r ELSE 0)>>,
             err |-> p.err - (IF 2 * e < h THEN h ELSE 0) + m]
    BY <2>1 DEF Stepped
  <2>3. q.cell = <<p.cell[1] + d, p.cell[2] + (IF 2 * e < h THEN r ELSE 0)>>
        /\ q.err = p.err - (IF 2 * e < h THEN h ELSE 0) + m
    BY <2>2
  <2> HIDE DEF h, m, d, r, q
  <2> QED
    BY <1>1, <1>2, <2>3
<1> HIDE DEF h, m, d, r, e, q
<1>6. a[2] + r * x + (IF 2 * e < h THEN r ELSE 0) = a[2] + r * (x + rise) /\ a[1] + d * k + d = a[1] + d * (k + 1)
  <2>1. r * (x + 1) = r * x + r /\ d * (k + 1) = d * k + d /\ r * x \in Int /\ d * k \in Int
    BY <1>2, <1>4
  <2>2. CASE 2 * e < h
    BY <1>2, <1>4, <2>1, <2>2
  <2>3. CASE ~(2 * e < h)
    BY <1>2, <1>4, <2>1, <2>3
  <2> QED
    BY <2>2, <2>3
<1>7. q.cell = <<a[1] + d * (k + 1), a[2] + r * (x + rise)>> /\ -q.err = e - m + (IF 2 * e < h THEN h ELSE 0)
  BY <1>5, <1>6
<1>8. Upright(a, b, k + 1, q)
  BY <1>3, <1>7 DEF Upright, h, m, d, r
<1>9. q.cell \in Near(p.cell)
  <2>1. q.cell \in Cells
    <3>1. k + 1 \in 0 .. h
      BY <1>2
    <3>2. a[1] + d * (k + 1) \in 0 .. Rows - 1 /\ a[2] + r * (x + rise) \in 0 .. Cols - 1
      BY <1>3, <3>1, SpanIs DEF h, m, d, r
    <3> QED
      BY <1>7, <3>2 DEF Cells
  <2>2. q.cell[2] - p.cell[2] = (IF 2 * e < h THEN r ELSE 0) /\ q.cell[1] - p.cell[1] = d
    <3>1. d * k \in Int /\ r * x \in Int
      BY <1>2, <1>4
    <3> QED
      BY <1>1, <1>4, <1>5, <3>1
  <2>3. p.cell[1] # q.cell[1]
    <3>1. p.cell[1] = a[1] + d * k /\ q.cell[1] = a[1] + d * k + d /\ d * k \in Int
      BY <1>1, <1>2, <1>4, <1>5
    <3> QED
      BY <3>1, <1>4
  <2> QED
    BY <1>4, <2>1, <2>2, <2>3 DEF Near, Abs
<1> QED
  BY <1>8, <1>9 DEF q

\* Every spot of a trace lies on its line.
LEMMA TraceAcross ==
    ASSUME NEW a \in Cells, NEW b \in Cells, Height(a, b) <= Width(a, b)
    PROVE  \A k \in 0 .. Width(a, b) : Trace(a, b)[k] \in Spots /\ Across(a, b, k, Trace(a, b)[k])
<1> DEFINE h == Width(a, b)
           Good == {k \in 0 .. h : Trace(a, b)[k] \in Spots /\ Across(a, b, k, Trace(a, b)[k])}
<1>1. h \in Nat /\ Height(a, b) \in 0 .. h /\ Larger(Width(a, b), Height(a, b)) = h
  BY SpanIs DEF Larger
<1>2. /\ Trace(a, b)[0] = [cell |-> a, err |-> h - Height(a, b)]
      /\ \A k \in 1 .. h : Trace(a, b)[k] = Stepped(a, b, Trace(a, b)[k - 1])
  BY <1>1, TraceSteps
<1>3. 0 \in Good
  <2>1. Balance(h, Height(a, b), 0, 0, h - Height(a, b))
    BY <1>1, BalanceBegins
  <2>2. a = <<a[1] + Down(a, b) * 0, a[2] + Right(a, b) * 0>> /\ a \in Int \X Int /\ h - Height(a, b) \in Int
    <3>1. a[1] \in Int /\ a[2] \in Int /\ a = <<a[1], a[2]>> /\ Down(a, b) \in Int /\ Right(a, b) \in Int
      BY SpanIs
    <3>2. a[1] + Down(a, b) * 0 = a[1] /\ a[2] + Right(a, b) * 0 = a[2]
      BY <3>1
    <3>3. a \in Int \X Int
      BY <3>1
    <3> QED
      BY <1>1, <3>1, <3>2, <3>3, SpanIs
  <2>3. Trace(a, b)[0] \in Spots
    BY <1>2, <2>2 DEF Spots
  <2>4. Trace(a, b)[0].cell = a /\ Trace(a, b)[0].err = h - Height(a, b)
    BY <1>2
  <2>5. 0 \in 0 .. Height(a, b)
    BY <1>1
  <2>6. Across(a, b, 0, Trace(a, b)[0])
    BY <2>1, <2>2, <2>4, <2>5 DEF Across
  <2> QED
    BY <1>1, <2>3, <2>6
<1>4. ASSUME NEW k \in 0 + 1 .. h, k - 1 \in Good PROVE k \in Good
  <2>1. k - 1 \in 0 .. h - 1 /\ (k - 1) + 1 = k /\ k \in 1 .. h
    BY <1>1
  <2>2. Trace(a, b)[k] = Stepped(a, b, Trace(a, b)[k - 1])
    BY <1>2, <2>1
  <2>3. Trace(a, b)[k - 1] \in Spots /\ Across(a, b, k - 1, Trace(a, b)[k - 1])
    BY <1>4
  <2>4. Across(a, b, k, Trace(a, b)[k])
    BY <2>1, <2>2, <2>3, <1>1, StepAcross
  <2>5. Trace(a, b)[k] \in Spots
    BY <2>2, <2>3, SpotsStay
  <2> QED
    BY <2>1, <2>4, <2>5, <1>1
<1> HIDE DEF Good
<1>5. \A k \in 0 .. h : k \in Good
  BY <1>1, <1>3, <1>4, IntervalInduction
<1> QED
  BY <1>5 DEF Good

\* The same of a high line.
LEMMA TraceUpright ==
    ASSUME NEW a \in Cells, NEW b \in Cells, Width(a, b) <= Height(a, b)
    PROVE  \A k \in 0 .. Height(a, b) : Trace(a, b)[k] \in Spots /\ Upright(a, b, k, Trace(a, b)[k])
<1> DEFINE h == Height(a, b)
           Good == {k \in 0 .. h : Trace(a, b)[k] \in Spots /\ Upright(a, b, k, Trace(a, b)[k])}
<1>1. h \in Nat /\ Width(a, b) \in 0 .. h /\ Larger(Width(a, b), Height(a, b)) = h
  BY SpanIs DEF Larger
<1>2. /\ Trace(a, b)[0] = [cell |-> a, err |-> Width(a, b) - h]
      /\ \A k \in 1 .. h : Trace(a, b)[k] = Stepped(a, b, Trace(a, b)[k - 1])
  BY <1>1, TraceSteps
<1>3. 0 \in Good
  <2>1. Balance(h, Width(a, b), 0, 0, h - Width(a, b))
    BY <1>1, BalanceBegins
  <2>2. a = <<a[1] + Down(a, b) * 0, a[2] + Right(a, b) * 0>> /\ a \in Int \X Int /\ Width(a, b) - h \in Int
    <3>1. a[1] \in Int /\ a[2] \in Int /\ a = <<a[1], a[2]>> /\ Down(a, b) \in Int /\ Right(a, b) \in Int
      BY SpanIs
    <3>2. a[1] + Down(a, b) * 0 = a[1] /\ a[2] + Right(a, b) * 0 = a[2]
      BY <3>1
    <3>3. a \in Int \X Int
      BY <3>1
    <3> QED
      BY <1>1, <3>1, <3>2, <3>3, SpanIs
  <2>3. Trace(a, b)[0] \in Spots
    BY <1>2, <2>2 DEF Spots
  <2>4. Trace(a, b)[0].cell = a /\ -Trace(a, b)[0].err = h - Width(a, b)
    BY <1>1, <1>2
  <2>5. 0 \in 0 .. Width(a, b)
    BY <1>1
  <2>6. Upright(a, b, 0, Trace(a, b)[0])
    BY <2>1, <2>2, <2>4, <2>5 DEF Upright
  <2> QED
    BY <1>1, <2>3, <2>6
<1>4. ASSUME NEW k \in 0 + 1 .. h, k - 1 \in Good PROVE k \in Good
  <2>1. k - 1 \in 0 .. h - 1 /\ (k - 1) + 1 = k /\ k \in 1 .. h
    BY <1>1
  <2>2. Trace(a, b)[k] = Stepped(a, b, Trace(a, b)[k - 1])
    BY <1>2, <2>1
  <2>3. Trace(a, b)[k - 1] \in Spots /\ Upright(a, b, k - 1, Trace(a, b)[k - 1])
    BY <1>4
  <2>4. Upright(a, b, k, Trace(a, b)[k])
    BY <2>1, <2>2, <2>3, <1>1, StepUpright
  <2>5. Trace(a, b)[k] \in Spots
    BY <2>2, <2>3, SpotsStay
  <2> QED
    BY <2>1, <2>4, <2>5, <1>1
<1> HIDE DEF Good
<1>5. \A k \in 0 .. h : k \in Good
  BY <1>1, <1>3, <1>4, IntervalInduction
<1> QED
  BY <1>5 DEF Good

\* A line runs through the grid from its first cell to its last, from neighbour
\* to neighbour.  (bresenham_cells)
LEMMA LineRuns ==
    ASSUME NEW a \in Cells, NEW b \in Cells
    PROVE  LET line == Line[<<a, b>>]  n == Larger(Width(a, b), Height(a, b)) IN
           /\ n \in Nat
           /\ line \in Seq(Cells) /\ Len(line) = n + 1
           /\ \A k \in 1 .. n + 1 : line[k] = Trace(a, b)[k - 1].cell
           /\ line[1] = a /\ line[n + 1] = b
           /\ \A k \in 1 .. n : line[k + 1] \in Near(line[k])
<1> DEFINE line == Line[<<a, b>>]
           n == Larger(Width(a, b), Height(a, b))
           cell(k) == Trace(a, b)[k].cell
<1>1. Height(a, b) \in Nat /\ Width(a, b) \in Nat /\ n \in Nat
  BY SpanIs DEF Larger
<1>2. line = [k \in 1 .. n + 1 |-> cell(k - 1)]
  <2>1. <<a, b>> \in Cells \X Cells
    OBVIOUS
  <2>2. line = Bresenham(a, b)
    BY <2>1 DEF Line
  <2> QED
    BY <2>2 DEF Bresenham, Height, Width
<1>3. /\ cell(0) = a /\ cell(n) = b
      /\ \A k \in 0 .. n : cell(k) \in Cells
      /\ \A k \in 0 .. n - 1 : cell(k + 1) \in Near(cell(k))
  <2>0. \A k \in 0 .. n - 1 : Trace(a, b)[k + 1] = Stepped(a, b, Trace(a, b)[k])
    <3> TAKE k \in 0 .. n - 1
    <3>1. k + 1 \in 1 .. n /\ (k + 1) - 1 = k
      BY <1>1
    <3> QED
      BY <3>1, TraceSteps
  <2>00. cell(0) = a
    <3>1. Trace(a, b)[0] = [cell |-> a, err |-> Width(a, b) - Height(a, b)]
      BY TraceSteps
    <3> QED
      BY <3>1
  <2>1. CASE Height(a, b) <= Width(a, b)
    <3>1. n = Width(a, b)
      BY <1>1, <2>1 DEF Larger
    <3>2. ASSUME NEW k \in 0 .. n PROVE cell(k) \in Cells
      <4>1. PICK y \in 0 .. Height(a, b) : cell(k) = <<a[1] + Down(a, b) * y, a[2] + Right(a, b) * k>>
        BY <2>1, <3>1, TraceAcross DEF Across
      <4> QED
        BY <3>1, <4>1, SpanIs DEF Cells
    <3>3. cell(n) = b
      <4>1. Trace(a, b)[n] \in Spots /\ Across(a, b, n, Trace(a, b)[n])
        BY <1>1, <2>1, <3>1, TraceAcross
      <4>2. PICK y \in 0 .. Height(a, b) :
                 /\ cell(n) = <<a[1] + Down(a, b) * y, a[2] + Right(a, b) * n>>
                 /\ Balance(n, Height(a, b), n, y, Trace(a, b)[n].err)
        BY <3>1, <4>1 DEF Across
      <4>3. y = Height(a, b)
        <5>1. n \in Nat /\ Height(a, b) \in 0 .. n /\ Trace(a, b)[n].err \in Int
          BY <1>1, <2>1, <3>1, <4>1 DEF Spots
        <5> HIDE DEF n
        <5> QED
          BY <4>2, <5>1, BalanceEnds
      <4> QED
        BY <3>1, <4>2, <4>3, SpanIs
    <3>4. ASSUME NEW k \in 0 .. n - 1 PROVE cell(k + 1) \in Near(cell(k))
      <4>1. k \in 0 .. Width(a, b) /\ k \in 0 .. Width(a, b) - 1
        BY <1>1, <3>1
      <4>2. Trace(a, b)[k] \in Spots /\ Across(a, b, k, Trace(a, b)[k])
        BY <2>1, <4>1, TraceAcross
      <4> QED
        BY <2>0, <2>1, <4>1, <4>2, StepAcross
    <3> QED
      BY <2>00, <3>2, <3>3, <3>4
  <2>2. CASE ~(Height(a, b) <= Width(a, b))
    <3>1. n = Height(a, b) /\ Width(a, b) <= Height(a, b)
      BY <1>1, <2>2 DEF Larger
    <3>2. ASSUME NEW k \in 0 .. n PROVE cell(k) \in Cells
      <4>1. PICK x \in 0 .. Width(a, b) : cell(k) = <<a[1] + Down(a, b) * k, a[2] + Right(a, b) * x>>
        BY <3>1, TraceUpright DEF Upright
      <4> QED
        BY <3>1, <4>1, SpanIs DEF Cells
    <3>3. cell(n) = b
      <4>1. Trace(a, b)[n] \in Spots /\ Upright(a, b, n, Trace(a, b)[n])
        BY <1>1, <3>1, TraceUpright
      <4>2. PICK x \in 0 .. Width(a, b) :
                 /\ cell(n) = <<a[1] + Down(a, b) * n, a[2] + Right(a, b) * x>>
                 /\ Balance(n, Width(a, b), n, x, -Trace(a, b)[n].err)
        BY <3>1, <4>1 DEF Upright
      <4>3. x = Width(a, b)
        <5>1. n \in Nat /\ Width(a, b) \in 0 .. n /\ -Trace(a, b)[n].err \in Int
          BY <1>1, <3>1, <4>1 DEF Spots
        <5> HIDE DEF n
        <5> QED
          BY <4>2, <5>1, BalanceEnds
      <4> QED
        BY <3>1, <4>2, <4>3, SpanIs
    <3>4. ASSUME NEW k \in 0 .. n - 1 PROVE cell(k + 1) \in Near(cell(k))
      <4>1. k \in 0 .. Height(a, b) /\ k \in 0 .. Height(a, b) - 1
        BY <1>1, <3>1
      <4>2. Trace(a, b)[k] \in Spots /\ Upright(a, b, k, Trace(a, b)[k])
        BY <3>1, <4>1, TraceUpright
      <4> QED
        BY <2>0, <3>1, <4>1, <4>2, StepUpright
    <3> QED
      BY <2>00, <3>2, <3>3, <3>4
  <2> QED
    BY <2>1, <2>2
<1> HIDE DEF n, cell, line
<1>4. line \in Seq(Cells) /\ Len(line) = n + 1
  <2>1. \A k \in 1 .. n + 1 : k - 1 \in 0 .. n
    BY <1>1
  <2>2. line \in [1 .. n + 1 -> Cells]
    BY <1>2, <1>3, <2>1
  <2> QED
    BY <1>1, <2>2
<1>5. \A k \in 1 .. n + 1 : line[k] = cell(k - 1)
  BY <1>2
<1>6. line[1] = a /\ line[n + 1] = b
  <2>1. 1 \in 1 .. n + 1 /\ n + 1 \in 1 .. n + 1 /\ 1 - 1 = 0 /\ (n + 1) - 1 = n
    BY <1>1
  <2>2. line[1] = cell(1 - 1) /\ line[n + 1] = cell((n + 1) - 1)
    BY <1>5, <2>1
  <2> QED
    BY <1>3, <2>1, <2>2
<1>7. ASSUME NEW k \in 1 .. n PROVE line[k + 1] \in Near(line[k])
  <2>1. k \in 1 .. n + 1 /\ k + 1 \in 1 .. n + 1 /\ k - 1 \in 0 .. n - 1 /\ (k + 1) - 1 = (k - 1) + 1
    BY <1>1
  <2> QED
    BY <1>3, <1>5, <2>1
<1> QED
  BY <1>1, <1>4, <1>5, <1>6, <1>7 DEF n, cell, line

\* The eight directions, and the k-th cell from a in one of them.
Compass == ((-1 .. 1) \X (-1 .. 1)) \ {<<0, 0>>}
Onward(a, u, k) == <<a[1] + k * u[1], a[2] + k * u[2]>>

\* The line to a neighbour is the two cells, the line to a cell itself the cell.
LEMMA ShortLine ==
    ASSUME NEW a \in Cells, NEW b \in Cells, b = a \/ b \in Near(a)
    PROVE  \A k \in DOMAIN Line[<<a, b>>] : Line[<<a, b>>][k] \in {a, b}
<1> DEFINE n == Larger(Width(a, b), Height(a, b))
           line == Line[<<a, b>>]
<1>1. n \in 0 .. 1
  BY SpanIs DEF Near, Height, Width, Abs, Larger
<1>2. line \in Seq(Cells) /\ Len(line) = n + 1 /\ line[1] = a /\ line[n + 1] = b
  BY LineRuns
<1> HIDE DEF n, line
<1>3. DOMAIN line = 1 .. n + 1
  BY <1>2
<1>4. \A k \in 1 .. n + 1 : k = 1 \/ k = n + 1
  BY <1>1
<1> QED
  BY <1>2, <1>3, <1>4 DEF line

\* A line in one of the eight directions goes on in that direction.
LEMMA StraightLine ==
    ASSUME NEW a \in Cells, NEW u \in Compass, NEW m \in Nat \ {0}, Onward(a, u, m) \in Cells
    PROVE  /\ Len(Line[<<a, Onward(a, u, m)>>]) = m + 1
           /\ \A k \in 1 .. m + 1 : Line[<<a, Onward(a, u, m)>>][k] = Onward(a, u, k - 1)
<1> DEFINE b == Onward(a, u, m)
<1>1. a[1] \in Int /\ a[2] \in Int /\ u[1] \in {-1, 0, 1} /\ u[2] \in {-1, 0, 1} /\ ~(u[1] = 0 /\ u[2] = 0)
  BY SpanIs DEF Compass
<1>2. b[1] = a[1] + m * u[1] /\ b[2] = a[2] + m * u[2]
  BY DEF Onward
<1>3. /\ Height(a, b) = IF u[1] = 0 THEN 0 ELSE m
      /\ Width(a, b) = IF u[2] = 0 THEN 0 ELSE m
  <2> HIDE DEF b
  <2>1. Height(a, b) = IF u[1] = 0 THEN 0 ELSE m
    <3>1. CASE u[1] = 0
      BY <1>1, <1>2, <3>1 DEF Height, Abs
    <3>2. CASE u[1] = 1
      BY <1>1, <1>2, <3>2 DEF Height, Abs
    <3>3. CASE u[1] = -1
      BY <1>1, <1>2, <3>3 DEF Height, Abs
    <3> QED
      BY <1>1, <3>1, <3>2, <3>3
  <2>2. Width(a, b) = IF u[2] = 0 THEN 0 ELSE m
    <3>1. CASE u[2] = 0
      BY <1>1, <1>2, <3>1 DEF Width, Abs
    <3>2. CASE u[2] = 1
      BY <1>1, <1>2, <3>2 DEF Width, Abs
    <3>3. CASE u[2] = -1
      BY <1>1, <1>2, <3>3 DEF Width, Abs
    <3> QED
      BY <1>1, <3>1, <3>2, <3>3
  <2> QED
    BY <2>1, <2>2
<1>4. (u[1] # 0 => Down(a, b) = u[1]) /\ (u[2] # 0 => Right(a, b) = u[2])
  <2> HIDE DEF b
  <2>1. u[1] # 0 => Down(a, b) = u[1]
    <3>2. CASE u[1] = 1
      BY <1>1, <1>2, <3>2 DEF Down
    <3>3. CASE u[1] = -1
      BY <1>1, <1>2, <3>3 DEF Down
    <3> QED
      BY <1>1, <3>2, <3>3
  <2>2. u[2] # 0 => Right(a, b) = u[2]
    <3>2. CASE u[2] = 1
      BY <1>1, <1>2, <3>2 DEF Right
    <3>3. CASE u[2] = -1
      BY <1>1, <1>2, <3>3 DEF Right
    <3> QED
      BY <1>1, <3>2, <3>3
  <2> QED
    BY <2>1, <2>2
<1> HIDE DEF b
<1>0. b \in Cells
  BY DEF b
<1>5. Larger(Width(a, b), Height(a, b)) = m
  BY <1>1, <1>3 DEF Larger
<1>6. ASSUME NEW k \in 0 .. m PROVE Trace(a, b)[k].cell = Onward(a, u, k)
  <2>1. CASE u[2] # 0
    <3>1. Width(a, b) = m /\ Height(a, b) <= m /\ Height(a, b) \in {0, m}
      BY <1>3, <2>1
    <3>2. PICK y \in 0 .. Height(a, b) :
              /\ Trace(a, b)[k].cell = <<a[1] + Down(a, b) * y, a[2] + Right(a, b) * k>>
              /\ Balance(m, Height(a, b), k, y, Trace(a, b)[k].err)
      BY <1>0, <3>1, TraceAcross DEF Across
    <3>3. Right(a, b) * k = k * u[2]
      BY <1>1, <1>4, <2>1
    <3>4. Down(a, b) * y = k * u[1]
      <4>1. CASE u[1] = 0
        <5>1. y = 0 /\ Down(a, b) \in Int
          BY <1>0, <1>3, <4>1, SpanIs
        <5> QED
          BY <4>1, <5>1
      <4>2. CASE u[1] # 0
        <5>1. y = k /\ Down(a, b) = u[1]
          BY <1>3, <1>4, <3>2, <4>2 DEF Balance
        <5> QED
          BY <1>1, <5>1
      <4> QED
        BY <4>1, <4>2
    <3> QED
      BY <3>2, <3>3, <3>4 DEF Onward
  <2>2. CASE u[2] = 0
    <3>1. Width(a, b) = 0 /\ Height(a, b) = m /\ Width(a, b) <= Height(a, b) /\ u[1] # 0
      BY <1>1, <1>3, <2>2
    <3>2. PICK x \in 0 .. 0 : Trace(a, b)[k].cell = <<a[1] + Down(a, b) * k, a[2] + Right(a, b) * x>>
      BY <1>0, <3>1, TraceUpright DEF Upright
    <3>3. Right(a, b) * x = k * u[2] /\ Down(a, b) * k = k * u[1]
      <4>1. Right(a, b) \in Int /\ x = 0
        BY <1>0, SpanIs
      <4> QED
        BY <1>1, <1>4, <2>2, <3>1, <4>1
    <3> QED
      BY <3>2, <3>3 DEF Onward
  <2> QED
    BY <2>1, <2>2
<1>7. /\ Len(Line[<<a, b>>]) = m + 1
      /\ \A k \in 1 .. m + 1 : Line[<<a, b>>][k] = Trace(a, b)[k - 1].cell
  BY <1>0, <1>5, LineRuns
<1>8. \A k \in 1 .. m + 1 : k - 1 \in 0 .. m
  OBVIOUS
<1> QED
  BY <1>6, <1>7, <1>8 DEF b

-----------------------------------------------------------------------------
(* The costs a plan is made on *)

\* The costs on the obstacles occ of a request.
Layers(occ, j) == Overlay(BuildCostmap(occ, j.unknown \ occ, j.reach), j.view)

\* What is open on a costmap with live costs on top: what is neither occupied
\* nor unknown, nor as close to an obstacle as the robot's radius, nor raised.
LEMMA OpenOnLayers ==
    ASSUME NEW occ, NEW j, NEW c \in Cells
    PROVE  /\ Layers(occ, j)[c] \in Nat
           /\ Layers(occ, j)[c] < HardBuffer <=>
                /\ c \notin occ /\ c \notin j.unknown /\ c \notin j.view
                /\ occ = {} \/ ~(CellDistance(occ, c) <= j.reach.hard)
<1> DEFINE unknown == j.unknown
           view == j.view
           inflated == BuildCostmap(occ, unknown \ occ, j.reach)
           near == CellDistance(occ, c) <= j.reach.hard
           wide == CellDistance(occ, c) <= j.reach.soft
           far == CellDistance(occ, c) <= j.reach.prefer
<1>1. inflated[c] = IF c \in occ THEN 254 ELSE IF c \in unknown \ occ THEN 255 ELSE IF occ = {} THEN 0
                ELSE IF near THEN 253 ELSE IF wide THEN 150 ELSE IF far THEN 40 ELSE 0
  BY DEF BuildCostmap, Lethal, Unknown, Inscribed, SoftCost, PreferCost
<1>2. Overlay(inflated, view)[c] = IF c \in view THEN Larger(inflated[c], 253) ELSE inflated[c]
  BY DEF Overlay, Inscribed
<1> HIDE DEF inflated, near, wide, far
<1>3. inflated[c] \in Nat /\ (inflated[c] < 252 <=> c \notin occ /\ c \notin unknown /\ (occ = {} \/ ~near))
  BY <1>1
<1>4. /\ Overlay(inflated, view)[c] \in Nat
      /\ Overlay(inflated, view)[c] < 252 <=> c \notin view /\ inflated[c] < 252
  BY <1>2, <1>3 DEF Larger
<1> QED
  BY <1>3, <1>4 DEF inflated, near, HardBuffer, Layers

\* The costs of a plan are natural numbers, for every cell.
LEMMA CostsAreNatural ==
    ASSUME NEW j \in Jobs, NEW l
    PROVE  /\ DOMAIN PlanCosts(j, l) = Cells
           /\ \A c \in Cells : PlanCosts(j, l)[c] \in Nat
<1>1. DOMAIN PlanCosts(j, l) = Cells
  BY DEF PlanCosts, Overlay
<1>2. ASSUME NEW c \in Cells PROVE PlanCosts(j, l)[c] \in Nat
  <2> DEFINE unpainted == MarkLocal(MarkScan(j.occ, j.hits), j.hits)
             sealed == MarkPathAhead(MarkPathBlock(unpainted, j.blocked, j.view), j.blocked)
             occ == IF l = "main" THEN sealed ELSE unpainted
  <2>1. PlanCosts(j, l) = Layers(occ, j)
    BY DEF PlanCosts, Layers
  <2> HIDE DEF occ
  <2> QED
    BY <2>1, OpenOnLayers
<1> QED
  BY <1>1, <1>2

\* More obstacles are not farther away.
LEMMA CloserToMore ==
    ASSUME NEW few, NEW many, few # {}, few \subseteq many, many \subseteq Cells, NEW c \in Cells
    PROVE  /\ CellDistance(few, c) \in Nat /\ CellDistance(many, c) \in Nat
           /\ CellDistance(many, c) <= CellDistance(few, c)
<1>1. ASSUME NEW o \in Cells PROVE D2(c, o) \in Nat
  <2>1. \A x \in Int : x * x \in Nat
    OBVIOUS
  <2>2. c[1] - o[1] \in Int /\ c[2] - o[2] \in Int
    BY SpanIs
  <2>3. (c[1] - o[1]) * (c[1] - o[1]) \in Nat /\ (c[2] - o[2]) * (c[2] - o[2]) \in Nat
    BY <2>1, <2>2
  <2> QED
    BY <2>3 DEF D2
<1>2. ASSUME NEW S, S # {}, S \subseteq Cells
      PROVE  CellDistance(S, c) \in {D2(c, o) : o \in S} /\ \A o \in S : CellDistance(S, c) <= D2(c, o)
  <2> DEFINE ds == {D2(c, o) : o \in S}
  <2>1. ds \subseteq Nat /\ ds # {}
    BY <1>1, <1>2
  <2>2. PICK m \in ds : \A n \in ds : m <= n
    BY <2>1, LeastOf
  <2>3. SetMin(ds) \in ds /\ \A n \in ds : SetMin(ds) <= n
    BY <2>2 DEF SetMin
  <2> QED
    BY <2>3 DEF CellDistance
<1>3. CellDistance(few, c) \in {D2(c, o) : o \in few} /\ CellDistance(many, c) \in {D2(c, o) : o \in many}
  BY <1>2
<1>4. PICK o \in few : CellDistance(few, c) = D2(c, o)
  BY <1>3
<1> QED
  BY <1>1, <1>2, <1>3, <1>4

\* Without the paint of the blocked corridor at least as much is open.
LEMMA BridgeIsAsOpen ==
    ASSUME NEW j \in Jobs
    PROVE  Open(PlanCosts(j, "main")) \subseteq Open(PlanCosts(j, "bridge"))
<1> DEFINE unpainted == MarkLocal(MarkScan(j.occ, j.hits), j.hits)
           sealed == MarkPathAhead(MarkPathBlock(unpainted, j.blocked, j.view), j.blocked)
<1>1. j.occ \subseteq Cells /\ j.reach.hard \in Nat
  BY JobsAssumption
<1>2. unpainted \subseteq sealed /\ sealed \subseteq Cells
  BY <1>1 DEF MarkLocal, MarkScan, MarkPathAhead, MarkPathBlock, Marked
<1>3. PlanCosts(j, "main") = Layers(sealed, j) /\ PlanCosts(j, "bridge") = Layers(unpainted, j)
  BY DEF PlanCosts, Layers
<1> HIDE DEF unpainted, sealed
<1>4. ASSUME NEW c \in Cells, PlanCosts(j, "main")[c] < HardBuffer
      PROVE  PlanCosts(j, "bridge")[c] < HardBuffer
  <2>1. /\ c \notin sealed /\ c \notin j.unknown /\ c \notin j.view
        /\ sealed = {} \/ ~(CellDistance(sealed, c) <= j.reach.hard)
    BY <1>3, <1>4, OpenOnLayers
  <2>2. unpainted = {} \/ ~(CellDistance(unpainted, c) <= j.reach.hard)
    <3> SUFFICES ASSUME unpainted # {} PROVE ~(CellDistance(unpainted, c) <= j.reach.hard)
      OBVIOUS
    <3>1. ~(CellDistance(sealed, c) <= j.reach.hard)
      BY <1>2, <2>1
    <3>2. /\ CellDistance(unpainted, c) \in Nat /\ CellDistance(sealed, c) \in Nat
          /\ CellDistance(sealed, c) <= CellDistance(unpainted, c)
      BY <1>2, CloserToMore
    <3> QED
      BY <1>1, <3>1, <3>2
  <2> QED
    BY <1>2, <1>3, <2>1, <2>2, OpenOnLayers
<1> QED
  BY <1>4 DEF Open, IsTraversable

\* A line of sight runs through open cells.
LEMMA SightIsOpen ==
    ASSUME NEW cs, \A c \in Cells : cs[c] \in Nat, NEW a \in Cells, NEW b \in Cells, LineOfSight(cs, a, b)
    PROVE  \A k \in DOMAIN Line[<<a, b>>] : Line[<<a, b>>][k] \in Open(cs)
<1> SUFFICES ASSUME NEW k \in DOMAIN Line[<<a, b>>] PROVE Line[<<a, b>>][k] \in Open(cs)
  OBVIOUS
<1>1. Line[<<a, b>>][k] \in Cells
  BY LineRuns
<1>2. cs[Line[<<a, b>>][k]] <= 30
  BY DEF LineOfSight, LosMaxSoftCost
<1> QED
  BY <1>1, <1>2 DEF Open, IsTraversable, HardBuffer

\* A step to a neighbour costs something.
LEMMA StepsCost ==
    ASSUME NEW cs, \A c \in Cells : cs[c] \in Nat, NEW a \in Cells, NEW b \in Near(a)
    PROVE  CellStepCost(cs, a, b) \in Nat \ {0}
<1>1. a # b /\ b \in Cells
  BY DEF Near
<1>2. StepLength(a, b) \in {100, 142}
  BY <1>1 DEF StepLength
<1>3. Multiplier(cs[b]) \in Nat \ {0}
  <2>1. cs[b] \in Nat
    BY <1>1
  <2>2. ASSUME NEW x \in Nat PROVE x \div 252 \in Nat /\ x \div 63504 \in Nat
    OBVIOUS
  <2>3. 2500 * cs[b] \in Nat /\ 12000 * cs[b] * cs[b] \in Nat
    BY <2>1
  <2>4. (2500 * cs[b]) \div 252 \in Nat /\ (12000 * cs[b] * cs[b]) \div 63504 \in Nat
    BY <2>2, <2>3
  <2>5. 252 * 252 = 63504
    OBVIOUS
  <2> QED
    BY <2>4, <2>5 DEF Multiplier
<1>4. \A p, q \in Nat \ {0} : p * q \in Nat \ {0}
  OBVIOUS
<1>5. StepLength(a, b) \in Nat \ {0}
  BY <1>2
<1> QED
  BY <1>3, <1>4, <1>5 DEF CellStepCost

-----------------------------------------------------------------------------
(* The way back along the parents *)

\* A tree on the cells K: the parent of a cell other than the start is one of
\* them too, and of lower rank h.
Ranked(K, start, par, h) ==
    /\ K \subseteq Cells /\ start \in K /\ h \in [K -> Nat]
    /\ \A n \in K : IF n = start THEN par[n] = n ELSE par[n] \in K /\ h[par[n]] < h[n]

\* The grid is finite.
LEMMA CellsAreFinite == IsFiniteSet(Cells) /\ Cardinality(Cells) \in Nat
<1>1. IsFiniteSet(0 .. Rows - 1) /\ IsFiniteSet(0 .. Cols - 1)
  <2>1. 0 \in Int /\ Rows - 1 \in Int /\ Cols - 1 \in Int
    BY GridAssumption
  <2> QED
    BY <2>1, FS_Interval
<1>2. IsFiniteSet(Cells)
  BY <1>1, FS_Product DEF Cells
<1> QED
  BY <1>2, FS_CardinalityType

\* What the recursion says of the cells above the goal: they are cells of the tree.
LEMMA AncestorsAre ==
    ASSUME NEW K, NEW par, NEW h, Ranked(K, from, par, h), to \in K
    PROVE  /\ Ancestor(par)[0] = to
           /\ \A k \in 0 .. Cardinality(Cells) : Ancestor(par)[k] \in K
           /\ \A k \in 1 .. Cardinality(Cells) : Ancestor(par)[k] = par[Ancestor(par)[k - 1]]
<1> DEFINE n == Cardinality(Cells)
           step == [q \in Int \X K |-> par[q[2]]]
<1>1. n \in Nat
  BY CellsAreFinite
<1>2. \A c \in K : par[c] \in K
  BY DEF Ranked
<1>3. step \in [Int \X K -> K]
  BY <1>2
<1> HIDE DEF n, step
<1>4. PICK f \in [0 .. n -> K] : GoesOn(f, to, 0, n, step)
  <2>1. 0 \in Int /\ n \in Int
    BY <1>1
  <2> QED
    BY Zenon, <1>3, <2>1, RecursionExists
<1>5. \A k \in 0 .. n : f[k] = IF k = 0 THEN to ELSE par[f[k - 1]]
  <2> TAKE k \in 0 .. n
  <2>1. CASE k = 0
    BY <2>1, <1>4 DEF GoesOn
  <2>2. CASE k # 0
    <3>1. k - 1 \in 0 .. n /\ f[k - 1] \in K
      BY <1>1, <2>2
    <3>2. step[<<k, f[k - 1]>>] = par[f[k - 1]]
      BY <3>1 DEF step
    <3> QED
      BY <1>4, <2>2, <3>2 DEF GoesOn
  <2> QED
    BY <2>1, <2>2
<1>6. f = [k \in 0 .. n |-> IF k = 0 THEN to ELSE par[f[k - 1]]]
  BY <1>5
<1>7. Ancestor(par) = CHOOSE b : b = [k \in 0 .. n |-> IF k = 0 THEN to ELSE par[b[k - 1]]]
  BY DEF Ancestor, n
<1>8. Ancestor(par) = [k \in 0 .. n |-> IF k = 0 THEN to ELSE par[Ancestor(par)[k - 1]]]
  BY <1>6, <1>7
<1>9. Ancestor(par)[0] = to /\ \A k \in 1 .. n : Ancestor(par)[k] = par[Ancestor(par)[k - 1]]
  BY <1>1, <1>8
<1>10. \A k \in 0 .. n : Ancestor(par)[k] \in K
  <2> DEFINE Good == {k \in 0 .. n : Ancestor(par)[k] \in K}
  <2>1. 0 \in Good
    BY <1>1, <1>9
  <2>2. ASSUME NEW k \in 0 + 1 .. n, k - 1 \in Good PROVE k \in Good
    BY <1>1, <1>2, <1>9, <2>2
  <2> HIDE DEF Good
  <2>21. 0 \in Int /\ n \in Int /\ \A k \in 0 + 1 .. n : k - 1 \in Good => k \in Good
    BY <1>1, <2>2
  <2>3. \A k \in 0 .. n : k \in Good
    BY <2>1, <2>21, IntervalInduction, Zenon
  <2> QED
    BY <2>3 DEF Good
<1> QED
  BY <1>9, <1>10 DEF n

\* The way back reaches the start: ranks fall, so no cell comes twice, and there
\* are no more steps than cells.
LEMMA StartIsReached ==
    ASSUME NEW K, NEW par, NEW h, Ranked(K, from, par, h), to \in K
    PROVE  \E k \in 0 .. Cardinality(Cells) : Ancestor(par)[k] = from
<1> DEFINE n == Cardinality(Cells)
           b == Ancestor(par)
<1> SUFFICES ASSUME \A k \in 0 .. n : b[k] # from PROVE FALSE
  OBVIOUS
<1>1. n \in Nat /\ IsFiniteSet(Cells)
  BY CellsAreFinite
<1>2. /\ \A k \in 0 .. n : b[k] \in K
      /\ \A k \in 1 .. n : b[k] = par[b[k - 1]]
  BY AncestorsAre
<1> HIDE DEF n, b
<1>3. \A k \in 0 .. n : h[b[k]] \in Nat
  BY <1>2 DEF Ranked
<1>4. \A k \in 1 .. n : h[b[k]] < h[b[k - 1]]
  <2> TAKE k \in 1 .. n
  <2>1. k - 1 \in 0 .. n
    BY <1>1
  <2>2. b[k - 1] \in K /\ b[k - 1] # from
    BY <1>2, <2>1
  <2> QED
    BY <1>2, <2>2 DEF Ranked
<1>5. ASSUME NEW i \in 0 .. n, NEW k \in i + 1 .. n PROVE h[b[k]] < h[b[i]]
  <2> DEFINE Good == {m \in i + 1 .. n : h[b[m]] < h[b[i]]}
  <2>1. i + 1 \in Good
    <3>1. i + 1 \in 1 .. n /\ (i + 1) - 1 = i /\ i + 1 \in i + 1 .. n
      BY <1>1
    <3> QED
      BY <1>4, <3>1
  <2>2. ASSUME NEW m \in (i + 1) + 1 .. n, m - 1 \in Good PROVE m \in Good
    <3>1. m \in 1 .. n /\ m \in 0 .. n /\ m - 1 \in 0 .. n /\ m \in i + 1 .. n
      BY <1>1
    <3>2. h[b[m]] < h[b[m - 1]] /\ h[b[m - 1]] < h[b[i]]
      BY <1>4, <2>2, <3>1
    <3> QED
      BY <1>3, <3>1, <3>2
  <2> HIDE DEF Good
  <2>3. i + 1 \in Int /\ n \in Int
    BY <1>1
  <2>4. \A m \in i + 1 .. n : m \in Good
    BY <2>1, <2>2, <2>3, IntervalInduction
  <2> QED
    BY <2>4 DEF Good
<1>6. ASSUME NEW i \in 0 .. n, NEW k \in 0 .. n, i # k PROVE b[i] # b[k]
  <2>1. CASE i < k
    <3>1. k \in i + 1 .. n
      BY <1>1, <2>1
    <3>2. h[b[k]] < h[b[i]]
      BY <1>5, <3>1
    <3> QED
      BY <1>3, <3>2
  <2>2. CASE k < i
    <3>1. i \in k + 1 .. n
      BY <1>1, <2>2
    <3>2. h[b[i]] < h[b[k]]
      BY <1>5, <3>1
    <3> QED
      BY <1>3, <3>2
  <2> QED
    BY <1>6, <1>1, <2>1, <2>2
<1>7. IsFiniteSet(0 .. n) /\ Cardinality(Cells) < Cardinality(0 .. n)
  <2>1. 0 \in Int /\ n \in Int /\ ~(0 > n) /\ n < n - 0 + 1
    BY <1>1
  <2>2. IsFiniteSet(0 .. n) /\ Cardinality(0 .. n) = n - 0 + 1
    BY <2>1, FS_Interval
  <2> QED
    BY <2>1, <2>2 DEF n
<1> DEFINE f == [k \in 0 .. n |-> b[k]]
<1>8. f \in [0 .. n -> Cells]
  BY <1>2 DEF Ranked
<1>9. \E x, y \in 0 .. n : x # y /\ f[x] = f[y]
  <2> HIDE DEF f
  <2> QED
    BY <1>1, <1>7, <1>8, FS_PigeonHole
<1> QED
  BY <1>6, <1>9

\* The path that is rebuilt leads from the start to the goal, each cell the
\* parent of the next.  (_reconstruct)
LEMMA ReconstructLeads ==
    ASSUME NEW K, NEW par, NEW h, Ranked(K, from, par, h), to \in K
    PROVE  LET r == Reconstruct(par) IN
           /\ r \in Seq(K) /\ Len(r) \in Nat \ {0}
           /\ r[1] = from /\ r[Len(r)] = to
           /\ \A i \in 1 .. Len(r) - 1 : r[i] = par[r[i + 1]] /\ r[i + 1] # from
<1> DEFINE n == Cardinality(Cells)
           b == Ancestor(par)
           ends == {k \in 0 .. n : par[b[k]] = b[k]}
           ended == SetMin(ends \cup {n})
           r == Reconstruct(par)
<1>1. n \in Nat
  BY CellsAreFinite
<1>2. /\ b[0] = to
      /\ \A k \in 0 .. n : b[k] \in K
      /\ \A k \in 1 .. n : b[k] = par[b[k - 1]]
  BY AncestorsAre
<1>3. \A k \in 0 .. n : par[b[k]] = b[k] <=> b[k] = from
  <2> SUFFICES ASSUME NEW c \in K PROVE par[c] = c <=> c = from
    BY <1>2
  <2> QED
    BY DEF Ranked
<1>4. \E k \in 0 .. n : b[k] = from
  BY StartIsReached
<1>5. ended \in 0 .. n /\ b[ended] = from /\ \A k \in 0 .. n : k < ended => b[k] # from
  <2>1. \E m \in ends \cup {n} : \A k \in ends \cup {n} : m <= k
    <3>1. ends \cup {n} \subseteq Nat /\ ends \cup {n} # {}
      BY <1>1
    <3> HIDE DEF ends
    <3> QED
      BY <3>1, LeastOf
  <2>2. ended \in ends \cup {n} /\ \A k \in ends \cup {n} : ended <= k
    BY <2>1 DEF SetMin
  <2>3. PICK k \in 0 .. n : b[k] = from
    BY <1>4
  <2>4. k \in ends /\ ended <= k
    BY <1>3, <2>2, <2>3
  <2>5. ended \in ends
    BY <1>1, <2>2, <2>4
  <2>6. \A m \in 0 .. n : m < ended => m \notin ends
    BY <1>1, <2>2
  <2> HIDE DEF ended
  <2> QED
    BY <1>3, <2>5, <2>6
<1>6. r = [i \in 1 .. ended + 1 |-> b[ended + 1 - i]]
  BY DEF Reconstruct
<1> HIDE DEF ended, n, b, r
<1>7. \A i \in 1 .. ended + 1 : ended + 1 - i \in 0 .. n
  BY <1>1, <1>5
<1>8. r \in Seq(K) /\ Len(r) = ended + 1
  <2>1. r \in [1 .. ended + 1 -> K]
    BY <1>2, <1>6, <1>7
  <2>2. ended + 1 \in Nat
    BY <1>1, <1>5
  <2> QED
    BY <2>1, <2>2
<1>9. r[1] = from /\ r[ended + 1] = to
  <2>1. 1 \in 1 .. ended + 1 /\ ended + 1 - 1 = ended /\ ended + 1 \in 1 .. ended + 1 /\ ended + 1 - (ended + 1) = 0
    BY <1>1, <1>5
  <2> QED
    BY <1>2, <1>5, <1>6, <2>1
<1>10. ASSUME NEW i \in 1 .. ended PROVE r[i] = par[r[i + 1]] /\ r[i + 1] # from
  <2>1. /\ i \in 1 .. ended + 1 /\ i + 1 \in 1 .. ended + 1
        /\ ended + 1 - i \in 1 .. n /\ ended + 1 - (i + 1) = (ended + 1 - i) - 1
        /\ ended + 1 - (i + 1) \in 0 .. n /\ ended + 1 - (i + 1) < ended
    BY <1>1, <1>5
  <2>2. r[i] = b[ended + 1 - i] /\ r[i + 1] = b[(ended + 1 - i) - 1]
    BY <1>6, <2>1
  <2> QED
    BY <1>2, <1>5, <2>1, <2>2
<1>11. Len(r) \in Nat \ {0} /\ Len(r) - 1 = ended
  BY <1>1, <1>5, <1>8
<1> QED
  BY <1>8, <1>9, <1>10, <1>11 DEF r

-----------------------------------------------------------------------------
(* Chords become cells *)

\* A sequence of cells of S, each a neighbour of the one before.
Walk(p, S) ==
    /\ p \in Seq(S) /\ Len(p) \in Nat \ {0}
    /\ \A i \in 1 .. Len(p) - 1 : p[i + 1] \in Near(p[i])

\* A walk from a to b.
Leads(p, S, a, b) == Walk(p, S) /\ p[1] = a /\ p[Len(p)] = b

\* Two walks, the second from where the first ends, make one.
LEMMA WalksJoin ==
    ASSUME NEW S, NEW a, NEW b, NEW c, NEW p, Leads(p, S, a, b), NEW q, Leads(q, S, b, c), Len(q) # 1
    PROVE  Leads(p \o Tail(q), S, a, c)
<1> DEFINE t == Tail(q)
           r == p \o t
<1> USE DEF Leads
<1>1. p \in Seq(S) /\ q \in Seq(S) /\ Len(p) \in Nat \ {0} /\ Len(q) \in Nat \ {0, 1}
  BY DEF Walk
<1>2. t \in Seq(S) /\ Len(t) = Len(q) - 1 /\ \A i \in 1 .. Len(q) - 1 : t[i] = q[i + 1]
  BY <1>1
<1> HIDE DEF t
<1>3. /\ r \in Seq(S) /\ Len(r) = Len(p) + Len(t)
      /\ \A i \in 1 .. Len(p) : r[i] = p[i]
      /\ \A i \in 1 .. Len(t) : r[Len(p) + i] = t[i]
  <2>1. /\ r \in Seq(S) /\ Len(r) = Len(p) + Len(t)
        /\ \A i \in 1 .. Len(p) + Len(t) : r[i] = IF i <= Len(p) THEN p[i] ELSE t[i - Len(p)]
    BY <1>1, <1>2, ConcatProperties
  <2>2. Len(p) \in Nat /\ Len(t) \in Nat
    BY <1>1, <1>2
  <2> HIDE DEF r
  <2>3. ASSUME NEW i \in 1 .. Len(p) PROVE r[i] = p[i]
    <3>1. i \in 1 .. Len(p) + Len(t) /\ i <= Len(p)
      BY <2>2
    <3> QED
      BY <2>1, <3>1
  <2>4. ASSUME NEW i \in 1 .. Len(t) PROVE r[Len(p) + i] = t[i]
    <3>1. Len(p) + i \in 1 .. Len(p) + Len(t) /\ ~(Len(p) + i <= Len(p)) /\ (Len(p) + i) - Len(p) = i
      BY <2>2
    <3> QED
      BY <2>1, <3>1
  <2> QED
    BY <2>1, <2>3, <2>4
<1> HIDE DEF r
<1>4. r[1] = p[1] /\ r[Len(r)] = q[Len(q)]
  <2>1. 1 \in 1 .. Len(p) /\ Len(t) \in 1 .. Len(t) /\ Len(t) + 1 = Len(q) /\ Len(t) \in 1 .. Len(q) - 1
    BY <1>1, <1>2
  <2> QED
    BY <1>2, <1>3, <2>1
<1>5. ASSUME NEW i \in 1 .. Len(r) - 1 PROVE r[i + 1] \in Near(r[i])
  <2>1. CASE i < Len(p)
    <3>1. i \in 1 .. Len(p) /\ i + 1 \in 1 .. Len(p) /\ i \in 1 .. Len(p) - 1
      BY <1>1, <2>1
    <3> QED
      BY <1>3, <3>1 DEF Walk
  <2>2. CASE i >= Len(p)
    <3> DEFINE k == i - Len(p)
    <3>1. /\ k + 1 \in 1 .. Len(t) /\ i + 1 = Len(p) + (k + 1) /\ i = Len(p) + k /\ k + 1 \in 1 .. Len(q) - 1
          /\ k \in Nat /\ (k # 0 => k \in 1 .. Len(t) /\ k \in 1 .. Len(q) - 1)
      BY <1>1, <1>2, <1>3, <2>2
    <3>2. r[i + 1] = q[(k + 1) + 1]
      BY <1>2, <1>3, <3>1
    <3>3. r[i] = q[k + 1]
      <4>1. CASE k = 0
        <5>1. i = Len(p) /\ i \in 1 .. Len(p)
          BY <1>1, <3>1, <4>1
        <5> QED
          BY <1>3, <4>1, <5>1
      <4>2. CASE k # 0
        BY <1>2, <1>3, <3>1, <4>2
      <4> QED
        BY <4>1, <4>2
    <3> HIDE DEF k
    <3> QED
      BY <3>1, <3>2, <3>3 DEF Walk
  <2> QED
    BY <1>1, <1>3, <2>1, <2>2
<1>6. Len(r) \in Nat \ {0}
  BY <1>1, <1>2, <1>3
<1> QED
  BY <1>3, <1>4, <1>5, <1>6 DEF Walk, r, t

\* Cells that follow one another without jumps: the same, next to each other,
\* or in sight.
Strung(cells) ==
    /\ cells \in Seq(Open(costs)) /\ Len(cells) \in Nat \ {0}
    /\ \A i \in 1 .. Len(cells) - 1 :
          \/ cells[i + 1] = cells[i] \/ cells[i + 1] \in Near(cells[i])
          \/ LineOfSight(costs, cells[i], cells[i + 1])

\* The cells between two that follow one another are a walk.
LEMMA ChordIsWalk ==
    ASSUME \A c \in Cells : costs[c] \in Nat, NEW a \in Open(costs), NEW b \in Open(costs), a # b,
           b \in Near(a) \/ LineOfSight(costs, a, b)
    PROVE  LET line == Line[<<a, b>>] IN
           Leads(line, Open(costs), a, b) /\ Len(line) # 1
<1> DEFINE line == Line[<<a, b>>]
<1>1. a \in Cells /\ b \in Cells
  BY DEF Open
<1>2. PICK n \in Nat : /\ line \in Seq(Cells) /\ Len(line) = n + 1
                       /\ line[1] = a /\ line[n + 1] = b
                       /\ \A k \in 1 .. n : line[k + 1] \in Near(line[k])
  BY <1>1, LineRuns
<1>3. \A k \in DOMAIN line : line[k] \in Open(costs)
  <2>1. CASE b \in Near(a)
    BY <1>1, <2>1, ShortLine
  <2>2. CASE LineOfSight(costs, a, b)
    BY <1>1, <2>2, SightIsOpen
  <2> QED
    BY <2>1, <2>2
<1> HIDE DEF line
<1>4. line \in Seq(Open(costs))
  <2>1. line \in [1 .. n + 1 -> Open(costs)]
    BY <1>2, <1>3
  <2>2. n + 1 \in Nat
    OBVIOUS
  <2> QED
    BY <2>1, <2>2
<1>5. n # 0
  BY <1>2
<1>6. Len(line) \in Nat \ {0} /\ Len(line) # 1 /\ Len(line) - 1 = n
  BY <1>2, <1>5
<1>7. Walk(line, Open(costs))
  BY <1>2, <1>4, <1>6 DEF Walk
<1> QED
  BY <1>2, <1>6, <1>7 DEF line, Leads

\* What the recursion of _repair_cell_path says.
LEMMA ChainSteps ==
    ASSUME \A c \in Cells : costs[c] \in Nat, NEW cells, Strung(cells)
    PROVE  /\ Chained(cells)[1] = <<cells[1]>>
           /\ \A i \in 2 .. Len(cells) :
                Chained(cells)[i] = IF cells[i] = cells[i - 1] THEN Chained(cells)[i - 1]
                                    ELSE Chained(cells)[i - 1] \o Tail(Line[<<cells[i - 1], cells[i]>>])
<1> DEFINE n == Len(cells)
           S == Seq(Open(costs))
           Add(i, out) == IF cells[i] = cells[i - 1] THEN out ELSE out \o Tail(Line[<<cells[i - 1], cells[i]>>])
           step == [q \in Int \X S |-> IF q[1] \in 2 .. n THEN Add(q[1], q[2]) ELSE q[2]]
           begun == <<cells[1]>>
<1>1. n \in Nat \ {0} /\ cells \in Seq(Open(costs))
  BY DEF Strung
<1>2. begun \in S
  <2>1. cells[1] \in Open(costs)
    BY <1>1
  <2> QED
    BY <2>1
<1>3. ASSUME NEW i \in 2 .. n, NEW out \in S PROVE Add(i, out) \in S
  <2>1. CASE cells[i] = cells[i - 1]
    BY <2>1
  <2>2. CASE cells[i] # cells[i - 1]
    <3>1. /\ i - 1 \in 1 .. n - 1 /\ (i - 1) + 1 = i
          /\ cells[i - 1] \in Open(costs) /\ cells[i] \in Open(costs)
      BY <1>1
    <3>2. cells[i] \in Near(cells[i - 1]) \/ LineOfSight(costs, cells[i - 1], cells[i])
      BY <2>2, <3>1 DEF Strung
    <3>3. Leads(Line[<<cells[i - 1], cells[i]>>], Open(costs), cells[i - 1], cells[i])
      BY <2>2, <3>1, <3>2, ChordIsWalk
    <3>4. Tail(Line[<<cells[i - 1], cells[i]>>]) \in S
      BY <3>3 DEF Leads, Walk
    <3> QED
      BY <2>2, <3>4
  <2> QED
    BY <2>1, <2>2
<1>4. step \in [Int \X S -> S]
  <2> HIDE DEF Add
  <2> QED
    BY <1>3
<1> HIDE DEF n, S, step, begun, Add
<1>5. PICK f \in [1 .. n -> S] : GoesOn(f, begun, 1, n, step)
  <2>1. 1 \in Int /\ n \in Int
    BY <1>1
  <2> QED
    BY Zenon, <1>2, <1>4, <2>1, RecursionExists
<1>6. \A i \in 1 .. n : f[i] = IF i = 1 THEN begun ELSE Add(i, f[i - 1])
  <2> TAKE i \in 1 .. n
  <2>1. CASE i = 1
    BY <2>1, <1>5 DEF GoesOn
  <2>2. CASE i # 1
    <3>1. i - 1 \in 1 .. n /\ f[i - 1] \in S /\ i \in 2 .. n /\ i \in Int
      BY <1>1, <2>2
    <3>2. step[<<i, f[i - 1]>>] = Add(i, f[i - 1])
      BY <3>1 DEF step
    <3> QED
      BY <1>5, <2>2, <3>2 DEF GoesOn
  <2> QED
    BY <2>1, <2>2
<1>7. f = [i \in 1 .. n |-> IF i = 1 THEN begun ELSE Add(i, f[i - 1])]
  BY <1>6
<1>8. Chained(cells) = CHOOSE h : h = [i \in 1 .. n |-> IF i = 1 THEN begun ELSE Add(i, h[i - 1])]
  BY DEF Chained, n, begun, Add
<1>9. Chained(cells) = [i \in 1 .. n |-> IF i = 1 THEN begun ELSE Add(i, Chained(cells)[i - 1])]
  BY <1>7, <1>8
<1>10. Chained(cells)[1] = begun /\ \A i \in 2 .. n : Chained(cells)[i] = Add(i, Chained(cells)[i - 1])
  BY <1>1, <1>9
<1> QED
  BY <1>10 DEF n, begun, Add

\* The repaired path walks from the first cell to the last through open cells.
\* (_repair_cell_path)
LEMMA RepairWalks ==
    ASSUME \A c \in Cells : costs[c] \in Nat, NEW cells, Strung(cells)
    PROVE  Leads(RepairCellPath(cells), Open(costs), cells[1], cells[Len(cells)])
<1> DEFINE n == Len(cells)
           C(i) == Chained(cells)[i]
           Good == {i \in 1 .. n : Leads(C(i), Open(costs), cells[1], cells[i])}
<1>1. n \in Nat \ {0} /\ cells \in Seq(Open(costs))
  BY DEF Strung
<1>2. 1 \in Good
  <2>1. C(1) = <<cells[1]>> /\ cells[1] \in Open(costs)
    BY <1>1, ChainSteps
  <2>2. C(1) \in Seq(Open(costs)) /\ Len(C(1)) = 1 /\ C(1)[1] = cells[1]
    BY <2>1
  <2> QED
    BY <1>1, <2>2 DEF Leads, Walk
<1>3. ASSUME NEW i \in 1 + 1 .. n, i - 1 \in Good PROVE i \in Good
  <2>0. i \in 2 .. n /\ i \in 1 .. n
    BY <1>1
  <2>1. C(i) = IF cells[i] = cells[i - 1] THEN C(i - 1) ELSE C(i - 1) \o Tail(Line[<<cells[i - 1], cells[i]>>])
    BY <2>0, ChainSteps
  <2>2. Leads(C(i - 1), Open(costs), cells[1], cells[i - 1])
    BY <1>3
  <2> HIDE DEF C
  <2>3. CASE cells[i] = cells[i - 1]
    BY <2>0, <2>1, <2>2, <2>3
  <2>4. CASE cells[i] # cells[i - 1]
    <3> DEFINE line == Line[<<cells[i - 1], cells[i]>>]
    <3>1. /\ i - 1 \in 1 .. n - 1 /\ (i - 1) + 1 = i
          /\ cells[i - 1] \in Open(costs) /\ cells[i] \in Open(costs)
      BY <1>1, <2>0
    <3>2. cells[i] \in Near(cells[i - 1]) \/ LineOfSight(costs, cells[i - 1], cells[i])
      BY <2>4, <3>1 DEF Strung
    <3>3. Leads(line, Open(costs), cells[i - 1], cells[i]) /\ Len(line) # 1
      BY <2>4, <3>1, <3>2, ChordIsWalk
    <3>4. C(i) = C(i - 1) \o Tail(line)
      BY <2>1, <2>4
    <3> HIDE DEF line
    <3>5. Leads(C(i - 1) \o Tail(line), Open(costs), cells[1], cells[i])
      BY <2>2, <3>3, WalksJoin
    <3> QED
      BY <2>0, <3>4, <3>5
  <2> QED
    BY <2>3, <2>4
<1> HIDE DEF Good
<1>4. n \in Good
  <2>1. 1 \in Int /\ n \in Int /\ n \in 1 .. n
    BY <1>1
  <2> QED
    BY <1>2, <1>3, <2>1, IntervalInduction
<1>5. RepairCellPath(cells) = C(n)
  BY DEF RepairCellPath
<1> QED
  BY <1>4, <1>5 DEF Good

-----------------------------------------------------------------------------
(* Straight stretches *)

\* All cells between a and b are in S, and b is in one of eight directions.
Ray(a, b, S) ==
    \E u \in Compass, m \in Nat : b = Onward(a, u, m) /\ \A k \in 0 .. m : Onward(a, u, k) \in S

\* The line from a to b stays in S.
LineIn(a, b, S) == \A k \in DOMAIN Line[<<a, b>>] : Line[<<a, b>>][k] \in S

\* Points of S from a to b, with lines in S between them.
ClearWay(p, S, a, b) ==
    /\ p \in Seq(S) /\ Len(p) \in Nat \ {0} /\ p[1] = a /\ p[Len(p)] = b
    /\ \A i \in 1 .. Len(p) - 1 : LineIn(p[i], p[i + 1], S)

\* The cell itself and the next one in a direction.
LEMMA OnwardIs ==
    ASSUME NEW a \in Cells, NEW u \in Compass
    PROVE  Onward(a, u, 0) = a /\ Onward(a, u, 1) = <<a[1] + u[1], a[2] + u[2]>>
<1>1. a = <<a[1], a[2]>> /\ a[1] \in Int /\ a[2] \in Int /\ u[1] \in Int /\ u[2] \in Int
  BY SpanIs DEF Compass
<1>2. a[1] + 0 * u[1] = a[1] /\ a[2] + 0 * u[2] = a[2] /\ 1 * u[1] = u[1] /\ 1 * u[2] = u[2]
  BY <1>1
<1> QED
  BY <1>1, <1>2 DEF Onward

\* In one of the eight directions the line is the cells between.
LEMMA RayIsLine ==
    ASSUME NEW S, S \subseteq Cells, NEW a \in S, NEW b \in S, Ray(a, b, S)
    PROVE  LineIn(a, b, S)
<1>1. PICK u \in Compass, m \in Nat : b = Onward(a, u, m) /\ \A k \in 0 .. m : Onward(a, u, k) \in S
  BY DEF Ray
<1>2. CASE m = 0
  <2>1. b = a
    BY <1>1, <1>2, OnwardIs
  <2> QED
    BY <2>1, ShortLine DEF LineIn
<1>3. CASE m # 0
  <2> DEFINE line == Line[<<a, b>>]
  <2>1. Len(line) = m + 1 /\ \A k \in 1 .. m + 1 : line[k] = Onward(a, u, k - 1)
    BY <1>1, <1>3, StraightLine
  <2>2. line \in Seq(Cells)
    BY LineRuns
  <2> HIDE DEF line
  <2>3. DOMAIN line = 1 .. m + 1
    BY <2>1, <2>2
  <2>4. \A k \in 1 .. m + 1 : k - 1 \in 0 .. m
    OBVIOUS
  <2>5. \A k \in DOMAIN line : line[k] \in S
    BY <1>1, <2>1, <2>3, <2>4
  <2> QED
    BY <2>5 DEF LineIn, line
<1> QED
  BY <1>2, <1>3

\* The way to a neighbour is one of the eight directions.
LEMMA NearIsOnward ==
    ASSUME NEW b \in Cells, NEW c \in Near(b)
    PROVE  /\ <<c[1] - b[1], c[2] - b[2]>> \in Compass
           /\ c = <<b[1] + (c[1] - b[1]), b[2] + (c[2] - b[2])>>
<1>1. c \in Cells /\ c # b /\ Abs(c[1] - b[1]) <= 1 /\ Abs(c[2] - b[2]) <= 1
  BY DEF Near
<1>2. /\ b = <<b[1], b[2]>> /\ c = <<c[1], c[2]>>
      /\ b[1] \in Int /\ b[2] \in Int /\ c[1] \in Int /\ c[2] \in Int
  BY <1>1, SpanIs
<1>3. c[1] - b[1] \in -1 .. 1 /\ c[2] - b[2] \in -1 .. 1
  BY <1>1, <1>2 DEF Abs
<1>4. ~(c[1] - b[1] = 0 /\ c[2] - b[2] = 0)
  BY <1>1, <1>2
<1>5. b[1] + (c[1] - b[1]) = c[1] /\ b[2] + (c[2] - b[2]) = c[2]
  BY <1>2
<1> QED
  BY <1>2, <1>3, <1>4, <1>5 DEF Compass

\* A neighbour lies in one of the eight directions.
LEMMA NearIsRay ==
    ASSUME NEW S, S \subseteq Cells, NEW b \in S, NEW c \in S, c \in Near(b)
    PROVE  Ray(b, c, S)
<1> DEFINE u == <<c[1] - b[1], c[2] - b[2]>>
<1>1. u \in Compass /\ c = <<b[1] + u[1], b[2] + u[2]>>
  BY NearIsOnward
<1> HIDE DEF u
<1>2. Onward(b, u, 0) = b /\ Onward(b, u, 1) = c
  BY <1>1, OnwardIs
<1>3. \A k \in 0 .. 1 : k = 0 \/ k = 1
  OBVIOUS
<1> QED
  BY <1>1, <1>2, <1>3 DEF Ray

\* A cell that passes the test of _simplify lies on the ray, one further or one back.
LEMMA StraightIsRay ==
    ASSUME NEW S, S \subseteq Cells, NEW a \in S, NEW b \in S, Ray(a, b, S), NEW c \in S, c \in Near(b),
           Straight(a, b, c)
    PROVE  Ray(a, c, S)
<1>1. PICK u \in Compass, m \in Nat : b = Onward(a, u, m) /\ \A k \in 0 .. m : Onward(a, u, k) \in S
  BY DEF Ray
<1>2. CASE m = 0
  <2>1. b = a
    BY <1>1, <1>2, OnwardIs
  <2> QED
    BY <2>1, NearIsRay
<1>3. CASE m # 0
  <2> DEFINE w == <<c[1] - b[1], c[2] - b[2]>>
  <2>1. w \in Compass /\ c = <<b[1] + w[1], b[2] + w[2]>> /\ w[1] = c[1] - b[1] /\ w[2] = c[2] - b[2]
    BY NearIsOnward
  <2> HIDE DEF w
  <2>11. a \in Cells /\ a[1] \in Int /\ a[2] \in Int
    BY SpanIs
  <2>12. \A v \in Compass : v[1] \in {-1, 0, 1} /\ v[2] \in {-1, 0, 1} /\ ~(v[1] = 0 /\ v[2] = 0)
    BY DEF Compass
  <2>2. /\ a[1] \in Int /\ a[2] \in Int /\ u[1] \in {-1, 0, 1} /\ u[2] \in {-1, 0, 1} /\ ~(u[1] = 0 /\ u[2] = 0)
        /\ w[1] \in {-1, 0, 1} /\ w[2] \in {-1, 0, 1} /\ ~(w[1] = 0 /\ w[2] = 0)
    BY <1>1, <2>1, <2>11, <2>12
  <2>3. b[1] = a[1] + m * u[1] /\ b[2] = a[2] + m * u[2]
    BY <1>1 DEF Onward
  <2>4. (m * u[1]) * w[2] = w[1] * (m * u[2])
    <3>1. b[1] - a[1] = m * u[1] /\ b[2] - a[2] = m * u[2]
      BY <2>2, <2>3
    <3> QED
      BY <2>1, <3>1 DEF Straight
  <2>5. (w[1] = u[1] /\ w[2] = u[2]) \/ (w[1] = -u[1] /\ w[2] = -u[2])
    <3>1. m * (u[1] * w[2]) = m * (w[1] * u[2])
      <4>1. \A x, y \in {-1, 0, 1} : (m * x) * y = m * (x * y) /\ y * (m * x) = m * (y * x)
        OBVIOUS
      <4>2. (m * u[1]) * w[2] = m * (u[1] * w[2]) /\ w[1] * (m * u[2]) = m * (w[1] * u[2])
        BY <2>2, <4>1
      <4> QED
        BY <2>4, <4>2
    <3>2. u[1] * w[2] = w[1] * u[2]
      <4>1. u[1] * w[2] \in -1 .. 1 /\ w[1] * u[2] \in -1 .. 1
        BY <2>2
      <4>2. \A x, y \in -1 .. 1 : m * x = m * y => x = y
        BY <1>3
      <4> QED
        BY <3>1, <4>1, <4>2
    <3> QED
      BY <2>2, <3>2
  <2>6. CASE w[1] = u[1] /\ w[2] = u[2]
    <3>1. c = Onward(a, u, m + 1)
      <4>1. (m + 1) * u[1] = m * u[1] + u[1] /\ (m + 1) * u[2] = m * u[2] + u[2] /\ m * u[1] \in Int /\ m * u[2] \in Int
        BY <2>2
      <4>2. a[1] + (m + 1) * u[1] = b[1] + u[1] /\ a[2] + (m + 1) * u[2] = b[2] + u[2]
        BY <2>2, <2>3, <4>1
      <4> QED
        BY <2>1, <2>6, <4>2 DEF Onward
    <3>2. ASSUME NEW k \in 0 .. m + 1 PROVE Onward(a, u, k) \in S
      <4>1. k \in 0 .. m \/ k = m + 1
        OBVIOUS
      <4> QED
        BY <1>1, <3>1, <4>1
    <3>3. m + 1 \in Nat
      OBVIOUS
    <3> QED
      BY <3>1, <3>2, <3>3 DEF Ray
  <2>7. CASE w[1] = -u[1] /\ w[2] = -u[2]
    <3>1. c = Onward(a, u, m - 1)
      <4>1. (m - 1) * u[1] = m * u[1] - u[1] /\ (m - 1) * u[2] = m * u[2] - u[2] /\ m * u[1] \in Int /\ m * u[2] \in Int
        BY <2>2
      <4>2. a[1] + (m - 1) * u[1] = b[1] + (-u[1]) /\ a[2] + (m - 1) * u[2] = b[2] + (-u[2])
        BY <2>2, <2>3, <4>1
      <4> QED
        BY <2>1, <2>7, <4>2 DEF Onward
    <3>2. m - 1 \in Nat /\ \A k \in 0 .. m - 1 : k \in 0 .. m
      BY <1>3
    <3> QED
      BY <1>1, <3>1, <3>2 DEF Ray
  <2> QED
    BY <2>5, <2>6, <2>7
<1> QED
  BY <1>2, <1>3

\* A way goes on to a point that its end has a clear line to.
LEMMA WayExtends ==
    ASSUME NEW S, NEW a, NEW b, NEW p, ClearWay(p, S, a, b), NEW c \in S, LineIn(b, c, S)
    PROVE  ClearWay(Append(p, c), S, a, c)
<1> DEFINE r == Append(p, c)
<1>1. p \in Seq(S) /\ Len(p) \in Nat \ {0} /\ p[1] = a /\ p[Len(p)] = b
  BY DEF ClearWay
<1>2. /\ r \in Seq(S) /\ Len(r) = Len(p) + 1 /\ r[Len(p) + 1] = c
      /\ \A i \in 1 .. Len(p) : r[i] = p[i]
  BY <1>1
<1> HIDE DEF r
<1>3. Len(r) \in Nat \ {0} /\ r[1] = a /\ r[Len(r)] = c
  BY <1>1, <1>2
<1>4. ASSUME NEW i \in 1 .. Len(r) - 1 PROVE LineIn(r[i], r[i + 1], S)
  <2>1. CASE i = Len(p)
    <3>1. r[i] = b /\ r[i + 1] = c
      BY <1>1, <1>2, <2>1
    <3> QED
      BY <3>1
  <2>2. CASE i # Len(p)
    <3>1. i \in 1 .. Len(p) /\ i + 1 \in 1 .. Len(p) /\ i \in 1 .. Len(p) - 1
      BY <1>1, <1>2, <2>2
    <3>2. r[i] = p[i] /\ r[i + 1] = p[i + 1]
      BY <1>2, <3>1
    <3> QED
      BY <3>1, <3>2 DEF ClearWay
  <2> QED
    BY <2>1, <2>2
<1> QED
  BY <1>2, <1>3, <1>4 DEF ClearWay, r

\* What the recursion of _simplify says.
LEMMA KeptSteps ==
    ASSUME NEW S, NEW cells, cells \in Seq(S), Len(cells) > 2
    PROVE  /\ KeptCells(cells)[1] = <<cells[1]>>
           /\ \A i \in 2 .. Len(cells) - 1 :
                KeptCells(cells)[i] =
                    LET out == KeptCells(cells)[i - 1]
                    IN IF Straight(out[Len(out)], cells[i], cells[i + 1]) THEN out ELSE Append(out, cells[i])
<1> DEFINE n == Len(cells) - 1
           P == Seq(S)
           Add(i, out) == IF Straight(out[Len(out)], cells[i], cells[i + 1]) THEN out ELSE Append(out, cells[i])
           step == [q \in Int \X P |-> IF q[1] \in 2 .. n THEN Add(q[1], q[2]) ELSE q[2]]
           begun == <<cells[1]>>
<1>1. n \in Nat \ {0} /\ \A i \in 1 .. n : cells[i] \in S
  BY DEF P
<1>2. begun \in P
  <2>1. cells[1] \in S
    BY <1>1
  <2> QED
    BY <2>1
<1>3. ASSUME NEW i \in 2 .. n, NEW out \in P PROVE Add(i, out) \in P
  <2>1. cells[i] \in S
    BY <1>1
  <2>2. Append(out, cells[i]) \in P
    BY <2>1
  <2> QED
    BY <2>2
<1>4. step \in [Int \X P -> P]
  <2> HIDE DEF Add
  <2> QED
    BY <1>3
<1> HIDE DEF n, P, step, begun, Add
<1>5. PICK f \in [1 .. n -> P] : GoesOn(f, begun, 1, n, step)
  <2>1. 1 \in Int /\ n \in Int
    BY <1>1
  <2> QED
    BY Zenon, <1>2, <1>4, <2>1, RecursionExists
<1>6. \A i \in 1 .. n : f[i] = IF i = 1 THEN begun ELSE Add(i, f[i - 1])
  <2> TAKE i \in 1 .. n
  <2>1. CASE i = 1
    BY <2>1, <1>5 DEF GoesOn
  <2>2. CASE i # 1
    <3>1. i - 1 \in 1 .. n /\ f[i - 1] \in P /\ i \in 2 .. n /\ i \in Int
      BY <1>1, <2>2
    <3>2. step[<<i, f[i - 1]>>] = Add(i, f[i - 1])
      BY <3>1 DEF step
    <3> QED
      BY <1>5, <2>2, <3>2 DEF GoesOn
  <2> QED
    BY <2>1, <2>2
<1>7. f = [i \in 1 .. n |-> IF i = 1 THEN begun ELSE Add(i, f[i - 1])]
  BY <1>6
<1>8. KeptCells(cells) = CHOOSE h : h = [i \in 1 .. n |-> IF i = 1 THEN begun ELSE Add(i, h[i - 1])]
  BY DEF KeptCells, n, begun, Add
<1>9. KeptCells(cells) = [i \in 1 .. n |-> IF i = 1 THEN begun ELSE Add(i, KeptCells(cells)[i - 1])]
  BY <1>7, <1>8
<1>10. KeptCells(cells)[1] = begun /\ \A i \in 2 .. n : KeptCells(cells)[i] = Add(i, KeptCells(cells)[i - 1])
  BY <1>1, <1>9
<1> QED
  BY <1>10 DEF n, begun, Add

\* What _simplify leaves of a walk has clear lines between its points.
LEMMA SimplifyIsClear ==
    ASSUME NEW S, S \subseteq Cells, NEW a, NEW b, NEW cells, Leads(cells, S, a, b)
    PROVE  ClearWay(Simplify(cells), S, a, b)
<1> DEFINE n == Len(cells)
<1>1. /\ n \in Nat \ {0} /\ cells \in Seq(S) /\ cells[1] = a /\ cells[n] = b
      /\ \A i \in 1 .. n : cells[i] \in S
      /\ \A i \in 1 .. n - 1 : cells[i + 1] \in Near(cells[i])
  BY DEF Leads, Walk
<1>2. CASE n <= 2
  <2>1. ASSUME NEW i \in 1 .. n - 1 PROVE LineIn(cells[i], cells[i + 1], S)
    <3>1. i \in 1 .. n /\ i + 1 \in 1 .. n
      BY <1>1
    <3>2. cells[i] \in S /\ cells[i + 1] \in S /\ cells[i + 1] \in Near(cells[i])
      BY <1>1, <3>1
    <3>3. \A k \in DOMAIN Line[<<cells[i], cells[i + 1]>>] :
             Line[<<cells[i], cells[i + 1]>>][k] \in {cells[i], cells[i + 1]}
      BY <3>2, ShortLine
    <3> QED
      BY <3>2, <3>3 DEF LineIn
  <2>2. Simplify(cells) = cells
    BY <1>2 DEF Simplify
  <2> QED
    BY <1>1, <2>1, <2>2 DEF ClearWay
<1>3. CASE n > 2
  <2> DEFINE K(i) == KeptCells(cells)[i]
             ended(i) == K(i)[Len(K(i))]
             Good == {i \in 1 .. n - 1 : \E c \in S : ClearWay(K(i), S, a, c) /\ Ray(c, cells[i + 1], S)}
  <2>1. K(1) = <<cells[1]>>
        /\ \A i \in 2 .. n - 1 : K(i) = IF Straight(ended(i - 1), cells[i], cells[i + 1]) THEN K(i - 1)
                                        ELSE Append(K(i - 1), cells[i])
    BY <1>1, <1>3, KeptSteps
  <2> HIDE DEF K
  <2>2. 1 \in Good
    <3>1. cells[1] \in S /\ cells[1 + 1] \in S /\ cells[1 + 1] \in Near(cells[1]) /\ 1 \in 1 .. n - 1
      BY <1>1, <1>3
    <3>2. Ray(cells[1], cells[1 + 1], S)
      BY <3>1, NearIsRay
    <3>3. K(1) \in Seq(S) /\ Len(K(1)) = 1 /\ K(1)[1] = cells[1]
      <4>1. <<cells[1]>> \in Seq(S) /\ Len(<<cells[1]>>) = 1 /\ <<cells[1]>>[1] = cells[1]
        BY <3>1
      <4>2. K(1) = <<cells[1]>>
        BY <2>1
      <4> QED
        BY Zenon, <4>1, <4>2
    <3>4. ClearWay(K(1), S, a, cells[1])
      BY <1>1, <3>3 DEF ClearWay
    <3> QED
      BY <3>1, <3>2, <3>4
  <2>3. ASSUME NEW i \in 1 + 1 .. n - 1, i - 1 \in Good PROVE i \in Good
    <3>0. i \in 1 .. n - 1 /\ i \in 2 .. n - 1 /\ (i - 1) + 1 = i /\ i \in 1 .. n /\ i + 1 \in 1 .. n
      BY <1>1
    <3>1. PICK c \in S : ClearWay(K(i - 1), S, a, c) /\ Ray(c, cells[i], S)
      BY <2>3, <3>0
    <3>2. ended(i - 1) = c
      BY <3>1 DEF ClearWay
    <3>3. cells[i] \in S /\ cells[i + 1] \in S /\ cells[i + 1] \in Near(cells[i])
      BY <1>1, <3>0
    <3>4. CASE Straight(c, cells[i], cells[i + 1])
      <4>1. K(i) = K(i - 1)
        BY <2>1, <3>0, <3>2, <3>4
      <4>2. Ray(c, cells[i + 1], S)
        BY <3>1, <3>3, <3>4, StraightIsRay
      <4> QED
        BY <3>0, <3>1, <4>1, <4>2
    <3>5. CASE ~Straight(c, cells[i], cells[i + 1])
      <4>1. K(i) = Append(K(i - 1), cells[i])
        BY <2>1, <3>0, <3>2, <3>5
      <4>2. LineIn(c, cells[i], S)
        BY <3>1, <3>3, RayIsLine
      <4>3. ClearWay(Append(K(i - 1), cells[i]), S, a, cells[i])
        BY <3>1, <3>3, <4>2, WayExtends
      <4>4. Ray(cells[i], cells[i + 1], S)
        BY <3>3, NearIsRay
      <4> QED
        BY <3>0, <3>3, <4>1, <4>3, <4>4
    <3> QED
      BY <3>4, <3>5
  <2> HIDE DEF Good
  <2>4. n - 1 \in Good
    <3>1. 1 \in Int /\ n - 1 \in Int /\ n - 1 \in 1 .. n - 1
      BY <1>1, <1>3
    <3> QED
      BY <2>2, <2>3, <3>1, IntervalInduction
  <2>5. PICK c \in S : ClearWay(K(n - 1), S, a, c) /\ Ray(c, b, S)
    <3>1. (n - 1) + 1 = n
      BY <1>1
    <3> QED
      BY <1>1, <2>4, <3>1 DEF Good
  <2>6. b \in S
    BY <1>1
  <2>7. LineIn(c, b, S)
    BY <2>5, <2>6, RayIsLine
  <2>8. ClearWay(Append(K(n - 1), b), S, a, b)
    BY <2>5, <2>6, <2>7, WayExtends
  <2>9. Simplify(cells) = Append(K(n - 1), b)
    BY <1>1, <1>3 DEF Simplify, K
  <2> QED
    BY <2>8, <2>9
<1> QED
  BY <1>1, <1>2, <1>3

-----------------------------------------------------------------------------
(* Pulling the path straight *)

\* From every point but the last, the next one kept is a later one: the next
\* one, or one in sight.
LEMMA FarthestIs ==
    ASSUME NEW cs, NEW points, Len(points) \in Nat, NEW i \in 1 .. Len(points) - 1
    PROVE  LET k == Farthest(cs, points, i) IN
           k \in i + 1 .. Len(points) /\ (k = i + 1 \/ LineOfSight(cs, points[i], points[k]))
<1> DEFINE n == Len(points)
           far == {k \in i + 1 .. n : /\ LineOfSight(cs, points[i], points[k])
                                      /\ SegmentTraversable(cs, points[i], points[k], LosMaxSoftCost)}
<1>1. Farthest(cs, points, i) = IF far = {} THEN i + 1 ELSE CHOOSE k \in far : \A m \in far : m <= k
  BY DEF Farthest
<1>2. n \in Nat /\ i + 1 \in i + 1 .. n
  OBVIOUS
<1>3. \A k \in far : k \in i + 1 .. n /\ LineOfSight(cs, points[i], points[k])
  OBVIOUS
<1> HIDE DEF n, far
<1>4. CASE far # {}
  <2> DEFINE left == {n - k : k \in far}
  <2>1. left \subseteq Nat /\ left # {}
    BY <1>2, <1>3, <1>4
  <2> HIDE DEF left
  <2>2. PICK m \in left : \A d \in left : m <= d
    BY <2>1, LeastOf
  <2>3. PICK k \in far : m = n - k
    BY <2>2 DEF left
  <2>4. \A d \in far : d <= k
    <3> TAKE d \in far
    <3>1. n - d \in left
      BY DEF left
    <3>2. n - k <= n - d
      BY <2>2, <2>3, <3>1
    <3> QED
      BY <1>2, <1>3, <3>2
  <2>5. (CHOOSE x \in far : \A d \in far : d <= x) \in far
    BY <2>4
  <2> QED
    BY <1>1, <1>3, <1>4, <2>5 DEF n
<1> QED
  BY <1>1, <1>2, <1>4 DEF n

\* The numbers of the points that are kept begin with 1, and each is followed
\* by the next one or by one that it sees.
Pulls(cs, points, p) ==
    /\ p \in Seq(1 .. Len(points)) /\ Len(p) \in Nat \ {0} /\ p[1] = 1
    /\ \A i \in 1 .. Len(p) - 1 :
          p[i + 1] = p[i] + 1 \/ LineOfSight(cs, points[p[i]], points[p[i + 1]])

\* One more pull.
LEMMA PullsExtend ==
    ASSUME NEW cs, NEW points, Len(points) \in Nat, NEW p, Pulls(cs, points, p), p[Len(p)] # Len(points)
    PROVE  Pulls(cs, points, Append(p, Farthest(cs, points, p[Len(p)])))
<1> DEFINE ended == p[Len(p)]
           k == Farthest(cs, points, ended)
           r == Append(p, k)
           n == Len(points)
<1>1. p \in Seq(1 .. n) /\ Len(p) \in Nat \ {0} /\ p[1] = 1 /\ ended \in 1 .. n - 1
  BY DEF Pulls
<1>2. k \in 1 .. n /\ (k = ended + 1 \/ LineOfSight(cs, points[ended], points[k]))
  <2>1. k \in ended + 1 .. n /\ (k = ended + 1 \/ LineOfSight(cs, points[ended], points[k]))
    BY <1>1, FarthestIs
  <2> QED
    BY <1>1, <2>1
<1> HIDE DEF k, n, ended
<1>3. /\ r \in Seq(1 .. n) /\ Len(r) = Len(p) + 1 /\ r[Len(p) + 1] = k
      /\ \A i \in 1 .. Len(p) : r[i] = p[i]
  BY <1>1, <1>2
<1> HIDE DEF r
<1>4. Len(r) \in Nat \ {0} /\ r[1] = 1
  BY <1>1, <1>3
<1>5. ASSUME NEW i \in 1 .. Len(r) - 1
      PROVE  r[i + 1] = r[i] + 1 \/ LineOfSight(cs, points[r[i]], points[r[i + 1]])
  <2>1. CASE i = Len(p)
    <3>1. r[i] = ended /\ r[i + 1] = k
      BY <1>1, <1>3, <2>1 DEF ended
    <3> QED
      BY <1>2, <3>1
  <2>2. CASE i # Len(p)
    <3>1. i \in 1 .. Len(p) /\ i + 1 \in 1 .. Len(p) /\ i \in 1 .. Len(p) - 1
      BY <1>1, <1>3, <2>2
    <3>2. r[i] = p[i] /\ r[i + 1] = p[i + 1]
      BY <1>3, <3>1
    <3> QED
      BY <3>1, <3>2 DEF Pulls
  <2> QED
    BY <2>1, <2>2
<1>6. Pulls(cs, points, r)
  BY <1>3, <1>4, <1>5 DEF Pulls, n
<1> QED
  BY <1>6 DEF r, k, ended

\* The points that are kept follow one another so, from the first.
LEMMA PulledIs ==
    ASSUME NEW cs, NEW points, Len(points) \in Nat \ {0}
    PROVE  Pulls(cs, points, Pulled(cs, points))
<1> DEFINE n == Len(points)
           P == {p \in Seq(1 .. n) : Pulls(cs, points, p)}
           Add(out) == IF out[Len(out)] = n THEN out ELSE Append(out, Farthest(cs, points, out[Len(out)]))
           step == [q \in Int \X P |-> Add(q[2])]
<1>1. n \in Nat \ {0}
  OBVIOUS
<1>2. <<1>> \in P
  <2>1. 1 \in 1 .. n
    BY <1>1
  <2>2. <<1>> \in Seq(1 .. n) /\ Len(<<1>>) = 1 /\ <<1>>[1] = 1
    BY <2>1
  <2>3. Pulls(cs, points, <<1>>)
    BY <2>2 DEF Pulls
  <2> QED
    BY <2>2, <2>3
<1>3. ASSUME NEW out \in P PROVE Add(out) \in P
  <2>1. CASE out[Len(out)] = n
    BY <2>1
  <2>2. CASE out[Len(out)] # n
    <3>1. Pulls(cs, points, Append(out, Farthest(cs, points, out[Len(out)])))
      BY <1>1, <2>2, PullsExtend
    <3>2. Append(out, Farthest(cs, points, out[Len(out)])) \in P
      BY <3>1 DEF Pulls
    <3> QED
      BY <2>2, <3>2
  <2> QED
    BY <2>1, <2>2
<1>4. step \in [Int \X P -> P]
  <2> HIDE DEF Add, P
  <2> QED
    BY <1>3
<1> HIDE DEF n, P, step, Add
<1>5. PICK f \in [1 .. n -> P] : GoesOn(f, <<1>>, 1, n, step)
  <2>1. 1 \in Int /\ n \in Int
    BY <1>1
  <2> QED
    BY Zenon, <1>2, <1>4, <2>1, RecursionExists
<1>6. \A i \in 1 .. n : f[i] = IF i = 1 THEN <<1>> ELSE Add(f[i - 1])
  <2> TAKE i \in 1 .. n
  <2>1. CASE i = 1
    BY <2>1, <1>5 DEF GoesOn
  <2>2. CASE i # 1
    <3>1. i - 1 \in 1 .. n /\ f[i - 1] \in P /\ i \in Int
      BY <1>1, <2>2
    <3>2. step[<<i, f[i - 1]>>] = Add(f[i - 1])
      BY <3>1 DEF step
    <3> QED
      BY <1>5, <2>2, <3>2 DEF GoesOn
  <2> QED
    BY <2>1, <2>2
<1> DEFINE g1 == CHOOSE h : h = [i \in 1 .. n |-> IF i = 1 THEN <<1>> ELSE Add(h[i - 1])]
<1>7. f = [i \in 1 .. n |-> IF i = 1 THEN <<1>> ELSE Add(f[i - 1])]
  BY <1>6
<1>8. Pulled(cs, points) = g1[n]
  BY DEF Pulled, n, Add
<1>9. g1 = [i \in 1 .. n |-> IF i = 1 THEN <<1>> ELSE Add(g1[i - 1])]
  BY <1>7
<1> HIDE DEF g1
<1>10. g1[n] \in P
  <2> DEFINE Good == {i \in 1 .. n : g1[i] \in P}
  <2>1. 1 \in Good
    BY <1>1, <1>2, <1>9
  <2>2. ASSUME NEW i \in 1 + 1 .. n, i - 1 \in Good PROVE i \in Good
    <3>1. i \in 1 .. n /\ i # 1
      BY <1>1
    <3>2. g1[i] = Add(g1[i - 1])
      BY <1>9, <3>1
    <3> QED
      BY <1>3, <2>2, <3>1, <3>2
  <2> HIDE DEF Good
  <2>3. 1 \in Int /\ n \in Int /\ n \in 1 .. n
    BY <1>1
  <2>4. n \in Good
    BY <2>1, <2>2, <2>3, IntervalInduction
  <2> QED
    BY <2>4 DEF Good
<1> QED
  BY <1>8, <1>10 DEF P

\* A path pulled straight on other costs, whose open cells are among S too, is
\* as clear as before and begins where it began.  (_shortcut_smooth)
LEMMA SmoothIsClear ==
    ASSUME NEW cs, \A c \in Cells : cs[c] \in Nat,
           NEW S, S \subseteq Cells, Open(cs) \subseteq S, NEW a, NEW b, NEW points, ClearWay(points, S, a, b)
    PROVE  LET r == ShortcutSmooth(cs, points) IN
           /\ r \in Seq(S) /\ Len(r) \in Nat \ {0} /\ r[1] = a
           /\ \A i \in 1 .. Len(r) - 1 : LineIn(r[i], r[i + 1], S)
<1> DEFINE n == Len(points)
           kept == Pulled(cs, points)
           r == ShortcutSmooth(cs, points)
<1>1. /\ n \in Nat \ {0} /\ points \in Seq(S) /\ points[1] = a
      /\ \A i \in 1 .. n : points[i] \in S
      /\ \A i \in 1 .. n - 1 : LineIn(points[i], points[i + 1], S)
  <2>1. /\ n \in Nat \ {0} /\ points \in Seq(S) /\ points[1] = a
        /\ \A i \in 1 .. n - 1 : LineIn(points[i], points[i + 1], S)
    BY Zenon DEF ClearWay
  <2>2. \A i \in 1 .. n : points[i] \in S
    BY <2>1
  <2> QED
    BY <2>1, <2>2
<1>2. CASE n < 3
  <2>1. r = points
    BY <1>2 DEF ShortcutSmooth
  <2> QED
    BY <1>1, <2>1
<1>3. CASE ~(n < 3)
  <2>1. r = [i \in DOMAIN kept |-> points[kept[i]]]
    BY <1>3 DEF ShortcutSmooth
  <2>2. Pulls(cs, points, kept)
    BY <1>1, PulledIs
  <2> HIDE DEF kept, r
  <2>3. kept \in Seq(1 .. n) /\ Len(kept) \in Nat \ {0} /\ kept[1] = 1 /\ DOMAIN kept = 1 .. Len(kept)
        /\ \A i \in 1 .. Len(kept) : kept[i] \in 1 .. n
    BY <2>2 DEF Pulls
  <2>4. r \in [1 .. Len(kept) -> S] /\ \A i \in 1 .. Len(kept) : r[i] = points[kept[i]]
    BY <1>1, <2>1, <2>3
  <2>5. r \in Seq(S) /\ Len(r) = Len(kept)
    BY <2>3, <2>4
  <2>6. r[1] = a
    BY <1>1, <2>3, <2>4
  <2>7. ASSUME NEW i \in 1 .. Len(kept) - 1 PROVE LineIn(r[i], r[i + 1], S)
    <3>1. i \in 1 .. Len(kept) /\ i + 1 \in 1 .. Len(kept)
      BY <2>3
    <3> DEFINE x == kept[i]  y == kept[i + 1]
    <3>2. x \in 1 .. n /\ y \in 1 .. n /\ r[i] = points[x] /\ r[i + 1] = points[y]
      BY <2>3, <2>4, <3>1
    <3>3. y = x + 1 \/ LineOfSight(cs, points[x], points[y])
      BY <2>2 DEF Pulls
    <3> HIDE DEF x, y
    <3>4. CASE y = x + 1
      <4>1. x \in 1 .. n - 1
        BY <1>1, <3>2, <3>4
      <4> QED
        BY <1>1, <3>2, <3>4, <4>1
    <3>5. CASE LineOfSight(cs, points[x], points[y])
      <4>1. points[x] \in Cells /\ points[y] \in Cells
        BY <1>1, <3>2
      <4>2. LineIn(points[x], points[y], S)
        BY <3>5, <4>1, SightIsOpen DEF LineIn
      <4> QED
        BY <3>2, <4>2
    <3> QED
      BY <3>3, <3>4, <3>5
  <2> QED
    BY <2>3, <2>5, <2>6, <2>7 DEF r
<1> QED
  BY <1>2, <1>3

-----------------------------------------------------------------------------
(* The legs of a plan *)

\* The bridge and the main leg's path make one way.  (_merge_path_prefix)
LEMMA MergeIsClear ==
    ASSUME NEW S, NEW a, NEW b, NEW c, NEW p, ClearWay(p, S, a, c), NEW q, ClearWay(q, S, c, b)
    PROVE  ClearWay(MergePathPrefix(p, q), S, a, b)
<1> DEFINE t == SubSeq(p, 1, Len(p) - 1)
           r == t \o q
           n == Len(p) - 1
<1>1. /\ p \in Seq(S) /\ q \in Seq(S) /\ n \in Nat /\ Len(p) = n + 1 /\ Len(q) \in Nat \ {0}
      /\ p[1] = a /\ p[n + 1] = c /\ q[1] = c /\ q[Len(q)] = b
  BY DEF ClearWay
<1>2. MergePathPrefix(p, q) = r
  BY <1>1 DEF MergePathPrefix
<1>3. t \in Seq(S) /\ Len(t) = n /\ \A i \in 1 .. n : t[i] = p[i]
  BY <1>1
<1> HIDE DEF t
<1>4. r \in Seq(S) /\ Len(r) = n + Len(q) /\ \A i \in 1 .. n + Len(q) : r[i] = IF i <= n THEN t[i] ELSE q[i - n]
  <2>1. t \in Seq(S) /\ q \in Seq(S) /\ Len(t) = n
    BY <1>1, <1>3
  <2> HIDE DEF n
  <2>2. /\ t \o q \in Seq(S)
        /\ Len(t \o q) = Len(t) + Len(q)
        /\ \A i \in 1 .. Len(t) + Len(q) : (t \o q)[i] = IF i <= Len(t) THEN t[i] ELSE q[i - Len(t)]
    BY <2>1, ConcatProperties, Zenon
  <2> QED
    BY <2>1, <2>2
<1> HIDE DEF n, r
<1>5. \A i \in 1 .. n : r[i] = p[i]
  <2> TAKE i \in 1 .. n
  <2>1. i \in 1 .. n + Len(q) /\ i <= n
    BY <1>1
  <2> QED
    BY <1>3, <1>4, <2>1
<1>6. \A i \in 1 .. Len(q) : r[n + i] = q[i]
  <2> TAKE i \in 1 .. Len(q)
  <2>1. n + i \in 1 .. n + Len(q) /\ ~(n + i <= n) /\ (n + i) - n = i
    BY <1>1
  <2> QED
    BY <1>4, <2>1
<1>7. \A i \in 1 .. n + 1 : r[i] = p[i]
  <2> TAKE i \in 1 .. n + 1
  <2>1. CASE i = n + 1
    <3>1. 1 \in 1 .. Len(q)
      BY <1>1
    <3> QED
      BY <1>1, <1>6, <2>1, <3>1
  <2>2. CASE i # n + 1
    <3>1. i \in 1 .. n
      BY <1>1, <2>2
    <3> QED
      BY <1>5, <3>1
  <2> QED
    BY <2>1, <2>2
<1>8. Len(r) \in Nat \ {0} /\ r[1] = a /\ r[Len(r)] = b
  <2>1. Len(r) \in Nat \ {0} /\ 1 \in 1 .. n + 1 /\ Len(q) \in 1 .. Len(q) /\ Len(r) = n + Len(q)
    BY <1>1, <1>4
  <2>2. r[1] = p[1] /\ r[n + Len(q)] = q[Len(q)]
    BY <1>6, <1>7, <2>1
  <2> QED
    BY <1>1, <2>1, <2>2
<1>9. ASSUME NEW i \in 1 .. Len(r) - 1 PROVE LineIn(r[i], r[i + 1], S)
  <2>1. CASE i <= n
    <3>1. i \in 1 .. n + 1 /\ i + 1 \in 1 .. n + 1 /\ i \in 1 .. Len(p) - 1
      BY <1>1, <2>1
    <3>2. r[i] = p[i] /\ r[i + 1] = p[i + 1]
      BY <1>7, <3>1
    <3>3. LineIn(p[i], p[i + 1], S)
      BY <3>1 DEF ClearWay
    <3> QED
      BY <3>2, <3>3
  <2>2. CASE ~(i <= n)
    <3> DEFINE k == i - n
    <3>1. k \in 1 .. Len(q) - 1 /\ k \in 1 .. Len(q) /\ k + 1 \in 1 .. Len(q) /\ i = n + k /\ i + 1 = n + (k + 1)
      BY <1>1, <1>4, <2>2
    <3> HIDE DEF k
    <3>2. r[i] = q[k] /\ r[i + 1] = q[k + 1]
      BY <1>6, <3>1
    <3>3. LineIn(q[k], q[k + 1], S)
      BY <3>1 DEF ClearWay
    <3> QED
      BY <3>2, <3>3
  <2> QED
    BY <2>1, <2>2
<1>10. ClearWay(r, S, a, b)
  BY <1>4, <1>8, <1>9 DEF ClearWay
<1> QED
  BY <1>2, <1>10

\* The free cell nearest to an open cell is the cell itself.
LEMMA NearestIsItself ==
    ASSUME NEW cs, NEW c \in Open(cs), NEW d \in NearestFreeCell(cs, c)
    PROVE  d = c
<1> DEFINE free(r) == Ring(c, r) \cap Open(cs)
           rings == {r \in 0 .. SnapRadius : free(r) # {}}
           nearest(S) == {x \in S : \A y \in S : D2(x, c) <= D2(y, c)}
<1>1. c \in Cells
  BY DEF Open
<1>2. Ring(c, 0) = {c}
  <2>1. ASSUME NEW x \in Cells PROVE Larger(Abs(x[1] - c[1]), Abs(x[2] - c[2])) = 0 <=> x = c
    <3>1. /\ c = <<c[1], c[2]>> /\ x = <<x[1], x[2]>>
          /\ c[1] \in Int /\ c[2] \in Int /\ x[1] \in Int /\ x[2] \in Int
      BY <1>1, SpanIs
    <3>2. Larger(Abs(x[1] - c[1]), Abs(x[2] - c[2])) = 0 <=> x[1] = c[1] /\ x[2] = c[2]
      BY <3>1 DEF Larger, Abs
    <3> QED
      BY <3>1, <3>2
  <2> QED
    BY <1>1, <2>1 DEF Ring
<1>3. 0 \in rings
  <2>1. 0 \in 0 .. SnapRadius
    BY GridAssumption
  <2> QED
    BY <1>2, <2>1
<1>4. SetMin(rings) = 0
  <2>1. rings \subseteq Nat
    OBVIOUS
  <2> HIDE DEF rings
  <2>2. \A m \in rings : (\A n \in rings : m <= n) <=> m = 0
    BY <1>3, <2>1
  <2> QED
    BY <1>3, <2>2 DEF SetMin
<1>5. d \in free(SetMin(rings))
  BY <1>3 DEF NearestFreeCell
<1> HIDE DEF rings
<1> QED
  BY <1>2, <1>4, <1>5

-----------------------------------------------------------------------------
(* The tree of the search *)

\* The parents lead to the start: along them a rank falls, with A* the cost.
Rooted ==
    \E h : Ranked(DOMAIN g, from, parent, h) /\ h[from] = 0 /\ (job.alg # "theta" => h = g)

\* The start is expanded first.
StartFirst == from \in closed \/ \A e \in queue : e.cell = from

\* What is known of the parents while the search goes on.
TreeHolds == Rooted /\ StartFirst /\ DOMAIN parent = Cells

\* A search begins with its start alone.
LEMMA PrepareTree ==
    ASSUME Prepare
    PROVE  TreeHolds'
<1>1. from' \in Open(costs')
  BY StartIsOpen DEF Prepare
<1>2. from' \in Cells
  BY <1>1 DEF Open
<1>3. Ranked(DOMAIN g', from', parent', g') /\ g'[from'] = 0
  BY <1>2 DEF Prepare, Ranked
<1>4. Rooted'
  BY <1>3 DEF Rooted
<1>5. StartFirst' /\ DOMAIN parent' = Cells
  BY DEF Prepare, StartFirst
<1> QED
  BY <1>4, <1>5 DEF TreeHolds

\* The parent with which a cell is expanded: the start's own, and for every
\* other cell one that is expanded already.
LEMMA SettledHasRoot ==
    ASSUME SearchHolds, NEW h, Ranked(DOMAIN g, from, parent, h), NEW s \in Open(costs), s \in DOMAIN g,
           NEW v \in Settled(s)
    PROVE  /\ s = from => v.parent = from
           /\ s # from => v.parent \in closed /\ v.parent # s
<1>1. s \in Cells /\ v.parent \in closed \cup {s}
  BY SettledIsJoined DEF Open
<1>2. CASE s = from
  <2>1. parent[s] = s
    BY <1>2 DEF Ranked
  <2>2. v.parent = parent[s]
    BY <2>1 DEF Settled, SetVertex
  <2> QED
    BY <1>2, <2>1, <2>2
<1>3. CASE s # from
  <2>1. parent[s] # s
    <3>1. h[parent[s]] < h[s] /\ h[s] \in Nat
      BY <1>3 DEF Ranked
    <3> QED
      BY <3>1
  <2>2. v.parent = parent[s] \/ v.parent \in Near(s)
    BY DEF Settled, SetVertex, Cheapest
  <2>3. v.parent # s
    BY <1>1, <2>1, <2>2, NearIsMutual
  <2> QED
    BY <1>1, <1>3, <2>3
<1> QED
  BY <1>2, <1>3

\* The parent of an expanded cell, the start apart, is expanded.
LEMMA ParentsAreExpanded ==
    ASSUME SearchHolds, NEW h, Ranked(DOMAIN g, from, parent, h), NEW n \in DOMAIN g, n # from
    PROVE  parent[n] \in closed /\ parent[n] \in DOMAIN g /\ h[parent[n]] < h[n] /\ parent[n] # n
<1>1. n \in Cells /\ parent[n] \in DOMAIN g /\ h[parent[n]] < h[n] /\ h[n] \in Nat
  BY DEF Ranked
<1>2. Anchored(n)
  BY <1>1 DEF SearchHolds, ParentsAnchored
<1>3. parent[n] # n
  BY <1>1
<1> QED
  BY <1>1, <1>2, <1>3 DEF Anchored

\* Expanding a cell keeps the parents leading to the start.
LEMMA ExpandTree ==
    ASSUME \A c \in Cells : costs[c] \in Nat, SearchHolds, TreeHolds, NEW e \in queue, Expand(e)
    PROVE  TreeHolds'
<1> DEFINE s == e.cell
<1>1. PICK v \in Settled(s) :
        LET gs == [g EXCEPT ![s] = v.g]
            better == Improved(gs, s, v.parent)
            offer(n) == Offer(gs, s, v.parent, n)
        IN /\ g' = [n \in DOMAIN g \cup better |-> IF n \in better THEN offer(n) ELSE gs[n]]
           /\ parent' = [n \in Cells |-> IF n \in better THEN From(s, v.parent)
                                         ELSE IF n = s THEN v.parent ELSE parent[n]]
  BY DEF Expand
<1> DEFINE gs == [g EXCEPT ![s] = v.g]
           better == Improved(gs, s, v.parent)
           p == v.parent
<1>2. PICK h : Ranked(DOMAIN g, from, parent, h) /\ h[from] = 0 /\ (job.alg # "theta" => h = g)
  BY DEF TreeHolds, Rooted
<1>3. s \in Open(costs) /\ s \in Cells /\ s \in DOMAIN g
  BY DEF SearchHolds, ExpandedOpen, Open, QueueKnown
<1>4. closed' = closed \cup {s} /\ ~Stale(e) /\ UNCHANGED <<job, costs, from, to>>
  BY DEF Expand, Task
<1>5. /\ s = from => p = from
      /\ s # from => p \in closed /\ p # s
  BY <1>2, <1>3, SettledHasRoot
<1>6. better \subseteq Near(s) \cap Cells /\ (job.alg = "theta" => better \cap closed = {})
  BY DEF Improved, Open
<1>7. /\ DOMAIN g' = DOMAIN g \cup better
      /\ \A n \in DOMAIN g' : g'[n] = IF n \in better THEN Offer(gs, s, p, n) ELSE gs[n]
      /\ \A n \in Cells : parent'[n] = IF n \in better THEN From(s, p) ELSE IF n = s THEN p ELSE parent[n]
  BY <1>1
<1>8. s \notin better
  BY <1>3, <1>6, NearIsMutual
<1>9. from \in DOMAIN g /\ DOMAIN g \subseteq Cells /\ parent[from] = from /\ h \in [DOMAIN g -> Nat]
  BY <1>2 DEF Ranked
<1>10. closed \subseteq DOMAIN g
  BY DEF SearchHolds, NeighboursKnown
<1>11. ASSUME NEW n \in DOMAIN g, n # from
       PROVE  parent[n] \in closed /\ parent[n] \in DOMAIN g /\ h[parent[n]] < h[n] /\ parent[n] # n
  BY <1>2, <1>11, ParentsAreExpanded
<1>12. StartFirst' /\ DOMAIN parent' = Cells
  <2>1. DOMAIN parent' = Cells
    BY <1>1
  <2> QED
    BY <1>4, <2>1 DEF TreeHolds, StartFirst
<1>13. CASE job.alg = "theta"
  <2>1. s \in open /\ s \notin closed
    BY <1>4, <1>13 DEF Stale, SearchHolds, ExpandedOnce
  <2>2. from \notin better
    <3>1. from \in closed \/ s = from
      BY DEF TreeHolds, StartFirst
    <3> QED
      BY <3>1, <1>6, <1>8, <1>13
  <2>3. p \in DOMAIN g /\ p \notin better /\ (p = s => s = from)
    BY <1>3, <1>5, <1>6, <1>8, <1>10, <1>13
  <2>4. From(s, p) = p
    BY <1>13 DEF From
  <2> DEFINE changed == (better \cup {s}) \ {from}
             d == DOMAIN g'
             hh == [n \in d |-> IF n \in changed THEN h[p] + 1 ELSE h[n]]
  <2>5. d = DOMAIN g \cup better /\ p \notin changed /\ from \notin changed /\ s \in DOMAIN g
    BY <1>3, <1>7, <2>3
  <2>6. changed \subseteq better \cup {s} /\ \A n \in better \cup {s} : n # from => n \in changed
    OBVIOUS
  <2>7. from \in d /\ p \in d /\ d \subseteq Cells
    BY <1>6, <1>9, <2>3, <2>5
  <2>8. \A n \in Cells : parent'[n] = IF n \in better THEN p ELSE IF n = s THEN p ELSE parent[n]
    BY <1>7, <2>4
  <2> HIDE DEF changed, p, s, better, gs, d
  <2>9. \A n \in d : n \notin changed => n \in DOMAIN g \/ n = from
    BY <2>5, <2>6
  <2>10. hh \in [d -> Nat]
    BY <1>9, <2>3, <2>9
  <2>11. hh[from] = 0 /\ hh[p] = h[p] /\ h[p] \in Nat
    BY <1>2, <1>9, <2>3, <2>5, <2>7
  <2>12. parent'[from] = from
    BY <1>5, <1>9, <2>2, <2>8
  <2>13. ASSUME NEW n \in d, n # from PROVE parent'[n] \in d /\ hh[parent'[n]] < hh[n]
    <3>1. CASE n \in changed
      <4>1. parent'[n] = p
        BY <2>6, <2>7, <2>8, <3>1
      <4>2. hh[n] = h[p] + 1
        BY <3>1
      <4> QED
        BY <2>7, <2>11, <4>1, <4>2
    <3>2. CASE n \notin changed
      <4>1. n \notin better /\ n # s /\ n \in DOMAIN g
        BY <2>6, <2>9, <2>13, <3>2
      <4>2. parent'[n] = parent[n]
        BY <2>7, <2>8, <4>1
      <4>3. parent[n] \in closed /\ parent[n] \in DOMAIN g /\ h[parent[n]] < h[n]
        BY <1>11, <2>13, <4>1
      <4>4. parent[n] \notin changed /\ parent[n] \in d
        BY <1>6, <1>13, <2>1, <2>5, <2>6, <4>3
      <4>5. hh[parent[n]] = h[parent[n]] /\ hh[n] = h[n]
        BY <3>2, <4>4
      <4> QED
        BY <4>2, <4>3, <4>4, <4>5
    <3> QED
      BY <3>1, <3>2
  <2> HIDE DEF hh
  <2>14. Ranked(DOMAIN g', from', parent', hh)
    BY <1>4, <2>7, <2>10, <2>12, <2>13 DEF Ranked, d
  <2>15. Rooted'
    BY <1>4, <1>13, <2>11, <2>14 DEF Rooted
  <2> QED
    BY <1>12, <2>15 DEF TreeHolds
<1>14. CASE job.alg # "theta"
  <2>1. h = g /\ v.g = g[s] /\ p = parent[s]
    BY <1>2, <1>14 DEF Settled
  <2>2. gs = g
    BY <1>3, <2>1, <1>9
  <2>3. \A n \in better : From(s, p) = s /\ Offer(gs, s, p, n) = g[s] + CellStepCost(costs, s, n)
    BY <1>14, <2>2 DEF From, Offer
  <2>4. \A n \in better : CellStepCost(costs, s, n) \in Nat \ {0}
    BY <1>3, <1>6, StepsCost
  <2>5. \A n \in better : n \notin DOMAIN g \/ Offer(gs, s, p, n) < g[n]
    BY <2>2 DEF Improved
  <2> DEFINE offer(n) == Offer(gs, s, p, n)
  <2> HIDE DEF p, s, better, gs, offer
  <2>6. \A n \in better : offer(n) \in Nat /\ g[s] < offer(n)
    BY <1>3, <1>9, <2>1, <2>3, <2>4 DEF offer
  <2>7. \A n \in DOMAIN g' : g'[n] = IF n \in better THEN offer(n) ELSE g[n]
    BY <1>7, <2>2 DEF offer
  <2>8. g \in [DOMAIN g -> Nat] /\ g[from] = 0
    BY <1>2, <1>9, <2>1
  <2>9. from \notin better
    BY <1>9, <2>5, <2>6, <2>8 DEF offer
  <2>10. \A n \in DOMAIN g : g'[n] <= g[n]
    BY <1>7, <2>5, <2>6, <2>7, <2>8 DEF offer
  <2>11. DOMAIN g' \subseteq Cells /\ from \in DOMAIN g' /\ g'[from] = 0 /\ parent'[from] = from
    BY <1>5, <1>6, <1>7, <1>9, <2>7, <2>8, <2>9
  <2>12. \A n \in DOMAIN g' : g'[n] \in Nat
    BY <1>7, <2>6, <2>7, <2>8
  <2>13. g' \in [DOMAIN g' -> Nat]
    <3>1. g' = [n \in DOMAIN g' |-> g'[n]]
      BY <1>1
    <3> HIDE DEF p
    <3> QED
      BY <2>12, <3>1
  <2>14. ASSUME NEW n \in DOMAIN g', n # from PROVE parent'[n] \in DOMAIN g' /\ g'[parent'[n]] < g'[n]
    <3>1. CASE n \in better
      <4>1. parent'[n] = s /\ g'[s] = g[s] /\ g'[n] = offer(n)
        BY <1>3, <1>6, <1>7, <1>8, <2>3, <2>7, <3>1
      <4> QED
        BY <1>3, <1>7, <2>6, <3>1, <4>1
    <3>2. CASE n \notin better
      <4>1. n \in DOMAIN g /\ parent'[n] = parent[n] /\ g'[n] = g[n]
        BY <1>7, <1>9, <2>1, <2>7, <3>2
      <4>2. parent[n] \in DOMAIN g /\ g[parent[n]] < g[n]
        BY <1>11, <2>1, <2>14, <4>1
      <4>3. g'[parent[n]] <= g[parent[n]] /\ g'[parent[n]] \in Nat /\ parent[n] \in DOMAIN g'
        BY <1>7, <2>10, <2>12, <4>2
      <4> QED
        BY <2>8, <4>1, <4>2, <4>3
    <3> QED
      BY <3>1, <3>2
  <2>15. Ranked(DOMAIN g', from', parent', g')
    BY <1>4, <2>11, <2>13, <2>14 DEF Ranked
  <2>16. Rooted'
    BY <1>4, <2>11, <2>15 DEF Rooted
  <2> QED
    BY <1>12, <2>16 DEF TreeHolds
<1> QED
  BY <1>13, <1>14

\* Dropping a stale entry changes no parent.
LEMMA SkipTree ==
    ASSUME TreeHolds, NEW e \in queue, SkipStale(e)
    PROVE  TreeHolds'
BY DEF TreeHolds, Rooted, StartFirst, Ranked, SkipStale, Task

\* The goal that is taken from the queue: its parents, read back to the start,
\* are cells that see or touch each other.
LEMMA ReachStrings ==
    ASSUME SearchHolds, TreeHolds, NEW e \in queue, Reach(e)
    PROVE  Strung(route)' /\ route'[1] = from' /\ route'[Len(route')] = to'
<1>1. e.cell = to /\ UNCHANGED <<job, costs, from, to, closed>> /\ route' = Reconstruct(parent')
  BY DEF Reach, Task
<1>2. PICK v \in Settled(to) : parent' = [parent EXCEPT ![to] = v.parent]
  BY DEF Reach
<1>3. PICK h : Ranked(DOMAIN g, from, parent, h)
  BY DEF TreeHolds, Rooted
<1>4. to \in Open(costs) /\ to \in DOMAIN g /\ to \in Cells /\ to \notin closed
  BY <1>1 DEF SearchHolds, ExpandedOpen, QueueKnown, Open, GoalNotExpanded
<1> DEFINE p == v.parent
           par == parent'
           K == closed \cup {to}
<1>5. /\ to = from => p = from
      /\ to # from => p \in closed /\ p # to
  BY <1>2, <1>3, <1>4, SettledHasRoot
<1>6. closed \subseteq DOMAIN g /\ K \subseteq Open(costs) /\ K \subseteq Cells
  BY <1>4 DEF SearchHolds, NeighboursKnown, ExpandedOpen, Open
<1>7. from \in K
  BY <1>1 DEF TreeHolds, StartFirst
<1>8. /\ \A n \in closed : par[n] = parent[n]
      /\ to # from => par[to] = p
      /\ to = from => par[to] = from
  <2>1. \A n \in closed : n # to
    BY <1>4
  <2>2. to = from => parent[to] = to /\ par = [parent EXCEPT ![to] = to]
    BY <1>2, <1>3, <1>5 DEF Ranked
  <2>3. to \in DOMAIN parent
    BY <1>4 DEF TreeHolds
  <2> QED
    BY <2>1, <2>2, <2>3, <1>2
<1>9. \A n \in closed : n # from => parent[n] \in closed /\ h[parent[n]] < h[n]
  BY <1>3, <1>6, ParentsAreExpanded
<1>10. parent[from] = from /\ h \in [DOMAIN g -> Nat]
  BY <1>3 DEF Ranked
<1> DEFINE hh == [n \in K |-> IF n = to /\ to # from THEN h[p] + 1 ELSE h[n]]
<1>11. Ranked(K, from, par, hh)
  <2> HIDE DEF p, par
  <2>1. hh \in [K -> Nat]
    BY <1>4, <1>5, <1>6, <1>10
  <2>2. ASSUME NEW n \in K PROVE IF n = from THEN par[n] = n ELSE par[n] \in K /\ hh[par[n]] < hh[n]
    <3>1. CASE n = from
      BY <1>8, <1>10, <3>1
    <3>2. CASE n # from /\ n \in closed
      <4>1. par[n] \in closed /\ h[par[n]] < h[n] /\ n # to /\ par[n] # to
        BY <1>4, <1>8, <1>9, <3>2
      <4> QED
        BY <3>2, <4>1
    <3>3. CASE n # from /\ n = to
      <4>1. par[n] = p /\ p \in closed /\ p # to
        BY <1>5, <1>8, <3>3
      <4>2. hh[p] = h[p] /\ hh[n] = h[p] + 1 /\ h[p] \in Nat
        BY <1>6, <1>10, <3>3, <4>1
      <4> QED
        BY <3>3, <4>1, <4>2
    <3> QED
      BY <3>1, <3>2, <3>3
  <2> QED
    BY <1>6, <1>7, <2>1, <2>2 DEF Ranked
<1>12. \A c \in K : Joined(par[c], c)
  <2>1. \A c \in closed : Joined(parent[c], c)
    BY DEF SearchHolds, ParentsJoined
  <2>2. Joined(p, to)
    BY <1>2, <1>4, SettledIsJoined
  <2>3. par[to] = p
    BY <1>5, <1>8
  <2> HIDE DEF p, par
  <2> QED
    BY <1>8, <2>1, <2>2, <2>3
<1> HIDE DEF p, par, hh
<1> DEFINE r == Reconstruct(par)
<1>13. /\ r \in Seq(K) /\ Len(r) \in Nat \ {0} /\ r[1] = from /\ r[Len(r)] = to
       /\ \A i \in 1 .. Len(r) - 1 : r[i] = par[r[i + 1]]
  BY <1>11, ReconstructLeads
<1> HIDE DEF r
<1>14. r \in Seq(Open(costs)) /\ \A i \in 1 .. Len(r) : r[i] \in K
  <2>1. Len(r) \in Nat
    BY <1>13
  <2> HIDE DEF K
  <2> QED
    BY <1>6, <1>13, <2>1
<1>15. ASSUME NEW i \in 1 .. Len(r) - 1
       PROVE  r[i + 1] = r[i] \/ r[i + 1] \in Near(r[i]) \/ LineOfSight(costs, r[i], r[i + 1])
  <2>1. r[i + 1] \in K /\ i + 1 \in 1 .. Len(r)
    BY <1>13, <1>14
  <2>2. Joined(r[i], r[i + 1])
    BY <1>12, <1>13, <2>1
  <2>3. r[i] \in Near(r[i + 1]) => r[i + 1] \in Near(r[i])
    BY <1>6, <2>1, NearIsMutual
  <2> QED
    BY <2>2, <2>3 DEF Joined
<1>16. Strung(r)
  BY <1>13, <1>14, <1>15 DEF Strung
<1>17. route' = r
  BY <1>1 DEF r, par
<1>18. Strung(route)'
  BY <1>1, <1>16, <1>17 DEF Strung
<1> QED
  BY <1>1, <1>13, <1>17, <1>18

-----------------------------------------------------------------------------
(* The path that is handed over *)

\* What is open on one costmap and on another: a way on the first is one on
\* the second.
LEMMA WayWidens ==
    ASSUME NEW S, NEW T, S \subseteq T, NEW a, NEW b, NEW p, ClearWay(p, S, a, b)
    PROVE  ClearWay(p, T, a, b)
<1>1. p \in Seq(T)
  BY DEF ClearWay
<1>2. \A i \in 1 .. Len(p) - 1 : LineIn(p[i], p[i + 1], T)
  BY DEF ClearWay, LineIn
<1> QED
  BY <1>1, <1>2 DEF ClearWay

\* The single point of a way, taken twice.
LEMMA TwiceIsClear ==
    ASSUME NEW S, S \subseteq Cells, NEW a, NEW b, NEW p, ClearWay(p, S, a, b), Len(p) = 1
    PROVE  ClearWay(p \o p, S, a, b)
<1>1. p \in Seq(S) /\ p[1] = a /\ p[1] = b
  BY DEF ClearWay
<1>2. p[1] \in S
  BY <1>1
<1>3. p \o p \in Seq(S) /\ Len(p \o p) = 2 /\ (p \o p)[1] = a /\ (p \o p)[2] = a
  <2>1. /\ p \o p \in Seq(S)
        /\ Len(p \o p) = Len(p) + Len(p)
        /\ \A i \in 1 .. Len(p) + Len(p) : (p \o p)[i] = IF i <= Len(p) THEN p[i] ELSE p[i - Len(p)]
    BY <1>1, ConcatProperties, Zenon
  <2> QED
    BY <1>1, <2>1
<1>4. LineIn(a, a, S)
  <2>1. a \in S /\ a \in Cells
    BY <1>1, <1>2
  <2>2. \A k \in DOMAIN Line[<<a, a>>] : Line[<<a, a>>][k] \in {a, a}
    BY <2>1, ShortLine, Zenon
  <2> QED
    BY <2>1, <2>2, Zenon DEF LineIn
<1> DEFINE r == p \o p
<1>5. r \in Seq(S) /\ Len(r) = 2 /\ r[1] = a /\ r[2] = a
  BY <1>3
<1> HIDE DEF r
<1>6. Len(r) \in Nat \ {0} /\ r[Len(r)] = b
  <2>1. a = b
    BY <1>1, Zenon
  <2>2. r[Len(r)] = r[2]
    BY <1>5, Zenon
  <2> QED
    BY <1>5, <2>1, <2>2
<1>7. ASSUME NEW i \in 1 .. Len(r) - 1 PROVE LineIn(r[i], r[i + 1], S)
  <2>1. i = 1 /\ i + 1 = 2
    BY <1>5
  <2>2. r[i] = a /\ r[i + 1] = a
    BY <1>5, <2>1
  <2> QED
    BY <1>4, <2>2
<1>8. ClearWay(r, S, a, b)
  BY <1>5, <1>6, <1>7 DEF ClearWay
<1> QED
  BY <1>8 DEF r

\* The points of a leg are a clear way from its start to its goal.
LEMMA PointsAreClear ==
    ASSUME \A c \in Cells : costs[c] \in Nat, Strung(route)
    PROVE  ClearWay(Points, Open(costs), route[1], route[Len(route)])
<1> DEFINE S == Open(costs)
           a == route[1]
           b == route[Len(route)]
           cells == Simplify(RepairCellPath(route))
<1>1. Leads(RepairCellPath(route), S, a, b)
  BY RepairWalks
<1>2. S \subseteq Cells
  BY DEF Open
<1> HIDE DEF S, a, b
<1>3. ClearWay(cells, S, a, b)
  BY <1>1, <1>2, SimplifyIsClear
<1>4. Points = IF Len(cells) = 1 THEN cells \o cells ELSE cells
  BY DEF Points
<1> HIDE DEF cells
<1>5. ClearWay(Points, S, a, b)
  <2>1. CASE Len(cells) = 1
    <3>1. ClearWay(cells \o cells, S, a, b)
      BY <1>2, <1>3, <2>1, TwiceIsClear
    <3> QED
      BY <1>4, <2>1, <3>1
  <2>2. CASE Len(cells) # 1
    BY <1>3, <1>4, <2>2
  <2> QED
    BY <2>1, <2>2
<1> QED
  BY <1>5 DEF S, a, b

\* What the smoother makes of a clear way on the main or on the bridge's costs.
LEMMA SmoothedIsClear ==
    ASSUME job \in Jobs, NEW a, NEW b, NEW points, ClearWay(points, Open(PlanCosts(job, "bridge")), a, b)
    PROVE  LET r == ShortcutSmooth(SmoothCosts, points)
               S == Open(PlanCosts(job, "bridge"))
           IN /\ r \in Seq(S) /\ Len(r) \in Nat \ {0} /\ r[1] = a
              /\ \A i \in 1 .. Len(r) - 1 : LineIn(r[i], r[i + 1], S)
<1> DEFINE cs == PlanCosts(job, "main")
           S == Open(PlanCosts(job, "bridge"))
<1>1. \A c \in Cells : cs[c] \in Nat
  BY CostsAreNatural
<1>2. Open(cs) \subseteq S /\ S \subseteq Cells
  BY BridgeIsAsOpen DEF Open
<1> HIDE DEF cs, S
<1>3. ClearWay(points, S, a, b)
  BY DEF S
<1>4. LET r == ShortcutSmooth(cs, points) IN
      /\ r \in Seq(S) /\ Len(r) \in Nat \ {0} /\ r[1] = a
      /\ \A i \in 1 .. Len(r) - 1 : LineIn(r[i], r[i + 1], S)
  BY <1>1, <1>2, <1>3, SmoothIsClear, Zenon
<1> QED
  BY <1>4 DEF cs, S, SmoothCosts

\* What is known of the leg that is being planned, of the main leg's path while
\* the bridge is planned, and of the path that is handed over.
LegTypes == job \in Jobs /\ leg \in {"main", "bridge"}
CostsAreTheLegs ==
    stage \in {"search", "found", "done"} =>
        costs = PlanCosts(job, leg) /\ from \in StartCells(costs, job.pose)
MainIsClear == leg = "bridge" => \E b : ClearWay(main, Open(PlanCosts(job, "main")), main[1], b)
BridgeEndsAtMain == leg = "bridge" /\ stage \in {"search", "found"} => to = main[1]
FoundIsStrung == stage = "found" => Strung(route) /\ route[1] = from /\ route[Len(route)] = to
HandedIsClear ==
    stage = "done" =>
        /\ route[1] = from
        /\ \A i \in 1 .. Len(route) - 1 : LineIn(route[i], route[i + 1], Open(PlanCosts(job, "bridge")))

LegHolds ==
    LegTypes /\ CostsAreTheLegs /\ MainIsClear /\ BridgeEndsAtMain /\ FoundIsStrung /\ HandedIsClear

\* The invariant on which the theorem below rests, next to that of the search.
PathIInv == LegHolds /\ (stage = "search" => TreeHolds)

\* Costs of a leg are costs of the code: none is negative.
LEMMA LegCosts ==
    ASSUME LegHolds, stage \in {"search", "found"}
    PROVE  costs = PlanCosts(job, leg) /\ \A c \in Cells : costs[c] \in Nat
<1>1. costs = PlanCosts(job, leg) /\ job \in Jobs
  BY DEF LegHolds, LegTypes, CostsAreTheLegs
<1> QED
  BY <1>1, CostsAreNatural

\* The points of the leg that was found, on the costs it was planned on.
LEMMA LegIsClear ==
    ASSUME LegHolds, stage = "found"
    PROVE  ClearWay(Points, Open(PlanCosts(job, leg)), from, to)
<1>1. costs = PlanCosts(job, leg) /\ \A c \in Cells : costs[c] \in Nat
  BY LegCosts
<1>2. Strung(route) /\ route[1] = from /\ route[Len(route)] = to
  BY DEF LegHolds, FoundIsStrung
<1>3. ClearWay(Points, Open(costs), route[1], route[Len(route)])
  BY <1>1, <1>2, PointsAreClear
<1> QED
  BY <1>1, <1>2, <1>3

\* A leg begins on its own costs, and the bridge ends where the main leg begins.
LEMMA PrepareLeg ==
    ASSUME LegHolds, Prepare
    PROVE  LegHolds'
<1>1. stage' = "search" /\ UNCHANGED <<job, leg, main, route>>
  BY DEF Prepare, Task
<1>2. costs' = PlanCosts(job, leg) /\ from' \in StartCells(costs', job.pose) /\ to' \in NearestFreeCell(costs', Target)
  BY DEF Prepare
<1>3. ASSUME leg = "bridge" PROVE to' = main[1]
  <2>1. PICK b : ClearWay(main, Open(PlanCosts(job, "main")), main[1], b)
    BY <1>3 DEF LegHolds, MainIsClear
  <2>2. main[1] \in Open(PlanCosts(job, "main"))
    BY <2>1 DEF ClearWay
  <2>3. job \in Jobs
    BY DEF LegHolds, LegTypes
  <2>4. main[1] \in Open(costs')
    BY <1>2, <1>3, <2>2, <2>3, BridgeIsAsOpen
  <2>5. Target = main[1]
    BY <1>3 DEF Target
  <2> QED
    BY <1>2, <2>4, <2>5, NearestIsItself
<1> QED
  BY <1>1, <1>2, <1>3 DEF LegHolds, LegTypes, CostsAreTheLegs, MainIsClear, BridgeEndsAtMain, FoundIsStrung,
       HandedIsClear

\* The main leg's path is clear on the main leg's costs.
LEMMA ConnectLeg ==
    ASSUME LegHolds, Connect
    PROVE  LegHolds'
<1>1. /\ stage = "found" /\ stage' = "prepare" /\ leg = "main" /\ leg' = "bridge" /\ main' = Points
      /\ UNCHANGED job
  BY DEF Connect, NeedsBridge
<1>2. ClearWay(Points, Open(PlanCosts(job, "main")), from, to)
  BY <1>1, LegIsClear
<1>3. Points[1] = from
  BY <1>2 DEF ClearWay
<1>4. \E b : ClearWay(main', Open(PlanCosts(job', "main")), main'[1], b)
  BY <1>1, <1>2, <1>3
<1> QED
  BY <1>1, <1>4 DEF LegHolds, LegTypes, CostsAreTheLegs, MainIsClear, BridgeEndsAtMain, FoundIsStrung,
       HandedIsClear

\* The path that is handed over is clear on the live map.
LEMMA FinishLeg ==
    ASSUME LegHolds, Finish
    PROVE  LegHolds'
<1> DEFINE S == Open(PlanCosts(job, "bridge"))
           whole == IF leg = "bridge" THEN MergePathPrefix(Points, main) ELSE Points
<1>1. /\ stage = "found" /\ stage' = "done" /\ route' = ShortcutSmooth(SmoothCosts, whole)
      /\ UNCHANGED <<job, leg, main, costs, from, to>>
  BY DEF Finish, Task
<1>2. job \in Jobs /\ leg \in {"main", "bridge"}
  BY DEF LegHolds, LegTypes
<1>3. Open(PlanCosts(job, "main")) \subseteq S
  BY <1>2, BridgeIsAsOpen
<1>4. ClearWay(Points, Open(PlanCosts(job, leg)), from, to)
  BY <1>1, LegIsClear
<1>5. \E b : ClearWay(whole, S, from, b)
  <2>1. CASE leg = "main"
    <3>1. ClearWay(Points, S, from, to)
      BY <1>3, <1>4, <2>1, WayWidens
    <3> QED
      BY <2>1, <3>1
  <2>2. CASE leg = "bridge"
    <3>1. PICK b : ClearWay(main, Open(PlanCosts(job, "main")), main[1], b)
      BY <2>2 DEF LegHolds, MainIsClear
    <3>2. ClearWay(main, S, main[1], b)
      BY <1>3, <3>1, WayWidens
    <3>3. to = main[1]
      BY <1>1, <2>2 DEF LegHolds, BridgeEndsAtMain
    <3>4. ClearWay(Points, S, from, main[1])
      BY <1>4, <2>2, <3>3
    <3>5. ClearWay(MergePathPrefix(Points, main), S, from, b)
      BY <3>2, <3>4, MergeIsClear
    <3> QED
      BY <2>2, <3>5
  <2> QED
    BY <1>2, <2>1, <2>2
<1> HIDE DEF whole
<1>6. PICK b : ClearWay(whole, S, from, b)
  BY <1>5
<1>7. LET r == ShortcutSmooth(SmoothCosts, whole) IN
      /\ r \in Seq(S) /\ Len(r) \in Nat \ {0} /\ r[1] = from
      /\ \A i \in 1 .. Len(r) - 1 : LineIn(r[i], r[i + 1], S)
  BY <1>2, <1>6, SmoothedIsClear, Zenon
<1>8. route'[1] = from' /\ \A i \in 1 .. Len(route') - 1 : LineIn(route'[i], route'[i + 1], Open(PlanCosts(job', "bridge")))
  BY <1>1, <1>7
<1> QED
  BY <1>1, <1>8 DEF LegHolds, LegTypes, CostsAreTheLegs, MainIsClear, BridgeEndsAtMain, FoundIsStrung,
       HandedIsClear

\* Every step of a plan keeps what is known of its legs and of its tree.
LEMMA PathStep ==
    ASSUME SearchIInv, PathIInv, [PlanNext]_planVars
    PROVE  PathIInv'
<1> USE DEF LegHolds, LegTypes, CostsAreTheLegs, MainIsClear, BridgeEndsAtMain, FoundIsStrung, HandedIsClear
<1>1. CASE Refuse
  BY <1>1 DEF Refuse, Task, PathIInv
<1>2. CASE Prepare
  <2> HIDE DEF LegHolds
  <2> QED
    BY <1>2, PrepareLeg, PrepareTree DEF PathIInv
<1>3. CASE Pop
  <2>1. stage = "search" /\ SearchHolds /\ TreeHolds /\ LegHolds
    BY <1>3 DEF Pop, SearchIInv, PathIInv
  <2>2. PICK e \in queue : SkipStale(e) \/ Expand(e) \/ Reach(e)
    BY <1>3 DEF Pop
  <2>3. CASE SkipStale(e)
    <3>1. TreeHolds'
      BY <2>1, <2>3, SkipTree
    <3>2. LegHolds'
      BY <2>1, <2>3 DEF SkipStale, Task
    <3> QED
      BY <3>1, <3>2 DEF PathIInv
  <2>4. CASE Expand(e)
    <3>1. TreeHolds'
      <4>1. \A c \in Cells : costs[c] \in Nat
        BY <2>1, LegCosts
      <4> QED
        BY <2>1, <2>4, <4>1, ExpandTree
    <3>2. LegHolds'
      BY <2>1, <2>4 DEF Expand, Task
    <3> QED
      BY <3>1, <3>2 DEF PathIInv
  <2>5. CASE Reach(e)
    <3>1. Strung(route)' /\ route'[1] = from' /\ route'[Len(route')] = to'
      BY <2>1, <2>5, ReachStrings
    <3>2. stage' = "found" /\ UNCHANGED <<job, leg, main, costs, from, to>>
      BY <2>5 DEF Reach, Task
    <3> QED
      BY <2>1, <3>1, <3>2 DEF PathIInv
  <2> QED
    BY <2>2, <2>3, <2>4, <2>5
<1>4. CASE Exhausted
  BY <1>4 DEF Exhausted, Task, PathIInv
<1>5. CASE Connect
  <2>1. stage' = "prepare"
    BY <1>5 DEF Connect
  <2> HIDE DEF LegHolds
  <2> QED
    BY <1>5, <2>1, ConnectLeg DEF PathIInv
<1>6. CASE Finish
  <2>1. stage' = "done"
    BY <1>6 DEF Finish
  <2> HIDE DEF LegHolds
  <2> QED
    BY <1>6, <2>1, FinishLeg DEF PathIInv
<1>7. CASE UNCHANGED planVars
  BY <1>7 DEF planVars, PathIInv, TreeHolds, Rooted, StartFirst, Ranked, Strung
<1> QED
  BY <1>1, <1>2, <1>3, <1>4, <1>5, <1>6, <1>7 DEF PlanNext

\* On every grid, with either planner and whatever the map, the live obstacles
\* and the blocked route: the path that the search hands on has no jumps, so
\* leaving out the repair planning costs nothing, and the path that is handed to
\* the follower begins where the robot can stand and runs only through cells that
\* the live map leaves open, after chords were filled in, straight stretches
\* simplified, a bridge put in front and the whole pulled straight.
\* (_reconstruct, _repair_cell_path, _simplify, connect_plan_start,
\* _merge_path_prefix, _shortcut_smooth)
THEOREM PathsAreClear == PlanSpec => []PathClear
<1>1. PlanInit => PathIInv
  BY DEF PlanInit, PathIInv, LegHolds, LegTypes, CostsAreTheLegs, MainIsClear, BridgeEndsAtMain, FoundIsStrung,
       HandedIsClear
<1>2. SearchIInv /\ PathIInv /\ [PlanNext]_planVars => PathIInv'
  BY PathStep
<1>3. PathIInv => PathClear
  <2> SUFFICES ASSUME PathIInv PROVE PathClear
    OBVIOUS
  <2>1. ASSUME stage = "found" PROVE ~HasGap(route)
    <3>1. Strung(route)
      BY <2>1 DEF PathIInv, LegHolds, FoundIsStrung
    <3> QED
      BY <3>1 DEF HasGap, Strung
  <2>2. ASSUME stage = "done"
        PROVE  /\ route[1] \in StartCells(costs, job.pose)
               /\ \A i \in 1 .. Len(route) - 1 : LineIn(route[i], route[i + 1], Open(PlanCosts(job, "bridge")))
    BY <2>2 DEF PathIInv, LegHolds, CostsAreTheLegs, HandedIsClear
  <2> QED
    BY <2>1, <2>2 DEF PathClear, LineIn
<1> QED
  BY <1>1, <1>2, <1>3, SearchInductive, PTL DEF PlanSpec

-----------------------------------------------------------------------------
(* The heuristic *)

\* Root is the integer root that its definition asks for.
LEMMA RootIs ==
    ASSUME NEW d \in 0 .. Rows * Rows + Cols * Cols
    PROVE  /\ Root[d] \in Nat
           /\ Root[d] * Root[d] <= 10000 * d
           /\ 10000 * d < (Root[d] + 1) * (Root[d] + 1)
<1>1. d \in Nat /\ Rows \in Nat /\ Cols \in Nat
  BY GridAssumption
<1> DEFINE S == {r \in Nat : 10000 * d < (r + 1) * (r + 1)}
<1>2. S # {}
  <2>1. PICK m \in Nat : m = 10000 * d
    BY <1>1
  <2>2. m < (m + 1) * (m + 1)
    BY <2>1
  <2>3. m \in S
    BY <2>1, <2>2
  <2> HIDE DEF S
  <2> QED
    BY <2>3
<1>3. PICK r \in S : \A n \in S : r <= n
  <2>1. S \subseteq Nat
    OBVIOUS
  <2> HIDE DEF S
  <2> QED
    BY <1>2, <2>1, LeastOf, Zenon
<1>4. r \in Nat /\ 10000 * d < (r + 1) * (r + 1)
  OBVIOUS
<1>5. r * r <= 10000 * d
  <2>1. CASE r = 0
    BY <1>1, <2>1
  <2>2. CASE r # 0
    <3>1. r - 1 \in Nat /\ r - 1 \notin S
      BY <1>3, <1>4, <2>2
    <3>2. ~(10000 * d < ((r - 1) + 1) * ((r - 1) + 1))
      BY <3>1
    <3>3. (r - 1) + 1 = r
      BY <1>4
    <3>4. ~(10000 * d < r * r)
      BY <3>2, <3>3
    <3> QED
      BY <1>1, <1>4, <3>4
  <2> QED
    BY <2>1, <2>2
<1>6. r <= 100 * (Rows + Cols)
  <2> DEFINE B == Rows + Cols
  <2>1. B \in Nat /\ B * B = Rows * Rows + Cols * Cols + 2 * (Rows * Cols) /\ Rows * Cols \in Nat
    BY <1>1
  <2>2. d <= B * B
    BY <1>1, <2>1
  <2> HIDE DEF B
  <2>3. SUFFICES ASSUME r >= 100 * B + 1 PROVE FALSE
    BY <1>4, <2>1 DEF B
  <2>4. r * r >= (100 * B + 1) * (100 * B + 1)
    BY <1>4, <2>1, <2>3
  <2>5. (100 * B + 1) * (100 * B + 1) = 10000 * (B * B) + 200 * B + 1
    BY <2>1
  <2>6. B * B \in Nat /\ r * r \in Nat
    BY <1>4, <2>1
  <2> QED
    BY <1>1, <1>5, <2>1, <2>2, <2>4, <2>5, <2>6
<1> DEFINE Fits(x) == x * x <= 10000 * d /\ 10000 * d < (x + 1) * (x + 1)
           T == 0 .. 100 * (Rows + Cols)
<1>7. \E x \in T : Fits(x)
  <2>1. r \in T
    BY <1>1, <1>4, <1>6
  <2>2. Fits(r)
    BY <1>4, <1>5
  <2> HIDE DEF Fits, T
  <2> QED
    BY <2>1, <2>2
<1>8. Root[d] = CHOOSE x \in T : Fits(x)
  BY DEF Root
<1> HIDE DEF Fits, T
<1>9. Root[d] \in T /\ Fits(Root[d])
  BY <1>7, <1>8
<1> QED
  BY <1>1, <1>9 DEF Fits, T

\* Roots r and s of the squared distances of two neighbours from a third cell:
\* x and y from one, u and v more from the other.
RootsNearby(x, y, u, v, r, s) ==
    /\ x \in Int /\ y \in Int /\ u \in -1 .. 1 /\ v \in -1 .. 1 /\ (u # 0 \/ v # 0)
    /\ r \in Nat /\ r * r <= 10000 * ((x + u) * (x + u) + (y + v) * (y + v))
    /\ s \in Nat /\ 10000 * (x * x + y * y) < (s + 1) * (s + 1)

\* A step of the grid changes the root by no more than its length.
LEMMA RootsOfNeighbours ==
    ASSUME NEW x, NEW y, NEW u, NEW v, NEW r, NEW s, RootsNearby(x, y, u, v, r, s)
    PROVE  r <= s + (IF u # 0 /\ v # 0 THEN 142 ELSE 100)
<1> /\ x \in Int /\ y \in Int /\ u \in -1 .. 1 /\ v \in -1 .. 1 /\ (u # 0 \/ v # 0)
    /\ r \in Nat /\ r * r <= 10000 * ((x + u) * (x + u) + (y + v) * (y + v))
    /\ s \in Nat /\ 10000 * (x * x + y * y) < (s + 1) * (s + 1)
  BY DEF RootsNearby
<1> DEFINE w == u * x + v * y
           p == x * x + y * y
           q == (x + u) * (x + u) + (y + v) * (y + v)
           z == s + 1
<1>1. w \in Int /\ p \in Int /\ q \in Int /\ z \in Nat /\ z >= 1 /\ w * w \in Int /\ z * z \in Int /\ r * r \in Int
  OBVIOUS
<1>2. q = p + 2 * w + (u * u + v * v)
  OBVIOUS
<1>3. r * r <= 10000 * q /\ 10000 * p < z * z
  OBVIOUS
<1>4. CASE u # 0 /\ v # 0
  <2>1. u * u = 1 /\ v * v = 1
    BY <1>4
  <2>2. w * w <= 2 * p
    <3>1. w * w + (v * x - u * y) * (v * x - u * y) = (u * u + v * v) * p
      OBVIOUS
    <3>2. (v * x - u * y) * (v * x - u * y) >= 0
      OBVIOUS
    <3>3. (u * u + v * v) * p = 2 * p
      BY <2>1
    <3> HIDE DEF w, p
    <3>4. PICK t \in Int : t = (v * x - u * y) * (v * x - u * y)
      OBVIOUS
    <3> QED
      BY <1>1, <3>1, <3>2, <3>3, <3>4
  <2>3. q = p + 2 * w + 2
    BY <1>2, <2>1
  <2> HIDE DEF w, p, q, z
  <2>4. SUFFICES ASSUME r >= z + 142 PROVE FALSE
    BY <1>1, <1>4 DEF z
  <2>5. r * r >= (z + 142) * (z + 142)
    BY <1>1, <2>4
  <2>6. (z + 142) * (z + 142) = z * z + 284 * z + 20164
    BY <1>1
  <2>7. 71 * z < 5000 * w
    BY <1>1, <1>3, <2>3, <2>5, <2>6
  <2>8. (71 * z) * (71 * z) < (5000 * w) * (5000 * w)
    BY <1>1, <2>7
  <2>9. (71 * z) * (71 * z) = 5041 * (z * z) /\ (5000 * w) * (5000 * w) = 25000000 * (w * w)
    BY <1>1
  <2> QED
    BY <1>1, <1>3, <2>2, <2>8, <2>9
<1>5. CASE ~(u # 0 /\ v # 0)
  <2>1. u * u + v * v = 1
    BY <1>5
  <2>2. w * w <= p
    <3>1. w * w + (v * x - u * y) * (v * x - u * y) = (u * u + v * v) * p
      OBVIOUS
    <3>2. (v * x - u * y) * (v * x - u * y) >= 0
      OBVIOUS
    <3>3. (u * u + v * v) * p = p
      BY <1>1, <2>1
    <3> HIDE DEF w, p
    <3>4. PICK t \in Int : t = (v * x - u * y) * (v * x - u * y)
      OBVIOUS
    <3> QED
      BY <1>1, <3>1, <3>2, <3>3, <3>4
  <2>3. q = p + 2 * w + 1
    BY <1>2, <2>1
  <2> HIDE DEF w, p, q, z
  <2>4. SUFFICES ASSUME r >= z + 100 PROVE FALSE
    BY <1>1, <1>5 DEF z
  <2>5. r * r >= (z + 100) * (z + 100)
    BY <1>1, <2>4
  <2>6. (z + 100) * (z + 100) = z * z + 200 * z + 10000
    BY <1>1
  <2>7. z < 100 * w
    BY <1>1, <1>3, <2>3, <2>5, <2>6
  <2>8. z * z < (100 * w) * (100 * w)
    BY <1>1, <2>7
  <2>9. (100 * w) * (100 * w) = 10000 * (w * w)
    BY <1>1
  <2> QED
    BY <1>1, <1>3, <2>2, <2>8, <2>9
<1> QED
  BY <1>4, <1>5

\* The squared distance of two cells of the grid has a root.
LEMMA DistanceIs ==
    ASSUME NEW a \in Cells, NEW b \in Cells
    PROVE  D2(a, b) \in 0 .. Rows * Rows + Cols * Cols
<1>1. a[1] \in 0 .. Rows - 1 /\ b[1] \in 0 .. Rows - 1 /\ a[2] \in 0 .. Cols - 1 /\ b[2] \in 0 .. Cols - 1
  BY SpanIs
<1>2. Rows \in Nat /\ Cols \in Nat
  BY GridAssumption
<1>3. ASSUME NEW N \in Nat, NEW i \in 0 .. N - 1, NEW j \in 0 .. N - 1
      PROVE  (i - j) * (i - j) \in 0 .. N * N
  <2>1. PICK k \in Nat : k = IF i < j THEN j - i ELSE i - j
    <3>1. (IF i < j THEN j - i ELSE i - j) \in Nat
      OBVIOUS
    <3> QED
      BY <3>1
  <2>2. k <= N /\ (i - j) * (i - j) = k * k
    BY <2>1
  <2>3. k * k <= N * N /\ k * k \in Nat
    BY <2>2
  <2> QED
    BY <2>2, <2>3
<1>4. (a[1] - b[1]) * (a[1] - b[1]) \in 0 .. Rows * Rows /\ (a[2] - b[2]) * (a[2] - b[2]) \in 0 .. Cols * Cols
  BY <1>1, <1>2, <1>3
<1>5. PICK i, j, k, l \in Int : /\ i = (a[1] - b[1]) * (a[1] - b[1]) /\ j = (a[2] - b[2]) * (a[2] - b[2])
                                /\ k = Rows * Rows /\ l = Cols * Cols
  BY <1>1, <1>2
<1>6. D2(a, b) = i + j
  BY <1>5 DEF D2
<1> QED
  BY <1>4, <1>5, <1>6

\* The heuristic is a natural number, and none at the goal.
LEMMA HeuristicIs ==
    ASSUME NEW a \in Cells, NEW b \in Cells
    PROVE  Heuristic(a, b) \in Nat /\ Heuristic(b, b) = 0
<1>1. Root[D2(a, b)] \in Nat
  BY DistanceIs, RootIs
<1>2. D2(b, b) = 0
  <2>1. b[1] \in Int /\ b[2] \in Int
    BY SpanIs
  <2> QED
    BY <2>1 DEF D2
<1>3. Root[0] = 0
  <2>1. 0 \in 0 .. Rows * Rows + Cols * Cols
    BY <1>2, DistanceIs
  <2>2. Root[0] \in Nat /\ Root[0] * Root[0] <= 10000 * 0
    BY <2>1, RootIs
  <2>3. PICK r \in Nat : r = Root[0]
    BY <2>2
  <2>4. r * r <= 0
    BY <2>2, <2>3
  <2>5. r = 0
    BY <2>4
  <2> QED
    BY <2>3, <2>5
<1> QED
  BY <1>1, <1>2, <1>3 DEF Heuristic

\* The heuristic is consistent: a step never costs less than it brings the goal
\* nearer.  (_heuristic, _cost_multiplier, _cell_step_cost)
LEMMA HeuristicIsConsistent ==
    ASSUME NEW cs, \A c \in Cells : cs[c] \in Nat, NEW a \in Cells, NEW b \in Near(a), NEW t \in Cells
    PROVE  Heuristic(a, t) <= CellStepCost(cs, a, b) + Heuristic(b, t)
<1>1. b \in Cells /\ a \in Near(b) /\ a # b
  BY NearIsMutual
<1>2. /\ a = <<a[1], a[2]>> /\ b = <<b[1], b[2]>>
      /\ a[1] \in Int /\ a[2] \in Int /\ b[1] \in Int /\ b[2] \in Int /\ t[1] \in Int /\ t[2] \in Int
  BY <1>1, SpanIs
<1> DEFINE x == b[1] - t[1]
           y == b[2] - t[2]
           u == a[1] - b[1]
           v == a[2] - b[2]
           r == Root[D2(a, t)]
           s == Root[D2(b, t)]
           long == IF u # 0 /\ v # 0 THEN 142 ELSE 100
<1>3. x \in Int /\ y \in Int /\ u \in -1 .. 1 /\ v \in -1 .. 1 /\ (u # 0 \/ v # 0)
  <2>1. u \in -1 .. 1 /\ v \in -1 .. 1
    BY <1>1, <1>2 DEF Near, Abs
  <2>2. ~(u = 0 /\ v = 0)
    BY <1>1, <1>2
  <2> QED
    BY <1>2, <2>1, <2>2
<1>4. /\ D2(a, t) = (x + u) * (x + u) + (y + v) * (y + v)
      /\ D2(b, t) = x * x + y * y
  BY <1>2 DEF D2
<1>5. r \in Nat /\ s \in Nat /\ r * r <= 10000 * D2(a, t) /\ 10000 * D2(b, t) < (s + 1) * (s + 1)
  BY <1>1, DistanceIs, RootIs
<1>6. r <= s + long
  <2> HIDE DEF x, y, u, v, r, s
  <2>1. r * r <= 10000 * ((x + u) * (x + u) + (y + v) * (y + v))
    BY <1>4, <1>5
  <2>2. 10000 * (x * x + y * y) < (s + 1) * (s + 1)
    BY <1>4, <1>5
  <2>3. r <= s + (IF u # 0 /\ v # 0 THEN 142 ELSE 100)
    <3>1. RootsNearby(x, y, u, v, r, s)
      <4>1. x \in Int /\ y \in Int /\ u \in -1 .. 1 /\ v \in -1 .. 1 /\ (u # 0 \/ v # 0)
        BY <1>3
      <4>2. r \in Nat /\ s \in Nat
        BY <1>5
      <4> QED
        BY <2>1, <2>2, <4>1, <4>2 DEF RootsNearby
    <3> QED
      BY <3>1, RootsOfNeighbours
  <2> QED
    BY <2>3
<1>7. StepLength(a, b) = long
  <2>1. a[1] # b[1] <=> u # 0
    BY <1>2
  <2>2. a[2] # b[2] <=> v # 0
    BY <1>2
  <2> HIDE DEF u, v
  <2> QED
    BY <1>1, <2>1, <2>2 DEF StepLength
<1>8. long \in Nat
  OBVIOUS
<1> HIDE DEF r, s, long
<1>9. PICK m \in Nat : m = Multiplier(cs[b]) /\ m >= 100
  <2>1. PICK k \in Nat : k = cs[b]
    BY <1>1
  <2>2. CASE k >= HardBuffer
    BY <2>1, <2>2 DEF Multiplier
  <2>3. CASE ~(k >= HardBuffer)
    <3>1. (2500 * k) \div 252 \in Nat
      OBVIOUS
    <3>2. (12000 * k * k) \div (252 * 252) \in Nat
      <4>1. PICK n \in Nat : n = 12000 * k * k
        OBVIOUS
      <4>2. n \div 63504 \in Nat /\ 252 * 252 = 63504
        OBVIOUS
      <4> QED
        BY <4>1, <4>2
    <3>3. Multiplier(k) = 100 + (2500 * k) \div 252 + (12000 * k * k) \div (252 * 252)
      BY <2>3 DEF Multiplier
    <3> QED
      BY <2>1, <3>1, <3>2, <3>3
  <2> QED
    BY <2>2, <2>3
<1>10. CellStepCost(cs, a, b) = long * m
  BY <1>7, <1>9 DEF CellStepCost
<1>11. long * m >= 100 * long /\ long * m \in Nat
  BY <1>8, <1>9
<1>12. Heuristic(a, t) = 100 * r /\ Heuristic(b, t) = 100 * s
  BY DEF Heuristic, r, s
<1> QED
  BY <1>5, <1>6, <1>8, <1>10, <1>11, <1>12

-----------------------------------------------------------------------------
(* A* and the cheapest way *)

\* What the steps of a way cost up to its i-th cell.
Spent(way) ==
    LET Sum[i \in 1 .. Len(way)] == IF i = 1 THEN 0 ELSE Sum[i - 1] + CellStepCost(costs, way[i - 1], way[i]) IN Sum

Togo(n) == Heuristic(n, to)
AStar == job.alg # "theta"

\* The queue is ordered by costs and heuristic: an entry that was overtaken by a
\* cheaper one has a higher price than its cell has now, and a cell that is not
\* expanded has one with its price.
QueuePriced == \A e \in queue : e.f \in Nat /\ g[e.cell] + Togo(e.cell) <= e.f
OpenPriced == \A n \in DOMAIN g \ closed : \E e \in queue : e.cell = n /\ e.f = g[n] + Togo(n)

\* No expanded cell had a higher price than one that waits, and none of its
\* neighbours could be reached from it at a lower cost than is known.
ClosedFirst == \A c \in closed : \A e \in queue : g[c] + Togo(c) <= e.f
EdgesRelaxed == \A c \in closed : \A n \in Near(c) \cap Open(costs) : g[n] <= g[c] + CellStepCost(costs, c, n)

\* The cost of a cell is what the steps along its parents cost.
CostsAddUp ==
    \A n \in DOMAIN g : IF n = from THEN g[n] = 0
                        ELSE parent[n] \in Near(n) /\ g[n] = g[parent[n]] + CellStepCost(costs, parent[n], n)

CheapHolds == QueuePriced /\ OpenPriced /\ ClosedFirst /\ EdgesRelaxed /\ CostsAddUp

\* What is known of the costs of a search by A*.
LEMMA AStarCosts ==
    ASSUME SearchHolds, TreeHolds, AStar
    PROVE  /\ g \in [DOMAIN g -> Nat] /\ DOMAIN g \subseteq Cells /\ closed \subseteq DOMAIN g
           /\ from \in DOMAIN g /\ g[from] = 0 /\ parent[from] = from
           /\ \A n \in DOMAIN g : n # from => parent[n] \in closed
           /\ Ranked(DOMAIN g, from, parent, g)
<1>1. PICK h : Ranked(DOMAIN g, from, parent, h) /\ h[from] = 0 /\ h = g
  BY DEF TreeHolds, Rooted, AStar
<1>2. Ranked(DOMAIN g, from, parent, g) /\ g[from] = 0
  BY <1>1
<1>3. \A n \in DOMAIN g : n # from => parent[n] \in closed
  BY <1>2, ParentsAreExpanded
<1> QED
  BY <1>2, <1>3 DEF Ranked, SearchHolds, NeighboursKnown

\* The heuristic of the cells of the grid.
LEMMA TogoIs ==
    ASSUME to \in Cells, \A c \in Cells : costs[c] \in Nat
    PROVE  /\ \A n \in Cells : Togo(n) \in Nat
           /\ Togo(to) = 0
           /\ \A a \in Cells : \A b \in Near(a) : Togo(a) <= CellStepCost(costs, a, b) + Togo(b)
<1>1. \A n \in Cells : Heuristic(n, to) \in Nat /\ Heuristic(to, to) = 0
  BY HeuristicIs
<1>2. \A a \in Cells : \A b \in Near(a) : Heuristic(a, to) <= CellStepCost(costs, a, b) + Heuristic(b, to)
  BY HeuristicIsConsistent
<1> QED
  BY <1>1, <1>2 DEF Togo

\* A search begins.
LEMMA PrepareCheap ==
    ASSUME Prepare
    PROVE  CheapHolds'
<1>1. from' \in Open(costs') /\ to' \in Cells
  <2>1. to' \in Cells
    BY DEF Prepare, NearestFreeCell, Ring
  <2> QED
    BY <2>1, StartIsOpen DEF Prepare
<1>2. from' \in Cells
  BY <1>1 DEF Open
<1>3. Heuristic(from', to') \in Nat
  BY <1>1, <1>2, HeuristicIs
<1> DEFINE entry == [f |-> Heuristic(from', to'), n |-> 0, cell |-> from']
<1>4. /\ g' = [c \in {from'} |-> 0] /\ queue' = {entry} /\ closed' = {}
  BY DEF Prepare
<1>5. entry.f = Heuristic(from', to') /\ entry.cell = from'
  OBVIOUS
<1> HIDE DEF entry
<1>6. QueuePriced'
  BY <1>3, <1>4, <1>5 DEF QueuePriced, Togo
<1>7. OpenPriced'
  <2>1. 0 + Heuristic(from', to') = Heuristic(from', to')
    BY <1>3
  <2> QED
    BY <1>4, <1>5, <2>1 DEF OpenPriced, Togo
<1>8. ClosedFirst' /\ EdgesRelaxed'
  BY <1>4 DEF ClosedFirst, EdgesRelaxed
<1>9. CostsAddUp'
  BY <1>4 DEF CostsAddUp
<1> QED
  BY <1>6, <1>7, <1>8, <1>9 DEF CheapHolds

\* An entry of an expanded cell is dropped.
LEMMA SkipCheap ==
    ASSUME AStar, CheapHolds, NEW e \in queue, SkipStale(e)
    PROVE  CheapHolds'
<1>1. e.cell \in closed /\ queue' = queue \ {e} /\ UNCHANGED <<from, to, g, parent, closed, costs>>
  BY DEF SkipStale, Stale, AStar
<1>2. QueuePriced' /\ ClosedFirst' /\ EdgesRelaxed' /\ CostsAddUp'
  BY <1>1 DEF CheapHolds, QueuePriced, ClosedFirst, EdgesRelaxed, CostsAddUp, Togo
<1>3. OpenPriced'
  BY <1>1 DEF CheapHolds, OpenPriced, Togo
<1> QED
  BY <1>2, <1>3 DEF CheapHolds

\* The price of a cell that is taken from the queue and not yet expanded is the
\* lowest of the queue.
LEMMA LeastPrice ==
    ASSUME SearchHolds, TreeHolds, AStar, CheapHolds, to \in Cells, \A c \in Cells : costs[c] \in Nat,
           NEW e \in queue, IsLeast(e), ~Stale(e)
    PROVE  /\ e.cell \in DOMAIN g /\ e.cell \notin closed
           /\ e.f = g[e.cell] + Togo(e.cell)
           /\ \A d \in queue : e.f <= d.f
<1>1. e.cell \in DOMAIN g /\ e.cell \notin closed
  BY DEF SearchHolds, QueueKnown, Stale, AStar
<1>2. PICK d \in queue : d.cell = e.cell /\ d.f = g[e.cell] + Togo(e.cell)
  BY <1>1 DEF CheapHolds, OpenPriced
<1>3. \A x \in queue : x.f \in Nat
  BY DEF CheapHolds, QueuePriced
<1>4. \A x \in queue : e.f <= x.f
  BY <1>3 DEF IsLeast
<1>5. g[e.cell] + Togo(e.cell) <= e.f
  BY DEF CheapHolds, QueuePriced
<1>6. e.f <= d.f
  BY <1>4
<1>7. e.f \in Nat /\ d.f \in Nat
  BY <1>3
<1>8. e.f = d.f
  BY <1>2, <1>5, <1>6, <1>7
<1> QED
  BY <1>1, <1>2, <1>4, <1>8

\* Expanding a cell with A*: the cells that it improves, and what stays.
LEMMA AStarExpands ==
    ASSUME SearchHolds, TreeHolds, AStar, CheapHolds, to \in Cells, \A c \in Cells : costs[c] \in Nat,
           NEW e \in queue, IsLeast(e), Expand(e)
    PROVE  \E better \in SUBSET (Near(e.cell) \cap Open(costs)) :
             LET s == e.cell
                 offer(n) == g[s] + CellStepCost(costs, s, n)
             IN /\ better \cap closed = {} /\ s \notin better
                /\ \A n \in better : n \notin DOMAIN g \/ offer(n) < g[n]
                /\ \A n \in (Near(s) \cap Open(costs)) \ better : n \in DOMAIN g /\ g[n] <= offer(n)
                /\ DOMAIN g' = DOMAIN g \cup better
                /\ \A n \in DOMAIN g' : g'[n] = IF n \in better THEN offer(n) ELSE g[n]
                /\ \A n \in Cells : parent'[n] = IF n \in better THEN s ELSE parent[n]
                /\ \A d \in queue' : (d \in queue /\ d # e) \/ (d.cell \in better /\ d.f = offer(d.cell) + Togo(d.cell))
                /\ \A d \in queue \ {e} : d \in queue'
                /\ \A n \in better : \E d \in queue' : d.cell = n /\ d.f = offer(n) + Togo(n)
<1> DEFINE s == e.cell
           offer(n) == g[s] + CellStepCost(costs, s, n)
           price(n) == Offer(g, s, parent[s], n)
           better == Improved(g, s, parent[s])
           entry(n) == [f |-> price(n) + Heuristic(n, to), n |-> pushes + Rank(s, n), cell |-> n]
<1>1. /\ g \in [DOMAIN g -> Nat] /\ DOMAIN g \subseteq Cells /\ closed \subseteq DOMAIN g
  BY AStarCosts
<1>2. ~Stale(e) /\ s \in DOMAIN g /\ s \notin closed /\ e.f = g[s] + Togo(s)
  BY LeastPrice DEF Expand
<1>3. /\ g' = [n \in DOMAIN g \cup better |-> IF n \in better THEN price(n) ELSE g[n]]
      /\ parent' = [n \in Cells |-> IF n \in better THEN From(s, parent[s]) ELSE IF n = s THEN parent[s] ELSE parent[n]]
      /\ queue' = (queue \ {e}) \cup {entry(n) : n \in better}
  <2>1. PICK v \in Settled(s) :
          LET gs == [g EXCEPT ![s] = v.g]
              found == Improved(gs, s, v.parent)
              cost(n) == Offer(gs, s, v.parent, n)
          IN /\ g' = [n \in DOMAIN g \cup found |-> IF n \in found THEN cost(n) ELSE gs[n]]
             /\ parent' = [n \in Cells |-> IF n \in found THEN From(s, v.parent)
                                           ELSE IF n = s THEN v.parent ELSE parent[n]]
             /\ queue' = (queue \ {e}) \cup
                  {[f |-> cost(n) + Heuristic(n, to), n |-> pushes + Rank(s, n), cell |-> n] : n \in found}
    BY DEF Expand
  <2>2. v.g = g[s] /\ v.parent = parent[s]
    BY DEF Settled, AStar
  <2>3. [g EXCEPT ![s] = v.g] = g
    BY <1>1, <2>2
  <2> DEFINE p == v.parent
             gs == [g EXCEPT ![s] = v.g]
  <2>4. gs = g /\ p = parent[s]
    BY <2>2, <2>3
  <2>5. LET found == Improved(gs, s, p)
            cost(n) == Offer(gs, s, p, n)
        IN /\ g' = [n \in DOMAIN g \cup found |-> IF n \in found THEN cost(n) ELSE gs[n]]
           /\ parent' = [n \in Cells |-> IF n \in found THEN From(s, p) ELSE IF n = s THEN p ELSE parent[n]]
           /\ queue' = (queue \ {e}) \cup
                {[f |-> cost(n) + Heuristic(n, to), n |-> pushes + Rank(s, n), cell |-> n] : n \in found}
    BY <2>1
  <2> HIDE DEF gs, p
  <2> QED
    BY <2>4, <2>5
<1>4. \A n : price(n) = offer(n) /\ From(s, parent[s]) = s
  BY DEF Offer, From, AStar
<1>5. /\ better \subseteq Near(s) \cap Open(costs)
      /\ \A n \in better : n \notin DOMAIN g \/ price(n) < g[n]
      /\ \A n \in (Near(s) \cap Open(costs)) \ better : n \in DOMAIN g /\ ~(price(n) < g[n])
  BY DEF Improved, AStar
<1>6. \A n \in better : entry(n).f = price(n) + Heuristic(n, to) /\ entry(n).cell = n
  OBVIOUS
<1> HIDE DEF better, price, entry
<1>7. s \in Cells /\ s \notin better
  BY <1>1, <1>2, <1>5, NearIsMutual
<1>8. \A n \in Near(s) : offer(n) \in Nat /\ n \in Cells /\ Togo(s) <= CellStepCost(costs, s, n) + Togo(n)
                         /\ CellStepCost(costs, s, n) \in Nat /\ Togo(n) \in Nat /\ Togo(s) \in Nat
  BY <1>1, <1>2, <1>7, StepsCost, TogoIs, NearIsMutual
<1>9. better \cap closed = {}
  <2> SUFFICES ASSUME NEW n \in better, n \in closed PROVE FALSE
    OBVIOUS
  <2>1. g[n] + Togo(n) <= g[s] + Togo(s)
    BY <1>2 DEF CheapHolds, ClosedFirst
  <2>2. g[s] + CellStepCost(costs, s, n) < g[n]
    BY <1>1, <1>4, <1>5
  <2>3. /\ Togo(s) <= CellStepCost(costs, s, n) + Togo(n)
        /\ CellStepCost(costs, s, n) \in Nat /\ Togo(n) \in Nat /\ Togo(s) \in Nat
    BY <1>5, <1>8
  <2>4. g[n] \in Nat /\ g[s] \in Nat
    BY <1>1, <1>2
  <2> QED
    BY <2>1, <2>2, <2>3, <2>4
<1>10. \A n \in better : n \notin DOMAIN g \/ offer(n) < g[n]
  BY <1>4, <1>5
<1>11. ASSUME NEW n \in (Near(s) \cap Open(costs)) \ better PROVE n \in DOMAIN g /\ g[n] <= offer(n)
  <2>1. n \in DOMAIN g /\ ~(offer(n) < g[n])
    BY <1>4, <1>5
  <2>2. offer(n) \in Nat /\ g[n] \in Nat
    BY <1>1, <1>8, <2>1
  <2> HIDE DEF offer
  <2> QED
    BY <2>1, <2>2
<1>12. /\ DOMAIN g' = DOMAIN g \cup better
       /\ \A n \in DOMAIN g' : g'[n] = IF n \in better THEN offer(n) ELSE g[n]
  BY <1>3, <1>4
<1>13. \A n \in Cells : parent'[n] = IF n \in better THEN s ELSE parent[n]
  BY <1>3, <1>4
<1>14. \A d \in queue' : (d \in queue /\ d # e) \/ (d.cell \in better /\ d.f = offer(d.cell) + Togo(d.cell))
  <2> SUFFICES ASSUME NEW d \in queue', ~(d \in queue /\ d # e)
               PROVE  d.cell \in better /\ d.f = offer(d.cell) + Togo(d.cell)
    OBVIOUS
  <2>1. PICK n \in better : d = entry(n)
    BY <1>3
  <2> QED
    BY <1>4, <1>6, <2>1 DEF Togo
<1>15. \A d \in queue \ {e} : d \in queue'
  BY <1>3
<1>16. \A n \in better : \E d \in queue' : d.cell = n /\ d.f = offer(n) + Togo(n)
  BY <1>3, <1>4, <1>6 DEF Togo
<1>17. better \in SUBSET (Near(s) \cap Open(costs))
  BY <1>5
<1> QED
  BY <1>7, <1>9, <1>10, <1>11, <1>12, <1>13, <1>14, <1>15, <1>16, <1>17

\* Expanding a cell keeps the prices in order: no expanded cell is improved.
LEMMA ExpandCheap ==
    ASSUME SearchHolds, TreeHolds, AStar, CheapHolds, to \in Cells, \A c \in Cells : costs[c] \in Nat,
           NEW e \in queue, IsLeast(e), Expand(e)
    PROVE  /\ CheapHolds'
           /\ \A c \in closed : g'[c] = g[c] /\ parent'[c] = parent[c]
<1> DEFINE s == e.cell
           step(n) == CellStepCost(costs, s, n)
           offer(n) == g[s] + step(n)
<1>1. PICK better \in SUBSET (Near(s) \cap Open(costs)) :
             /\ better \cap closed = {} /\ s \notin better
             /\ \A n \in better : n \notin DOMAIN g \/ offer(n) < g[n]
             /\ \A n \in (Near(s) \cap Open(costs)) \ better : n \in DOMAIN g /\ g[n] <= offer(n)
             /\ DOMAIN g' = DOMAIN g \cup better
             /\ \A n \in DOMAIN g' : g'[n] = IF n \in better THEN offer(n) ELSE g[n]
             /\ \A n \in Cells : parent'[n] = IF n \in better THEN s ELSE parent[n]
             /\ \A d \in queue' : (d \in queue /\ d # e) \/ (d.cell \in better /\ d.f = offer(d.cell) + Togo(d.cell))
             /\ \A d \in queue \ {e} : d \in queue'
             /\ \A n \in better : \E d \in queue' : d.cell = n /\ d.f = offer(n) + Togo(n)
  BY AStarExpands
<1>2. /\ g \in [DOMAIN g -> Nat] /\ DOMAIN g \subseteq Cells /\ closed \subseteq DOMAIN g
      /\ from \in DOMAIN g /\ g[from] = 0 /\ parent[from] = from
      /\ \A n \in DOMAIN g : n # from => parent[n] \in closed
  BY AStarCosts
<1>3. s \in DOMAIN g /\ s \notin closed /\ e.f = g[s] + Togo(s) /\ \A d \in queue : e.f <= d.f
  BY LeastPrice DEF Expand
<1>4. closed' = closed \cup {s} /\ UNCHANGED <<job, costs, from, to>>
  BY DEF Expand, Task
<1>5. ASSUME NEW n \in Near(s)
      PROVE  /\ n \in Cells /\ s \in Near(n) /\ step(n) \in Nat \ {0} /\ offer(n) \in Nat
             /\ Togo(s) \in Nat /\ Togo(n) \in Nat /\ Togo(s) <= step(n) + Togo(n)
  <2>1. s \in Cells
    BY <1>2, <1>3
  <2>2. n \in Cells /\ s \in Near(n)
    BY <2>1, NearIsMutual
  <2>3. step(n) \in Nat \ {0}
    BY <2>1, StepsCost
  <2>4. Togo(s) \in Nat /\ Togo(n) \in Nat /\ Togo(s) <= step(n) + Togo(n)
    BY <2>1, <2>2, TogoIs
  <2> HIDE DEF step, s
  <2> QED
    BY <1>2, <1>3, <2>2, <2>3, <2>4
<1>6. \A c \in closed \cup {s} : c \notin better /\ c \in DOMAIN g /\ c \in DOMAIN g' /\ g'[c] = g[c] /\ parent'[c] = parent[c]
  <2> TAKE c \in closed \cup {s}
  <2>1. c \notin better /\ c \in DOMAIN g
    BY <1>1, <1>2, <1>3
  <2>2. c \in DOMAIN g' /\ c \in Cells
    BY <1>1, <1>2, <2>1
  <2> QED
    BY <1>1, <2>1, <2>2
<1>7. \A n : Togo(n)' = Togo(n)
  BY <1>4 DEF Togo
<1>8. \A n \in Near(s) \cap Open(costs) : n \in DOMAIN g' /\ g'[n] <= offer(n) /\ g'[n] \in Nat
  <2> TAKE n \in Near(s) \cap Open(costs)
  <2>1. CASE n \in better
    BY <1>1, <1>5, <2>1
  <2>2. CASE n \notin better
    BY <1>1, <1>2, <2>2
  <2> QED
    BY <2>1, <2>2
<1>9. \A n \in DOMAIN g : n \in DOMAIN g' /\ g'[n] <= g[n] /\ g'[n] \in Nat
  <2> TAKE n \in DOMAIN g
  <2>1. CASE n \in better
    <3>1. n \in DOMAIN g' /\ g'[n] = offer(n) /\ offer(n) < g[n]
      BY <1>1, <2>1
    <3>2. offer(n) \in Nat /\ g[n] \in Nat
      BY <1>1, <1>2, <1>5, <2>1
    <3> HIDE DEF offer
    <3> QED
      BY <3>1, <3>2
  <2>2. CASE n \notin better
    BY <1>1, <1>2, <2>2
  <2> QED
    BY <2>1, <2>2
<1>10. \A d \in queue : d.f \in Nat /\ d.cell \in DOMAIN g /\ g[d.cell] + Togo(d.cell) <= d.f /\ Togo(d.cell) \in Nat
  BY <1>2, TogoIs DEF SearchHolds, QueueKnown, CheapHolds, QueuePriced
<1>11. \A n \in better : n \in Near(s) /\ n \in Open(costs) /\ n \in DOMAIN g' /\ g'[n] = offer(n)
  BY <1>1
<1> HIDE DEF s, step
<1>12. QueuePriced'
  <2> SUFFICES ASSUME NEW d \in queue' PROVE d.f \in Nat /\ g'[d.cell] + Togo(d.cell) <= d.f
    BY <1>7 DEF QueuePriced
  <2>1. CASE d \in queue
    <3>1. g'[d.cell] <= g[d.cell] /\ g'[d.cell] \in Nat /\ g[d.cell] \in Nat
      BY <1>2, <1>9, <1>10, <2>1
    <3> QED
      BY <1>10, <2>1, <3>1
  <2>2. CASE d.cell \in better /\ d.f = offer(d.cell) + Togo(d.cell)
    <3>1. g'[d.cell] = offer(d.cell) /\ offer(d.cell) \in Nat /\ Togo(d.cell) \in Nat
      BY <1>5, <1>11, <2>2
    <3> HIDE DEF offer
    <3> QED
      BY <2>2, <3>1
  <2> QED
    BY <1>1, <2>1, <2>2
<1>13. OpenPriced'
  <2> SUFFICES ASSUME NEW n \in DOMAIN g', n \notin closed'
               PROVE  \E d \in queue' : d.cell = n /\ d.f = g'[n] + Togo(n)
    BY <1>7 DEF OpenPriced
  <2>1. CASE n \in better
    BY <1>1, <1>11, <2>1
  <2>2. CASE n \notin better
    <3>1. n \in DOMAIN g /\ n \notin closed /\ n # s /\ g'[n] = g[n]
      BY <1>1, <1>4, <2>2
    <3>2. PICK d \in queue : d.cell = n /\ d.f = g[n] + Togo(n)
      BY <3>1 DEF CheapHolds, OpenPriced
    <3>3. d # e
      BY <3>1, <3>2 DEF s
    <3> QED
      BY <1>1, <3>1, <3>2, <3>3
  <2> QED
    BY <2>1, <2>2
<1>14. ClosedFirst'
  <2> SUFFICES ASSUME NEW c \in closed \cup {s}, NEW d \in queue' PROVE g[c] + Togo(c) <= d.f
    BY <1>4, <1>6, <1>7 DEF ClosedFirst
  <2>1. g[c] + Togo(c) <= e.f
    <3>1. CASE c = s
      <4>1. e.f \in Nat
        BY <1>10
      <4> QED
        BY <1>3, <3>1, <4>1
    <3>2. CASE c \in closed
      BY <3>2 DEF CheapHolds, ClosedFirst
    <3> QED
      BY <3>1, <3>2
  <2>2. e.f <= d.f /\ d.f \in Nat
    <3>1. CASE d \in queue
      BY <1>3, <1>10, <3>1
    <3>2. CASE d.cell \in better /\ d.f = offer(d.cell) + Togo(d.cell)
      <4>1. /\ step(d.cell) \in Nat /\ Togo(s) \in Nat /\ Togo(d.cell) \in Nat
            /\ Togo(s) <= step(d.cell) + Togo(d.cell)
        BY <1>5, <1>11, <3>2
      <4>2. g[s] \in Nat
        BY <1>2, <1>3
      <4>3. d.f = g[s] + step(d.cell) + Togo(d.cell)
        BY <3>2, <4>1, <4>2
      <4> QED
        BY <1>3, <4>1, <4>2, <4>3
    <3> QED
      BY <1>1, <3>1, <3>2
  <2>3. g[c] \in Nat /\ Togo(c) \in Nat /\ e.f \in Nat
    <3>1. c \in DOMAIN g /\ c \in Cells
      BY <1>2, <1>6
    <3> QED
      BY <1>2, <1>10, <3>1, TogoIs
  <2> QED
    BY <2>1, <2>2, <2>3
<1>15. EdgesRelaxed'
  <2> SUFFICES ASSUME NEW c \in closed \cup {s}, NEW n \in Near(c) \cap Open(costs)
               PROVE  g'[n] <= g[c] + CellStepCost(costs, c, n)
    BY <1>4, <1>6 DEF EdgesRelaxed
  <2>1. CASE c = s
    BY <1>8, <2>1 DEF step
  <2>2. CASE c \in closed
    <3>1. g[n] <= g[c] + CellStepCost(costs, c, n)
      BY <2>2 DEF CheapHolds, EdgesRelaxed
    <3>2. n \in DOMAIN g
      BY <2>2 DEF SearchHolds, NeighboursKnown
    <3>3. g'[n] <= g[n] /\ g'[n] \in Nat /\ g[n] \in Nat
      BY <1>2, <1>9, <3>2
    <3>4. g[c] \in Nat /\ CellStepCost(costs, c, n) \in Nat
      <4>1. c \in DOMAIN g /\ c \in Cells
        BY <1>2, <2>2
      <4>2. CellStepCost(costs, c, n) \in Nat
        BY <4>1, StepsCost
      <4> QED
        BY <1>2, <4>1, <4>2
    <3> QED
      BY <3>1, <3>3, <3>4
  <2> QED
    BY <2>1, <2>2
<1>16. CostsAddUp'
  <2> SUFFICES ASSUME NEW n \in DOMAIN g'
               PROVE  IF n = from THEN g'[n] = 0
                      ELSE parent'[n] \in Near(n) /\ g'[n] = g'[parent'[n]] + CellStepCost(costs, parent'[n], n)
    BY <1>4 DEF CostsAddUp
  <2>0. n \in Cells
    BY <1>1, <1>2, <1>5
  <2>1. CASE n = from
    BY <1>2, <1>9, <2>1
  <2>2. CASE n # from /\ n \in better
    <3>1. parent'[n] = s /\ g'[s] = g[s] /\ g'[n] = offer(n) /\ s \in Near(n)
      BY <1>1, <1>5, <1>6, <1>11, <2>0, <2>2
    <3> QED
      BY <2>2, <3>1 DEF step
  <2>3. CASE n # from /\ n \notin better
    <3>1. n \in DOMAIN g /\ parent'[n] = parent[n] /\ g'[n] = g[n]
      BY <1>1, <2>0, <2>3
    <3>2. parent[n] \in Near(n) /\ g[n] = g[parent[n]] + CellStepCost(costs, parent[n], n) /\ parent[n] \in closed
      BY <1>2, <2>3, <3>1 DEF CheapHolds, CostsAddUp
    <3>3. g'[parent[n]] = g[parent[n]]
      BY <1>6, <3>2
    <3> QED
      BY <2>3, <3>1, <3>2, <3>3
  <2> QED
    BY <2>1, <2>2, <2>3
<1>17. CheapHolds'
  BY <1>12, <1>13, <1>14, <1>15, <1>16 DEF CheapHolds
<1> QED
  BY <1>6, <1>17

\* What the recursion says of the costs along a way.
LEMMA SpentIs ==
    ASSUME \A c \in Cells : costs[c] \in Nat, NEW S, S \subseteq Cells, NEW w, Walk(w, S)
    PROVE  /\ Spent(w)[1] = 0
           /\ \A i \in 1 .. Len(w) : Spent(w)[i] \in Nat
           /\ \A i \in 2 .. Len(w) : Spent(w)[i] = Spent(w)[i - 1] + CellStepCost(costs, w[i - 1], w[i])
<1> DEFINE n == Len(w)
           cost(i) == CellStepCost(costs, w[i - 1], w[i])
           step == [q \in Int \X Nat |-> IF q[1] \in 2 .. n THEN q[2] + cost(q[1]) ELSE q[2]]
<1>1. n \in Nat \ {0} /\ 1 \in Int /\ n \in Int
  BY DEF Walk
<1>2. ASSUME NEW i \in 2 .. n PROVE cost(i) \in Nat
  <2>1. i - 1 \in 1 .. n - 1 /\ (i - 1) + 1 = i /\ i - 1 \in 1 .. n
    BY <1>1
  <2>2. w[i - 1] \in Cells
    BY <1>1, <2>1 DEF Walk
  <2>3. w[i] \in Near(w[i - 1])
    BY <2>1 DEF Walk
  <2> QED
    BY <2>2, <2>3, StepsCost
<1> HIDE DEF n, cost
<1>3. step \in [Int \X Nat -> Nat]
  BY <1>2
<1>4. PICK f \in [1 .. n -> Nat] : GoesOn(f, 0, 1, n, step)
  <2> HIDE DEF step
  <2>1. 0 \in Nat
    OBVIOUS
  <2> QED
    BY <1>1, <1>3, <2>1, RecursionExists, Zenon
<1>5. \A i \in 1 .. n : f[i] = IF i = 1 THEN 0 ELSE f[i - 1] + cost(i)
  <2> TAKE i \in 1 .. n
  <2>1. f[i] = IF i = 1 THEN 0 ELSE step[<<i, f[i - 1]>>]
    BY <1>4 DEF GoesOn
  <2>2. CASE i = 1
    BY <2>1, <2>2
  <2>3. CASE i # 1
    <3>1. i \in 2 .. n /\ i - 1 \in 1 .. n /\ i \in Int
      BY <1>1, <2>3
    <3>2. <<i, f[i - 1]>> \in Int \X Nat
      BY <3>1
    <3>3. step[<<i, f[i - 1]>>] = f[i - 1] + cost(i)
      BY <3>1, <3>2
    <3> QED
      BY <2>1, <2>3, <3>3
  <2> QED
    BY <2>2, <2>3
<1>6. f = [i \in 1 .. n |-> IF i = 1 THEN 0 ELSE f[i - 1] + cost(i)]
  BY <1>5
<1>7. Spent(w) = CHOOSE h : h = [i \in 1 .. n |-> IF i = 1 THEN 0 ELSE h[i - 1] + cost(i)]
  BY DEF Spent, n, cost
<1>8. Spent(w) = [i \in 1 .. n |-> IF i = 1 THEN 0 ELSE Spent(w)[i - 1] + cost(i)]
  BY <1>6, <1>7, Zenon
<1>9. \A i \in 1 .. n : Spent(w)[i] = IF i = 1 THEN 0 ELSE Spent(w)[i - 1] + cost(i)
  <2>1. PICK h : h = Spent(w)
    OBVIOUS
  <2>2. h = [i \in 1 .. n |-> IF i = 1 THEN 0 ELSE h[i - 1] + cost(i)]
    BY <1>8, <2>1, Zenon
  <2>3. \A i \in 1 .. n : h[i] = IF i = 1 THEN 0 ELSE h[i - 1] + cost(i)
    BY <2>2
  <2> QED
    BY <2>1, <2>3
<1>10. Spent(w)[1] = 0 /\ \A i \in 2 .. n : Spent(w)[i] = Spent(w)[i - 1] + cost(i)
  BY <1>1, <1>9
<1>11. \A i \in 1 .. n : Spent(w)[i] \in Nat
  <2> DEFINE Good == {i \in 1 .. n : Spent(w)[i] \in Nat}
  <2>1. 1 \in Good
    BY <1>1, <1>10
  <2>2. \A k \in 1 + 1 .. n : k - 1 \in Good => k \in Good
    BY <1>1, <1>2, <1>10
  <2> HIDE DEF Good
  <2>3. \A k \in 1 .. n : k \in Good
    BY <1>1, <2>1, <2>2, IntervalInduction, Zenon
  <2> QED
    BY <2>3 DEF Good
<1> QED
  BY <1>10, <1>11 DEF n, cost

\* No way through open cells costs less than the cell that is taken from the
\* queue as the goal: its first cell that is not expanded waits in the queue,
\* with a price that the rest of the way does not undercut.
LEMMA NoWayIsCheaper ==
    ASSUME SearchHolds, TreeHolds, AStar, CheapHolds, to \in Cells, \A c \in Cells : costs[c] \in Nat,
           NEW e \in queue, IsLeast(e), ~Stale(e), e.cell = to,
           NEW w, Leads(w, Open(costs), from, to)
    PROVE  g[to] <= Spent(w)[Len(w)]
<1> DEFINE n == Len(w)
           cost(i) == CellStepCost(costs, w[i - 1], w[i])
<1>1. w \in Seq(Open(costs)) /\ n \in Nat \ {0} /\ w[1] = from /\ w[n] = to /\ Walk(w, Open(costs))
  BY DEF Leads, Walk
<1>2. Open(costs) \subseteq Cells
  BY DEF Open
<1>3. /\ Spent(w)[1] = 0
      /\ \A i \in 1 .. n : Spent(w)[i] \in Nat
      /\ \A i \in 2 .. n : Spent(w)[i] = Spent(w)[i - 1] + cost(i)
  BY <1>1, <1>2, SpentIs
<1>4. to \notin closed /\ e.f = g[to] + Togo(to) /\ \A d \in queue : e.f <= d.f
  BY LeastPrice
<1>5. ASSUME NEW i \in 1 .. n PROVE w[i] \in Open(costs) /\ w[i] \in Cells
  BY <1>1, <1>2
<1>6. ASSUME NEW i \in 2 .. n PROVE i - 1 \in 1 .. n /\ w[i] \in Near(w[i - 1])
  <2>1. i - 1 \in 1 .. n - 1 /\ (i - 1) + 1 = i /\ i - 1 \in 1 .. n
    BY <1>1
  <2> QED
    BY <1>1, <2>1 DEF Walk
<1>7. /\ g \in [DOMAIN g -> Nat] /\ closed \subseteq DOMAIN g /\ from \in DOMAIN g /\ g[from] = 0
  BY AStarCosts
<1>8. /\ \A x \in Cells : Togo(x) \in Nat
      /\ Togo(to) = 0
      /\ \A a \in Cells : \A b \in Near(a) : Togo(a) <= CellStepCost(costs, a, b) + Togo(b)
  BY TogoIs
<1>9. PICK k \in 1 .. n : w[k] \notin closed /\ \A i \in 1 .. k - 1 : w[i] \in closed
  <2> DEFINE Late == {i \in Nat : i \in 1 .. n /\ w[i] \notin closed}
  <2>1. n \in Late
    BY <1>1, <1>4
  <2>2. PICK k \in Late : \A i \in Late : k <= i
    <3>1. Late \subseteq Nat
      OBVIOUS
    <3> HIDE DEF Late
    <3> QED
      BY <2>1, <3>1, LeastOf
  <2>3. \A i \in 1 .. k - 1 : w[i] \in closed
    BY <2>2
  <2> QED
    BY <2>2, <2>3
<1>10. ASSUME NEW i \in 2 .. n PROVE cost(i) \in Nat
  <2>1. w[i - 1] \in Cells /\ w[i] \in Near(w[i - 1])
    BY <1>5, <1>6
  <2> QED
    BY <2>1, StepsCost
<1> HIDE DEF n
<1>11. w[k] \in DOMAIN g /\ g[w[k]] <= Spent(w)[k]
  <2> DEFINE Good == {i \in 1 .. k : w[i] \in DOMAIN g /\ g[w[i]] <= Spent(w)[i]}
  <2>1. 1 \in Good
    BY <1>1, <1>3, <1>7
  <2>2. ASSUME NEW i \in 1 + 1 .. k, i - 1 \in Good PROVE i \in Good
    <3>1. i \in 2 .. n /\ i - 1 \in 1 .. k - 1
      BY <1>1
    <3>2. w[i - 1] \in closed /\ w[i] \in Near(w[i - 1]) \cap Open(costs)
      BY <1>5, <1>6, <1>9, <3>1
    <3>3. w[i] \in DOMAIN g /\ g[w[i]] <= g[w[i - 1]] + cost(i)
      BY <3>2 DEF SearchHolds, NeighboursKnown, CheapHolds, EdgesRelaxed
    <3>4. g[w[i - 1]] <= Spent(w)[i - 1] /\ w[i - 1] \in DOMAIN g
      BY <2>2
    <3>5. g[w[i]] \in Nat /\ g[w[i - 1]] \in Nat /\ cost(i) \in Nat /\ Spent(w)[i - 1] \in Nat
      BY <1>3, <1>6, <1>7, <1>10, <3>1, <3>3, <3>4
    <3>6. Spent(w)[i] = Spent(w)[i - 1] + cost(i)
      BY <1>3, <3>1
    <3> HIDE DEF cost
    <3>7. g[w[i]] <= Spent(w)[i]
      BY <3>3, <3>4, <3>5, <3>6
    <3> QED
      BY <3>3, <3>7
  <2> HIDE DEF Good
  <2>3. 1 \in Int /\ k \in Int
    OBVIOUS
  <2>4. \A i \in 1 + 1 .. k : i - 1 \in Good => i \in Good
    BY <2>2
  <2>5. \A i \in 1 .. k : i \in Good
    BY <2>1, <2>3, <2>4, IntervalInduction, Zenon
  <2> QED
    BY <2>5 DEF Good
<1>12. Spent(w)[k] + Togo(w[k]) <= Spent(w)[n] + Togo(w[n])
  <2> DEFINE Good == {i \in k .. n : Spent(w)[k] + Togo(w[k]) <= Spent(w)[i] + Togo(w[i])}
  <2>1. k \in Good
    BY <1>1, <1>3, <1>5, <1>8
  <2>2. ASSUME NEW i \in k + 1 .. n, i - 1 \in Good PROVE i \in Good
    <3>1. i \in 2 .. n /\ i \in 1 .. n /\ i - 1 \in 1 .. n /\ i \in k .. n
      BY <1>1
    <3>2. Spent(w)[i] = Spent(w)[i - 1] + cost(i) /\ cost(i) \in Nat
      BY <1>3, <1>10, <3>1
    <3>3. Togo(w[i - 1]) <= cost(i) + Togo(w[i])
      BY <1>5, <1>6, <1>8, <3>1
    <3>4. /\ Togo(w[i - 1]) \in Nat /\ Togo(w[i]) \in Nat /\ Togo(w[k]) \in Nat
          /\ Spent(w)[i - 1] \in Nat /\ Spent(w)[k] \in Nat
      BY <1>3, <1>5, <1>8, <3>1
    <3>5. Spent(w)[k] + Togo(w[k]) <= Spent(w)[i - 1] + Togo(w[i - 1])
      BY <2>2
    <3> HIDE DEF cost
    <3>6. Spent(w)[k] + Togo(w[k]) <= Spent(w)[i] + Togo(w[i])
      BY <3>2, <3>3, <3>4, <3>5
    <3> QED
      BY <3>1, <3>6
  <2> HIDE DEF Good
  <2>3. k \in Int /\ n \in Int /\ n \in k .. n
    BY <1>1
  <2>4. \A i \in k + 1 .. n : i - 1 \in Good => i \in Good
    BY <2>2
  <2>5. \A i \in k .. n : i \in Good
    BY <2>1, <2>3, <2>4, IntervalInduction, Zenon
  <2> QED
    BY <2>3, <2>5 DEF Good
<1>13. e.f <= g[w[k]] + Togo(w[k])
  <2>1. PICK d \in queue : d.cell = w[k] /\ d.f = g[w[k]] + Togo(w[k])
    BY <1>9, <1>11 DEF CheapHolds, OpenPriced
  <2> QED
    BY <1>4, <2>1
<1>14. /\ g[w[k]] \in Nat /\ Togo(w[k]) \in Nat /\ Spent(w)[k] \in Nat /\ Spent(w)[n] \in Nat
       /\ g[to] \in Nat /\ Togo(w[n]) = 0
  <2>1. n \in 1 .. n
    BY <1>1
  <2>2. to \in DOMAIN g
    BY DEF SearchHolds, QueueKnown
  <2> QED
    BY <1>1, <1>3, <1>5, <1>7, <1>8, <1>11, <2>1, <2>2
<1>15. e.f = g[to]
  BY <1>4, <1>8, <1>14
<1>16. g[to] <= Spent(w)[n]
  BY <1>11, <1>12, <1>13, <1>14, <1>15
<1> QED
  BY <1>16 DEF n

\* With A*, the path that is found is a way of neighbouring open cells from the
\* start to the goal, and no such way costs less.  (_astar)
CheapestFound ==
    stage = "found" /\ AStar =>
        /\ Leads(route, Open(costs), from, to)
        /\ \A w : Leads(w, Open(costs), from, to) => Spent(route)[Len(route)] <= Spent(w)[Len(w)]

\* What Reconstruct reads from a ranked tree, with nothing abbreviated.
LEMMA WayBack ==
    ASSUME NEW K, NEW par, NEW h, Ranked(K, from, par, h), to \in K
    PROVE  /\ Reconstruct(par) \in Seq(K)
           /\ Len(Reconstruct(par)) \in Nat \ {0}
           /\ Reconstruct(par)[1] = from
           /\ Reconstruct(par)[Len(Reconstruct(par))] = to
           /\ \A i \in 1 .. Len(Reconstruct(par)) - 1 :
                 Reconstruct(par)[i] = par[Reconstruct(par)[i + 1]] /\ Reconstruct(par)[i + 1] # from
BY ReconstructLeads

LEMMA ReachCheapest ==
    ASSUME SearchHolds, TreeHolds, AStar, CheapHolds, to \in Cells, \A c \in Cells : costs[c] \in Nat,
           NEW e \in queue, IsLeast(e), Reach(e)
    PROVE  CheapestFound'
<1>1. e.cell = to /\ ~Stale(e) /\ route' = Reconstruct(parent') /\ UNCHANGED <<job, costs, from, to>>
  BY DEF Reach, Task
<1>2. /\ g \in [DOMAIN g -> Nat] /\ DOMAIN g \subseteq Cells
      /\ from \in DOMAIN g /\ g[from] = 0 /\ parent[from] = from
      /\ Ranked(DOMAIN g, from, parent, g)
  BY AStarCosts
<1>3. \A n \in Cells : parent'[n] = parent[n]
  <2>1. PICK v \in Settled(to) : parent' = [parent EXCEPT ![to] = v.parent]
    BY DEF Reach
  <2>2. v.parent = parent[to]
    BY DEF Settled, AStar
  <2>3. DOMAIN parent = Cells
    BY DEF TreeHolds
  <2> QED
    BY <2>1, <2>2, <2>3
<1> DEFINE par == parent'
           K == DOMAIN g
<1>4. to \in K
  BY <1>1 DEF SearchHolds, QueueKnown
<1>5. Ranked(K, from, par, g)
  BY <1>2, <1>3 DEF Ranked
<1>6. K \subseteq Open(costs)
  BY DEF SearchHolds, ExpandedOpen, KnownAwaits, Awaits
<1> DEFINE r == Reconstruct(par)
<1>7. /\ r \in Seq(K) /\ Len(r) \in Nat \ {0} /\ r[1] = from /\ r[Len(r)] = to
      /\ \A i \in 1 .. Len(r) - 1 : r[i] = par[r[i + 1]] /\ r[i + 1] # from
  BY <1>4, <1>5, WayBack
<1> HIDE DEF par, K, r
<1>8. \A i \in 1 .. Len(r) : r[i] \in K
  BY <1>7
<1>9. ASSUME NEW i \in 2 .. Len(r)
      PROVE  /\ i - 1 \in 1 .. Len(r) - 1 /\ r[i] \in K /\ r[i] # from /\ r[i - 1] = parent[r[i]]
             /\ r[i] \in Near(r[i - 1])
             /\ g[r[i]] = g[r[i - 1]] + CellStepCost(costs, r[i - 1], r[i])
  <2>1. i - 1 \in 1 .. Len(r) - 1 /\ (i - 1) + 1 = i /\ i \in 1 .. Len(r)
    BY <1>7
  <2>2. r[i - 1] = par[r[i]] /\ r[i] # from /\ r[i] \in K
    BY <1>7, <1>8, <2>1
  <2>3. r[i] \in Cells /\ r[i - 1] = parent[r[i]]
    BY <1>2, <1>3, <2>2 DEF par, K
  <2>4. r[i - 1] \in Near(r[i]) /\ g[r[i]] = g[r[i - 1]] + CellStepCost(costs, r[i - 1], r[i])
    BY <2>2, <2>3 DEF CheapHolds, CostsAddUp, K
  <2>5. r[i] \in Near(r[i - 1])
    BY <2>3, <2>4, NearIsMutual
  <2> QED
    BY <2>1, <2>2, <2>3, <2>4, <2>5
<1>10. Leads(r, Open(costs), from, to)
  <2>1. r \in Seq(Open(costs))
    BY <1>6, <1>7
  <2>2. ASSUME NEW i \in 1 .. Len(r) - 1 PROVE r[i + 1] \in Near(r[i])
    <3>1. i + 1 \in 2 .. Len(r) /\ (i + 1) - 1 = i
      BY <1>7
    <3> QED
      BY <1>9, <3>1
  <2> QED
    BY <1>7, <2>1, <2>2 DEF Leads, Walk
<1>11. /\ Spent(r)[1] = 0
       /\ \A i \in 2 .. Len(r) : Spent(r)[i] = Spent(r)[i - 1] + CellStepCost(costs, r[i - 1], r[i])
  <2>1. Open(costs) \subseteq Cells /\ Walk(r, Open(costs))
    BY <1>10 DEF Open, Leads
  <2> QED
    BY <2>1, SpentIs
<1>12. Spent(r)[Len(r)] = g[to]
  <2> DEFINE Good == {i \in 1 .. Len(r) : Spent(r)[i] = g[r[i]]}
  <2>1. 1 \in Good
    BY <1>2, <1>7, <1>11
  <2>2. ASSUME NEW i \in 1 + 1 .. Len(r), i - 1 \in Good PROVE i \in Good
    <3>1. i \in 2 .. Len(r) /\ i \in 1 .. Len(r)
      BY <1>7
    <3>2. Spent(r)[i - 1] = g[r[i - 1]]
      BY <2>2
    <3> QED
      BY <1>9, <1>11, <3>1, <3>2
  <2> HIDE DEF Good
  <2>3. 1 \in Int /\ Len(r) \in Int /\ Len(r) \in 1 .. Len(r)
    BY <1>7
  <2>4. \A i \in 1 + 1 .. Len(r) : i - 1 \in Good => i \in Good
    BY <2>2
  <2>5. \A i \in 1 .. Len(r) : i \in Good
    BY <2>1, <2>3, <2>4, IntervalInduction, Zenon
  <2>6. Spent(r)[Len(r)] = g[r[Len(r)]]
    BY <2>3, <2>5 DEF Good
  <2> QED
    BY <1>7, <2>6
<1>13. \A w : Leads(w, Open(costs), from, to) => Spent(r)[Len(r)] <= Spent(w)[Len(w)]
  BY <1>1, <1>12, NoWayIsCheaper
<1>14. \A w : Spent(w)' = Spent(w)
  BY <1>1 DEF Spent
<1>15. route' = r
  BY <1>1 DEF r, par
<1> QED
  BY <1>1, <1>10, <1>13, <1>14, <1>15 DEF CheapestFound, Leads, Walk

\* The invariant of a search by A*, next to the two above.
CheapIInv ==
    /\ stage = "search" => to \in Cells
    /\ stage = "search" /\ AStar => CheapHolds
    /\ CheapestFound

LEMMA CheapStep ==
    ASSUME SearchIInv, PathIInv, CheapIInv, [PlanNext]_planVars
    PROVE  CheapIInv'
<1>1. CASE Refuse
  BY <1>1 DEF Refuse, CheapIInv, CheapestFound
<1>2. CASE Prepare
  <2>1. stage' = "search" /\ to' \in Cells
    BY <1>2 DEF Prepare, NearestFreeCell, Ring
  <2> QED
    BY <1>2, <2>1, PrepareCheap DEF CheapIInv, CheapestFound
<1>3. CASE Pop
  <2>1. stage = "search" /\ SearchHolds /\ TreeHolds /\ to \in Cells /\ (AStar => CheapHolds)
    BY <1>3 DEF Pop, SearchIInv, PathIInv, CheapIInv
  <2>2. PICK e \in queue : IsLeast(e) /\ (SkipStale(e) \/ Expand(e) \/ Reach(e))
    BY <1>3 DEF Pop
  <2>3. \A c \in Cells : costs[c] \in Nat
    BY <2>1, LegCosts DEF PathIInv
  <2>4. CASE SkipStale(e)
    <3>1. stage' = "search" /\ UNCHANGED <<to, job>>
      BY <2>1, <2>4 DEF SkipStale, Task
    <3>2. AStar => CheapHolds'
      BY <2>1, <2>4, SkipCheap
    <3> QED
      BY <2>1, <3>1, <3>2 DEF CheapIInv, CheapestFound, AStar
  <2>5. CASE Expand(e)
    <3>1. stage' = "search" /\ UNCHANGED <<to, job>>
      BY <2>1, <2>5 DEF Expand, Task
    <3>2. AStar => CheapHolds'
      BY <2>1, <2>2, <2>3, <2>5, ExpandCheap
    <3> QED
      BY <2>1, <3>1, <3>2 DEF CheapIInv, CheapestFound, AStar
  <2>6. CASE Reach(e)
    <3>1. stage' = "found" /\ UNCHANGED job
      BY <2>6 DEF Reach, Task
    <3>2. AStar => CheapestFound'
      BY <2>1, <2>2, <2>3, <2>6, ReachCheapest
    <3>3. ~AStar => CheapestFound'
      BY <3>1 DEF CheapestFound, AStar
    <3> QED
      BY <3>1, <3>2, <3>3 DEF CheapIInv
  <2> QED
    BY <2>2, <2>4, <2>5, <2>6
<1>4. CASE Exhausted
  BY <1>4 DEF Exhausted, CheapIInv, CheapestFound
<1>5. CASE Connect
  BY <1>5 DEF Connect, CheapIInv, CheapestFound
<1>6. CASE Finish
  BY <1>6 DEF Finish, CheapIInv, CheapestFound
<1>7. CASE UNCHANGED planVars
  <2>1. \A w : Spent(w)' = Spent(w)
    BY <1>7 DEF planVars, Spent
  <2>2. AStar' = AStar /\ CheapHolds' = CheapHolds
    BY <1>7 DEF planVars, AStar, CheapHolds, QueuePriced, OpenPriced, ClosedFirst, EdgesRelaxed, CostsAddUp, Togo
  <2> QED
    BY <1>7, <2>1, <2>2 DEF planVars, CheapIInv, CheapestFound, Leads, Walk
<1> QED
  BY <1>1, <1>2, <1>3, <1>4, <1>5, <1>6, <1>7 DEF PlanNext

LEMMA CheapInductive == PlanSpec => [](SearchIInv /\ PathIInv /\ CheapIInv)
<1>1. PlanInit => SearchIInv /\ PathIInv /\ CheapIInv
  BY DEF PlanInit, SearchIInv, PathIInv, LegHolds, LegTypes, CostsAreTheLegs, MainIsClear, BridgeEndsAtMain,
       FoundIsStrung, HandedIsClear, CheapIInv, CheapestFound
<1>2. SearchIInv /\ PathIInv /\ CheapIInv /\ [PlanNext]_planVars => (SearchIInv /\ PathIInv /\ CheapIInv)'
  BY SearchStep, PathStep, CheapStep
<1> QED
  BY <1>1, <1>2, PTL DEF PlanSpec

\* On every grid and whatever the costs: the path A* finds is a way of
\* neighbouring open cells, and no way from the start to the goal costs less,
\* although A* drops what it finds of a cell that was expanded.  The heuristic's
\* rounding, with which the triangle inequality has to hold, is part of the proof.
\* (_astar, _heuristic, _cell_step_cost)
THEOREM AStarFindsTheCheapest == PlanSpec => []CheapestFound
<1>1. CheapIInv => CheapestFound
  BY DEF CheapIInv
<1> QED
  BY <1>1, CheapInductive, PTL

\* What A* knows of an expanded cell is final: neither its cost nor its parent
\* changes again in the search, so dropping the entries of expanded cells loses
\* nothing.  (_astar)
ExpandedIsFinal ==
    [][(AStar /\ stage = "search") => \A c \in closed : g'[c] = g[c] /\ parent'[c] = parent[c]]_planVars

THEOREM AStarSettlesOnce == PlanSpec => ExpandedIsFinal
<1> DEFINE Final == (AStar /\ stage = "search") =>
                      \A c \in closed : g'[c] = g[c] /\ parent'[c] = parent[c]
<1>1. ASSUME SearchIInv, PathIInv, CheapIInv, PlanNext PROVE Final
  <2> SUFFICES ASSUME AStar, stage = "search" PROVE \A c \in closed : g'[c] = g[c] /\ parent'[c] = parent[c]
    OBVIOUS
  <2>1. SearchHolds /\ TreeHolds /\ to \in Cells /\ CheapHolds
    BY <1>1 DEF SearchIInv, PathIInv, CheapIInv
  <2>2. \A c \in Cells : costs[c] \in Nat
    BY <1>1, LegCosts DEF PathIInv
  <2>3. CASE Pop
    <3>1. PICK e \in queue : IsLeast(e) /\ (SkipStale(e) \/ Expand(e) \/ Reach(e))
      BY <2>3 DEF Pop
    <3>2. CASE SkipStale(e)
      BY <3>2 DEF SkipStale
    <3>3. CASE Expand(e)
      BY <2>1, <2>2, <3>1, <3>3, ExpandCheap
    <3>4. CASE Reach(e)
      <4>1. to \notin closed
        BY <2>1 DEF SearchHolds, GoalNotExpanded
      <4>2. PICK v, u : parent' = [parent EXCEPT ![to] = v] /\ g' = [g EXCEPT ![to] = u]
        BY <3>4 DEF Reach
      <4>3. closed \subseteq DOMAIN g /\ closed \subseteq DOMAIN parent
        BY <2>1 DEF SearchHolds, NeighboursKnown, ExpandedOpen, Open, TreeHolds
      <4> QED
        BY <4>1, <4>2, <4>3
    <3> QED
      BY <3>1, <3>2, <3>3, <3>4
  <2>4. CASE Exhausted
    BY <2>4 DEF Exhausted, Search
  <2> QED
    BY <1>1, <2>3, <2>4 DEF PlanNext, Refuse, Prepare, Connect, Finish
<1>2. SearchIInv /\ PathIInv /\ CheapIInv /\ [PlanNext]_planVars => [Final]_planVars
  BY <1>1
<1> QED
  BY <1>2, CheapInductive, PTL DEF PlanSpec, ExpandedIsFinal

-----------------------------------------------------------------------------
(* The replans *)

FlipsCounted == flips \in Nat /\ flipsLeft \in Nat /\ FlipsWithinBudget

\* A path that is accepted is no return under the hold, unless a flip is left.
LEMMA AcceptedSparesTheBudget ==
    ASSUME NEW h, NEW ask, NEW c, Verdict(h, ask, c) = "accepted"
    PROVE  Returns(h, c) => flipsLeft # 0
BY DEF Verdict, ShortFlip

\* A verdict that accepts is the verdict on the path it comes with.
Judged(h, ask, x) == x.verdict = "accepted" => Verdict(h, ask, x.path) = "accepted"

\* What the attempts come to, if it is ok, is a path that was accepted.
LEMMA TriesAccept ==
    ASSUME NEW h, NEW ask, NEW stuck, NEW t \in Tries(h, ask, stuck), t.ok
    PROVE  Verdict(h, ask, t.path) = "accepted"
<1>1. PICK p \in Paints(h, ask) :
        \E x \in Attempt(h, ask, stuck, p[1]) \X Attempt(h, ask, stuck, p[2]) \X Sides(h, ask, stuck) :
            t = Outcome(x[1], x[2], x[3])
  BY DEF Tries
<1>2. PICK a \in Attempt(h, ask, stuck, p[1]), b \in Attempt(h, ask, stuck, p[2]), c \in Sides(h, ask, stuck) :
        t = Outcome(a, b, c)
  BY <1>1
<1>3. ASSUME NEW painted, NEW x \in Attempt(h, ask, stuck, painted)
      PROVE  Judged(h, ask, x)
  <2>1. CASE Planned(stuck, painted) = {}
    BY <1>3, <2>1 DEF Attempt, Judged
  <2>2. CASE Planned(stuck, painted) # {}
    BY <1>3, <2>2 DEF Attempt, Judged
  <2> QED
    BY <2>1, <2>2
<1>4. Judged(h, ask, c)
  <2>1. CASE c \in {[verdict |-> Verdict(h, ask, q), path |-> q] : q \in Forced(stuck)}
    BY <2>1 DEF Judged
  <2>2. CASE c = [verdict |-> "none feasible", path |-> path]
    BY <2>2 DEF Judged
  <2> QED
    BY <2>1, <2>2 DEF Sides
<1> QED
  BY <1>2, <1>3, <1>4 DEF Outcome, Best, Judged

\* A replan that counts as a flip found one left.
LEMMA ReplanSparesTheBudget ==
    ASSUME NEW h, NEW ask, NEW stuck, NEW r \in TryReplan(h, ask, stuck), r.flip
    PROVE  flipsLeft # 0
<1>1. PICK t \in Tries(h, ask, stuck) :
        r \in (IF t.ok THEN {Committed(h, t.path)}
               ELSE IF Lifts(h, ask, t)
               THEN {IF u.ok THEN Committed(NoHold, u.path) ELSE Refused(NoHold) :
                        u \in Tries(NoHold, [ask EXCEPT !.force = FALSE], stuck)}
               ELSE {Refused(h)})
  BY DEF TryReplan
<1>2. \A k, c : Committed(k, c).flip = Returns(k, c) /\ Refused(k).flip = FALSE /\ Returns(NoHold, c) = FALSE
  BY DEF Committed, Refused, Returns
<1>3. CASE t.ok
  BY <1>1, <1>2, <1>3, TriesAccept, AcceptedSparesTheBudget
<1>4. CASE ~t.ok
  BY <1>1, <1>2, <1>4
<1> QED
  BY <1>3, <1>4

\* A replan that counts as a flip takes it from what is left.
LEMMA AppliesCounts ==
    ASSUME FlipsCounted, NEW h, NEW ask, NEW stuck, NEW r \in TryReplan(h, ask, stuck), Applies(r)
    PROVE  FlipsCounted'
<1>1. r.flip => flipsLeft # 0
  BY ReplanSparesTheBudget
<1>2. CASE r.flip
  BY <1>1, <1>2, BudgetAssumption DEF FlipsCounted, FlipsWithinBudget, Applies
<1>3. CASE ~r.flip
  BY <1>3, BudgetAssumption DEF FlipsCounted, FlipsWithinBudget, Applies
<1> QED
  BY <1>2, <1>3

\* Whatever the corridors, the lengths and the budget: within a goal the robot
\* returns to the banned or a shorter path no more often than
\* detour_short_flip_budget, whichever of the replans takes it back.
\* (_reject_short_flip, _commit_replan_path)
THEOREM FlipsStayWithinBudget == DetourSpec => []FlipsWithinBudget
<1>1. DetourInit => FlipsCounted
  BY BudgetAssumption DEF DetourInit, FlipsCounted, FlipsWithinBudget
<1>2. FlipsCounted /\ [DetourNext]_detourVars => FlipsCounted'
  <2> SUFFICES ASSUME FlipsCounted, [DetourNext]_detourVars PROVE FlipsCounted'
    OBVIOUS
  <2>1. CASE BlockedReplan
    BY <2>1, AppliesCounts DEF BlockedReplan, Recovered
  <2>2. CASE EscapeReplan
    BY <2>2, AppliesCounts DEF EscapeReplan
  <2>3. CASE StallReplan
    BY <2>3, AppliesCounts DEF StallReplan
  <2>4. CASE StaticReplan
    BY <2>4, AppliesCounts DEF StaticReplan
  <2>5. CASE RunGoal
    BY <2>5, BudgetAssumption DEF RunGoal, FlipsCounted, FlipsWithinBudget
  <2>6. CASE Unblocked \/ Moves \/ WorldChanges \/ UNCHANGED detourVars
    BY <2>6 DEF Unblocked, Moves, WorldChanges, detourVars, FlipsCounted, FlipsWithinBudget
  <2> QED
    BY <2>1, <2>2, <2>3, <2>4, <2>5, <2>6 DEF DetourNext
<1>3. FlipsCounted => FlipsWithinBudget
  BY DEF FlipsCounted
<1> QED
  BY <1>1, <1>2, <1>3, PTL DEF DetourSpec

-----------------------------------------------------------------------------
(* A replan that the map demands *)

DetourTypes ==
    /\ pos \in [route : Routes, at : Nat] /\ pos.at <= Length[pos.route]
    /\ path.route \in Routes
    /\ seen \in [Routes -> {"clear", "tight", "shut"}]

\* After a failed static replan no ban is left: the replan lifted it.
MissedBare == missed => Hold = NoHold

DetourIInv == DetourTypes /\ MissedBare

\* The way ahead through a corridor is never negative: the robot leaves none at its far end.
LEMMA WaysAreLong ==
    ASSUME DetourTypes
    PROVE  \A r \in Routes : Way(r) \in Nat
<1>1. pos.at \in Nat /\ pos.at <= Length[pos.route] /\ \A r \in Routes : Length[r] \in Nat
  BY LengthAssumption DEF DetourTypes, Routes
<1>2. ASSUME NEW r \in Routes PROVE Way(r) \in Nat
  <2>1. CASE r = pos.route
    BY <1>1, <2>1 DEF Way
  <2>2. CASE r # pos.route
    BY <1>1, <2>2 DEF Way
  <2> QED
    BY <2>1, <2>2
<1> QED
  BY <1>2

\* Every replan ends with a path through one of the corridors.
LEMMA TriesLead ==
    ASSUME DetourTypes, NEW h, NEW ask, NEW stuck, NEW t \in Tries(h, ask, stuck)
    PROVE  t.path.route \in Routes
<1> USE DEF DetourTypes
<1>1. PICK p \in Paints(h, ask) :
        \E x \in Attempt(h, ask, stuck, p[1]) \X Attempt(h, ask, stuck, p[2]) \X Sides(h, ask, stuck) :
            t = Outcome(x[1], x[2], x[3])
  BY DEF Tries
<1>2. PICK a \in Attempt(h, ask, stuck, p[1]), b \in Attempt(h, ask, stuck, p[2]), c \in Sides(h, ask, stuck) :
        t = Outcome(a, b, c)
  BY <1>1
<1>3. ASSUME NEW painted, NEW x \in Attempt(h, ask, stuck, painted)
      PROVE  x.path.route \in Routes
  <2>1. \A q \in Planned(stuck, painted) : q.route \in Routes
    BY DEF Planned, PathOn
  <2>2. CASE Planned(stuck, painted) = {}
    BY <1>3, <2>2 DEF Attempt
  <2>3. CASE Planned(stuck, painted) # {}
    BY <1>3, <2>1, <2>3 DEF Attempt
  <2> QED
    BY <2>2, <2>3
<1>4. c.path.route \in Routes
  <2>1. \A q \in Forced(stuck) : q.route \in Routes
    BY DEF Forced, PathOn
  <2>2. CASE c \in {[verdict |-> Verdict(h, ask, q), path |-> q] : q \in Forced(stuck)}
    BY <2>1, <2>2
  <2>3. CASE c = [verdict |-> "none feasible", path |-> path]
    BY <2>3
  <2> QED
    BY <2>2, <2>3 DEF Sides
<1> QED
  BY <1>2, <1>3, <1>4 DEF Outcome, Best

\* The same of a whole replan, with its retry.
LEMMA ReplanLeads ==
    ASSUME DetourTypes, NEW h, NEW ask, NEW stuck, NEW r \in TryReplan(h, ask, stuck)
    PROVE  r.path.route \in Routes
<1>1. PICK t \in Tries(h, ask, stuck) :
        r \in (IF t.ok THEN {Committed(h, t.path)}
               ELSE IF Lifts(h, ask, t)
               THEN {IF u.ok THEN Committed(NoHold, u.path) ELSE Refused(NoHold) :
                        u \in Tries(NoHold, [ask EXCEPT !.force = FALSE], stuck)}
               ELSE {Refused(h)})
  BY DEF TryReplan
<1>2. \A k, c : Committed(k, c).path = c /\ Refused(k).path = path
  BY DEF Committed, Refused
<1> QED
  BY <1>1, <1>2, TriesLead DEF DetourTypes

\* A replan that insists leaves no ban behind when it fails.
LEMMA InsistentReplanLifts ==
    ASSUME NEW h, NEW ask, NEW stuck, NEW r \in TryReplan(h, ask, stuck), ask.force, ~r.ok
    PROVE  r.hold = NoHold
<1>1. PICK t \in Tries(h, ask, stuck) :
        r \in (IF t.ok THEN {Committed(h, t.path)}
               ELSE IF Lifts(h, ask, t)
               THEN {IF u.ok THEN Committed(NoHold, u.path) ELSE Refused(NoHold) :
                        u \in Tries(NoHold, [ask EXCEPT !.force = FALSE], stuck)}
               ELSE {Refused(h)})
  BY DEF TryReplan
<1>2. \A k, c : Committed(k, c).ok = TRUE /\ Refused(k).hold = k
  BY DEF Committed, Refused
<1>3. Lifts(h, ask, t) \/ h = NoHold
  BY DEF Lifts
<1> QED
  BY <1>1, <1>2, <1>3

\* Without a ban, with a corridor clear, none tight and the start free, a
\* request that insists and does not ask for another path finds one.
LEMMA InsistentReplanFinds ==
    ASSUME DetourTypes, NEW failed, ~startShut,
           \E r \in Routes : seen[r] = "clear", \A r \in Routes : seen[r] # "tight",
           NEW r \in TryReplan(NoHold, Ask(FALSE, failed, TRUE), startShut)
    PROVE  r.ok
<1> DEFINE ask == Ask(FALSE, failed, TRUE)
           ways == {w \in Routes : seen[w] # "shut"}
           lengths == {Way(w) : w \in ways}
<1>1. PICK m \in lengths : \A n \in lengths : m <= n
  <2>1. lengths \subseteq Nat /\ lengths # {}
    BY WaysAreLong
  <2> HIDE DEF lengths
  <2> QED
    BY <2>1, LeastOf
<1>2. Planned(startShut, {}) # {}
  <2>1. PICK s \in ways : m = Way(s)
    BY <1>1
  <2>2. \A t \in ways : Way(s) <= Way(t)
    BY <1>1, <2>1
  <2> QED
    BY <2>2 DEF Planned
<1>3. \A q \in Planned(startShut, {}) : q.route \in Routes
  BY DEF Planned, PathOn
<1>4. ASSUME NEW q \in Planned(startShut, {}) PROVE Verdict(NoHold, ask, q) = "accepted"
  <2>1. ~StillBlocked(q)
    BY <1>3 DEF StillBlocked
  <2>2. ~ShortFlip(NoHold, q) /\ ~TooLong(NoHold, ask, q) /\ ~ask.different
    BY DEF ShortFlip, Returns, TooLong, MayBeLong, Ask
  <2> HIDE DEF ask
  <2> QED
    BY <2>1, <2>2 DEF Verdict
<1> HIDE DEF ask
<1>5. \A a \in Attempt(NoHold, ask, startShut, {}) : a.verdict = "accepted"
  BY <1>2, <1>4 DEF Attempt
<1>6. \A p \in Paints(NoHold, ask) : p[1] = {}
  BY DEF Paints
<1>7. ASSUME NEW t \in Tries(NoHold, ask, startShut) PROVE t.ok
  <2>1. PICK p \in Paints(NoHold, ask) :
          \E x \in Attempt(NoHold, ask, startShut, p[1]) \X Attempt(NoHold, ask, startShut, p[2])
                     \X Sides(NoHold, ask, startShut) :
              t = Outcome(x[1], x[2], x[3])
    BY DEF Tries
  <2>2. PICK a \in Attempt(NoHold, ask, startShut, p[1]), b \in Attempt(NoHold, ask, startShut, p[2]),
                c \in Sides(NoHold, ask, startShut) : t = Outcome(a, b, c)
    BY <2>1
  <2> QED
    BY <2>2, <1>5, <1>6 DEF Outcome, Best
<1>8. \A c : Committed(NoHold, c).ok = TRUE
  BY DEF Committed
<1>9. r \in TryReplan(NoHold, ask, startShut)
  BY DEF ask
<1> QED
  BY <1>7, <1>8, <1>9 DEF TryReplan

\* The same of the state after it.
LEMMA AppliesLeads ==
    ASSUME DetourIInv, NEW h, NEW ask, NEW stuck, NEW r \in TryReplan(h, ask, stuck), Applies(r),
           UNCHANGED <<pos, seen>>
    PROVE  DetourTypes'
BY ReplanLeads DEF DetourIInv, DetourTypes, Applies

\* Types of the replans, and that a failed static replan leaves no ban.
THEOREM DetourInductive == DetourSpec => []DetourIInv
<1>1. DetourInit => DetourIInv
  BY LengthAssumption DEF DetourInit, DetourIInv, DetourTypes, MissedBare, Routes
<1>2. DetourIInv /\ [DetourNext]_detourVars => DetourIInv'
  <2> SUFFICES ASSUME DetourIInv, [DetourNext]_detourVars PROVE DetourIInv'
    OBVIOUS
  <2>1. CASE BlockedReplan
    BY <2>1, AppliesLeads DEF BlockedReplan, Recovered, DetourIInv, MissedBare
  <2>2. CASE EscapeReplan
    BY <2>2, AppliesLeads DEF EscapeReplan, DetourIInv, MissedBare
  <2>3. CASE StallReplan
    BY <2>3, AppliesLeads DEF StallReplan, DetourIInv, MissedBare
  <2>4. CASE StaticReplan
    <3>1. PICK failed : \E r \in TryReplan(Hold, Ask(FALSE, failed, TRUE), startShut) :
            Applies(r) /\ missed' = ~r.ok
      BY <2>4 DEF StaticReplan
    <3>2. PICK r \in TryReplan(Hold, Ask(FALSE, failed, TRUE), startShut) : Applies(r) /\ missed' = ~r.ok
      BY <3>1
    <3>3. DetourTypes'
      BY <2>4, <3>2, AppliesLeads DEF StaticReplan
    <3>4. ~r.ok => r.hold = NoHold
      BY <3>2, InsistentReplanLifts DEF Ask
    <3>5. MissedBare'
      BY <3>2, <3>4 DEF MissedBare, Hold, NoHold, Applies
    <3> QED
      BY <3>3, <3>5 DEF DetourIInv
  <2>5. CASE RunGoal
    BY <2>5, LengthAssumption DEF RunGoal, DetourIInv, DetourTypes, MissedBare, Routes
  <2>6. CASE Moves
    BY <2>6, LengthAssumption DEF Moves, Way, DetourIInv, DetourTypes, MissedBare, Routes
  <2>7. CASE WorldChanges
    BY <2>7 DEF WorldChanges, DetourIInv, DetourTypes, MissedBare
  <2>8. CASE Unblocked \/ UNCHANGED detourVars
    BY <2>8 DEF Unblocked, detourVars, DetourIInv, DetourTypes, MissedBare, Hold
  <2> QED
    BY <2>1, <2>2, <2>3, <2>4, <2>5, <2>6, <2>7, <2>8 DEF DetourNext
<1> QED
  BY <1>1, <1>2, PTL DEF DetourSpec

\* Whatever the corridors, the lengths, the budget and the limits: a static
\* replan that follows a failed one in an unchanged world, with a corridor clear,
\* none tight and the robot's own cell free, succeeds.
\* (_try_replan, apply_periodic_replan)
THEOREM StaticReplansFailOnce == DetourSpec => StaticFailsOnce
<1>1. DetourIInv /\ [DetourNext]_detourVars =>
        [(missed /\ StaticReplan /\ ~startShut /\ (\E r \in Routes : seen[r] = "clear")
            /\ \A r \in Routes : seen[r] # "tight") => ~missed']_detourVars
  <2> SUFFICES ASSUME DetourIInv, missed, StaticReplan, ~startShut, \E r \in Routes : seen[r] = "clear",
                      \A r \in Routes : seen[r] # "tight"
               PROVE  ~missed'
    OBVIOUS
  <2>1. Hold = NoHold /\ DetourTypes
    BY DEF DetourIInv, MissedBare
  <2>2. PICK failed : \E r \in TryReplan(Hold, Ask(FALSE, failed, TRUE), startShut) : missed' = ~r.ok
    BY DEF StaticReplan
  <2> QED
    BY <2>1, <2>2, InsistentReplanFinds
<1> QED
  BY <1>1, DetourInductive, PTL DEF DetourSpec, StaticFailsOnce

-----------------------------------------------------------------------------
(* The drawing of the map (MapRender): what the grid shows against what the *)
(* operator erased and what the pose graph holds, for any number of scans,  *)
(* edits, corrections and keyframes.                                        *)

\* Keyframes and scans are numbered in their order, edits by the newest scan.
Numbered ==
    /\ frozen <= Len(nodes)
    /\ \A i \in DOMAIN nodes : nodes[i].id <= last
    /\ \A i, j \in DOMAIN nodes : i < j => nodes[i].id < nodes[j].id
    /\ \A k \in DOMAIN edits : edits[k].seq <= last

Redraws == {"verdict", "extra", "swap"}

\* A redraw that is still valid is of keyframes the graph ns still begins with.
OfGraph(c, ns) ==
    c.pc \in Redraws =>
        /\ DOMAIN c.poses = DOMAIN c.snap
        /\ c.valid => /\ Len(c.snap) <= Len(ns)
                      /\ \A i \in DOMAIN c.snap : c.snap[i].scans \subseteq ns[i].scans

\* Only an optimization that the operator asked for is about to move one of the
\* n saved keyframes.
Spares(c, ns, n) ==
    /\ c.pc = "snap" /\ c.for # "optimize" => c.ff = 0 \/ c.ff > n
    /\ c.pc \in Redraws /\ c.for # "optimize" /\ c.valid =>
         /\ n <= Len(c.snap)
         /\ \A i \in 1 .. n : c.poses[i] = ns[i].off

CallsHold == \A th \in Threads : OfGraph(call[th], nodes) /\ Spares(call[th], nodes, frozen)

\* A redraw that will take place: it adds no edge that could be refused, and
\* nothing has outdated it.
Pledged(c) ==
    \/ c.pc = "snap" /\ c.new = {}
    \/ c.pc \in {"verdict", "extra"} /\ c.new = {} /\ c.valid
    \/ c.pc = "swap" /\ c.valid

\* A wall is drawn where a keyframe of ns has its scan.
Vouched(w, ns) ==
    \E i \in DOMAIN ns : \E s \in ns[i].scans : s.seq = w.seq /\ w.off = ns[i].off + s.rel

AllVouched ==
    \A w \in grid : w.seq > Image /\ w.seq \notin late \union orphans => Vouched(w, nodes)

\* The grid shows the graph, or a redraw is under way that will see to it.
InStep == AllVouched \/ \E th \in Threads : Pledged(call[th])

Joins(e, ns) ==
    /\ e.j \in DOMAIN ns /\ ns[e.j].id = e.to
    /\ e.i # 0 => e.i \in DOMAIN ns /\ ns[e.i].id = e.from

\* The worker's detections, its chain of them and what it is about to commit
\* are of this graph, unless a newer revision has outdated them.
ChainHolds(c, chain, ns) ==
    /\ chain # NoPending /\ chain.valid => \A e \in chain.edges : Joins(e, ns)
    /\ c.pc = "detect" /\ c.valid =>
         /\ \A i \in DOMAIN c.ids : i \in DOMAIN ns /\ ns[i].id = c.ids[i]
         /\ c.same /\ chain # NoPending => chain.valid
    /\ c.pc = "commit" /\ c.valid => \A e \in c.new : Joins(e, ns)
ChainsJoin == ChainHolds(call["worker"], pending, nodes)

DrawIInv ==
    /\ TypeOK
    /\ Numbered
    /\ ErasedStaysErased
    /\ CallsHold
    /\ InStep
    /\ EdgesJoinTheirKeyframes
    /\ ChainsJoin

-----------------------------------------------------------------------------
(* Walls and redraws *)

LEMMA WallsAre ==
    ASSUME NEW S, NEW o, NEW w
    PROVE  w \in Walls(S, o) <=> \E s \in S, p \in Places : w = Wall(s.seq, p, o + s.rel)
  BY SMT DEF Walls

LEMMA WallsTyped ==
    ASSUME NEW S \in SUBSET Scan, NEW o \in Int
    PROVE  Walls(S, o) \subseteq WallType
<1> SUFFICES ASSUME NEW w \in Walls(S, o) PROVE w \in WallType
  OBVIOUS
<1>1. PICK s \in S, p \in Places : w = Wall(s.seq, p, o + s.rel)
  BY WallsAre
<1>2. s.seq \in Nat /\ o + s.rel \in Int
  BY DEF Scan
<1> QED
  BY <1>1, <1>2 DEF Wall, WallType

\* The walls of the scans after n are where those scans are.
LEMMA ScansAfterAre ==
    ASSUME NEW ns \in Seq(Node), NEW n, NEW w \in ScansAfter(ns, n)
    PROVE  /\ w \in WallType
           /\ \E i \in DOMAIN ns : \E s \in ns[i].scans : s.seq = w.seq /\ w.off = ns[i].off + s.rel
<1>1. PICK i \in DOMAIN ns : w \in Walls({x \in ns[i].scans : x.seq > n}, ns[i].off)
  BY DEF ScansAfter
<1>2. ns[i] \in Node
  BY <1>1
<1> DEFINE S == {x \in ns[i].scans : x.seq > n}
<1>3. S \in SUBSET Scan /\ ns[i].off \in Int
  BY <1>2 DEF Node
<1>4. w \in WallType
  BY <1>1, <1>3, WallsTyped
<1>5. PICK s \in S, p \in Places : w = Wall(s.seq, p, ns[i].off + s.rel)
  BY <1>1, WallsAre
<1>6. s \in ns[i].scans /\ s.seq = w.seq /\ w.off = ns[i].off + s.rel
  BY <1>5 DEF Wall
<1> QED
  BY <1>4, <1>6

\* What a redraw draws: walls of the image, of the snapshot's scans at their new
\* poses, and the extra ones.
LEMMA RenderGridDraws ==
    ASSUME NEW c, c.snap \in Seq(Node), c.poses \in Seq(Int), DOMAIN c.poses = DOMAIN c.snap,
           NEW extra \in SUBSET WallType, NEW w \in RenderGrid(c, extra)
    PROVE  /\ w \in WallType
           /\ \/ w.seq = Image
              \/ w \in extra
              \/ \E i \in DOMAIN c.snap : \E s \in c.snap[i].scans :
                     s.seq = w.seq /\ w.off = c.poses[i] + s.rel
<1> DEFINE I == {[seq |-> Image, rel |-> 0]}
<1>1. \/ w \in Walls(I, 0)
      \/ \E i \in DOMAIN c.snap : w \in Walls(c.snap[i].scans, c.poses[i])
      \/ w \in extra
  <2>1. w \in Underlay \union Redrawn(c) \union extra
    BY DEF RenderGrid, RenderClears
  <2>2. w \in Underlay => w \in Walls(I, 0)
    BY DEF Underlay
  <2>3. w \in Redrawn(c) => \E i \in DOMAIN c.snap : w \in Walls(c.snap[i].scans, c.poses[i])
    BY DEF Redrawn
  <2> QED
    BY <2>1, <2>2, <2>3
<1>2. CASE w \in Walls(I, 0)
  <2>1. PICK s \in I, p \in Places : w = Wall(s.seq, p, 0 + s.rel)
    BY <1>2, WallsAre
  <2> QED
    BY <2>1 DEF Wall, WallType, Image, Mark
<1>3. ASSUME NEW i \in DOMAIN c.snap, w \in Walls(c.snap[i].scans, c.poses[i])
      PROVE  /\ w \in WallType
             /\ \E s \in c.snap[i].scans : s.seq = w.seq /\ w.off = c.poses[i] + s.rel
  <2>1. c.snap[i] \in Node /\ c.poses[i] \in Int
    OBVIOUS
  <2>2. c.snap[i].scans \in SUBSET Scan
    BY <2>1 DEF Node
  <2>3. PICK s \in c.snap[i].scans, p \in Places : w = Wall(s.seq, p, c.poses[i] + s.rel)
    BY <1>3, WallsAre
  <2> QED
    BY <1>3, <2>1, <2>2, <2>3, WallsTyped DEF Wall
<1> QED
  BY <1>1, <1>2, <1>3

\* A redraw keeps the box clears that it knew of.
LEMMA RenderGridClears ==
    ASSUME NEW c, edits \in Seq(EditType), NEW extra, NEW w \in RenderGrid(c, extra),
           NEW k \in DOMAIN edits, k <= c.done, c.done \in Nat,
           SeqScoped(edits[k]), w.at = edits[k].at, w.seq \in Int
    PROVE  w.seq > edits[k].seq
<1> DEFINE E == SubSeq(edits, 1, c.done)
<1>1. k \in DOMAIN E /\ E[k] = edits[k]
  OBVIOUS
<1>2. ~(w.seq <= E[k].seq)
  BY <1>1 DEF RenderGrid, RenderClears
<1>3. edits[k].seq \in Nat
  <2>1. edits[k] \in EditType
    OBVIOUS
  <2> QED
    BY <2>1 DEF EditType
<1> QED
  BY <1>1, <1>2, <1>3

\* Replaying the other edits adds marks only, and clears what came later.
LEMMA ReplayClears ==
    ASSUME edits \in Seq(EditType), NEW ink, NEW done, NEW w \in Replay(ink, done)
    PROVE  /\ (w.seq = Mark /\ w \in WallType) \/ w \in ink
           /\ w.seq # Mark =>
                \A k \in DOMAIN edits : k > done /\ SeqScoped(edits[k]) => w.at # edits[k].at
<1>1. CASE w \in ink /\ ~Wiped(done, 0, w.at)
  <2>1. ASSUME NEW k \in DOMAIN edits, k > done, SeqScoped(edits[k])
        PROVE  w.at # edits[k].at
    <3>1. k > 0 /\ edits[k].kind # "mark" /\ k \in Replayed(done)
      BY <2>1 DEF SeqScoped, Replayed
    <3> QED
      BY <1>1, <3>1 DEF Wiped
  <2> QED
    BY <1>1, <2>1
<1>2. CASE \E k \in Replayed(done) : w = Wall(Mark, edits[k].at, 0)
  <2>1. PICK k \in Replayed(done) : w = Wall(Mark, edits[k].at, 0)
    BY <1>2
  <2>2. edits[k] \in EditType
    BY <2>1 DEF Replayed
  <2> QED
    BY <2>1, <2>2 DEF Wall, WallType, EditType, Mark
<1> QED
  BY <1>1, <1>2 DEF Replay

-----------------------------------------------------------------------------
(* The keyframes that a clear keeps *)

\* B[i] are the members of K up to i.
Below(B, K, n) == \A i \in 0 .. n : B[i] \in SUBSET K /\ \A k \in K : k \in B[i] <=> k <= i

\* The rank of a member of a finite set of numbers: every rank is taken once.
LEMMA Ranks ==
    ASSUME NEW n \in Nat, NEW K \in SUBSET (1 .. n), NEW B, Below(B, K, n)
    PROVE  /\ Cardinality(K) \in Nat
           /\ \A i \in K : Cardinality(B[i]) \in 1 .. Cardinality(K)
           /\ \A i, j \in K : i < j => Cardinality(B[i]) < Cardinality(B[j])
           /\ \A m \in 1 .. Cardinality(K) : \E i \in K : Cardinality(B[i]) = m
<1> USE DEF Below
<1>0. IsFiniteSet(1 .. n) /\ \A k \in K : k \in 1 .. n /\ k \in 0 .. n
  BY FS_Interval
<1>1. IsFiniteSet(K) /\ Cardinality(K) \in Nat
  BY <1>0, FS_Subset, FS_CardinalityType
<1>2. ASSUME NEW i \in 0 .. n
      PROVE  IsFiniteSet(B[i]) /\ Cardinality(B[i]) \in Nat /\ Cardinality(B[i]) <= Cardinality(K)
  <2>1. B[i] \in SUBSET K
    OBVIOUS
  <2> QED
    BY <1>1, <2>1, FS_Subset, FS_CardinalityType
<1>3. ASSUME NEW i \in 1 .. n
      PROVE  /\ i \in K => Cardinality(B[i]) = Cardinality(B[i - 1]) + 1
             /\ i \notin K => B[i] = B[i - 1]
  <2>1. i - 1 \in 0 .. n /\ i \in 0 .. n
    OBVIOUS
  <2>2. \A k \in K : k <= i <=> k = i \/ k <= i - 1
    BY <1>0
  <2>3. ASSUME i \in K PROVE B[i] = B[i - 1] \cup {i} /\ i \notin B[i - 1]
    <3>1. \A k : k \in B[i] <=> k \in K /\ k <= i
      BY <2>1
    <3>2. \A k : k \in B[i - 1] <=> k \in K /\ k <= i - 1
      BY <2>1
    <3>3. i <= i /\ ~(i <= i - 1)
      OBVIOUS
    <3> QED
      BY <2>2, <2>3, <3>1, <3>2, <3>3
  <2>4. ASSUME i \notin K PROVE B[i] = B[i - 1]
    BY <2>1, <2>2, <2>4
  <2>5. ASSUME i \in K PROVE Cardinality(B[i]) = Cardinality(B[i - 1]) + 1
    BY <1>2, <2>1, <2>3, <2>5, FS_AddElement
  <2> QED
    BY <2>4, <2>5
<1>4. ASSUME NEW i \in 0 .. n, NEW j \in K, i < j
      PROVE  Cardinality(B[i]) < Cardinality(B[j])
  <2>1. j \in 0 .. n /\ j \in B[j] /\ j \notin B[i]
    BY <1>0, <1>4
  <2>2. ASSUME NEW k \in K, k <= i PROVE k <= j
    <3>1. k \in Int /\ i \in Int /\ j \in Int
      BY <1>0
    <3> QED
      BY <1>4, <2>2, <3>1
  <2>3. B[i] \in SUBSET B[j] /\ B[i] # B[j]
    BY <2>1, <2>2
  <2>4. IsFiniteSet(B[j]) /\ Cardinality(B[j]) \in Nat /\ Cardinality(B[i]) \in Nat
    BY <1>2, <2>1
  <2>5. Cardinality(B[i]) <= Cardinality(B[j]) /\ Cardinality(B[i]) # Cardinality(B[j])
    BY <2>3, <2>4, FS_Subset
  <2> QED
    BY <2>4, <2>5
<1>5. Cardinality(B[0]) = 0 /\ B[n] = K
  <2>1. \A k \in K : k <= n /\ ~(k <= 0)
    BY <1>0
  <2>2. 0 \in 0 .. n /\ n \in 0 .. n
    OBVIOUS
  <2>3. B[0] = {}
    BY <2>1, <2>2
  <2>4. B[n] = K
    BY <2>1, <2>2
  <2> QED
    BY <2>3, <2>4, FS_EmptySet
<1>6. ASSUME NEW i \in K PROVE Cardinality(B[i]) \in 1 .. Cardinality(K)
  <2>1. i \in 0 .. n /\ 0 \in 0 .. n /\ 0 < i
    BY <1>0
  <2>2. Cardinality(B[0]) < Cardinality(B[i])
    BY <1>4, <2>1
  <2> QED
    BY <1>1, <1>2, <1>5, <2>1, <2>2
<1>7. ASSUME NEW m \in 1 .. Cardinality(K) PROVE \E i \in K : Cardinality(B[i]) = m
  <2> DEFINE S == {i \in 0 .. n : Cardinality(B[i]) >= m}
  <2>1. n \in S /\ S \subseteq Nat
    BY <1>1, <1>5
  <2>2. PICK i \in S : \A j \in S : i <= j
    BY <2>1, LeastOf
  <2>3. i \in 0 .. n /\ Cardinality(B[i]) >= m /\ i # 0
    BY <1>5
  <2>4. i \in 1 .. n /\ i - 1 \in 0 .. n /\ ~(i <= i - 1)
    BY <2>3
  <2>5. ~(Cardinality(B[i - 1]) >= m)
    BY <2>2, <2>4
  <2>6. Cardinality(B[i - 1]) \in Nat /\ Cardinality(B[i]) \in Nat
    BY <1>2, <2>3, <2>4
  <2>7. i \in K
    BY <1>3, <2>3, <2>4, <2>5
  <2>8. Cardinality(B[i]) = Cardinality(B[i - 1]) + 1
    BY <1>3, <2>4, <2>7
  <2>9. Cardinality(B[i]) = m
    BY <2>3, <2>5, <2>6, <2>8
  <2> QED
    BY <2>7, <2>9
<1>8. \A i, j \in K : i < j => Cardinality(B[i]) < Cardinality(B[j])
  BY <1>0, <1>4
<1> QED
  BY <1>1, <1>6, <1>7, <1>8

LEMMA RanksOfKept ==
    ASSUME TypeOK, NEW p
    PROVE  /\ Cardinality(Keeps(p)) \in Nat
           /\ \A i \in Keeps(p) : Renumbered(p, i) \in 1 .. Cardinality(Keeps(p))
           /\ \A i, j \in Keeps(p) : i < j => Renumbered(p, i) < Renumbered(p, j)
           /\ \A m \in 1 .. Cardinality(Keeps(p)) :
                KeptAt(p, m) \in Keeps(p) /\ Renumbered(p, KeptAt(p, m)) = m
<1> DEFINE n == Len(nodes)
           K == Keeps(p)
           B == [i \in 0 .. n |-> {k \in K : k <= i}]
<1>1. n \in Nat /\ K \in SUBSET (1 .. n)
  BY DEF TypeOK, Keeps
<1>2. \A i \in 0 .. n : B[i] = {k \in Keeps(p) : k <= i}
  OBVIOUS
<1> HIDE DEF B, n
<1>3. \A i \in K : i \in 0 .. n
  BY <1>1
<1>4. \A i \in K : Renumbered(p, i) = Cardinality(B[i])
  BY <1>2, <1>3 DEF Renumbered
<1> HIDE DEF K
<1>5. Below(B, K, n)
  BY <1>2 DEF K, Below
<1>6. /\ Cardinality(K) \in Nat
      /\ \A i \in K : Cardinality(B[i]) \in 1 .. Cardinality(K)
      /\ \A i, j \in K : i < j => Cardinality(B[i]) < Cardinality(B[j])
      /\ \A m \in 1 .. Cardinality(K) : \E i \in K : Cardinality(B[i]) = m
  BY <1>1, <1>5, Ranks
<1>7. ASSUME NEW m \in 1 .. Cardinality(K)
      PROVE  KeptAt(p, m) \in Keeps(p) /\ Renumbered(p, KeptAt(p, m)) = m
  <2>1. \E i \in Keeps(p) : Renumbered(p, i) = m
    BY <1>4, <1>6 DEF K
  <2> QED
    BY <2>1 DEF KeptAt
<1> QED
  BY <1>4, <1>6, <1>7 DEF K

LEMMA RemoveKeeps ==
    ASSUME TypeOK, Numbered, NEW p, RemoveNodes(p)
    PROVE  /\ nodes' \in Seq(Node) /\ frozen' \in Nat
           /\ frozen' <= frozen /\ frozen' <= Len(nodes')
           /\ \A m \in DOMAIN nodes' : KeptAt(p, m) \in Keeps(p) /\ nodes'[m] = nodes[KeptAt(p, m)]
           /\ \A i \in Keeps(p) : Renumbered(p, i) \in DOMAIN nodes' /\ nodes'[Renumbered(p, i)] = nodes[i]
           /\ \A l, m \in DOMAIN nodes' : l < m => KeptAt(p, l) < KeptAt(p, m)
<1> DEFINE N == Cardinality(Keeps(p))
<1>1. /\ N \in Nat
      /\ \A i \in Keeps(p) : Renumbered(p, i) \in 1 .. N
      /\ \A i, j \in Keeps(p) : i < j => Renumbered(p, i) < Renumbered(p, j)
      /\ \A m \in 1 .. N : KeptAt(p, m) \in Keeps(p) /\ Renumbered(p, KeptAt(p, m)) = m
  BY RanksOfKept
<1>2. Len(nodes) \in Nat /\ DOMAIN nodes = 1 .. Len(nodes) /\ \A i \in DOMAIN nodes : nodes[i] \in Node
  BY DEF TypeOK
<1>3. Keeps(p) \in SUBSET (1 .. Len(nodes))
  BY <1>2 DEF Keeps
<1>4. nodes' = [m \in 1 .. N |-> nodes[KeptAt(p, m)]]
  BY DEF RemoveNodes
<1>n. N = Cardinality(Keeps(p))
  OBVIOUS
<1> HIDE DEF N
<1>5. nodes' \in Seq(Node) /\ DOMAIN nodes' = 1 .. N /\ Len(nodes') = N
  <2>1. \A m \in 1 .. N : nodes[KeptAt(p, m)] \in Node
    BY <1>1, <1>2, <1>3
  <2>2. nodes' \in [1 .. N -> Node]
    BY <1>4, <2>1
  <2> QED
    BY <1>1, <2>2
<1>6. ASSUME NEW i \in Keeps(p), NEW j \in Keeps(p), Renumbered(p, i) = Renumbered(p, j)
      PROVE  i = j
  <2>1. i \in Int /\ j \in Int /\ Renumbered(p, i) \in Int /\ Renumbered(p, j) \in Int
    BY <1>1, <1>3
  <2>2. ~(i < j) /\ ~(j < i)
    BY <1>1, <1>6, <2>1
  <2> QED
    BY <2>1, <2>2
<1>7. ASSUME NEW i \in Keeps(p)
      PROVE  Renumbered(p, i) \in DOMAIN nodes' /\ nodes'[Renumbered(p, i)] = nodes[i]
  <2>1. Renumbered(p, i) \in 1 .. N
    BY <1>1
  <2>2. KeptAt(p, Renumbered(p, i)) = i
    BY <1>1, <1>6, <2>1
  <2> QED
    BY <1>4, <1>5, <2>1, <2>2
<1>8. ASSUME NEW l \in 1 .. N, NEW m \in 1 .. N, l < m
      PROVE  KeptAt(p, l) < KeptAt(p, m)
  <2> DEFINE a == KeptAt(p, l)
             b == KeptAt(p, m)
  <2>1. /\ a \in Keeps(p) /\ b \in Keeps(p) /\ a \in Int /\ b \in Int
        /\ Renumbered(p, a) = l /\ Renumbered(p, b) = m
    BY <1>1, <1>3
  <2> HIDE DEF a, b
  <2>2. ~(b < a) /\ a # b
    BY <1>1, <1>8, <2>1
  <2>3. a < b
    BY <2>1, <2>2
  <2> QED
    BY <2>3 DEF a, b
<1>9. frozen' \in Nat /\ frozen' <= frozen /\ frozen' <= N
  <2> DEFINE F == {i \in Keeps(p) : i <= frozen}
  <2>1. frozen \in Nat /\ F \in SUBSET Keeps(p) /\ F \in SUBSET (1 .. frozen)
    BY <1>3 DEF TypeOK
  <2>2. IsFiniteSet(Keeps(p))
    <3>1. IsFiniteSet(1 .. Len(nodes))
      BY <1>2, FS_Interval
    <3> QED
      BY <1>3, <3>1, FS_Subset
  <2>3. IsFiniteSet(1 .. frozen) /\ Cardinality(1 .. frozen) = frozen
    BY <2>1, FS_Interval
  <2>4. IsFiniteSet(F) /\ Cardinality(F) \in Nat /\ Cardinality(F) <= N
    BY <1>n, <2>1, <2>2, FS_Subset, FS_CardinalityType
  <2>5. Cardinality(F) <= frozen
    BY <2>1, <2>3, FS_Subset
  <2> QED
    BY <2>4, <2>5 DEF RemoveNodes
<1>10. \A m \in DOMAIN nodes' : KeptAt(p, m) \in Keeps(p) /\ nodes'[m] = nodes[KeptAt(p, m)]
  BY <1>1, <1>4, <1>5
<1>11. \A l, m \in DOMAIN nodes' : l < m => KeptAt(p, l) < KeptAt(p, m)
  BY <1>5, <1>8
<1> QED
  BY <1>5, <1>7, <1>9, <1>10, <1>11

-----------------------------------------------------------------------------
(* What the threads hold *)

LEMMA CallsByPlace ==
    ASSUME NEW th \in Threads, NEW c \in Calls(th)
    PROVE  /\ c.pc = "idle" => c = Idle
           /\ c.pc = "snap" => c \in Begun
           /\ c.pc \in {"verdict", "extra"} => c \in Solving
           /\ c.pc = "swap" => c \in Drawing
           /\ c.pc = "baseline" => c \in Baselines
           /\ c.pc = "detect" => c \in Detects
           /\ c.pc = "commit" => c \in Commits
           /\ c.pc = "correct" => c \in Corrects
  BY DEF Calls, Idle, Begun, Solving, Drawing, Baselines, Detects, Commits, Corrects

LEMMA EndedIs ==
    ASSUME NEW th \in Threads
    PROVE  /\ Ended(th) \in Calls(th) /\ Ended(th).pc \in {"idle", "baseline"}
           /\ Idle \in Calls(th) /\ Idle.pc = "idle"
  BY DEF Ended, Calls, Baselines, Idle

\* An outdated call is where it was, with nothing that it may still apply.
LEMMA OutdatedIs ==
    ASSUME NEW C, NEW own \in BOOLEAN, NEW th \in Threads, C[th] \in Calls(th)
    PROVE  LET d == Outdate(C, own)[th] IN
           /\ d \in Calls(th) /\ d.pc = C[th].pc
           /\ d.pc = "snap" => d.ff = C[th].ff /\ d.for = C[th].for /\ d.new = C[th].new
           /\ d.pc \notin {"idle", "correct"} => d.valid = FALSE
           /\ d.pc \in Redraws => d.poses = C[th].poses /\ d.snap = C[th].snap
<1> DEFINE c == C[th]
           d == [c EXCEPT !.valid = FALSE, !.own = @ /\ own]
           Same == /\ d.pc = c.pc
                   /\ d.pc = "snap" => d.ff = c.ff /\ d.for = c.for /\ d.new = c.new
                   /\ d.valid = FALSE
                   /\ d.pc \in Redraws => d.poses = c.poses /\ d.snap = c.snap
<1>1. CASE c.pc \in {"idle", "correct"}
  BY <1>1 DEF Outdate, Redraws
<1>2. CASE c.pc \notin {"idle", "correct"}
  <2>1. Outdate(C, own)[th] = d
    BY <1>2 DEF Outdate
  <2>2. CASE c \in Begun
    <3>1. d \in Begun /\ Same
      BY <2>2 DEF Begun, Redraws
    <3> QED
      BY <2>1, <3>1 DEF Calls
  <2>3. CASE c \in Solving
    <3>1. d \in Solving /\ Same
      BY <2>3 DEF Solving, Redraws
    <3> QED
      BY <2>1, <3>1 DEF Calls
  <2>4. CASE c \in Drawing
    <3>1. d \in Drawing /\ Same
      BY <2>4 DEF Drawing, Redraws
    <3> QED
      BY <2>1, <3>1 DEF Calls
  <2>5. CASE c \in Baselines
    <3>1. d \in Baselines /\ Same
      BY <2>5 DEF Baselines, Redraws
    <3> QED
      BY <2>1, <3>1 DEF Calls
  <2>6. CASE c \in Detects /\ th # "caller"
    <3>1. d \in Detects /\ Same
      BY <2>6 DEF Detects, Redraws
    <3> QED
      BY <2>1, <3>1, <2>6 DEF Calls
  <2>7. CASE c \in Commits /\ th # "caller"
    <3>1. d \in Commits /\ Same
      BY <2>7 DEF Commits, Redraws
    <3> QED
      BY <2>1, <3>1, <2>7 DEF Calls
  <2>8. c \notin Corrects /\ c # Idle
    BY <1>2 DEF Corrects, Idle
  <2> QED
    BY <2>2, <2>3, <2>4, <2>5, <2>6, <2>7, <2>8 DEF Calls
<1> QED
  BY <1>1, <1>2

LEMMA CallTypes ==
    ASSUME TypeOK, NEW th \in Threads, NEW r \in Calls(th), call' = [call EXCEPT ![th] = r]
    PROVE  DOMAIN call' = Threads /\ \A t \in Threads : call'[t] \in Calls(t)
  BY DEF TypeOK

\* A thread that stops drawing, or never was, relies on nothing.
LEMMA RestHolds ==
    ASSUME NEW r, r.pc \notin Redraws \union {"snap"}, NEW ns, NEW n
    PROVE  OfGraph(r, ns) /\ Spares(r, ns, n)
  BY DEF OfGraph, Spares, Redraws

\* A thread goes on and leaves the graph, the grid and the edits as they are; if
\* it had a redraw to see to, it still has.
LEMMA CallStep ==
    ASSUME DrawIInv, NEW th \in Threads, NEW r, call' = [call EXCEPT ![th] = r],
           UNCHANGED <<nodes, last, frozen, base, grid, edits, late, orphans>>,
           OfGraph(r, nodes), Spares(r, nodes, frozen),
           Pledged(call[th]) => Pledged(r)
    PROVE  Numbered' /\ ErasedStaysErased' /\ CallsHold' /\ InStep'
<1>1. DOMAIN call = Threads /\ DOMAIN call' = Threads
  BY DEF DrawIInv, TypeOK
<1>2. call'[th] = r /\ \A t \in Threads : t # th => call'[t] = call[t]
  BY <1>1
<1>3. Numbered' /\ ErasedStaysErased'
  BY DEF DrawIInv, Numbered, ErasedStaysErased, SeqScoped
<1>4. CallsHold'
  BY <1>2 DEF DrawIInv, CallsHold
<1>5. InStep'
  <2>1. CASE AllVouched
    BY <2>1 DEF InStep, AllVouched
  <2>2. ASSUME NEW t \in Threads, Pledged(call[t]) PROVE InStep'
    <3>1. Pledged(call'[t])
      BY <1>2, <2>2
    <3> QED
      BY <3>1 DEF InStep
  <2> QED
    BY <2>1, <2>2 DEF DrawIInv, InStep
<1> QED
  BY <1>3, <1>4, <1>5

\* Such a step does not disturb the edges, nor the chain if the worker is not at it.
LEMMA ChainStep ==
    ASSUME DrawIInv, NEW th \in Threads, NEW r, call' = [call EXCEPT ![th] = r],
           r.pc \notin {"detect", "commit"}, UNCHANGED <<nodes, pending>>
    PROVE  ChainsJoin'
<1>1. DOMAIN call = Threads
  BY DEF DrawIInv, TypeOK
<1>2. call'["worker"] = r \/ call'["worker"] = call["worker"]
  BY <1>1
<1>3. ChainHolds(call["worker"], pending, nodes)
  BY DEF DrawIInv, ChainsJoin
<1>4. ChainHolds(call'["worker"], pending, nodes)
  BY <1>2, <1>3 DEF ChainHolds
<1> QED
  BY <1>4 DEF ChainsJoin

LEMMA EdgesStep ==
    ASSUME EdgesJoinTheirKeyframes, edges' \subseteq edges, UNCHANGED nodes
    PROVE  EdgesJoinTheirKeyframes'
  BY DEF EdgesJoinTheirKeyframes

\* A thread goes on: what is left to show of the step is the edges and the chain.
LEMMA CallGoesOn ==
    ASSUME DrawIInv, NEW th \in Threads, NEW r \in Calls(th), call' = [call EXCEPT ![th] = r],
           UNCHANGED <<nodes, last, frozen, gap, full, base, grid, edits, painter, late, orphans>>,
           edges' \subseteq EdgeType, live' \in Int, moves' \in Nat, trusted' \in BOOLEAN,
           pending' \in {NoPending} \union Pendings, graphJob' \in Threads \union {"free"},
           OfGraph(r, nodes), Spares(r, nodes, frozen),
           Pledged(call[th]) => Pledged(r)
    PROVE  TypeOK' /\ Numbered' /\ ErasedStaysErased' /\ CallsHold' /\ InStep'
<1>1. DOMAIN call' = Threads /\ \A t \in Threads : call'[t] \in Calls(t)
  BY CallTypes DEF DrawIInv
<1>2. TypeOK'
  BY <1>1 DEF DrawIInv, TypeOK, Calls, Idle, Begun, Solving, Drawing, Baselines, Corrects, Detects, Commits
<1> QED
  BY <1>2, CallStep

\* The same when no edge is new and the worker does not look for loops.
LEMMA CallEnds ==
    ASSUME DrawIInv, NEW th \in Threads, NEW r \in Calls(th), call' = [call EXCEPT ![th] = r],
           UNCHANGED <<nodes, last, frozen, gap, full, base, grid, edits, painter, pending, late, orphans>>,
           edges' \subseteq edges, live' \in Int, moves' \in Nat, trusted' \in BOOLEAN,
           graphJob' \in Threads \union {"free"},
           r.pc \notin {"detect", "commit"},
           OfGraph(r, nodes), Spares(r, nodes, frozen),
           Pledged(call[th]) => Pledged(r)
    PROVE  DrawIInv'
<1>1. edges' \subseteq EdgeType /\ pending' \in {NoPending} \union Pendings
  BY DEF DrawIInv, TypeOK
<1>2. TypeOK' /\ Numbered' /\ ErasedStaysErased' /\ CallsHold' /\ InStep'
  BY <1>1, CallGoesOn
<1>3. EdgesJoinTheirKeyframes'
  BY EdgesStep DEF DrawIInv
<1>4. ChainsJoin'
  BY ChainStep
<1> QED
  BY <1>2, <1>3, <1>4 DEF DrawIInv

\* Only the pose, the painter or a bound changes.
LEMMA QuietStep ==
    ASSUME DrawIInv, UNCHANGED <<graph, base, grid, edits, trusted, pending, call, graphJob, late, orphans>>,
           live' \in Int, moves' \in Nat, painter' \in {Idle} \union Painters
    PROVE  DrawIInv'
<1>1. UNCHANGED <<nodes, edges, last, frozen, gap, full>>
  BY DEF graph
<1>2. TypeOK'
  BY <1>1 DEF DrawIInv, TypeOK, Calls, Idle, Begun, Solving, Drawing, Baselines, Corrects, Detects, Commits
<1>3. Numbered' /\ ErasedStaysErased' /\ EdgesJoinTheirKeyframes'
  BY <1>1 DEF DrawIInv, Numbered, ErasedStaysErased, EdgesJoinTheirKeyframes, SeqScoped
<1>4. CallsHold' /\ ChainsJoin'
  BY <1>1 DEF DrawIInv, CallsHold, ChainsJoin
<1>5. InStep'
  BY <1>1 DEF DrawIInv, InStep, AllVouched
<1> QED
  BY <1>2, <1>3, <1>4, <1>5 DEF DrawIInv

LEMMA RenderingIs ==
    ASSUME NEW th \in Threads, NEW ff \in Nat, NEW new \in SUBSET EdgeType,
           NEW l \in SUBSET Int, NEW for \in Reasons
    PROVE  LET r == Rendering(ff, new, l, for) IN
           /\ r \in Calls(th) /\ r.pc = "snap" /\ r.new = new /\ r.ff = ff /\ r.for = for
  BY DEF Rendering, Calls, Begun

-----------------------------------------------------------------------------
(* A redraw up to its swap *)

LEMMA SnapshotHolds ==
    ASSUME DrawIInv, NEW th \in Threads, NEW d \in {0, 1}, Snapshot(th, d)
    PROVE  DrawIInv'
<1> DEFINE c == call[th]
           P == [i \in DOMAIN nodes |-> nodes[i].off + IF Optimizes(c) /\ i >= c.ff THEN d ELSE 0]
           r == [pc |-> IF Optimizes(c) THEN "verdict" ELSE "extra",
                 snap |-> nodes, seq |-> last, new |-> c.new, live |-> c.live, for |-> c.for,
                 poses |-> P, valid |-> TRUE, own |-> c.own]
<1>1. c \in Calls(th) /\ c.pc = "snap"
  BY DEF DrawIInv, TypeOK, Snapshot
<1>2. c \in Begun
  BY <1>1, CallsByPlace
<1>3. nodes \in Seq(Node) /\ last \in Nat /\ frozen \in Nat /\ moves \in Nat /\ live \in Int
  BY DEF DrawIInv, TypeOK
<1>4. \A i \in DOMAIN nodes : nodes[i].off \in Int
  <2>1. \A i \in DOMAIN nodes : nodes[i] \in Node
    BY <1>3
  <2> QED
    BY <2>1 DEF Node
<1>5. P \in Seq(Int) /\ DOMAIN P = DOMAIN nodes
  <2>1. \A i \in DOMAIN nodes : P[i] \in Int
    BY <1>4
  <2>2. DOMAIN nodes = 1 .. Len(nodes) /\ Len(nodes) \in Nat
    BY <1>3
  <2>3. P \in [1 .. Len(nodes) -> Int]
    BY <2>1, <2>2
  <2> QED
    BY <2>2, <2>3
<1>6. call' = [call EXCEPT ![th] = r]
  BY DEF Snapshot
<1>7. c.for # "optimize" => \A i \in 1 .. frozen : i \in DOMAIN nodes /\ P[i] = nodes[i].off
  <2> SUFFICES ASSUME c.for # "optimize", NEW i \in 1 .. frozen
               PROVE  i \in DOMAIN nodes /\ P[i] = nodes[i].off
    OBVIOUS
  <2>1. i \in DOMAIN nodes
    BY <1>3 DEF DrawIInv, Numbered
  <2>2. c.ff = 0 \/ c.ff > frozen
    BY <1>1 DEF DrawIInv, CallsHold, Spares
  <2>3. ~(Optimizes(c) /\ i >= c.ff)
    BY <1>2, <1>3, <2>2 DEF Optimizes, Begun
  <2>4. P[i] = nodes[i].off + 0
    BY <2>1, <2>3
  <2> QED
    BY <1>4, <2>1, <2>4
<1> HIDE DEF P
<1>8. r \in Solving
  BY <1>2, <1>3, <1>5 DEF Solving, Begun
<1>9. r \in Calls(th) /\ r.pc \in {"verdict", "extra"}
  BY <1>8 DEF Calls
<1>10. OfGraph(r, nodes)
  BY <1>5, <1>3 DEF OfGraph
<1>11. Spares(r, nodes, frozen)
  <2>1. frozen <= Len(nodes)
    BY DEF DrawIInv, Numbered
  <2> QED
    BY <1>7, <1>9, <2>1 DEF Spares
<1>12. Pledged(c) => Pledged(r)
  BY <1>1, <1>9 DEF Pledged
<1>13. moves' \in Nat
  BY <1>3 DEF Snapshot
<1>14. /\ UNCHANGED <<nodes, last, frozen, gap, full, base, grid, edits, painter, pending, late, orphans>>
       /\ edges' \subseteq edges /\ live' \in Int /\ trusted' \in BOOLEAN
       /\ graphJob' \in Threads \union {"free"}
  BY <1>3 DEF Snapshot, graph, DrawIInv, TypeOK
<1> HIDE DEF r, c
<1>15. r.pc \notin {"detect", "commit"}
  BY <1>9
<1>16. Pledged(call[th]) => Pledged(r)
  BY <1>12 DEF c
<1> QED
  BY <1>6, <1>9, <1>10, <1>11, <1>13, <1>14, <1>15, <1>16, CallEnds

\* The call ends without a redraw: its edges raised or were refused, or it was outdated.
LEMMA EndsHolds ==
    ASSUME DrawIInv, NEW th \in Threads, SnapshotRaises(th) \/ Reject(th) \/ Abort(th)
    PROVE  DrawIInv'
<1> DEFINE c == call[th]
<1>1. call' = [call EXCEPT ![th] = Ended(th)]
  BY DEF SnapshotRaises, Reject, Abort
<1>2. Ended(th) \in Calls(th) /\ Ended(th).pc \in {"idle", "baseline"}
  BY EndedIs
<1>3. OfGraph(Ended(th), nodes) /\ Spares(Ended(th), nodes, frozen)
  BY <1>2, RestHolds DEF Redraws
<1>4. graphJob' \in Threads \union {"free"}
  BY DEF SnapshotRaises, Reject, Abort, Release, DrawIInv, TypeOK
<1>5. /\ UNCHANGED <<nodes, last, frozen, gap, full, base, grid, edits, painter, pending, late, orphans>>
      /\ edges' \subseteq edges /\ live' \in Int /\ trusted' \in BOOLEAN /\ moves' \in Nat
  BY DEF SnapshotRaises, Reject, Abort, graph, DrawIInv, TypeOK
<1>6. ~Pledged(c)
  <2>1. CASE SnapshotRaises(th)
    BY <2>1 DEF SnapshotRaises, OutOfRange, Pledged
  <2>2. CASE Reject(th)
    BY <2>2 DEF Reject, Pledged
  <2>3. CASE Abort(th)
    BY <2>3 DEF Abort, Pledged
  <2> QED
    BY <2>1, <2>2, <2>3
<1> QED
  BY <1>1, <1>2, <1>3, <1>4, <1>5, <1>6, CallEnds

LEMMA TakeExtraHolds ==
    ASSUME DrawIInv, NEW th \in Threads, TakeExtra(th)
    PROVE  DrawIInv'
<1> DEFINE c == call[th]
           X == ScansAfter(nodes, c.seq)
           r == [pc |-> "swap", snap |-> c.snap, poses |-> c.poses, seq |-> c.seq,
                 live |-> c.live, for |-> c.for, valid |-> c.valid, own |-> c.own,
                 extra |-> X, done |-> Len(edits)]
<1>1. c \in Calls(th) /\ c.pc \in {"verdict", "extra"} /\ call' = [call EXCEPT ![th] = r]
  BY DEF DrawIInv, TypeOK, TakeExtra
<1>2. c \in Solving
  BY <1>1, CallsByPlace
<1>3. X \in SUBSET WallType /\ Len(edits) \in Nat
  <2>1. nodes \in Seq(Node) /\ edits \in Seq(EditType)
    BY DEF DrawIInv, TypeOK
  <2>2. \A w \in X : w \in WallType
    BY <2>1, ScansAfterAre
  <2> QED
    BY <2>1, <2>2
<1>4. OfGraph(c, nodes) /\ Spares(c, nodes, frozen)
  BY DEF DrawIInv, CallsHold
<1>5. /\ UNCHANGED <<nodes, last, frozen, gap, full, base, grid, edits, painter, pending, late, orphans>>
      /\ edges' \subseteq edges /\ live' \in Int /\ trusted' \in BOOLEAN /\ moves' \in Nat
      /\ graphJob' \in Threads \union {"free"}
  BY DEF TakeExtra, graph, DrawIInv, TypeOK
<1> HIDE DEF X
<1>6. r \in Drawing
  BY <1>2, <1>3 DEF Drawing, Solving
<1>7. r \in Calls(th)
  BY <1>6 DEF Calls
<1>8. OfGraph(r, nodes) /\ Spares(r, nodes, frozen)
  BY <1>1, <1>4 DEF OfGraph, Spares, Redraws
<1>9. Pledged(c) => Pledged(r)
  BY <1>1 DEF Pledged
<1>10. r.pc \notin {"detect", "commit"}
  OBVIOUS
<1> HIDE DEF r
<1> QED
  BY <1>1, <1>5, <1>7, <1>8, <1>9, <1>10, CallEnds

LEMMA BaselineHolds ==
    ASSUME DrawIInv, NEW th \in Threads, Baseline(th)
    PROVE  DrawIInv'
<1>1. Idle \in Calls(th) /\ Idle.pc = "idle" /\ call' = [call EXCEPT ![th] = Idle]
  BY EndedIs DEF Baseline
<1>2. OfGraph(Idle, nodes) /\ Spares(Idle, nodes, frozen)
  BY <1>1, RestHolds DEF Redraws
<1>3. /\ UNCHANGED <<nodes, last, frozen, gap, full, base, grid, edits, painter, pending, late, orphans>>
      /\ edges' \subseteq edges /\ live' \in Int /\ trusted' \in BOOLEAN /\ moves' \in Nat
      /\ graphJob' \in Threads \union {"free"}
  BY DEF Baseline, graph, DrawIInv, TypeOK
<1>4. ~Pledged(call[th])
  BY DEF Baseline, Pledged
<1> QED
  BY <1>1, <1>2, <1>3, <1>4, CallEnds

-----------------------------------------------------------------------------
(* The loop worker *)

\* What a step of the worker leaves alone.
LoopFrame ==
    /\ UNCHANGED <<nodes, last, frozen, gap, full, base, grid, edits, painter, live, trusted,
                   moves, late, orphans>>
    /\ graphJob' \in Threads \union {"free"}

LEMMA LoopGoesOn ==
    ASSUME DrawIInv, NEW r \in Calls("worker"), call' = [call EXCEPT !["worker"] = r],
           LoopFrame, edges' \subseteq EdgeType, EdgesJoinTheirKeyframes',
           pending' \in {NoPending} \union Pendings,
           OfGraph(r, nodes), Spares(r, nodes, frozen),
           ~Pledged(call["worker"]), ChainHolds(r, pending', nodes)
    PROVE  DrawIInv'
<1>1. "worker" \in Threads /\ live' \in Int /\ moves' \in Nat /\ trusted' \in BOOLEAN
  BY DEF Threads, LoopFrame, DrawIInv, TypeOK
<1>2. TypeOK' /\ Numbered' /\ ErasedStaysErased' /\ CallsHold' /\ InStep'
  BY <1>1, CallGoesOn DEF LoopFrame
<1>3. call'["worker"] = r /\ nodes' = nodes
  BY <1>1 DEF DrawIInv, TypeOK, LoopFrame
<1>4. ChainsJoin'
  BY <1>3 DEF ChainsJoin
<1> QED
  BY <1>2, <1>4 DEF DrawIInv

LEMMA LoopBeginsHolds ==
    ASSUME DrawIInv, LoopBegins
    PROVE  DrawIInv'
<1> DEFINE I == [i \in DOMAIN nodes |-> nodes[i].id]
           r == [pc |-> "detect", ids |-> I,
                 low |-> IF trusted THEN 1 ELSE frozen + 1, prior |-> trusted /\ base,
                 same |-> pending # NoPending /\ pending.valid, valid |-> TRUE, own |-> TRUE]
<1>1. /\ nodes \in Seq(Node) /\ frozen \in Nat /\ trusted \in BOOLEAN /\ base \in BOOLEAN
      /\ pending \in {NoPending} \union Pendings /\ edges \subseteq EdgeType
  BY DEF DrawIInv, TypeOK
<1>2. I \in Seq(Nat) \ {<<>>} /\ DOMAIN I = DOMAIN nodes
  <2>1. \A i \in DOMAIN nodes : nodes[i] \in Node
    BY <1>1
  <2>2. \A i \in DOMAIN nodes : nodes[i].id \in Nat
    BY <2>1 DEF Node
  <2>3. DOMAIN nodes = 1 .. Len(nodes) /\ Len(nodes) \in Nat /\ Len(nodes) > 0
    BY <1>1 DEF LoopBegins
  <2>4. I \in [1 .. Len(nodes) -> Nat] /\ DOMAIN I = 1 .. Len(nodes)
    BY <2>2, <2>3
  <2>5. I \in Seq(Nat) /\ Len(I) > 0
    BY <2>3, <2>4
  <2> QED
    BY <2>3, <2>4, <2>5
<1>3. pending # NoPending => pending.valid \in BOOLEAN
  BY <1>1 DEF Pendings
<1>4. r \in Detects
  <2>1. (pending # NoPending /\ pending.valid) \in BOOLEAN /\ (trusted /\ base) \in BOOLEAN
    BY <1>1, <1>3
  <2>2. (IF trusted THEN 1 ELSE frozen + 1) \in Nat \ {0}
    BY <1>1
  <2> HIDE DEF I
  <2> QED
    BY <1>2, <2>1, <2>2 DEF Detects
<1>5. r \in Calls("worker") /\ r.pc = "detect"
  BY <1>4 DEF Calls
<1>6. \A i \in DOMAIN r.ids : i \in DOMAIN nodes /\ nodes[i].id = r.ids[i]
  OBVIOUS
<1>7. ChainHolds(r, pending, nodes)
  <2>1. r.same => pending.valid
    OBVIOUS
  <2>2. pending # NoPending /\ pending.valid => \A e \in pending.edges : Joins(e, nodes)
    BY DEF DrawIInv, ChainsJoin, ChainHolds
  <2> HIDE DEF r
  <2> QED
    BY <1>5, <1>6, <2>1, <2>2 DEF ChainHolds
<1>8. call' = [call EXCEPT !["worker"] = r] /\ UNCHANGED <<pending, edges>> /\ LoopFrame
  BY DEF LoopBegins, graph, LoopFrame, Threads
<1> HIDE DEF r
<1>9. OfGraph(r, nodes) /\ Spares(r, nodes, frozen)
  BY <1>5, RestHolds DEF Redraws
<1>10. ~Pledged(call["worker"])
  BY DEF LoopBegins, Idle, Pledged
<1>11. EdgesJoinTheirKeyframes'
  BY <1>8, EdgesStep DEF LoopFrame, DrawIInv
<1> QED
  BY <1>1, <1>5, <1>7, <1>8, <1>9, <1>10, <1>11, LoopGoesOn

LEMMA LoopEndsHolds ==
    ASSUME DrawIInv, NothingDetected \/ CommitAborts
    PROVE  DrawIInv'
<1>1. /\ Idle \in Calls("worker") /\ Idle.pc = "idle"
      /\ call' = [call EXCEPT !["worker"] = Idle]
  BY EndedIs DEF NothingDetected, CommitAborts, Threads
<1>2. LoopFrame /\ UNCHANGED edges /\ pending' \in {pending, NoPending}
  BY DEF NothingDetected, CommitAborts, graph, LoopFrame, Release, DrawIInv, TypeOK, Threads
<1>3. pending' \in {NoPending} \union Pendings /\ edges' \subseteq EdgeType
  BY <1>2 DEF DrawIInv, TypeOK
<1>4. OfGraph(Idle, nodes) /\ Spares(Idle, nodes, frozen)
  BY <1>1, RestHolds DEF Redraws
<1>5. ~Pledged(call["worker"])
  BY DEF NothingDetected, CommitAborts, Pledged
<1>6. EdgesJoinTheirKeyframes'
  BY <1>2, EdgesStep DEF LoopFrame, DrawIInv
<1>7. ChainHolds(Idle, pending', nodes)
  BY <1>1, <1>2 DEF DrawIInv, ChainsJoin, ChainHolds
<1> QED
  BY <1>1, <1>2, <1>3, <1>4, <1>5, <1>6, <1>7, LoopGoesOn

LEMMA DetectedHolds ==
    ASSUME BoundsAssumption, DrawIInv, NEW i \in 0 .. MaxNodes, NEW needed \in AgreeNeeded,
           NEW same \in BOOLEAN, Detected(i, needed, same)
    PROVE  DrawIInv'
<1> DEFINE c == call["worker"]
           cur == Len(c.ids)
           e == [i |-> i, j |-> cur, loop |-> TRUE, to |-> c.ids[cur],
                 from |-> IF i = 0 THEN 0 ELSE c.ids[i]]
           A == Agrees(c, cur, same)
           chain == IF A THEN pending.edges \union {e} ELSE {e}
           need == IF A THEN AtLeast(pending.need, needed) ELSE needed
<1>1. c \in Detects
  <2>1. "worker" \in Threads /\ c \in Calls("worker") /\ c.pc = "detect"
    BY DEF DrawIInv, TypeOK, Detected, Threads
  <2> QED
    BY <2>1, CallsByPlace
<1>2. /\ c.ids \in Seq(Nat) /\ cur \in Nat /\ cur > 0 /\ DOMAIN c.ids = 1 .. cur
      /\ c.low \in Nat /\ c.low > 0 /\ c.valid \in BOOLEAN
  BY <1>1 DEF Detects
<1>3. i = 0 \/ i \in 1 .. cur
  <2>1. i \in c.low .. cur - 1 \/ i = 0
    BY DEF Detected
  <2> HIDE DEF c, cur
  <2> QED
    BY <1>2, <2>1
<1>4. e \in EdgeType
  <2>1. cur \in DOMAIN c.ids /\ (i # 0 => i \in DOMAIN c.ids)
    BY <1>2, <1>3
  <2>2. c.ids[cur] \in Nat /\ (IF i = 0 THEN 0 ELSE c.ids[i]) \in Nat /\ i \in Nat
    BY <1>2, <1>3, <2>1
  <2> QED
    BY <1>2, <2>2 DEF EdgeType
<1>5. pending \in {NoPending} \union Pendings /\ edges \subseteq EdgeType
  BY DEF DrawIInv, TypeOK
<1>6. A => pending \in Pendings /\ c.same
  BY <1>5 DEF Agrees
<1>7. chain \subseteq EdgeType /\ need \in AgreeNeeded
  <2>1. A => pending.edges \subseteq EdgeType /\ pending.need \in AgreeNeeded
    BY <1>6 DEF Pendings
  <2>2. chain \subseteq EdgeType
    <3> HIDE DEF e, A
    <3> QED
      BY <1>4, <2>1
  <2>3. need \in AgreeNeeded
    BY <2>1 DEF AtLeast
  <2> QED
    BY <2>2, <2>3
<1>8. c.valid => \A x \in chain : Joins(x, nodes)
  <2> SUFFICES ASSUME c.valid, NEW x \in chain PROVE Joins(x, nodes)
    OBVIOUS
  <2>1. ChainHolds(c, pending, nodes) /\ c.pc = "detect"
    BY DEF DrawIInv, ChainsJoin, Detected
  <2>2. CASE x = e
    <3>1. \A k \in 1 .. cur : k \in DOMAIN nodes /\ nodes[k].id = c.ids[k]
      BY <1>2, <2>1 DEF ChainHolds
    <3>2. e.j \in DOMAIN nodes /\ nodes[e.j].id = e.to
      BY <1>2, <3>1
    <3>3. e.i # 0 => e.i \in DOMAIN nodes /\ nodes[e.i].id = e.from
      BY <1>2, <1>3, <3>1
    <3> QED
      BY <2>2, <3>2, <3>3 DEF Joins
  <2>3. CASE A /\ x \in pending.edges
    <3>1. pending # NoPending /\ pending.valid
      BY <1>6, <2>1, <2>3 DEF ChainHolds, Agrees
    <3> QED
      BY <2>1, <2>3, <3>1 DEF ChainHolds
  <2>4. x = e \/ (A /\ x \in pending.edges)
    <3> HIDE DEF e, A
    <3> QED
      OBVIOUS
  <2> QED
    BY <2>2, <2>3, <2>4
<1>9. ~Pledged(c)
  BY DEF Detected, Pledged
<1> DEFINE P == [edges |-> chain, cur |-> cur, need |-> need, valid |-> c.valid]
           r == [pc |-> "commit", new |-> chain, valid |-> c.valid, own |-> TRUE]
<1>10. /\ UNCHANGED edges /\ LoopFrame
       /\ \/ pending' = P /\ call' = [call EXCEPT !["worker"] = Idle]
          \/ pending' = NoPending /\ call' = [call EXCEPT !["worker"] = r]
  BY DEF Detected, graph, LoopFrame, Release, DrawIInv, TypeOK, Threads
<1>11. EdgesJoinTheirKeyframes' /\ edges' \subseteq EdgeType
  BY <1>5, <1>10, EdgesStep DEF LoopFrame, DrawIInv
<1>12. P \in Pendings /\ P.valid = c.valid /\ P.edges = chain
  <2> HIDE DEF chain, need, c, cur
  <2> QED
    BY <1>2, <1>7 DEF Pendings
<1>13. /\ r \in Calls("worker") /\ r.pc = "commit" /\ r.valid = c.valid /\ r.new = chain
       /\ r.pc \notin Redraws \union {"snap"}
  <2> HIDE DEF chain, c
  <2>1. r \in Commits /\ r.pc = "commit" /\ r.valid = c.valid /\ r.new = chain
    BY <1>2, <1>7 DEF Commits
  <2> QED
    BY <2>1 DEF Calls, Redraws
<1> HIDE DEF P, r, c, chain
<1>14. CASE pending' = P /\ call' = [call EXCEPT !["worker"] = Idle]
  <2>1. Idle \in Calls("worker") /\ Idle.pc = "idle"
    BY EndedIs DEF Threads
  <2>2. OfGraph(Idle, nodes) /\ Spares(Idle, nodes, frozen)
    BY <2>1, RestHolds DEF Redraws
  <2>3. ChainHolds(Idle, pending', nodes)
    BY <1>8, <1>12, <1>14, <2>1 DEF ChainHolds
  <2>4. pending' \in {NoPending} \union Pendings /\ ~Pledged(call["worker"])
    BY <1>9, <1>12, <1>14 DEF c
  <2> QED
    BY <1>10, <1>11, <1>14, <2>1, <2>2, <2>3, <2>4, LoopGoesOn
<1>15. CASE pending' = NoPending /\ call' = [call EXCEPT !["worker"] = r]
  <2>1. OfGraph(r, nodes) /\ Spares(r, nodes, frozen)
    BY <1>13, RestHolds
  <2>2. ChainHolds(r, pending', nodes)
    BY <1>8, <1>13, <1>15 DEF ChainHolds
  <2>3. pending' \in {NoPending} \union Pendings /\ ~Pledged(call["worker"])
    BY <1>9, <1>15 DEF c
  <2> QED
    BY <1>10, <1>11, <1>13, <1>15, <2>1, <2>2, <2>3, LoopGoesOn
<1> QED
  BY <1>10, <1>14, <1>15

\* No keyframe of the saved map is free in the optimization of new edges.
LEMMA FirstFreeSpares ==
    ASSUME TypeOK, NEW E \in SUBSET EdgeType
    PROVE  FirstFree(E) \in Nat /\ FirstFree(E) > frozen
<1> DEFINE a == {e.i : e \in E} \ {0}
           m == CHOOSE x \in a : \A b \in a : x <= b
<1>1. frozen \in Nat
  BY DEF TypeOK
<1>2. a \subseteq Nat
  BY DEF EdgeType
<1>3. a # {} => m \in Nat
  <2>1. ASSUME a # {} PROVE \E x \in a : \A b \in a : x <= b
    BY <1>2, <2>1, LeastOf
  <2>2. (\E x \in a : \A b \in a : x <= b) => m \in a
    <3> HIDE DEF a
    <3> QED
      OBVIOUS
  <2> HIDE DEF a, m
  <2> QED
    BY <1>2, <2>1, <2>2
<1>4. FirstFree(E) = LiveFirstFree(IF a = {} THEN 2 ELSE m + 1)
  BY DEF FirstFree
<1> HIDE DEF a, m
<1> QED
  BY <1>1, <1>3, <1>4 DEF LiveFirstFree, AtLeast

LEMMA CommitHolds ==
    ASSUME DrawIInv, NEW small \in BOOLEAN, Commit(small)
    PROVE  DrawIInv'
<1> DEFINE c == call["worker"]
           r == IF small THEN Idle ELSE Rendering(FirstFree(c.new), c.new, {}, "loop")
<1>1. "worker" \in Threads /\ c \in Commits /\ c.pc = "commit" /\ c.valid
  <2>1. "worker" \in Threads /\ c \in Calls("worker") /\ c.pc = "commit" /\ c.valid
    BY DEF DrawIInv, TypeOK, Commit, Threads
  <2> QED
    BY <2>1, CallsByPlace
<1>2. c.new \in SUBSET EdgeType
  BY <1>1 DEF Commits
<1>3. FirstFree(c.new) \in Nat /\ FirstFree(c.new) > frozen
  BY <1>2, FirstFreeSpares DEF DrawIInv
<1>4. /\ call' = [call EXCEPT !["worker"] = r] /\ LoopFrame
      /\ edges' = edges \union c.new /\ UNCHANGED pending
  BY <1>1 DEF Commit, LoopFrame, Release, DrawIInv, TypeOK
<1>5. edges' \subseteq EdgeType /\ pending' \in {NoPending} \union Pendings
  BY <1>2, <1>4 DEF DrawIInv, TypeOK
<1>6. EdgesJoinTheirKeyframes'
  <2>1. \A e \in c.new : Joins(e, nodes)
    BY <1>1 DEF DrawIInv, ChainsJoin, ChainHolds
  <2>2. \A e \in edges : Joins(e, nodes)
    BY DEF DrawIInv, EdgesJoinTheirKeyframes, Joins
  <2>3. \A e \in edges' : Joins(e, nodes') /\ nodes' = nodes
    BY <1>4, <2>1, <2>2 DEF LoopFrame
  <2> QED
    BY <2>3 DEF EdgesJoinTheirKeyframes, Joins
<1>7. ~Pledged(c)
  BY <1>1 DEF Pledged
<1>8. CASE small
  <2>1. r = Idle /\ r \in Calls("worker") /\ r.pc = "idle"
    BY <1>1, <1>8, EndedIs
  <2>2. OfGraph(r, nodes) /\ Spares(r, nodes, frozen)
    BY <2>1, RestHolds DEF Redraws
  <2>3. ChainHolds(r, pending', nodes)
    BY <1>4, <2>1 DEF DrawIInv, ChainsJoin, ChainHolds
  <2> HIDE DEF r
  <2> QED
    BY <1>4, <1>5, <1>6, <1>7, <2>1, <2>2, <2>3, LoopGoesOn
<1>9. CASE ~small
  <2>1. /\ r \in Calls("worker") /\ r.pc = "snap" /\ r.ff = FirstFree(c.new)
        /\ r.for = "loop" /\ r.new = c.new
    BY <1>1, <1>2, <1>3, <1>9, RenderingIs DEF Reasons
  <2> HIDE DEF r
  <2>2. OfGraph(r, nodes) /\ Spares(r, nodes, frozen)
    BY <1>3, <2>1 DEF OfGraph, Spares, Redraws
  <2>3. ChainHolds(r, pending', nodes)
    BY <1>4, <2>1 DEF DrawIInv, ChainsJoin, ChainHolds
  <2> QED
    BY <1>4, <1>5, <1>6, <1>7, <2>1, <2>2, <2>3, LoopGoesOn
<1> QED
  BY <1>8, <1>9

-----------------------------------------------------------------------------
(* The tick thread *)

LEMMA PaintHolds ==
    ASSUME DrawIInv, TakePose \/ TakeGrid \/ Discard
    PROVE  DrawIInv'
<1>1. painter \in {Idle} \union Painters /\ live \in Int /\ moves \in Nat
  BY DEF DrawIInv, TypeOK
<1>2. painter' \in {Idle} \union Painters
  <2>1. CASE TakePose
    BY <1>1, <2>1 DEF TakePose, Painters
  <2>2. CASE TakeGrid
    <3>1. painter \in Painters
      BY <1>1, <2>2 DEF TakeGrid, Idle
    <3> QED
      BY <2>2, <3>1 DEF TakeGrid, Painters
  <2>3. CASE Discard
    BY <2>3 DEF Discard
  <2> QED
    BY <2>1, <2>2, <2>3
<1>3. /\ UNCHANGED <<graph, base, grid, edits, trusted, pending, call, graphJob, late, orphans>>
      /\ UNCHANGED <<live, moves>>
  BY DEF TakePose, TakeGrid, Discard
<1> QED
  BY <1>1, <1>2, <1>3, QuietStep

\* The keyframes ns are still in ms where they were, with the scans they had.
Grows(ns, ms) ==
    /\ Len(ns) <= Len(ms)
    /\ \A i \in DOMAIN ns :
         /\ i \in DOMAIN ms /\ ms[i].id = ns[i].id /\ ms[i].off = ns[i].off
         /\ ns[i].scans \subseteq ms[i].scans

\* A painted scan: its walls are newer than every edit and where the graph has it.
NewInk == \A w \in grid' \ grid : w.seq > last /\ Vouched(w, nodes')

LEMMA PublishKeeps ==
    ASSUME DrawIInv, nodes' \in Seq(Node), Grows(nodes, nodes'), NewInk,
           UNCHANGED <<frozen, edits, pending, call, late, orphans>>,
           grid' \subseteq WallType, last' \in Nat, last <= last'
    PROVE  /\ ErasedStaysErased' /\ CallsHold' /\ InStep' /\ ChainsJoin'
           /\ \A e \in edges : Joins(e, nodes')
<1>1. nodes \in Seq(Node) /\ last \in Nat /\ frozen \in Nat /\ frozen <= Len(nodes)
  BY DEF DrawIInv, TypeOK, Numbered
<1>2. ErasedStaysErased'
  <2> SUFFICES ASSUME NEW k \in DOMAIN edits, NEW w \in grid', SeqScoped(edits[k]),
                      w.at = edits[k].at, w.seq >= Image
               PROVE  w.seq > edits[k].seq
    BY DEF ErasedStaysErased, SeqScoped
  <2>1. CASE w \in grid
    BY <2>1 DEF DrawIInv, ErasedStaysErased
  <2>2. CASE w \notin grid
    <3>1. w.seq > last /\ edits[k].seq <= last
      BY <2>2 DEF NewInk, DrawIInv, Numbered
    <3>2. w \in WallType /\ edits[k] \in EditType
      BY DEF DrawIInv, TypeOK
    <3>3. w.seq \in Int /\ edits[k].seq \in Int
      BY <3>2 DEF WallType, EditType, Mark
    <3> QED
      BY <1>1, <3>1, <3>3
  <2> QED
    BY <2>1, <2>2
<1>3. ASSUME NEW th \in Threads PROVE OfGraph(call[th], nodes') /\ Spares(call[th], nodes', frozen)
  <2> DEFINE c == call[th]
  <2>1. OfGraph(c, nodes) /\ Spares(c, nodes, frozen) /\ c \in Calls(th)
    BY DEF DrawIInv, CallsHold, TypeOK
  <2>2. CASE c.pc \notin Redraws
    BY <2>1, <2>2 DEF OfGraph, Spares
  <2>3. CASE c.pc \in Redraws
    <3>1. c \in Solving \/ c \in Drawing
      BY <2>1, <2>3, CallsByPlace DEF Redraws
    <3>2. c.snap \in Seq(Node)
      BY <3>1 DEF Solving, Drawing
    <3>3. c.valid => \A i \in DOMAIN c.snap : i \in DOMAIN nodes
      BY <1>1, <2>1, <2>3, <3>2 DEF OfGraph
    <3>4. OfGraph(c, nodes')
      <4>1. c.valid => Len(c.snap) <= Len(nodes')
        BY <1>1, <2>1, <2>3, <3>2 DEF OfGraph, Grows
      <4> QED
        BY <2>1, <3>3, <4>1 DEF OfGraph, Grows
    <3>5. Spares(c, nodes', frozen)
      <4>1. \A i \in 1 .. frozen : nodes'[i].off = nodes[i].off
        BY <1>1 DEF Grows
      <4> QED
        BY <2>1, <4>1 DEF Spares
    <3> QED
      BY <3>4, <3>5
  <2> QED
    BY <2>2, <2>3
<1>4. InStep'
  <2>1. CASE \E th \in Threads : Pledged(call[th])
    BY <2>1 DEF InStep
  <2>2. CASE AllVouched
    <3>1. ASSUME NEW w \in grid', w.seq > Image, w.seq \notin late \union orphans
          PROVE  Vouched(w, nodes')
      <4>1. CASE w \in grid
        <5>1. PICK i \in DOMAIN nodes : \E s \in nodes[i].scans :
                      s.seq = w.seq /\ w.off = nodes[i].off + s.rel
          BY <2>2, <3>1, <4>1 DEF AllVouched, Vouched
        <5> QED
          BY <5>1 DEF Grows, Vouched
      <4>2. CASE w \notin grid
        BY <4>2 DEF NewInk
      <4> QED
        BY <4>1, <4>2
    <3>2. AllVouched'
      BY <3>1 DEF AllVouched
    <3> QED
      BY <3>2 DEF InStep
  <2> QED
    BY <2>1, <2>2 DEF DrawIInv, InStep
<1>5. ASSUME NEW e, Joins(e, nodes) PROVE Joins(e, nodes')
  BY <1>5 DEF Joins, Grows
<1>6. ChainsJoin'
  <2> DEFINE c == call["worker"]
  <2>1. ChainHolds(c, pending, nodes)
    BY DEF DrawIInv, ChainsJoin
  <2>2. c.pc = "detect" /\ c.valid => \A i \in DOMAIN c.ids : i \in DOMAIN nodes' /\ nodes'[i].id = c.ids[i]
    BY <2>1 DEF ChainHolds, Grows
  <2> HIDE DEF c
  <2>3. ChainHolds(c, pending, nodes')
    BY <1>5, <2>1, <2>2 DEF ChainHolds
  <2> QED
    BY <2>3 DEF ChainsJoin, c
<1>7. \A e \in edges : Joins(e, nodes')
  BY <1>5 DEF DrawIInv, EdgesJoinTheirKeyframes, Joins
<1> QED
  BY <1>2, <1>3, <1>4, <1>6, <1>7 DEF CallsHold

\* The walls of one new scan of keyframe n.
LEMMA NewScanInk ==
    ASSUME TypeOK, NEW s \in Scan, s.seq > last, NEW n \in DOMAIN nodes', nodes' \in Seq(Node),
           s \in nodes'[n].scans, NEW o \in Int, nodes'[n].off = o,
           grid' = grid \union Walls({s}, o)
    PROVE  NewInk /\ grid' \subseteq WallType
<1>1. Walls({s}, o) \subseteq WallType
  BY WallsTyped
<1>2. ASSUME NEW w \in Walls({s}, o) PROVE w.seq > last /\ Vouched(w, nodes')
  <2>1. PICK p \in Places : w = Wall(s.seq, p, o + s.rel)
    BY WallsAre
  <2> QED
    BY <2>1 DEF Wall, Vouched
<1> QED
  BY <1>1, <1>2 DEF NewInk, TypeOK

LEMMA NewNodeHolds ==
    ASSUME DrawIInv, Publish, NEW p \in Places, NewNode(p, painter.off), painter.off \in Int
    PROVE  DrawIInv'
<1> DEFINE n == Len(nodes) + 1
           id == last + 1
           o == painter.off
           s == [seq |-> id, rel |-> 0]
           k == [id |-> id, at |-> p, off |-> o, scans |-> {s}]
<1>1. nodes \in Seq(Node) /\ last \in Nat /\ frozen \in Nat /\ edges \subseteq EdgeType
  BY DEF DrawIInv, TypeOK
<1>2. s \in Scan /\ k \in Node /\ n \in Nat /\ id \in Nat
  BY <1>1 DEF Scan, Node
<1>3. /\ last' = id /\ gap' = FALSE /\ nodes' = Append(nodes, k)
      /\ grid' = grid \union Walls({s}, o) /\ UNCHANGED full
      /\ UNCHANGED <<frozen, base, edits, live, trusted, pending, graphJob, call, moves, late, orphans>>
      /\ painter' = Idle
  BY DEF NewNode, Publish
<1>3a. k.id = id /\ k.off = o /\ k.scans = {s} /\ s.seq = id
  OBVIOUS
<1> HIDE DEF k, s
<1>4. /\ nodes' \in Seq(Node) /\ Len(nodes') = n /\ DOMAIN nodes' = 1 .. n /\ nodes'[n] = k
      /\ \A i \in DOMAIN nodes : i \in DOMAIN nodes' /\ nodes'[i] = nodes[i] /\ i < n
      /\ \A i \in DOMAIN nodes' : i = n \/ i \in DOMAIN nodes
  BY <1>1, <1>2, <1>3
<1>5. Grows(nodes, nodes')
  BY <1>1, <1>4 DEF Grows
<1>6. NewInk /\ grid' \subseteq WallType
  <2>1. TypeOK /\ s.seq > last /\ n \in DOMAIN nodes' /\ s \in nodes'[n].scans /\ o \in Int
        /\ nodes'[n].off = o
    BY <1>1, <1>2, <1>3a, <1>4 DEF DrawIInv
  <2> HIDE DEF n, o
  <2> QED
    BY <1>2, <1>3, <1>4, <2>1, NewScanInk
<1>7. last' \in Nat /\ last <= last'
  BY <1>1, <1>3
<1>8. /\ ErasedStaysErased' /\ CallsHold' /\ InStep' /\ ChainsJoin'
      /\ \A e \in edges : Joins(e, nodes')
  BY <1>3, <1>4, <1>5, <1>6, <1>7, PublishKeeps
<1>9. edges' \subseteq EdgeType /\ EdgesJoinTheirKeyframes'
  <2> DEFINE e == [i |-> n - 1, j |-> n, loop |-> FALSE, from |-> nodes[n - 1].id, to |-> id]
  <2>1. edges' = IF n = 1 THEN edges ELSE edges \union {e}
    BY DEF NewNode
  <2>2. n # 1 => n - 1 \in DOMAIN nodes /\ nodes[n - 1] \in Node
    BY <1>1, <1>2
  <2>3. n # 1 => e \in EdgeType
    <3>1. n # 1 => nodes[n - 1].id \in Nat /\ n - 1 \in Nat
      BY <1>2, <2>2 DEF Node
    <3> QED
      BY <1>2, <3>1 DEF EdgeType
  <2>4. n # 1 => Joins(e, nodes')
    <3>1. n # 1 => nodes'[n].id = id /\ n \in DOMAIN nodes' /\ n - 1 \in DOMAIN nodes' /\ nodes'[n - 1] = nodes[n - 1]
      BY <1>2, <1>3a, <1>4, <2>2
    <3>2. e.j = n /\ e.to = id /\ e.i = n - 1 /\ e.from = nodes[n - 1].id
      OBVIOUS
    <3> HIDE DEF e
    <3> QED
      BY <3>1, <3>2 DEF Joins
  <2> HIDE DEF e, n
  <2>5. edges' \subseteq EdgeType /\ \A x \in edges' : Joins(x, nodes')
    BY <1>1, <1>8, <2>1, <2>3, <2>4
  <2> QED
    BY <2>5 DEF EdgesJoinTheirKeyframes, Joins
<1>10. Numbered'
  <2>1. frozen' <= Len(nodes')
    BY <1>1, <1>3, <1>4 DEF DrawIInv, Numbered
  <2>2. \A i \in DOMAIN nodes' : nodes'[i].id <= last'
    <3> SUFFICES ASSUME NEW i \in DOMAIN nodes' PROVE nodes'[i].id <= last'
      OBVIOUS
    <3>1. CASE i = n
      BY <1>2, <1>3, <1>3a, <1>4, <3>1
    <3>2. CASE i \in DOMAIN nodes
      <4>1. nodes[i] \in Node /\ nodes[i].id <= last
        BY <1>1, <3>2 DEF DrawIInv, Numbered
      <4>2. nodes[i].id \in Nat
        BY <4>1 DEF Node
      <4> QED
        BY <1>1, <1>3, <1>4, <3>2, <4>1, <4>2
    <3> QED
      BY <1>4, <3>1, <3>2
  <2>3. \A i, j \in DOMAIN nodes' : i < j => nodes'[i].id < nodes'[j].id
    <3> SUFFICES ASSUME NEW i \in DOMAIN nodes', NEW j \in DOMAIN nodes', i < j
                 PROVE  nodes'[i].id < nodes'[j].id
      OBVIOUS
    <3>1. i \in DOMAIN nodes
      BY <1>1, <1>4
    <3>2. nodes[i] \in Node /\ nodes[i].id <= last
      BY <1>1, <3>1 DEF DrawIInv, Numbered
    <3>3. nodes[i].id \in Nat
      BY <3>2 DEF Node
    <3>4. CASE j = n
      BY <1>1, <1>3a, <1>4, <3>1, <3>2, <3>3, <3>4
    <3>5. CASE j \in DOMAIN nodes
      BY <1>4, <3>1, <3>5 DEF DrawIInv, Numbered
    <3> QED
      BY <1>4, <3>4, <3>5
  <2>4. \A m \in DOMAIN edits' : edits'[m].seq <= last'
    <3> SUFFICES ASSUME NEW m \in DOMAIN edits PROVE edits[m].seq <= id
      BY <1>3
    <3>1. edits[m] \in EditType /\ edits[m].seq <= last
      BY DEF DrawIInv, Numbered, TypeOK
    <3>2. edits[m].seq \in Nat
      BY <3>1 DEF EditType
    <3> QED
      BY <1>1, <3>1, <3>2
  <2> QED
    BY <2>1, <2>2, <2>3, <2>4 DEF Numbered
<1>11. TypeOK'
  BY <1>3, <1>4, <1>6, <1>7, <1>9 DEF DrawIInv, TypeOK, Calls, Idle, Begun, Solving, Drawing, Baselines, Corrects, Detects, Commits
<1> QED
  BY <1>8, <1>9, <1>10, <1>11 DEF DrawIInv

LEMMA SameNodeHolds ==
    ASSUME DrawIInv, Publish, nodes # <<>>, SameNode(painter.off), painter.off \in Int
    PROVE  DrawIInv'
<1> DEFINE n == Len(nodes)
           s == [seq |-> last + 1, rel |-> painter.off - nodes[n].off]
<1>1. nodes \in Seq(Node) /\ last \in Nat /\ frozen \in Nat /\ edges \subseteq EdgeType
  BY DEF DrawIInv, TypeOK
<1>2. n \in DOMAIN nodes /\ nodes[n] \in Node
  BY <1>1
<1>3. s \in Scan /\ nodes[n].off \in Int /\ nodes[n].scans \in SUBSET Scan /\ s.seq = last + 1
  BY <1>1, <1>2 DEF Scan, Node
<1>4. /\ last' = last + 1 /\ nodes' = [nodes EXCEPT ![n].scans = @ \union {s}]
      /\ grid' = grid \union Walls({s}, nodes[n].off) /\ UNCHANGED <<edges, gap, full>>
      /\ UNCHANGED <<frozen, base, edits, live, trusted, pending, graphJob, call, moves, late, orphans>>
      /\ painter' = Idle
  BY DEF SameNode, Publish
<1> HIDE DEF s
<1>5. [nodes[n] EXCEPT !.scans = @ \union {s}] \in Node
  BY <1>2, <1>3 DEF Node
<1>6. /\ nodes' \in Seq(Node) /\ Len(nodes') = Len(nodes) /\ DOMAIN nodes' = DOMAIN nodes
      /\ \A i \in DOMAIN nodes : i # n => nodes'[i] = nodes[i]
      /\ nodes'[n] = [nodes[n] EXCEPT !.scans = @ \union {s}]
  BY <1>1, <1>2, <1>4, <1>5
<1>7. nodes'[n].id = nodes[n].id /\ nodes'[n].off = nodes[n].off /\ nodes'[n].scans = nodes[n].scans \union {s}
  BY <1>2, <1>6 DEF Node
<1>8. \A i \in DOMAIN nodes : nodes'[i].id = nodes[i].id
  BY <1>6, <1>7
<1>9. Grows(nodes, nodes')
  <2>1. ASSUME NEW i \in DOMAIN nodes
        PROVE  nodes'[i].off = nodes[i].off /\ nodes[i].scans \subseteq nodes'[i].scans
    <3>1. CASE i = n
      BY <1>7, <3>1
    <3>2. CASE i # n
      BY <1>6, <3>2
    <3> QED
      BY <3>1, <3>2
  <2>2. Len(nodes) <= Len(nodes')
    BY <1>1, <1>6
  <2> QED
    BY <1>6, <1>8, <2>1, <2>2 DEF Grows
<1>10. NewInk /\ grid' \subseteq WallType
  <2>1. TypeOK /\ s.seq > last /\ n \in DOMAIN nodes' /\ s \in nodes'[n].scans
    BY <1>1, <1>2, <1>3, <1>6, <1>7 DEF DrawIInv
  <2> HIDE DEF n
  <2> QED
    BY <1>3, <1>4, <1>6, <1>7, <2>1, NewScanInk
<1>11. last' \in Nat /\ last <= last'
  BY <1>1, <1>4
<1>12. /\ ErasedStaysErased' /\ CallsHold' /\ InStep' /\ ChainsJoin'
       /\ \A e \in edges : Joins(e, nodes')
  BY <1>4, <1>6, <1>9, <1>10, <1>11, PublishKeeps
<1>13. EdgesJoinTheirKeyframes'
  BY <1>4, <1>12 DEF EdgesJoinTheirKeyframes, Joins
<1>14. Numbered'
  <2>1. \A i \in DOMAIN nodes : nodes[i].id \in Nat
    <3>1. \A i \in DOMAIN nodes : nodes[i] \in Node
      BY <1>1
    <3> QED
      BY <3>1 DEF Node
  <2>2. \A k \in DOMAIN edits : edits[k].seq \in Nat
    <3>1. \A k \in DOMAIN edits : edits[k] \in EditType
      BY DEF DrawIInv, TypeOK
    <3> QED
      BY <3>1 DEF EditType
  <2>3. \A i \in DOMAIN nodes : nodes[i].id <= last + 1
    BY <1>1, <2>1 DEF DrawIInv, Numbered
  <2>4. \A k \in DOMAIN edits : edits[k].seq <= last + 1
    BY <1>1, <2>2 DEF DrawIInv, Numbered
  <2> QED
    BY <1>4, <1>6, <1>8, <2>3, <2>4 DEF DrawIInv, Numbered
<1>15. TypeOK'
  BY <1>4, <1>6, <1>10, <1>11 DEF DrawIInv, TypeOK, Calls, Idle, Begun, Solving, Drawing, Baselines, Corrects, Detects, Commits
<1> QED
  BY <1>12, <1>13, <1>14, <1>15 DEF DrawIInv

LEMMA PublishHolds ==
    ASSUME DrawIInv, Publish
    PROVE  DrawIInv'
<1>1. painter.off \in Int
  <2>1. painter \in {Idle} \union Painters /\ painter.pc = "paint"
    BY DEF DrawIInv, TypeOK, Publish
  <2> QED
    BY <2>1 DEF Painters, Idle
<1>2. CASE \E p \in Places : NewNode(p, painter.off)
  BY <1>1, <1>2, NewNodeHolds
<1>3. CASE nodes # <<>> /\ SameNode(painter.off)
  BY <1>1, <1>3, SameNodeHolds
<1>4. CASE NotKept /\ full' \in BOOLEAN
  <2>1. /\ UNCHANGED <<nodes, edges, last, gap, grid>>
        /\ UNCHANGED <<frozen, base, edits, live, trusted, pending, graphJob, call, moves, late, orphans>>
        /\ painter' = Idle
    BY <1>4 DEF NotKept, Publish
  <2>2. TypeOK'
    BY <1>4, <2>1 DEF DrawIInv, TypeOK, Calls, Idle, Begun, Solving, Drawing, Baselines, Corrects, Detects, Commits
  <2>3. Numbered' /\ ErasedStaysErased' /\ EdgesJoinTheirKeyframes'
    BY <2>1 DEF DrawIInv, Numbered, ErasedStaysErased, EdgesJoinTheirKeyframes, SeqScoped
  <2>4. CallsHold' /\ ChainsJoin'
    BY <2>1 DEF DrawIInv, CallsHold, ChainsJoin
  <2>5. InStep'
    BY <2>1 DEF DrawIInv, InStep, AllVouched
  <2> QED
    BY <2>2, <2>3, <2>4, <2>5 DEF DrawIInv
<1>5. nodes \in Seq(Node) /\ full \in BOOLEAN
  BY DEF DrawIInv, TypeOK
<1>6. Len(nodes) > 0 => nodes # <<>>
  BY <1>5
<1>7. AddScan
  BY DEF Publish
<1>8. \/ \E p \in Places : NewNode(p, painter.off)
      \/ NotKept /\ full' = TRUE
      \/ nodes # <<>> /\ SameNode(painter.off)
      \/ NotKept /\ full' = full
  BY <1>6, <1>7 DEF AddScan
<1> QED
  BY <1>2, <1>3, <1>4, <1>5, <1>8

-----------------------------------------------------------------------------
(* The caller *)

LEMMA PaintersStay ==
    ASSUME TypeOK
    PROVE  GridReplaced => painter' \in {Idle} \union Painters
<1> SUFFICES ASSUME GridReplaced, painter # Idle PROVE painter' \in Painters
  BY DEF GridReplaced, TypeOK
<1>1. painter \in Painters
  BY DEF TypeOK
<1> QED
  BY <1>1 DEF GridReplaced, Painters

LEMMA EditDiskHolds ==
    ASSUME DrawIInv, NEW p \in Places, NEW k \in {"clear", "mark"}, EditDisk(k, p)
    PROVE  DrawIInv'
<1> DEFINE e == Edit(k, p)
<1>1. /\ last \in Nat /\ edits \in Seq(EditType) /\ grid \subseteq WallType
      /\ nodes \in Seq(Node)
  BY DEF DrawIInv, TypeOK
<1>2. e \in EditType /\ e.seq = last /\ ~SeqScoped(e) /\ e.at = p
  BY <1>1 DEF Edit, EditType, SeqScoped
<1>3. /\ grid' = ApplyEdit(grid, e) /\ edits' = Append(edits, e) /\ GridReplaced
      /\ UNCHANGED <<nodes, edges, last, frozen, gap, full, base, live, trusted, pending, graphJob,
                     call, moves, late, orphans>>
  BY DEF EditDisk, graph
<1> HIDE DEF e
<1>4. \A w \in grid' : w \in grid \/ (w.seq = Mark /\ w \in WallType)
  <2>1. Wall(Mark, p, 0).seq = Mark /\ Wall(Mark, p, 0) \in WallType
    BY DEF Wall, WallType, Mark
  <2> QED
    BY <1>2, <1>3, <2>1 DEF ApplyEdit
<1>5. painter' \in {Idle} \union Painters
  BY <1>3, PaintersStay DEF DrawIInv
<1>6. /\ edits' \in Seq(EditType) /\ Len(edits') = Len(edits) + 1
      /\ edits'[Len(edits) + 1] = e
      /\ \A m \in DOMAIN edits' : m = Len(edits) + 1 \/ (m \in DOMAIN edits /\ edits'[m] = edits[m])
  BY <1>1, <1>2, <1>3
<1>7. TypeOK'
  BY <1>1, <1>3, <1>4, <1>5, <1>6 DEF DrawIInv, TypeOK, Calls, Idle, Begun, Solving, Drawing, Baselines, Corrects, Detects, Commits
<1>8. Numbered'
  BY <1>1, <1>2, <1>3, <1>6 DEF DrawIInv, Numbered
<1>9. ErasedStaysErased'
  <2> SUFFICES ASSUME NEW m \in DOMAIN edits', NEW w \in grid', SeqScoped(edits'[m]),
                      w.at = edits'[m].at, w.seq >= Image
               PROVE  w.seq > edits'[m].seq
    BY DEF ErasedStaysErased, SeqScoped
  <2>1. m \in DOMAIN edits /\ edits'[m] = edits[m]
    BY <1>2, <1>6
  <2>2. w \in grid
    BY <1>4 DEF Image, Mark
  <2> QED
    BY <2>1, <2>2 DEF DrawIInv, ErasedStaysErased
<1>10. EdgesJoinTheirKeyframes' /\ CallsHold' /\ ChainsJoin'
  BY <1>3 DEF DrawIInv, EdgesJoinTheirKeyframes, CallsHold, ChainsJoin
<1>11. InStep'
  <2>1. AllVouched => AllVouched'
    BY <1>3, <1>4 DEF AllVouched, Image, Mark
  <2> QED
    BY <1>3, <2>1 DEF DrawIInv, InStep
<1> QED
  BY <1>7, <1>8, <1>9, <1>10, <1>11 DEF DrawIInv

LEMMA CallerBeginsHolds ==
    ASSUME DrawIInv,
           OptimizeBegins \/ CorrectionFails
             \/ \E how \in {"score", "force"} : CorrectionBegins(how, live + 1)
    PROVE  DrawIInv'
<1>1. live \in Int /\ moves \in Nat /\ "caller" \in Threads /\ painter \in {Idle} \union Painters
  BY DEF DrawIInv, TypeOK, Threads
<1>2. CASE \E how \in {"score", "force"} : CorrectionBegins(how, live + 1) /\ nodes = <<>>
  <2>1. UNCHANGED <<graph, base, grid, edits, trusted, pending, call, graphJob, late, orphans>>
    BY <1>2 DEF CorrectionBegins
  <2>2. live' \in Int /\ moves' \in Nat /\ painter' \in {Idle} \union Painters
    BY <1>1, <1>2 DEF CorrectionBegins
  <2> QED
    BY <2>1, <2>2, QuietStep
<1>3. CASE ~(nodes = <<>> /\ \E how \in {"score", "force"} : CorrectionBegins(how, live + 1))
  <2>1. PICK r \in {Idle} \union Corrects : call' = [call EXCEPT !["caller"] = r]
    <3>1. CASE OptimizeBegins
      BY <3>1 DEF OptimizeBegins, Corrects
    <3>2. CASE CorrectionFails
      BY <3>2 DEF CorrectionFails
    <3>3. ASSUME NEW how \in {"score", "force"}, CorrectionBegins(how, live + 1), nodes # <<>>
          PROVE  \E r \in {Idle} \union Corrects : call' = [call EXCEPT !["caller"] = r]
      <4>1. [pc |-> "correct", how |-> how, m |-> live + 1] \in Corrects
        BY <1>1 DEF Corrects
      <4> QED
        BY <3>3, <4>1 DEF CorrectionBegins
    <3> QED
      BY <1>3, <3>1, <3>2, <3>3
  <2>2. r \in Calls("caller") /\ r.pc \in {"idle", "correct"}
    BY DEF Calls, Idle, Corrects
  <2>3. OfGraph(r, nodes) /\ Spares(r, nodes, frozen)
    BY <2>2, RestHolds DEF Redraws
  <2>4. /\ UNCHANGED <<nodes, last, frozen, gap, full, base, grid, edits, painter, pending, late, orphans>>
        /\ edges' \subseteq edges /\ live' \in Int /\ trusted' \in BOOLEAN /\ moves' \in Nat
        /\ graphJob' \in Threads \union {"free"}
    BY <1>3 DEF OptimizeBegins, CorrectionFails, CorrectionBegins, graph, DrawIInv, TypeOK
  <2>5. ~Pledged(call["caller"])
    BY DEF OptimizeBegins, CorrectionFails, CorrectionBegins, Pledged, Idle
  <2>6. r.pc \notin {"detect", "commit"}
    BY <2>2
  <2> QED
    BY <1>1, <2>1, <2>2, <2>3, <2>4, <2>5, <2>6, CallEnds
<1> QED
  BY <1>2, <1>3

LEMMA OptimizeHolds ==
    ASSUME DrawIInv, Optimize
    PROVE  DrawIInv'
<1> DEFINE r == Rendering(2, {}, {}, "optimize")
<1>1. "caller" \in Threads /\ call' = [call EXCEPT !["caller"] = r]
  BY DEF Threads, Optimize
<1>2. r \in Calls("caller") /\ r.pc = "snap" /\ r.for = "optimize"
  BY <1>1, RenderingIs DEF Reasons
<1> HIDE DEF r
<1>3. OfGraph(r, nodes) /\ Spares(r, nodes, frozen)
  BY <1>2 DEF OfGraph, Spares, Redraws
<1>4. /\ UNCHANGED <<nodes, last, frozen, gap, full, base, grid, edits, painter, pending, late, orphans>>
      /\ edges' \subseteq edges /\ live' \in Int /\ trusted' \in BOOLEAN /\ moves' \in Nat
      /\ graphJob' \in Threads \union {"free"}
  BY <1>1 DEF Optimize, graph, DrawIInv, TypeOK
<1>5. ~Pledged(call["caller"]) /\ r.pc \notin {"detect", "commit"}
  BY <1>2 DEF Optimize, Pledged
<1> QED
  BY <1>1, <1>2, <1>3, <1>4, <1>5, CallEnds

\* A match that moves the pose alone.
LEMMA PoseOnlyHolds ==
    ASSUME DrawIInv, UNCHANGED <<nodes, edges, last, frozen, gap, full, base, grid, edits, trusted, pending,
                                 painter, moves, late, orphans, graphJob>>,
           live' \in Int, call["caller"].pc = "correct", call' = [call EXCEPT !["caller"] = Idle]
    PROVE  DrawIInv'
<1>1. Idle \in Calls("caller") /\ Idle.pc = "idle" /\ "caller" \in Threads
  BY EndedIs DEF Threads
<1>2. OfGraph(Idle, nodes) /\ Spares(Idle, nodes, frozen)
  BY <1>1, RestHolds DEF Redraws
<1>3. edges' \subseteq edges /\ trusted' \in BOOLEAN /\ moves' \in Nat /\ graphJob' \in Threads \union {"free"}
  BY DEF DrawIInv, TypeOK
<1>4. ~Pledged(call["caller"])
  BY DEF Pledged
<1> QED
  BY <1>1, <1>2, <1>3, <1>4, CallEnds

\* A match that becomes an edge of the graph, and what is to move with it.
LEMMA EdgeOnlyHolds ==
    ASSUME DrawIInv, NEW a \in 1 .. Len(nodes) - 1,
           edges' = edges \union {Edge(a, Len(nodes), TRUE)},
           UNCHANGED <<nodes, last, frozen, gap, full, base, grid, edits, live, trusted, pending,
                       painter, moves, late, orphans>>,
           graphJob' = "caller", call["caller"].pc = "correct",
           call' = [call EXCEPT !["caller"] =
                      Rendering(LiveFirstFree(a + 1), {Edge(a, Len(nodes), TRUE)}, {}, "correct")]
    PROVE  DrawIInv'
<1> DEFINE e == Edge(a, Len(nodes), TRUE)
           ff == LiveFirstFree(a + 1)
           r == Rendering(ff, {e}, {}, "correct")
<1>1. nodes \in Seq(Node) /\ frozen \in Nat /\ "caller" \in Threads /\ edges \subseteq EdgeType
  BY DEF DrawIInv, TypeOK, Threads
<1>2. a \in DOMAIN nodes /\ Len(nodes) \in DOMAIN nodes /\ a # 0
  BY <1>1
<1>3. nodes[a] \in Node /\ nodes[Len(nodes)] \in Node
  BY <1>1, <1>2
<1>4. e \in EdgeType /\ Joins(e, nodes)
  <2>1. nodes[a].id \in Nat /\ nodes[Len(nodes)].id \in Nat /\ a \in Nat /\ Len(nodes) \in Nat
    BY <1>1, <1>3 DEF Node
  <2>2. e = [i |-> a, j |-> Len(nodes), loop |-> TRUE, to |-> nodes[Len(nodes)].id, from |-> nodes[a].id]
    BY <1>2 DEF Edge
  <2> HIDE DEF e
  <2>3. e \in EdgeType
    BY <2>1, <2>2 DEF EdgeType
  <2>4. e.i = a /\ e.j = Len(nodes) /\ e.to = nodes[Len(nodes)].id /\ e.from = nodes[a].id
    BY <2>2
  <2> QED
    BY <1>2, <2>3, <2>4 DEF Joins
<1>5. ff \in Nat /\ ff > frozen
  BY <1>1 DEF LiveFirstFree, AtLeast
<1> HIDE DEF e, ff
<1>6. r \in Calls("caller") /\ r.pc = "snap" /\ r.ff = ff /\ r.for = "correct"
  BY <1>1, <1>4, <1>5, RenderingIs DEF Reasons
<1>7. call' = [call EXCEPT !["caller"] = r]
  BY DEF e, ff
<1> HIDE DEF r
<1>8. OfGraph(r, nodes) /\ Spares(r, nodes, frozen)
  BY <1>5, <1>6 DEF OfGraph, Spares, Redraws
<1>9. ~Pledged(call["caller"]) /\ r.pc \notin {"detect", "commit"}
  BY <1>6 DEF Pledged
<1>10. edges' = edges \union {e}
  BY DEF e
<1>11. /\ edges' \subseteq EdgeType /\ live' \in Int /\ moves' \in Nat /\ trusted' \in BOOLEAN
       /\ pending' \in {NoPending} \union Pendings /\ graphJob' \in Threads \union {"free"}
  BY <1>1, <1>4, <1>10 DEF DrawIInv, TypeOK
<1>12. TypeOK' /\ Numbered' /\ ErasedStaysErased' /\ CallsHold' /\ InStep'
  BY <1>1, <1>6, <1>7, <1>8, <1>9, <1>11, CallGoesOn
<1>13. ChainsJoin'
  BY <1>1, <1>7, <1>9, ChainStep
<1>14. EdgesJoinTheirKeyframes'
  <2>1. \A x \in edges : Joins(x, nodes)
    BY DEF DrawIInv, EdgesJoinTheirKeyframes, Joins
  <2>2. \A x \in edges' : Joins(x, nodes)
    BY <1>4, <1>10, <2>1
  <2> QED
    BY <2>2 DEF EdgesJoinTheirKeyframes, Joins
<1> QED
  BY <1>12, <1>13, <1>14 DEF DrawIInv

\* The keyframes are where they were, or moved: what does not depend on where
\* they are is kept.
LEMMA MovedNodes ==
    ASSUME DrawIInv, nodes' \in Seq(Node), DOMAIN nodes' = DOMAIN nodes,
           \A i \in DOMAIN nodes : nodes'[i].id = nodes[i].id /\ nodes'[i].scans = nodes[i].scans,
           UNCHANGED <<edges, last, frozen, edits>>
    PROVE  /\ Numbered' /\ EdgesJoinTheirKeyframes'
           /\ \A e : Joins(e, nodes) => Joins(e, nodes')
           /\ \A th \in Threads : OfGraph(call[th], nodes')
<1>1. nodes \in Seq(Node)
  BY DEF DrawIInv, TypeOK
<1>2. Len(nodes') = Len(nodes)
  BY <1>1
<1>3. Numbered'
  BY <1>2 DEF DrawIInv, Numbered
<1>4. EdgesJoinTheirKeyframes'
  BY DEF DrawIInv, EdgesJoinTheirKeyframes
<1>5. \A e : Joins(e, nodes) => Joins(e, nodes')
  BY DEF Joins
<1>6. ASSUME NEW th \in Threads PROVE OfGraph(call[th], nodes')
  <2> DEFINE c == call[th]
  <2>1. OfGraph(c, nodes) /\ c \in Calls(th)
    BY DEF DrawIInv, CallsHold, TypeOK
  <2>2. CASE c.pc \in Redraws /\ c.valid
    <3>1. c \in Solving \/ c \in Drawing
      BY <2>1, <2>2, CallsByPlace DEF Redraws
    <3>2. c.snap \in Seq(Node) /\ Len(c.snap) <= Len(nodes)
      BY <2>1, <2>2, <3>1 DEF OfGraph, Solving, Drawing
    <3>3. \A i \in DOMAIN c.snap : i \in DOMAIN nodes
      BY <1>1, <3>2
    <3>4. \A i \in DOMAIN c.snap : c.snap[i].scans \subseteq nodes[i].scans
      BY <2>1, <2>2 DEF OfGraph
    <3>5. \A i \in DOMAIN c.snap : c.snap[i].scans \subseteq nodes'[i].scans
      BY <3>3, <3>4
    <3> QED
      BY <1>2, <2>1, <3>2, <3>5 DEF OfGraph
  <2> QED
    BY <2>1, <2>2 DEF OfGraph
<1> QED
  BY <1>3, <1>4, <1>5, <1>6

LEMMA MoveFromHolds ==
    ASSUME DrawIInv, NEW k \in Nat, k > frozen, NEW corr \in Int, MoveFrom(k, corr),
           UNCHANGED <<edges, last, frozen, gap, full, base, grid, edits, live, trusted, pending,
                       painter, moves, late, orphans>>,
           graphJob' = "caller",
           call' = [call EXCEPT !["caller"] = Rendering(0, {}, {corr}, "correct")]
    PROVE  DrawIInv'
<1> DEFINE r == Rendering(0, {}, {corr}, "correct")
<1>1. nodes \in Seq(Node) /\ frozen \in Nat /\ "caller" \in Threads /\ "worker" \in Threads
  BY DEF DrawIInv, TypeOK, Threads
<1>2. \A i \in DOMAIN nodes : nodes[i] \in Node /\ i \in Nat
  BY <1>1
<1>3. ASSUME NEW i \in DOMAIN nodes
      PROVE  /\ nodes'[i] \in Node
             /\ nodes'[i].id = nodes[i].id /\ nodes'[i].scans = nodes[i].scans
             /\ i < k => nodes'[i] = nodes[i]
  <2>1. [nodes[i] EXCEPT !.off = @ + corr] \in Node
    BY <1>2 DEF Node
  <2>2. nodes'[i] = IF i >= k THEN [nodes[i] EXCEPT !.off = @ + corr] ELSE nodes[i]
    BY DEF MoveFrom
  <2> QED
    BY <1>2, <2>1, <2>2 DEF Node
<1>4. DOMAIN nodes' = DOMAIN nodes /\ nodes' \in Seq(Node)
  <2>1. DOMAIN nodes' = DOMAIN nodes
    BY DEF MoveFrom
  <2>2. DOMAIN nodes = 1 .. Len(nodes) /\ Len(nodes) \in Nat
    BY <1>1
  <2>3. nodes' \in [1 .. Len(nodes) -> Node]
    <3>1. nodes' = [i \in 1 .. Len(nodes) |-> nodes'[i]]
      BY <2>2 DEF MoveFrom
    <3> QED
      BY <1>3, <2>2, <3>1
  <2> QED
    BY <2>1, <2>2, <2>3
<1>5. /\ Numbered' /\ EdgesJoinTheirKeyframes'
      /\ \A e : Joins(e, nodes) => Joins(e, nodes')
      /\ \A th \in Threads : OfGraph(call[th], nodes')
  BY <1>3, <1>4, MovedNodes
<1>6. r \in Calls("caller") /\ r.pc = "snap" /\ r.ff = 0 /\ r.new = {}
  BY <1>1, RenderingIs DEF Reasons
<1>7. call' = [call EXCEPT !["caller"] = r]
  OBVIOUS
<1> HIDE DEF r
<1>8. call'["caller"] = r /\ call'["worker"] = call["worker"]
  BY <1>1, <1>7 DEF DrawIInv, TypeOK
<1>9. TypeOK'
  <2>1. DOMAIN call' = Threads /\ \A th \in Threads : call'[th] \in Calls(th)
    BY <1>1, <1>6, <1>7, CallTypes DEF DrawIInv
  <2> QED
    BY <1>1, <1>4, <2>1 DEF DrawIInv, TypeOK, Calls, Idle, Begun, Solving, Drawing, Baselines, Corrects, Detects, Commits
<1>10. ErasedStaysErased'
  BY DEF DrawIInv, ErasedStaysErased, SeqScoped
<1>11. CallsHold'
  <2>1. OfGraph(r, nodes') /\ Spares(r, nodes', frozen)
    BY <1>6 DEF OfGraph, Spares, Redraws
  <2>2. Spares(call["worker"], nodes', frozen)
    <3>1. Spares(call["worker"], nodes, frozen)
      BY <1>1 DEF DrawIInv, CallsHold
    <3>2. \A i \in 1 .. frozen : nodes'[i] = nodes[i]
      BY <1>1, <1>3 DEF DrawIInv, Numbered
    <3> QED
      BY <3>1, <3>2 DEF Spares
  <2> QED
    BY <1>1, <1>5, <1>8, <2>1, <2>2 DEF CallsHold, Threads
<1>12. InStep'
  <2>1. Pledged(call'["caller"])
    BY <1>6, <1>8 DEF Pledged
  <2> QED
    BY <1>1, <2>1 DEF InStep
<1>13. ChainsJoin'
  <2> DEFINE c == call["worker"]
  <2>1. ChainHolds(c, pending, nodes)
    BY DEF DrawIInv, ChainsJoin
  <2>2. c.pc = "detect" /\ c.valid => \A i \in DOMAIN c.ids : i \in DOMAIN nodes' /\ nodes'[i].id = c.ids[i]
    BY <1>3, <1>4, <2>1 DEF ChainHolds
  <2> HIDE DEF c
  <2>3. ChainHolds(c, pending, nodes')
    BY <1>5, <2>1, <2>2 DEF ChainHolds
  <2> QED
    BY <1>8, <2>3 DEF ChainsJoin, c
<1> QED
  BY <1>5, <1>9, <1>10, <1>11, <1>12, <1>13 DEF DrawIInv

LEMMA CorrectHolds ==
    ASSUME DrawIInv, NEW a \in 0 .. MaxNodes, NEW plausible \in BOOLEAN, Correct(a, plausible)
    PROVE  DrawIInv'
<1> DEFINE c == call["caller"]
           corr == c.m - live
           cur == Len(nodes)
           e == Edge(a, cur, TRUE)
<1>1. live \in Int /\ frozen \in Nat /\ nodes \in Seq(Node) /\ c \in Corrects
  <2>1. "caller" \in Threads /\ c.pc = "correct" /\ call["caller"] \in Calls("caller")
    BY DEF DrawIInv, TypeOK, Threads, Correct
  <2> QED
    BY <2>1, CallsByPlace DEF DrawIInv, TypeOK
<1>2. c.m \in Int /\ corr \in Int
  <2>1. c.how # "optimize"
    BY DEF Correct
  <2> QED
    BY <1>1, <2>1 DEF Corrects
<1>3. a \in 0 .. cur /\ c.pc = "correct"
  BY DEF Correct, Anchors
<1>4. LiveFirstFree(a + 1) \in Nat /\ LiveFirstFree(a + 1) > frozen /\ frozen + 1 \in Nat
  BY <1>1, <1>3 DEF LiveFirstFree, AtLeast
<1>5. UNCHANGED <<last, frozen, gap, full, base, grid, edits, trusted, pending, painter,
                  moves, late, orphans>>
  BY DEF Correct
<1>6. \/ \E k \in {LiveFirstFree(a + 1), frozen + 1} :
           /\ MoveFrom(k, corr) /\ UNCHANGED <<edges, live>> /\ graphJob' = "caller"
           /\ call' = [call EXCEPT !["caller"] = Rendering(0, {}, {corr}, "correct")]
      \/ \E p \in {live, c.m} :
           /\ live' = p /\ UNCHANGED <<nodes, edges, graphJob>>
           /\ call' = [call EXCEPT !["caller"] = Idle]
      \/ /\ a > 0 /\ a # cur /\ edges' = edges \union {e} /\ UNCHANGED <<nodes, live>>
         /\ graphJob' = "caller"
         /\ call' = [call EXCEPT !["caller"] =
                       Rendering(LiveFirstFree(a + 1), {e}, {}, "correct")]
  BY DEF Correct
<1>7. ASSUME NEW k \in {LiveFirstFree(a + 1), frozen + 1}, MoveFrom(k, corr),
             UNCHANGED <<edges, live>>, graphJob' = "caller",
             call' = [call EXCEPT !["caller"] = Rendering(0, {}, {corr}, "correct")]
      PROVE  DrawIInv'
  <2>1. k \in Nat /\ k > frozen
    BY <1>1, <1>4
  <2> HIDE DEF corr
  <2> QED
    BY <1>2, <1>5, <1>7, <2>1, MoveFromHolds
<1>8. ASSUME NEW p \in {live, c.m}, live' = p, UNCHANGED <<nodes, edges, graphJob>>,
             call' = [call EXCEPT !["caller"] = Idle]
      PROVE  DrawIInv'
  <2>1. live' \in Int /\ call["caller"].pc = "correct"
    BY <1>1, <1>2, <1>3, <1>8
  <2> HIDE DEF c
  <2> QED
    BY <1>5, <1>8, <2>1, PoseOnlyHolds
<1>9. ASSUME a > 0, a # cur, edges' = edges \union {e}, UNCHANGED <<nodes, live>>,
             graphJob' = "caller",
             call' = [call EXCEPT !["caller"] =
                        Rendering(LiveFirstFree(a + 1), {e}, {}, "correct")]
      PROVE  DrawIInv'
  <2>1. a \in 1 .. Len(nodes) - 1 /\ call["caller"].pc = "correct"
    BY <1>1, <1>3, <1>9
  <2> HIDE DEF c
  <2> QED
    BY <1>5, <1>9, <2>1, EdgeOnlyHolds
<1> QED
  BY <1>6, <1>7, <1>8, <1>9

-----------------------------------------------------------------------------
(* Clearing a region *)

\* A call that the new graph outdates holds nothing about it.
LEMMA OutdatedHolds ==
    ASSUME DrawIInv, NEW own \in BOOLEAN, NEW th \in Threads, NEW ns, NEW n \in Nat, n <= frozen
    PROVE  LET d == Outdate(call, own)[th] IN
           /\ d \in Calls(th) /\ OfGraph(d, ns) /\ Spares(d, ns, n)
           /\ \A chain : ~(chain # NoPending /\ chain.valid) => ChainHolds(d, chain, ns)
<1> DEFINE c == call[th]
           d == Outdate(call, own)[th]
<1>1. /\ c \in Calls(th) /\ OfGraph(c, nodes) /\ Spares(c, nodes, frozen) /\ frozen \in Nat
  BY DEF DrawIInv, TypeOK, CallsHold
<1>2. /\ d \in Calls(th) /\ d.pc = c.pc
      /\ d.pc = "snap" => d.ff = c.ff /\ d.for = c.for /\ d.new = c.new
      /\ d.pc \notin {"idle", "correct"} => d.valid = FALSE
      /\ d.pc \in Redraws => d.poses = c.poses /\ d.snap = c.snap
  BY <1>1, OutdatedIs
<1>3. c.pc = "snap" => c.ff \in Nat
  BY <1>1, CallsByPlace DEF Begun
<1> HIDE DEF d, c
<1>4. OfGraph(d, ns)
  BY <1>1, <1>2 DEF OfGraph, Redraws
<1>5. Spares(d, ns, n)
  BY <1>1, <1>2, <1>3 DEF Spares, Redraws
<1>6. ASSUME NEW chain, ~(chain # NoPending /\ chain.valid) PROVE ChainHolds(d, chain, ns)
  BY <1>2, <1>6 DEF ChainHolds
<1> QED
  BY <1>2, <1>4, <1>5, <1>6 DEF d

\* The edges that are left are renumbered with the keyframes they join.
LEMMA RemovedEdges ==
    ASSUME DrawIInv, NEW p, RemoveNodes(p)
    PROVE  edges' \subseteq EdgeType /\ EdgesJoinTheirKeyframes'
<1> DEFINE kept == {x \in edges : x.j \in Keeps(p) /\ x.i \in Keeps(p) \union {0}}
           Moved(e) == [e EXCEPT !.i = Renumbered(p, e.i), !.j = Renumbered(p, e.j)]
<1>1. /\ Cardinality(Keeps(p)) \in Nat
      /\ \A i \in Keeps(p) : Renumbered(p, i) \in 1 .. Cardinality(Keeps(p))
  BY RanksOfKept DEF DrawIInv
<1>2. \A i \in Keeps(p) : Renumbered(p, i) \in DOMAIN nodes' /\ nodes'[Renumbered(p, i)] = nodes[i]
  BY RemoveKeeps DEF DrawIInv
<1>3. Renumbered(p, 0) = 0
  <2>1. \A k \in Keeps(p) : k \in Nat /\ k > 0
    BY DEF Keeps, DrawIInv, TypeOK
  <2>2. {k \in Keeps(p) : k <= 0} = {}
    BY <2>1
  <2> QED
    BY <2>2, FS_EmptySet DEF Renumbered
<1>4. edges' = {Moved(e) : e \in kept}
  BY DEF RemoveNodes
<1>5. ASSUME NEW e \in kept
      PROVE  Moved(e) \in EdgeType /\ Joins(Moved(e), nodes')
  <2>1. e \in EdgeType /\ Joins(e, nodes) /\ e.j \in Keeps(p) /\ (e.i = 0 \/ e.i \in Keeps(p))
    BY DEF DrawIInv, TypeOK, EdgesJoinTheirKeyframes, Joins
  <2>2. Renumbered(p, e.i) \in Nat /\ Renumbered(p, e.j) \in Nat
    BY <1>1, <1>3, <2>1
  <2>3. /\ Moved(e) \in EdgeType /\ Moved(e).i = Renumbered(p, e.i) /\ Moved(e).j = Renumbered(p, e.j)
        /\ Moved(e).to = e.to /\ Moved(e).from = e.from
    BY <2>1, <2>2 DEF EdgeType
  <2> HIDE DEF Moved
  <2>4. Moved(e).j \in DOMAIN nodes' /\ nodes'[Moved(e).j].id = Moved(e).to
    BY <1>2, <2>1, <2>3 DEF Joins
  <2>5. Moved(e).i # 0 => Moved(e).i \in DOMAIN nodes' /\ nodes'[Moved(e).i].id = Moved(e).from
    <3>1. CASE e.i = 0
      BY <1>3, <2>3, <3>1
    <3>2. CASE e.i \in Keeps(p) /\ e.i # 0
      BY <1>2, <2>1, <2>3, <3>2 DEF Joins
    <3> QED
      BY <2>1, <3>1, <3>2
  <2> QED
    BY <2>3, <2>4, <2>5 DEF Joins
<1> HIDE DEF Moved, kept
<1>6. \A x \in edges' : x \in EdgeType /\ Joins(x, nodes')
  BY <1>4, <1>5
<1> QED
  BY <1>6 DEF EdgesJoinTheirKeyframes, Joins

LEMMA RemovedNumbered ==
    ASSUME DrawIInv, NEW p, RemoveNodes(p), last' = last,
           \A k \in DOMAIN edits' : edits'[k].seq <= last
    PROVE  Numbered'
<1>1. /\ nodes' \in Seq(Node) /\ frozen' \in Nat
      /\ frozen' <= frozen /\ frozen' <= Len(nodes')
      /\ \A m \in DOMAIN nodes' : KeptAt(p, m) \in Keeps(p) /\ nodes'[m] = nodes[KeptAt(p, m)]
      /\ \A l, m \in DOMAIN nodes' : l < m => KeptAt(p, l) < KeptAt(p, m)
  BY RemoveKeeps DEF DrawIInv
<1>2. \A i \in Keeps(p) : i \in DOMAIN nodes
  BY DEF Keeps
<1>3. \A i \in DOMAIN nodes' : nodes'[i].id <= last
  BY <1>1, <1>2 DEF DrawIInv, Numbered
<1>4. \A i, j \in DOMAIN nodes' : i < j => nodes'[i].id < nodes'[j].id
  BY <1>1, <1>2 DEF DrawIInv, Numbered
<1> QED
  BY <1>1, <1>3, <1>4 DEF Numbered

\* The box of a clear is empty after it, and so are the boxes of the earlier ones.
LEMMA BoxCleared ==
    ASSUME DrawIInv, NEW p \in Places,
           edits' = Append(edits, Edit("clear_box", p)),
           grid' = ApplyEdit(grid, Edit("clear_box", p))
    PROVE  /\ edits' \in Seq(EditType) /\ grid' \subseteq grid
           /\ \A k \in DOMAIN edits' : edits'[k].seq <= last
           /\ ErasedStaysErased'
<1> DEFINE e == Edit("clear_box", p)
<1>1. last \in Nat /\ edits \in Seq(EditType)
  BY DEF DrawIInv, TypeOK
<1>2. e \in EditType /\ e.seq = last /\ e.at = p /\ e.kind = "clear_box"
  BY <1>1 DEF Edit, EditType
<1> HIDE DEF e
<1>3. edits' = Append(edits, e) /\ grid' = {w \in grid : w.at # p}
  BY <1>2 DEF e, ApplyEdit
<1>4. /\ edits' \in Seq(EditType) /\ edits'[Len(edits) + 1] = e
      /\ \A m \in DOMAIN edits' : m = Len(edits) + 1 \/ (m \in DOMAIN edits /\ edits'[m] = edits[m])
  BY <1>1, <1>2, <1>3
<1>5. \A k \in DOMAIN edits' : edits'[k].seq <= last
  BY <1>1, <1>2, <1>4 DEF DrawIInv, Numbered
<1>6. ErasedStaysErased'
  <2> SUFFICES ASSUME NEW k \in DOMAIN edits', NEW w \in grid', SeqScoped(edits'[k]),
                      w.at = edits'[k].at, w.seq >= Image
               PROVE  w.seq > edits'[k].seq
    BY DEF ErasedStaysErased, SeqScoped
  <2>1. k \in DOMAIN edits /\ edits'[k] = edits[k]
    BY <1>2, <1>3, <1>4
  <2> QED
    BY <1>3, <2>1 DEF DrawIInv, ErasedStaysErased
<1> QED
  BY <1>3, <1>4, <1>5, <1>6

LEMMA ClearRegionHolds ==
    ASSUME DrawIInv, NEW th \in Threads, NEW p \in Places, ClearRegion(th, p)
    PROVE  DrawIInv'
<1> DEFINE removed == \E i \in DOMAIN nodes : nodes[i].at = p
           left == Len(nodes') > 0
           b == [pc |-> "baseline", valid |-> TRUE, own |-> TRUE]
           r == IF removed /\ left THEN Rendering(0, {}, {}, "clear") ELSE b
<1>1. /\ edits' = Append(edits, Edit("clear_box", p))
      /\ grid' = ApplyEdit(grid, Edit("clear_box", p))
      /\ GridReplaced \/ UNCHANGED painter
      /\ IF removed THEN RemoveNodes(p) ELSE UNCHANGED graph
      /\ pending' = IF removed THEN NoPending ELSE pending
      /\ call' = [(IF removed THEN Outdate(call, FALSE) ELSE call) EXCEPT ![th] = r]
      /\ orphans' = IF left THEN orphans ELSE {w.seq : w \in grid'}
      /\ UNCHANGED <<base, live, trusted, graphJob, moves, late>>
      /\ call[th] = Idle
  BY DEF ClearRegion
<1>2. /\ edits' \in Seq(EditType) /\ grid' \subseteq grid
      /\ \A k \in DOMAIN edits' : edits'[k].seq <= last
      /\ ErasedStaysErased'
  BY <1>1, BoxCleared
<1>3. painter' \in {Idle} \union Painters
  BY <1>1, PaintersStay DEF DrawIInv, TypeOK
<1>4. b \in Calls(th) /\ b.pc = "baseline"
  BY DEF Calls, Baselines
<1>5. /\ r \in Calls(th) /\ r.pc \in {"snap", "baseline"}
      /\ removed /\ left => r.pc = "snap" /\ r.ff = 0 /\ r.new = {}
  <2>1. Rendering(0, {}, {}, "clear") \in Calls(th) /\ Rendering(0, {}, {}, "clear").pc = "snap"
        /\ Rendering(0, {}, {}, "clear").ff = 0 /\ Rendering(0, {}, {}, "clear").new = {}
    BY RenderingIs DEF Reasons
  <2> HIDE DEF removed, left, b
  <2> QED
    BY <1>4, <2>1
<1>6. \A ns, n : OfGraph(r, ns) /\ (r.pc = "snap" => r.ff = 0) => Spares(r, ns, n)
  <2> HIDE DEF r
  <2> QED
    BY <1>5 DEF Spares, Redraws
<1>7. \A ns : OfGraph(r, ns)
  <2> HIDE DEF r
  <2> QED
    BY <1>5 DEF OfGraph, Redraws
<1>8. r.pc = "snap" => r.ff = 0
  <2> HIDE DEF b
  <2> QED
    BY <1>4, <1>5
<1>9. \A ns, n : OfGraph(r, ns) /\ Spares(r, ns, n)
  <2> HIDE DEF r
  <2> QED
    BY <1>6, <1>7, <1>8
<1> HIDE DEF r, b
<1>10. \A ns, chain : ~(chain # NoPending /\ chain.valid) => ChainHolds(r, chain, ns)
  BY <1>5 DEF ChainHolds
<1>11. /\ nodes \in Seq(Node) /\ last \in Nat /\ frozen \in Nat /\ DOMAIN call = Threads
       /\ "worker" \in Threads
  BY DEF DrawIInv, TypeOK, Threads
<1>12. ~left => InStep'
  <2>1. ASSUME ~left PROVE AllVouched'
    BY <1>1, <2>1 DEF AllVouched
  <2> QED
    BY <2>1 DEF InStep
<1>13. CASE removed
  <2>1. RemoveNodes(p) /\ pending' = NoPending /\ call' = [Outdate(call, FALSE) EXCEPT ![th] = r]
    BY <1>1, <1>13
  <2>2. nodes' \in Seq(Node) /\ frozen' \in Nat /\ frozen' <= frozen
    BY <2>1, RemoveKeeps DEF DrawIInv
  <2>3. UNCHANGED <<last, gap>> /\ full' \in BOOLEAN
    BY <2>1 DEF RemoveNodes
  <2>4. edges' \subseteq EdgeType /\ EdgesJoinTheirKeyframes' /\ Numbered'
    BY <1>2, <2>1, <2>3, RemovedEdges, RemovedNumbered
  <2>5. ASSUME NEW t \in Threads
        PROVE  /\ call'[t] \in Calls(t) /\ OfGraph(call'[t], nodes') /\ Spares(call'[t], nodes', frozen')
               /\ ChainHolds(call'[t], pending', nodes')
               /\ t = th => call'[t] = r
    <3>1. CASE t = th
      <4>1. call'[t] = r
        BY <2>1, <3>1 DEF Outdate
      <4> QED
        BY <1>5, <1>9, <1>10, <2>1, <3>1, <4>1
    <3>2. CASE t # th
      <4>1. call'[t] = Outdate(call, FALSE)[t]
        BY <2>1, <3>2 DEF Outdate
      <4> QED
        BY <2>1, <2>2, <3>2, <4>1, OutdatedHolds
    <3> QED
      BY <3>1, <3>2
  <2>6. DOMAIN call' = Threads
    BY <2>1 DEF Outdate
  <2>7. TypeOK'
    BY <1>1, <1>2, <1>3, <2>1, <2>2, <2>3, <2>4, <2>5, <2>6 DEF DrawIInv, TypeOK, Calls, Idle, Begun, Solving, Drawing, Baselines, Corrects, Detects, Commits
  <2>8. CallsHold' /\ ChainsJoin'
    BY <1>11, <2>5 DEF CallsHold, ChainsJoin
  <2>9. InStep'
    <3>1. left => Pledged(call'[th])
      BY <1>5, <1>13, <2>5 DEF Pledged
    <3> QED
      BY <1>12, <3>1 DEF InStep
  <2> QED
    BY <1>2, <2>4, <2>7, <2>8, <2>9 DEF DrawIInv
<1>14. CASE ~removed
  <2>1. /\ UNCHANGED <<nodes, edges, last, frozen, gap, full, pending>>
        /\ call' = [call EXCEPT ![th] = r]
    BY <1>1, <1>14 DEF graph
  <2>2. DOMAIN call' = Threads /\ \A t \in Threads : call'[t] \in Calls(t)
    BY <1>5, <2>1, CallTypes DEF DrawIInv
  <2>3. TypeOK'
    BY <1>1, <1>2, <1>3, <2>1, <2>2 DEF DrawIInv, TypeOK, Calls, Idle, Begun, Solving, Drawing, Baselines, Corrects, Detects, Commits
  <2>4. Numbered' /\ EdgesJoinTheirKeyframes'
    BY <1>2, <2>1 DEF DrawIInv, Numbered, EdgesJoinTheirKeyframes
  <2>5. \A t \in Threads : call'[t] = r \/ call'[t] = call[t]
    BY <1>11, <2>1
  <2>6. CallsHold'
    BY <1>9, <2>1, <2>5 DEF DrawIInv, CallsHold
  <2>7. ChainsJoin'
    <3>1. r.pc \notin {"detect", "commit"}
      BY <1>5
    <3> QED
      BY <2>1, <3>1, ChainStep
  <2>8. InStep'
    <3>1. CASE ~left
      BY <1>12, <3>1
    <3>2. CASE left /\ AllVouched
      <4>1. AllVouched'
        BY <1>1, <1>2, <2>1, <3>2 DEF AllVouched
      <4> QED
        BY <4>1 DEF InStep
    <3>3. ASSUME NEW t \in Threads, Pledged(call[t]) PROVE InStep'
      <4>1. t # th
        BY <1>1, <3>3 DEF Pledged, Idle
      <4>2. call'[t] = call[t]
        BY <1>11, <2>1, <4>1
      <4> QED
        BY <3>3, <4>2 DEF InStep
    <3> QED
      BY <3>1, <3>2, <3>3 DEF DrawIInv, InStep
  <2> QED
    BY <1>2, <2>3, <2>4, <2>6, <2>7, <2>8 DEF DrawIInv
<1> QED
  BY <1>13, <1>14

-----------------------------------------------------------------------------
(* The swap *)

LEMMA TailShiftIs ==
    ASSUME NEW c, c.snap \in Seq(Node), c.poses \in Seq(Int), DOMAIN c.poses = DOMAIN c.snap
    PROVE  TailShift(c) \in Int
<1>1. CASE c.poses = <<>>
  BY <1>1 DEF TailShift
<1>2. CASE c.poses # <<>>
  <2>1. /\ Len(c.poses) \in DOMAIN c.poses /\ c.poses[Len(c.poses)] \in Int
        /\ Len(c.snap) = Len(c.poses) /\ Len(c.snap) \in DOMAIN c.snap
    BY <1>2
  <2>2. c.snap[Len(c.snap)] \in Node
    BY <2>1
  <2>3. c.snap[Len(c.snap)].off \in Int
    BY <2>2 DEF Node
  <2> QED
    BY <1>2, <2>1, <2>3 DEF TailShift
<1> QED
  BY <1>1, <1>2

LEMMA ApplyPosesIs ==
    ASSUME nodes \in Seq(Node),
           NEW c, c.snap \in Seq(Node), c.poses \in Seq(Int), DOMAIN c.poses = DOMAIN c.snap,
           nodes' = ApplyPoses(c)
    PROVE  /\ nodes' \in Seq(Node) /\ DOMAIN nodes' = DOMAIN nodes
           /\ \A i \in DOMAIN nodes : nodes'[i].id = nodes[i].id /\ nodes'[i].scans = nodes[i].scans
           /\ \A i \in DOMAIN nodes : i <= Len(c.poses) => nodes'[i].off = c.poses[i]
<1>1. TailShift(c) \in Int
  BY TailShiftIs
<1>2. DOMAIN nodes = 1 .. Len(nodes) /\ Len(nodes) \in Nat /\ \A i \in DOMAIN nodes : nodes[i] \in Node
  OBVIOUS
<1>3. ASSUME NEW i \in DOMAIN nodes
      PROVE  /\ nodes'[i] \in Node
             /\ nodes'[i].id = nodes[i].id /\ nodes'[i].scans = nodes[i].scans
             /\ i <= Len(c.poses) => nodes'[i].off = c.poses[i]
  <2> DEFINE o == IF i <= Len(c.poses) THEN c.poses[i] ELSE nodes[i].off + TailShift(c)
  <2>1. nodes'[i] = [nodes[i] EXCEPT !.off = o]
    BY DEF ApplyPoses
  <2>2. o \in Int
    <3>1. nodes[i].off \in Int
      BY <1>2 DEF Node
    <3>2. i <= Len(c.poses) => i \in DOMAIN c.poses
      BY <1>2
    <3>3. i <= Len(c.poses) => c.poses[i] \in Int
      BY <3>2
    <3> QED
      BY <1>1, <3>1, <3>3
  <2>3. i <= Len(c.poses) => o = c.poses[i]
    OBVIOUS
  <2> HIDE DEF o
  <2> QED
    BY <1>2, <2>1, <2>2, <2>3 DEF Node
<1>4. DOMAIN nodes' = DOMAIN nodes
  BY DEF ApplyPoses
<1>5. nodes' \in Seq(Node)
  <2>1. nodes' = [i \in 1 .. Len(nodes) |-> nodes'[i]]
    BY <1>2 DEF ApplyPoses
  <2>2. nodes' \in [1 .. Len(nodes) -> Node]
    BY <1>2, <1>3, <2>1
  <2> QED
    BY <1>2, <2>2
<1> QED
  BY <1>3, <1>4, <1>5

\* What is drawn after a swap: marks, the image, the snapshot's scans at their
\* new poses and the scans of walls X, and nothing that a box clear erased.
LEMMA SwapDraws ==
    ASSUME edits \in Seq(EditType),
           NEW c, c.snap \in Seq(Node), c.poses \in Seq(Int), DOMAIN c.poses = DOMAIN c.snap,
           c.done \in Nat, NEW X \in SUBSET WallType,
           NEW w \in Replay(RenderGrid(c, X), c.done)
    PROVE  /\ w \in WallType
           /\ \/ w.seq = Mark \/ w.seq = Image \/ w \in X
              \/ \E i \in DOMAIN c.snap : \E s \in c.snap[i].scans :
                     s.seq = w.seq /\ w.off = c.poses[i] + s.rel
           /\ \A k \in DOMAIN edits :
                SeqScoped(edits[k]) /\ w.at = edits[k].at /\ w.seq >= Image => w.seq > edits[k].seq
<1> DEFINE ink == RenderGrid(c, X)
<1>1. /\ (w.seq = Mark /\ w \in WallType) \/ w \in ink
      /\ w.seq # Mark =>
           \A k \in DOMAIN edits : k > c.done /\ SeqScoped(edits[k]) => w.at # edits[k].at
  <2> HIDE DEF ink
  <2> QED
    BY ReplayClears DEF ink
<1>2. CASE w.seq = Mark
  <2>1. w \in ink => w \in WallType
    BY RenderGridDraws
  <2>2. w \in WallType
    BY <1>1, <2>1
  <2> QED
    BY <1>2, <2>2 DEF Mark, Image
<1>3. CASE w \in ink /\ w.seq # Mark
  <2>1. /\ w \in WallType
        /\ \/ w.seq = Image \/ w \in X
           \/ \E i \in DOMAIN c.snap : \E s \in c.snap[i].scans :
                  s.seq = w.seq /\ w.off = c.poses[i] + s.rel
    BY <1>3, RenderGridDraws
  <2>2. w.seq \in Int
    BY <2>1 DEF WallType, Mark
  <2>3. ASSUME NEW k \in DOMAIN edits, SeqScoped(edits[k]), w.at = edits[k].at
        PROVE  w.seq > edits[k].seq
    <3>1. k <= c.done
      BY <1>1, <1>3, <2>3
    <3> QED
      BY <1>3, <2>2, <2>3, <3>1, RenderGridClears
  <2> QED
    BY <2>1, <2>3
<1> QED
  BY <1>1, <1>2, <1>3

LEMMA SwapHolds ==
    ASSUME DrawIInv, NEW th \in Threads, Swap(th)
    PROVE  DrawIInv'
<1> DEFINE c == call[th]
           newer == ScansAfter(nodes', c.seq)
           more == {w.seq : w \in newer} # {w.seq : w \in c.extra}
           X == IF more THEN newer ELSE c.extra
<1>1. c \in Drawing /\ c.valid /\ c.pc = "swap" /\ c.pc \in Redraws
  <2>1. c \in Calls(th) /\ c.pc = "swap" /\ c.valid
    BY DEF DrawIInv, TypeOK, Swap
  <2> QED
    BY <2>1, CallsByPlace DEF Redraws
<1>2. /\ nodes \in Seq(Node) /\ edits \in Seq(EditType) /\ frozen \in Nat /\ live \in Int
      /\ DOMAIN call = Threads /\ "worker" \in Threads
  BY DEF DrawIInv, TypeOK, Threads
<1>3. /\ c.snap \in Seq(Node) /\ c.poses \in Seq(Int) /\ c.seq \in Nat /\ c.live \in SUBSET Int
      /\ c.extra \in SUBSET WallType /\ c.done \in Nat
  BY <1>1 DEF Drawing
<1>4. OfGraph(c, nodes) /\ DOMAIN c.poses = DOMAIN c.snap
  BY <1>1 DEF DrawIInv, CallsHold, OfGraph
<1>5. /\ nodes' = ApplyPoses(c)
      /\ grid' = Replay(RenderGrid(c, X), c.done)
      /\ GridReplaced
      /\ live' = live + IF c.live = {} THEN TailShift(c) ELSE CHOOSE x \in c.live : TRUE
      /\ pending' = IF pending = NoPending THEN pending ELSE [pending EXCEPT !.valid = FALSE]
      /\ call' = [Outdate(call, TRUE) EXCEPT ![th] = Ended(th)]
      /\ graphJob' \in {graphJob, "free"}
      /\ late' = IF more THEN {} ELSE {w.seq : w \in c.extra \ newer}
      /\ orphans' = {}
      /\ UNCHANGED <<edges, last, frozen, gap, full, base, edits, trusted, moves>>
  BY DEF Swap, Release
<1>6. TailShift(c) \in Int
  BY <1>3, <1>4, TailShiftIs
<1> HIDE DEF c, X, more
<1>7. /\ nodes' \in Seq(Node) /\ DOMAIN nodes' = DOMAIN nodes
      /\ \A i \in DOMAIN nodes : nodes'[i].id = nodes[i].id /\ nodes'[i].scans = nodes[i].scans
      /\ \A i \in DOMAIN nodes : i <= Len(c.poses) => nodes'[i].off = c.poses[i]
  BY <1>2, <1>3, <1>4, <1>5, ApplyPosesIs
<1>8. Numbered' /\ EdgesJoinTheirKeyframes'
  BY <1>5, <1>7, MovedNodes
<1>9. \A w \in newer : w \in WallType /\ Vouched(w, nodes')
  BY <1>7, ScansAfterAre DEF Vouched
<1>10. X \in SUBSET WallType
  BY <1>3, <1>9 DEF X
<1> HIDE DEF newer
<1>11. ASSUME NEW w \in grid'
       PROVE  /\ w \in WallType
              /\ \/ w.seq = Mark \/ w.seq = Image \/ w \in X
                 \/ \E i \in DOMAIN c.snap : \E s \in c.snap[i].scans :
                        s.seq = w.seq /\ w.off = c.poses[i] + s.rel
              /\ \A k \in DOMAIN edits :
                   SeqScoped(edits[k]) /\ w.at = edits[k].at /\ w.seq >= Image => w.seq > edits[k].seq
  BY <1>2, <1>3, <1>4, <1>5, <1>10, SwapDraws
<1>12. ErasedStaysErased'
  BY <1>5, <1>11 DEF ErasedStaysErased, SeqScoped
<1>13. InStep'
  <2>1. ASSUME NEW w \in grid', w.seq > Image, w.seq \notin late'
        PROVE  Vouched(w, nodes')
    <3>1. CASE w \in X
      <4>1. w \in newer
        <5>1. CASE more
          BY <3>1, <5>1 DEF X
        <5>2. CASE ~more
          BY <1>5, <2>1, <3>1, <5>2 DEF X
        <5> QED
          BY <5>1, <5>2
      <4> QED
        BY <1>9, <4>1
    <3>2. ASSUME NEW i \in DOMAIN c.snap, NEW s \in c.snap[i].scans,
                 s.seq = w.seq, w.off = c.poses[i] + s.rel
          PROVE  Vouched(w, nodes')
      <4>1. Len(c.snap) <= Len(nodes) /\ c.snap[i].scans \subseteq nodes[i].scans
        BY <1>1, <1>4 DEF OfGraph
      <4>2. i \in DOMAIN nodes /\ i <= Len(c.poses)
        BY <1>2, <1>3, <1>4, <4>1
      <4>3. s \in nodes'[i].scans /\ nodes'[i].off = c.poses[i]
        BY <1>7, <4>1, <4>2
      <4> QED
        BY <1>7, <3>2, <4>2, <4>3 DEF Vouched
    <3>3. w.seq # Mark /\ w.seq # Image
      BY <2>1 DEF Mark, Image
    <3> QED
      BY <1>11, <3>1, <3>2, <3>3
  <2>2. AllVouched'
    BY <1>5, <2>1 DEF AllVouched
  <2> QED
    BY <2>2 DEF InStep
<1>14. Ended(th) \in Calls(th) /\ Ended(th).pc \in {"idle", "baseline"}
  BY EndedIs
<1>15. ~(pending' # NoPending /\ pending'.valid) /\ pending' \in {NoPending} \union Pendings
  <2>1. pending \in {NoPending} \union Pendings
    BY DEF DrawIInv, TypeOK
  <2>2. CASE pending = NoPending
    BY <1>5, <2>2
  <2>3. CASE pending # NoPending
    <3>1. pending \in Pendings /\ pending' = [pending EXCEPT !.valid = FALSE]
      BY <1>5, <2>1, <2>3
    <3> QED
      BY <3>1 DEF Pendings
  <2> QED
    BY <2>2, <2>3
<1>16. ASSUME NEW t \in Threads
       PROVE  /\ call'[t] \in Calls(t) /\ OfGraph(call'[t], nodes') /\ Spares(call'[t], nodes', frozen')
              /\ ChainHolds(call'[t], pending', nodes')
  <2>1. CASE t = th
    <3>1. call'[t] = Ended(th)
      BY <1>5, <2>1 DEF Outdate
    <3>2. OfGraph(Ended(th), nodes') /\ Spares(Ended(th), nodes', frozen')
      BY <1>14, RestHolds DEF Redraws
    <3>3. ChainHolds(Ended(th), pending', nodes')
      BY <1>14, <1>15 DEF ChainHolds
    <3> QED
      BY <1>14, <2>1, <3>1, <3>2, <3>3
  <2>2. CASE t # th
    <3>1. call'[t] = Outdate(call, TRUE)[t]
      BY <1>5, <2>2 DEF Outdate
    <3>2. frozen' = frozen /\ frozen <= frozen
      BY <1>2, <1>5
    <3> QED
      BY <1>2, <1>15, <3>1, <3>2, OutdatedHolds
  <2> QED
    BY <2>1, <2>2
<1>17. DOMAIN call' = Threads
  BY <1>5 DEF Outdate
<1>18. live' \in Int
  <2>1. c.live # {} => (CHOOSE x \in c.live : TRUE) \in Int
    BY <1>3
  <2> QED
    BY <1>2, <1>5, <1>6, <2>1
<1>19. painter' \in {Idle} \union Painters
  BY <1>5, PaintersStay DEF DrawIInv
<1>20. TypeOK'
  BY <1>5, <1>7, <1>11, <1>15, <1>16, <1>17, <1>18, <1>19 DEF DrawIInv, TypeOK, Calls, Idle, Begun, Solving, Drawing, Baselines, Corrects, Detects, Commits
<1>21. CallsHold' /\ ChainsJoin'
  BY <1>2, <1>16 DEF CallsHold, ChainsJoin
<1> QED
  BY <1>8, <1>12, <1>13, <1>20, <1>21 DEF DrawIInv

-----------------------------------------------------------------------------
(* The invariant of the drawing *)

LEMMA DrawInit == BoundsAssumption /\ Init => DrawIInv
<1> SUFFICES ASSUME BoundsAssumption, Init PROVE DrawIInv
  OBVIOUS
<1> DEFINE S == {[seq |-> x, rel |-> 0] : x \in (IF base THEN {Image} ELSE {}) \union 1 .. frozen}
<1>1. base \in BOOLEAN /\ frozen \in {0, 1} /\ trusted \in BOOLEAN
  <2>1. PICK s \in Sessions : base = s.image /\ frozen = s.saved
    BY DEF Init
  <2>2. s \in [saved : {0, 1}, image : BOOLEAN]
    BY DEF BoundsAssumption
  <2> QED
    BY <2>1, <2>2 DEF Init
<1>2. \/ frozen = 0 /\ nodes = <<>>
      \/ /\ frozen = 1
         /\ \E p \in Places :
              nodes = <<[id |-> 1, at |-> p, off |-> 0, scans |-> {[seq |-> 1, rel |-> 0]}]>>
  BY <1>1 DEF Init
<1>3. /\ nodes \in Seq(Node) /\ Len(nodes) = frozen
      /\ frozen = 1 => /\ DOMAIN nodes = {1} /\ nodes[1].id = 1 /\ nodes[1].off = 0
                       /\ nodes[1].scans = {[seq |-> 1, rel |-> 0]}
      /\ frozen = 0 => DOMAIN nodes = {}
  <2>1. CASE frozen = 0 /\ nodes = <<>>
    BY <2>1
  <2>2. ASSUME frozen = 1, NEW p \in Places,
               nodes = <<[id |-> 1, at |-> p, off |-> 0, scans |-> {[seq |-> 1, rel |-> 0]}]>>
        PROVE  /\ nodes \in Seq(Node) /\ Len(nodes) = 1 /\ DOMAIN nodes = {1}
               /\ nodes[1].id = 1 /\ nodes[1].off = 0
               /\ nodes[1].scans = {[seq |-> 1, rel |-> 0]}
    <3> DEFINE k == [id |-> 1, at |-> p, off |-> 0, scans |-> {[seq |-> 1, rel |-> 0]}]
    <3>1. k \in Node
      BY DEF Node, Scan
    <3>2. nodes = <<k>> /\ k.id = 1 /\ k.off = 0 /\ k.scans = {[seq |-> 1, rel |-> 0]}
      BY <2>2
    <3> HIDE DEF k
    <3> QED
      BY <3>1, <3>2
  <2>3. CASE frozen = 1
    BY <1>2, <2>2, <2>3
  <2> QED
    BY <1>1, <1>2, <2>1, <2>3
<1>4. S \in SUBSET Scan
  BY <1>1 DEF Scan, Image
<1>5. grid = Walls(S, 0)
  BY DEF Init
<1>6. /\ last = frozen /\ gap \in BOOLEAN /\ full = FALSE /\ edges = {} /\ edits = <<>> /\ live = 0
      /\ pending = NoPending /\ painter = Idle /\ graphJob = "free" /\ moves = 0
      /\ late = {} /\ orphans = {} /\ call = [th \in Threads |-> Idle]
  BY DEF Init
<1>7. TypeOK
  <2>1. grid \subseteq WallType
    BY <1>4, <1>5, WallsTyped
  <2>2. DOMAIN call = Threads /\ \A th \in Threads : call[th] \in Calls(th)
    BY <1>6, EndedIs
  <2>3. edges \subseteq EdgeType /\ edits \in Seq(EditType) /\ live \in Int /\ moves \in Nat
    BY <1>6
  <2>4. last \in Nat /\ frozen \in Nat
    BY <1>1, <1>6
  <2>5. full \in BOOLEAN
    BY <1>6, Zenon
  <2>6. {gap, full, base, trusted} \subseteq BOOLEAN
    BY <1>1, <1>6, <2>5, Zenon
  <2> QED
    BY <1>3, <1>6, <2>1, <2>2, <2>3, <2>4, <2>6 DEF TypeOK
<1>8. Numbered
  BY <1>1, <1>3, <1>6 DEF Numbered
<1>9. ErasedStaysErased /\ EdgesJoinTheirKeyframes
  BY <1>6 DEF ErasedStaysErased, EdgesJoinTheirKeyframes
<1>10. CallsHold
  BY <1>6, RestHolds DEF CallsHold, Idle, Redraws
<1>11. InStep
  <2> SUFFICES ASSUME NEW w \in grid, w.seq > Image PROVE Vouched(w, nodes)
    BY DEF InStep, AllVouched
  <2>1. PICK s \in S, p \in Places : w = Wall(s.seq, p, 0 + s.rel)
    BY <1>5, WallsAre
  <2>2. s.rel = 0 /\ (s.seq = Image \/ s.seq \in 1 .. frozen)
    BY <2>1
  <2>3. w.seq = s.seq /\ w.off = 0
    BY <2>1, <2>2 DEF Wall
  <2>4. frozen = 1 /\ w.seq = 1
    BY <1>1, <2>2, <2>3 DEF Image
  <2>5. [seq |-> 1, rel |-> 0] \in nodes[1].scans /\ 1 \in DOMAIN nodes /\ nodes[1].off = 0
    BY <1>3, <2>4
  <2> QED
    BY <2>3, <2>4, <2>5 DEF Vouched
<1>12. ChainsJoin
  BY <1>6 DEF ChainsJoin, ChainHolds, Idle, Threads
<1> QED
  BY <1>7, <1>8, <1>9, <1>10, <1>11, <1>12 DEF DrawIInv

LEMMA DrawStep ==
    ASSUME BoundsAssumption, DrawIInv, Next
    PROVE  DrawIInv'
<1>1. CASE Tick
  BY <1>1, PaintHolds, PublishHolds DEF Tick
<1>2. CASE Loop
  BY <1>2, LoopBeginsHolds, LoopEndsHolds, CommitHolds, DetectedHolds DEF Loop
<1>3. CASE Caller
  BY <1>3, EditDiskHolds, CallerBeginsHolds, OptimizeHolds, CorrectHolds DEF Caller
<1>4. ASSUME NEW th \in Threads, Render(th) PROVE DrawIInv'
  BY <1>4, SnapshotHolds, EndsHolds, TakeExtraHolds, SwapHolds DEF Render
<1>5. ASSUME NEW th \in Threads, Baseline(th) \/ \E p \in Places : ClearRegion(th, p)
      PROVE  DrawIInv'
  BY <1>5, BaselineHolds, ClearRegionHolds
<1> QED
  BY <1>1, <1>2, <1>3, <1>4, <1>5 DEF Next

LEMMA DrawStutters == DrawIInv /\ UNCHANGED vars => DrawIInv'
<1> SUFFICES ASSUME DrawIInv, UNCHANGED vars PROVE DrawIInv'
  OBVIOUS
<1>1. UNCHANGED <<graph, base, grid, edits, trusted, pending, call, graphJob, late, orphans>>
  BY DEF vars, graph
<1>2. live' \in Int /\ moves' \in Nat /\ painter' \in {Idle} \union Painters
  BY DEF vars, DrawIInv, TypeOK
<1> QED
  BY <1>1, <1>2, QuietStep

LEMMA DrawInductive == Spec => []DrawIInv
<1>1. Init => DrawIInv
  BY BoundsAssumption, DrawInit
<1>2. DrawIInv /\ [Next]_vars => DrawIInv'
  BY BoundsAssumption, DrawStep, DrawStutters
<1> QED
  BY <1>1, <1>2, PTL DEF Spec

\* Types of the drawing's state (engine.py, pose_graph.py).
THEOREM MapRenderTypes == Spec => []TypeOK
<1>1. DrawIInv => TypeOK
  BY DEF DrawIInv
<1> QED
  BY <1>1, DrawInductive, PTL

\* However scans, redraws, corrections and clears follow each other: what a box
\* clear erased of the image and of the scans up to then is not drawn again.
\* (clear_region, render_grid, _replay_after_render_locked)
THEOREM ErasedIsNotRedrawn == Spec => []ErasedStaysErased
<1>1. DrawIInv => ErasedStaysErased
  BY DEF DrawIInv
<1> QED
  BY <1>1, DrawInductive, PTL

\* With no redraw under way, the grid shows every scan where its keyframe is: a
\* redraw that was overtaken was overtaken by one that took place.
\* (_optimize_and_render)
THEOREM RedrawsLeaveTheGraph == Spec => []DrawnWhereTheGraphSays
<1>1. DrawIInv => DrawnWhereTheGraphSays
  <2> SUFFICES ASSUME DrawIInv, ~Redrawing PROVE AllVouched
    BY DEF DrawnWhereTheGraphSays, AllVouched, Vouched
  <2>1. ASSUME NEW th \in Threads PROVE ~Pledged(call[th])
    BY DEF Redrawing, Pledged
  <2> QED
    BY <2>1 DEF DrawIInv, InStep
<1> QED
  BY <1>1, DrawInductive, PTL

\* However keyframes are renumbered while detections wait: an edge joins the two
\* keyframes that it was measured between. (PoseGraph.remove_nodes, run_loop_closure)
THEOREM EdgesJoin == Spec => []EdgesJoinTheirKeyframes
<1>1. DrawIInv => EdgesJoinTheirKeyframes
  BY DEF DrawIInv
<1> QED
  BY <1>1, DrawInductive, PTL

-----------------------------------------------------------------------------
(* Where the saved keyframes stand *)

SavedStay == \A i \in 1 .. frozen, j \in DOMAIN nodes' :
                nodes'[j].id = nodes[i].id => nodes'[j].off = nodes[i].off

LEMMA OneKeyframeAnId ==
    ASSUME DrawIInv, NEW i \in DOMAIN nodes, NEW j \in DOMAIN nodes, nodes[i].id = nodes[j].id
    PROVE  i = j
<1>1. nodes \in Seq(Node)
  BY DEF DrawIInv, TypeOK
<1>2. nodes[i] \in Node /\ nodes[j] \in Node /\ i \in Nat /\ j \in Nat
  BY <1>1
<1>3. nodes[i].id \in Nat /\ nodes[j].id \in Nat
  BY <1>2 DEF Node
<1>4. ~(i < j) /\ ~(j < i)
  BY <1>3 DEF DrawIInv, Numbered
<1> QED
  BY <1>2, <1>4

LEMMA SavedAreNodes ==
    ASSUME DrawIInv, NEW i \in 1 .. frozen
    PROVE  i \in DOMAIN nodes
<1>1. nodes \in Seq(Node) /\ frozen \in Nat /\ frozen <= Len(nodes)
  BY DEF DrawIInv, TypeOK, Numbered
<1> QED
  BY <1>1

LEMMA SameOffsStay ==
    ASSUME DrawIInv, DOMAIN nodes' = DOMAIN nodes, \A i \in DOMAIN nodes : nodes'[i].id = nodes[i].id,
           \A i \in 1 .. frozen : nodes'[i].off = nodes[i].off
    PROVE  SavedStay
<1> SUFFICES ASSUME NEW i \in 1 .. frozen, NEW j \in DOMAIN nodes', nodes'[j].id = nodes[i].id
             PROVE  nodes'[j].off = nodes[i].off
  BY DEF SavedStay
<1>1. i \in DOMAIN nodes /\ j \in DOMAIN nodes
  BY SavedAreNodes
<1>2. i = j
  BY <1>1, OneKeyframeAnId
<1> QED
  BY <1>2

LEMMA PublishStays == DrawIInv /\ Publish => SavedStay
<1> SUFFICES ASSUME DrawIInv, Publish PROVE SavedStay
  OBVIOUS
<1>1. nodes \in Seq(Node) /\ last \in Nat /\ frozen \in Nat
  BY DEF DrawIInv, TypeOK
<1>2. ASSUME NEW p \in Places, NewNode(p, painter.off) PROVE SavedStay
  <2> DEFINE k == [id |-> last + 1, at |-> p, off |-> painter.off,
                   scans |-> {[seq |-> last + 1, rel |-> 0]}]
  <2>1. nodes' = Append(nodes, k) /\ k.id = last + 1
    BY <1>2 DEF NewNode
  <2> HIDE DEF k
  <2> SUFFICES ASSUME NEW i \in 1 .. frozen, NEW j \in DOMAIN nodes', nodes'[j].id = nodes[i].id
               PROVE  nodes'[j].off = nodes[i].off
    BY DEF SavedStay
  <2>2. i \in DOMAIN nodes
    BY SavedAreNodes
  <2>3. nodes[i] \in Node /\ nodes[i].id <= last
    BY <1>1, <2>2 DEF DrawIInv, Numbered
  <2>4. nodes[i].id \in Nat
    BY <2>3 DEF Node
  <2>5. j \in DOMAIN nodes /\ nodes'[j] = nodes[j]
    BY <1>1, <2>1, <2>3, <2>4
  <2>6. i = j
    BY <2>2, <2>5, OneKeyframeAnId
  <2> QED
    BY <2>5, <2>6
<1>3. ASSUME SameNode(painter.off) PROVE SavedStay
  <2> DEFINE n == Len(nodes)
             s == [seq |-> last + 1, rel |-> painter.off - nodes[n].off]
  <2>1. nodes' = [nodes EXCEPT ![n].scans = @ \union {s}]
    BY <1>3 DEF SameNode
  <2>2. \A i \in DOMAIN nodes : nodes[i] \in Node
    BY <1>1
  <2> HIDE DEF n, s
  <2>3. DOMAIN nodes' = DOMAIN nodes
    BY <2>1
  <2>4. \A i \in DOMAIN nodes : nodes'[i].id = nodes[i].id /\ nodes'[i].off = nodes[i].off
    <3> SUFFICES ASSUME NEW i \in DOMAIN nodes
                 PROVE  nodes'[i].id = nodes[i].id /\ nodes'[i].off = nodes[i].off
      OBVIOUS
    <3>1. nodes'[i] = IF i = n THEN [nodes[i] EXCEPT !.scans = @ \union {s}] ELSE nodes[i]
      BY <2>1
    <3> QED
      BY <2>2, <3>1 DEF Node
  <2>5. \A i \in 1 .. frozen : nodes'[i].off = nodes[i].off
    BY <2>4, SavedAreNodes
  <2> QED
    BY <2>3, <2>4, <2>5, SameOffsStay
<1>4. CASE NotKept
  <2>1. nodes' = nodes
    BY <1>4 DEF NotKept
  <2> QED
    BY <2>1, SameOffsStay
<1> QED
  BY <1>2, <1>3, <1>4 DEF Publish, AddScan

LEMMA RemoveStays ==
    ASSUME DrawIInv, NEW p, RemoveNodes(p)
    PROVE  SavedStay
<1>1. \A m \in DOMAIN nodes' : KeptAt(p, m) \in Keeps(p) /\ nodes'[m] = nodes[KeptAt(p, m)]
  BY RemoveKeeps DEF DrawIInv
<1> SUFFICES ASSUME NEW i \in 1 .. frozen, NEW j \in DOMAIN nodes', nodes'[j].id = nodes[i].id
             PROVE  nodes'[j].off = nodes[i].off
  BY DEF SavedStay
<1>2. i \in DOMAIN nodes /\ KeptAt(p, j) \in DOMAIN nodes /\ nodes'[j] = nodes[KeptAt(p, j)]
  BY <1>1, SavedAreNodes DEF Keeps
<1>3. KeptAt(p, j) = i
  BY <1>2, OneKeyframeAnId
<1> QED
  BY <1>2, <1>3

LEMMA CorrectStays ==
    ASSUME DrawIInv, NEW a \in 0 .. MaxNodes, NEW plausible \in BOOLEAN, Correct(a, plausible)
    PROVE  SavedStay
<1>1. nodes \in Seq(Node) /\ frozen \in Nat /\ a \in Nat
  BY DEF DrawIInv, TypeOK, Correct, Anchors
<1>2. UNCHANGED nodes \/ \E k \in {LiveFirstFree(a + 1), frozen + 1} :
                           MoveFrom(k, call["caller"].m - live)
  BY DEF Correct
<1>3. CASE UNCHANGED nodes
  BY <1>3, SameOffsStay
<1>4. ASSUME NEW k \in {LiveFirstFree(a + 1), frozen + 1}, MoveFrom(k, call["caller"].m - live)
      PROVE  SavedStay
  <2>1. k \in Int /\ k > frozen
    BY <1>1 DEF LiveFirstFree, AtLeast
  <2>2. DOMAIN nodes' = DOMAIN nodes
    BY <1>4 DEF MoveFrom
  <2>3. ASSUME NEW i \in DOMAIN nodes
        PROVE  nodes'[i].id = nodes[i].id /\ (i <= frozen => nodes'[i] = nodes[i])
    <3> DEFINE q == call["caller"].m - live
    <3>1. nodes'[i] = IF i >= k THEN [nodes[i] EXCEPT !.off = @ + q] ELSE nodes[i]
      BY <1>4 DEF MoveFrom
    <3>2. nodes[i] \in Node /\ i \in Int
      BY <1>1
    <3> HIDE DEF q
    <3> QED
      BY <1>1, <2>1, <3>1, <3>2 DEF Node
  <2>4. \A i \in 1 .. frozen : nodes'[i].off = nodes[i].off
    BY <1>1, <2>3, SavedAreNodes
  <2> QED
    BY <2>2, <2>3, <2>4, SameOffsStay
<1> QED
  BY <1>2, <1>3, <1>4

LEMMA SwapStays ==
    ASSUME DrawIInv, NEW th \in Threads, Swap(th)
    PROVE  OptimizeSwaps \/ SavedStay
<1> DEFINE c == call[th]
<1>1. c \in Drawing /\ c.pc = "swap" /\ c.valid /\ c.pc \in Redraws /\ nodes' = ApplyPoses(c)
  <2>1. c \in Calls(th) /\ c.pc = "swap" /\ c.valid
    BY DEF DrawIInv, TypeOK, Swap
  <2> QED
    BY <2>1, CallsByPlace DEF Redraws, Swap
<1>2. CASE c.for = "optimize"
  <2>1. call'[th] = Ended(th)
    BY DEF Swap, Outdate
  <2>2. call'[th].pc # "swap"
    BY <2>1, EndedIs
  <2> QED
    BY <1>1, <1>2, <2>2 DEF OptimizeSwaps
<1>3. CASE c.for # "optimize"
  <2>1. OfGraph(c, nodes) /\ Spares(c, nodes, frozen) /\ nodes \in Seq(Node) /\ frozen \in Nat
    BY DEF DrawIInv, CallsHold, TypeOK
  <2>2. c.snap \in Seq(Node) /\ c.poses \in Seq(Int) /\ DOMAIN c.poses = DOMAIN c.snap
    BY <1>1, <2>1 DEF Drawing, OfGraph
  <2>3. frozen <= Len(c.snap) /\ \A i \in 1 .. frozen : c.poses[i] = nodes[i].off
    BY <1>1, <1>3, <2>1 DEF Spares
  <2> HIDE DEF c
  <2>4. /\ DOMAIN nodes' = DOMAIN nodes
        /\ \A i \in DOMAIN nodes : nodes'[i].id = nodes[i].id
        /\ \A i \in DOMAIN nodes : i <= Len(c.poses) => nodes'[i].off = c.poses[i]
    BY <1>1, <2>1, <2>2, ApplyPosesIs
  <2>5. \A i \in 1 .. frozen : nodes'[i].off = nodes[i].off
    <3>1. Len(c.poses) = Len(c.snap) /\ Len(c.snap) \in Nat
      BY <2>2
    <3> QED
      BY <2>1, <2>3, <2>4, <3>1, SavedAreNodes
  <2> QED
    BY <2>4, <2>5, SameOffsStay
<1> QED
  BY <1>2, <1>3

\* A detection or a matched pose never moves a keyframe that was reloaded from
\* the saved map, whatever the frozen ones are renumbered to; only the operator's
\* optimization does. (_live_first_free)
THEOREM LiveCorrectionsSpareTheSaved == Spec => SavedKeyframesStay
<1>1. DrawIInv /\ [Next]_vars => [OptimizeSwaps \/ SavedStay]_vars
  <2> SUFFICES ASSUME DrawIInv, Next PROVE OptimizeSwaps \/ SavedStay
    OBVIOUS
  <2>1. CASE UNCHANGED nodes
    BY <2>1, SameOffsStay
  <2>2. CASE Publish
    BY <2>2, PublishStays
  <2>3. ASSUME NEW a \in 0 .. MaxNodes, NEW plausible \in BOOLEAN, Correct(a, plausible)
        PROVE  SavedStay
    BY <2>3, CorrectStays
  <2>4. ASSUME NEW th \in Threads, Swap(th) PROVE OptimizeSwaps \/ SavedStay
    BY <2>4, SwapStays
  <2>5. ASSUME NEW th \in Threads, NEW p \in Places, ClearRegion(th, p) PROVE SavedStay
    <3>1. RemoveNodes(p) \/ UNCHANGED nodes
      BY <2>5 DEF ClearRegion, graph
    <3> QED
      BY <2>1, <3>1, RemoveStays, SameOffsStay
  <2>6. CASE Tick
    BY <2>1, <2>2, <2>6 DEF Tick, TakePose, TakeGrid, Discard, graph
  <2>7. CASE Loop
    <3>1. UNCHANGED nodes
      BY <2>7 DEF Loop, LoopBegins, NothingDetected, CommitAborts, Commit, Detected, graph
    <3> QED
      BY <2>1, <3>1
  <2>8. CASE Caller
    <3>1. UNCHANGED nodes \/ \E a \in 0 .. MaxNodes, plausible \in BOOLEAN : Correct(a, plausible)
      BY <2>8 DEF Caller, EditDisk, OptimizeBegins, Optimize, CorrectionFails, CorrectionBegins, graph
    <3> QED
      BY <2>1, <2>3, <3>1
  <2>9. ASSUME NEW th \in Threads, Render(th) \/ Baseline(th) PROVE OptimizeSwaps \/ SavedStay
    <3>1. UNCHANGED nodes \/ Swap(th)
      BY <2>9 DEF Render, Baseline, Snapshot, SnapshotRaises, Reject, TakeExtra, Abort, graph
    <3> QED
      BY <2>1, <2>4, <3>1
  <2> QED
    BY <2>5, <2>6, <2>7, <2>8, <2>9 DEF Next
<1> QED
  BY <1>1, DrawInductive, PTL DEF Spec, SavedKeyframesStay, SavedStay
=============================================================================

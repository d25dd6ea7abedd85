---- MODULE MapRender ----
(***************************************************************************)
(* The drawing of the occupancy map inside one mapping session: the        *)
(* published grid, the pose graph it can be redrawn from, the list of      *)
(* operator edits, and the threads that change them                        *)
(* (src/slam_builtin/engine.py, pose_graph.py).                            *)
(*                                                                         *)
(*  - the tick thread paints a scan into a copy of the grid, outside the   *)
(*    lock, and publishes the copy only if nobody replaced the grid;       *)
(*  - the loop worker looks for loop closures and, when the map degrades,  *)
(*    clears a region by itself;                                           *)
(*  - a caller clears, marks, corrects the pose or optimizes.              *)
(*                                                                         *)
(* _optimize_and_render is four lock sections of its thread: snapshot,     *)
(* (rejection), the scans that arrived meanwhile, swap.  A pose is reduced *)
(* to its offset from where the robot really was, an integer; corrections  *)
(* add up.  Every scan sees every wall, one wall at each place of Places.  *)
(* Counters (_generation) and the revision number are replaced by flags    *)
(* that say whether the number changed since a thread read it.             *)
(***************************************************************************)
EXTENDS Integers, Sequences, FiniteSets

CONSTANTS Sessions,   \* [saved, image]: the keyframes and the image it begins with
          Places,     \* where keyframes stand, and where a box can be cleared
          MaxNodes,   \* builtin_mapping_keyframe_max
          AgreeNeeded,\* agreeing detections a loop needs: 2, or 3 if it is large
          MaxScans,   \* bound: scans painted in a session
          MaxEdits,   \* bound: operator edits
          MaxMoves    \* bound: corrections that move something

ASSUME BoundsAssumption ==
  /\ Sessions \subseteq [saved : {0, 1}, image : BOOLEAN]
  /\ Places # {} /\ MaxNodes \in Nat \ {0}
  /\ AgreeNeeded \subseteq {2, 3} /\ MaxScans \in Nat /\ MaxEdits \in Nat /\ MaxMoves \in Nat

VARIABLES
  nodes,     \* PoseGraph.nodes: [id, at, off, scans : set of [seq, rel]]
  edges,     \* PoseGraph.edges: [i, j : indexes, from, to : ids, loop]
  last,      \* PoseGraph._seq
  frozen,    \* _graph_frozen: leading keyframes reloaded from the saved map
  gap,       \* PoseGraph._session_gap_m is set: the next scan starts a node
  full,      \* PoseGraph.full
  base,      \* _graph_base: the session resumed on an image
  grid,      \* _grid: the walls drawn, set of [seq, at, off]
  edits,     \* _grid_edits
  live,      \* _pose
  trusted,   \* _baseline_trusted_locked
  pending,   \* _loop_pending, or NoPending
  painter,   \* the scan the tick thread is painting, or Idle
  graphJob,  \* _graph_job: the thread that holds it, or "free"
  call,      \* what each other thread is doing
  moves,     \* bound: corrections so far
  late,      \* ghost: scans a swap left drawn where they were
  orphans    \* ghost: scans still drawn when a clear left no keyframe

graph == <<nodes, edges, last, frozen, gap, full>>
vars == <<nodes, edges, last, frozen, gap, full, base, grid, edits, live, trusted,
          pending, painter, graphJob, call, moves, late, orphans>>

Threads == {"worker", "caller"}
Image == 0        \* the walls of the loaded image
Mark == -1        \* an obstacle the operator drew
Idle == [pc |-> "idle"]
NoPending == [edges |-> {}]

Wall(s, p, o) == [seq |-> s, at |-> p, off |-> o]
Walls(S, o) == {Wall(s.seq, p, o + s.rel) : s \in S, p \in Places}
AtLeast(a, b) == IF a > b THEN a ELSE b

-----------------------------------------------------------------------------
(***************************************************************************)
(* Edits.  A box clear remembers the newest scan it erases; a disk clear   *)
(* and a mark do not.                                                      *)
(***************************************************************************)
Edit(k, p) == [kind |-> k, at |-> p, seq |-> last]
SeqScoped(e) == e.kind = "clear_box"

ApplyEdit(ink, e) ==
  IF e.kind = "mark" THEN ink \union {Wall(Mark, e.at, 0)}
                     ELSE {w \in ink : w.at # e.at}

(* _replay_after_render_locked: what the render did not place.  Of two     *)
(* edits at a place the later one is seen.                                 *)
Replayed(done) == {k \in DOMAIN edits : k > done \/ ~SeqScoped(edits[k])}
Wiped(done, from, p) ==
  \E k \in Replayed(done) : k > from /\ edits[k].kind # "mark" /\ edits[k].at = p
Replay(ink, done) ==
  {w \in ink : ~Wiped(done, 0, w.at)} \union
  {Wall(Mark, edits[k].at, 0) :
     k \in {m \in Replayed(done) : edits[m].kind = "mark" /\ ~Wiped(done, m, edits[m].at)}}

RenderNoClears(ink, E) == ink
(* The box clears among E, drawn in between the scans.                     *)
RenderClears(ink, E) ==
  {w \in ink : \A k \in DOMAIN E :
                  SeqScoped(E[k]) /\ w.seq <= E[k].seq => w.at # E[k].at}

(* The scans later than s, where their keyframes are in ns.                *)
ScansAfter(ns, s) ==
  UNION {Walls({x \in ns[i].scans : x.seq > s}, ns[i].off) : i \in DOMAIN ns}

(* render_grid: the image, the snapshot at its new poses, the later scans. *)
Underlay == IF base THEN Walls({[seq |-> Image, rel |-> 0]}, 0) ELSE {}
Redrawn(c) == UNION {Walls(c.snap[i].scans, c.poses[i]) : i \in DOMAIN c.snap}
RenderGrid(c, extra) ==
  RenderClears(Underlay \union Redrawn(c) \union extra, SubSeq(edits, 1, c.done))

-----------------------------------------------------------------------------
(***************************************************************************)
(* PoseGraph.                                                              *)
(***************************************************************************)
Edge(i, j, loop) == [i |-> i, j |-> j, loop |-> loop, to |-> nodes[j].id,
                     from |-> IF i = 0 THEN 0 ELSE nodes[i].id]

(* add_scan starts a keyframe ...                                          *)
NewNode(p, o) ==
  LET n == Len(nodes) + 1
      id == last + 1 IN
  /\ last' = id /\ gap' = FALSE
  /\ nodes' = Append(nodes, [id |-> id, at |-> p, off |-> o,
                             scans |-> {[seq |-> id, rel |-> 0]}])
  /\ edges' = IF n = 1 THEN edges
              ELSE edges \union {[i |-> n - 1, j |-> n, loop |-> FALSE,
                                  from |-> nodes[n - 1].id, to |-> id]}
  /\ grid' = grid \union Walls({[seq |-> id, rel |-> 0]}, o)
  /\ UNCHANGED full

(* ... or adds to the newest one ...                                       *)
SameNode(o) ==
  LET n == Len(nodes)
      scan == [seq |-> last + 1, rel |-> o - nodes[n].off] IN
  /\ last' = last + 1
  /\ nodes' = [nodes EXCEPT ![n].scans = @ \union {scan}]
  /\ grid' = grid \union Walls({scan}, nodes[n].off)
  /\ UNCHANGED <<edges, gap, full>>

(* ... or keeps nothing.  The scan is drawn all the same, until the next   *)
(* redraw; such walls are left out of grid.                                *)
NotKept == UNCHANGED <<nodes, edges, last, gap, grid>>

(* remove_nodes renumbers the edges and discards those of a dropped node.  *)
(* The kept keyframes stay in their order.                                 *)
Keeps(p) == {i \in DOMAIN nodes : nodes[i].at # p}
Renumbered(p, i) == Cardinality({k \in Keeps(p) : k <= i})
KeptAt(p, n) == CHOOSE i \in Keeps(p) : Renumbered(p, i) = n
RemoveNodes(p) ==
  /\ nodes' = [n \in 1 .. Cardinality(Keeps(p)) |-> nodes[KeptAt(p, n)]]
  /\ edges' = {[e EXCEPT !.i = Renumbered(p, e.i), !.j = Renumbered(p, e.j)] :
                 e \in {x \in edges : x.j \in Keeps(p) /\ x.i \in Keeps(p) \union {0}}}
  /\ frozen' = Cardinality({i \in Keeps(p) : i <= frozen})
  /\ full' = (full /\ Len(nodes') >= MaxNodes)
  /\ UNCHANGED <<last, gap>>

(* apply_poses: the nodes of the snapshot by index, later ones ride along. *)
TailShift(c) == IF c.poses = <<>> THEN 0
           ELSE c.poses[Len(c.poses)] - c.snap[Len(c.snap)].off
ApplyPoses(c) ==
  [i \in DOMAIN nodes |->
     [nodes[i] EXCEPT !.off = IF i <= Len(c.poses) THEN c.poses[i] ELSE @ + TailShift(c)]]

-----------------------------------------------------------------------------
(* The revision was incremented: who read it before holds an old one.  own *)
(* says that the edges a thread added are still the objects in the graph.  *)
OutdateNothing(C, own) == C
Outdate(C, own) ==
  [th \in Threads |-> IF C[th].pc \in {"idle", "correct"} THEN C[th]
                      ELSE [C[th] EXCEPT !.valid = FALSE, !.own = @ /\ own]]
GridReplaced ==
  painter' = IF painter = Idle THEN Idle ELSE [painter EXCEPT !.fresh = FALSE]

(***************************************************************************)
(* The tick thread: _maybe_insert_scan and _paint_mapping_scan take the    *)
(* pose, then the grid, paint, and publish when the grid is still theirs.  *)
(***************************************************************************)
TakePose ==
  /\ painter = Idle
  /\ last < MaxScans \/ (Len(nodes) = MaxNodes /\ pending = NoPending /\ moves = 0 /\ edits = <<>>
                          /\ graphJob = "free" /\ ~full)    \* bound
  /\ painter' = [pc |-> "posed", off |-> live, fresh |-> TRUE]
  /\ UNCHANGED <<graph, base, grid, edits, live, trusted, pending, graphJob, call, moves,
                 late, orphans>>

TakeGrid ==
  /\ painter.pc = "posed"
  /\ painter' = [painter EXCEPT !.pc = "paint", !.fresh = TRUE]
  /\ UNCHANGED <<graph, base, grid, edits, live, trusted, pending, graphJob, call, moves,
                 late, orphans>>

(* The robot has moved to p, to a new keyframe or not, or has hardly moved. *)
AddScan ==
  LET n == Len(nodes) IN
  \/ /\ n < MaxNodes
     /\ \E p \in Places : NewNode(p, painter.off)
  \/ /\ n >= MaxNodes /\ full' = TRUE
     /\ NotKept
  \/ /\ n > 0 /\ ~gap /\ last < MaxScans
     /\ SameNode(painter.off)
  \/ /\ n > 0 /\ ~gap
     /\ NotKept /\ UNCHANGED full

Publish ==
  /\ painter.pc = "paint" /\ painter.fresh
  /\ AddScan
  /\ painter' = Idle
  /\ UNCHANGED <<frozen, base, edits, live, trusted, pending, graphJob, call, moves,
                 late, orphans>>

Discard ==
  /\ painter.pc = "paint" /\ ~painter.fresh
  /\ painter' = Idle
  /\ UNCHANGED <<graph, base, grid, edits, live, trusted, pending, graphJob, call, moves,
                 late, orphans>>

-----------------------------------------------------------------------------
(***************************************************************************)
(* Operator edits in one lock section: clear_obstacles, add_obstacles.  An *)
(* edit that changes no cell is not recorded.                              *)
(***************************************************************************)
EditDisk(k, p) ==
  LET ink == ApplyEdit(grid, Edit(k, p)) IN
  /\ call["caller"] = Idle /\ Len(edits) < MaxEdits /\ ink # grid
  /\ grid' = ink /\ GridReplaced
  /\ edits' = Append(edits, Edit(k, p))
  /\ UNCHANGED <<graph, base, live, trusted, pending, graphJob, call, moves, late, orphans>>

(***************************************************************************)
(* clear_region, by the operator or by the worker's auto-heal: the box is  *)
(* cleared and its keyframes dropped in one lock section, then the graph   *)
(* is redrawn without taking _graph_job, then the result becomes the       *)
(* session's baseline.                                                     *)
(***************************************************************************)
Rendering(ff, new, live_, for) ==
  [pc |-> "snap", ff |-> ff, new |-> new, live |-> live_, for |-> for,
   valid |-> TRUE, own |-> TRUE]

ClearRegion(th, p) ==
  LET removed == \E i \in DOMAIN nodes : nodes[i].at = p
      left == Len(nodes') > 0
      ink == ApplyEdit(grid, Edit("clear_box", p)) IN
  /\ call[th] = Idle /\ Len(edits) < MaxEdits
  /\ edits' = Append(edits, Edit("clear_box", p))
  /\ grid' = ink
  /\ IF ink # grid THEN GridReplaced ELSE UNCHANGED painter
  /\ IF removed THEN RemoveNodes(p) ELSE UNCHANGED graph
  /\ pending' = IF removed THEN NoPending ELSE pending
  /\ call' = [(IF removed THEN Outdate(call, FALSE) ELSE call) EXCEPT ![th] =
                IF removed /\ left THEN Rendering(0, {}, {}, "clear")
                                  ELSE [pc |-> "baseline", valid |-> TRUE, own |-> TRUE]]
  /\ orphans' = IF left THEN orphans ELSE {w.seq : w \in ink}
  /\ UNCHANGED <<base, live, trusted, graphJob, moves, late>>

Baseline(th) ==
  /\ call[th].pc = "baseline"
  /\ trusted' = TRUE
  /\ call' = [call EXCEPT ![th] = Idle]
  /\ UNCHANGED <<graph, base, grid, edits, live, pending, painter, graphJob, moves, late,
                 orphans>>

-----------------------------------------------------------------------------
(***************************************************************************)
(* _optimize_and_render.  ff = 0 stands for first_free None; live is the   *)
(* set of the live_correction, empty when the tail is used.                *)
(***************************************************************************)
Release(th) == graphJob' = IF graphJob = th THEN "free" ELSE graphJob
Ended(th) == IF call[th].for = "clear" THEN [pc |-> "baseline", valid |-> TRUE, own |-> TRUE]
             ELSE Idle

Optimizes(c) == c.ff > 0 /\ Len(nodes) > 1

(* The edges of the call are evaluated by their old indexes.               *)
OutOfRange(c) == Optimizes(c) /\ \E e \in c.new : e.j > Len(nodes)

Snapshot(th, d) ==
  LET c == call[th] IN
  /\ c.pc = "snap" /\ ~OutOfRange(c)
  /\ d > 0 => Optimizes(c)
  /\ moves' = moves + IF c.for = "loop" THEN d ELSE 0
  /\ moves' <= MaxMoves
  /\ call' = [call EXCEPT ![th] =
       [pc |-> IF Optimizes(c) THEN "verdict" ELSE "extra",
        snap |-> nodes, seq |-> last, new |-> c.new, live |-> c.live, for |-> c.for,
        poses |-> [i \in DOMAIN nodes |->
                     nodes[i].off + IF Optimizes(c) /\ i >= c.ff THEN d ELSE 0],
        valid |-> TRUE, own |-> c.own]]
  /\ UNCHANGED <<graph, base, grid, edits, live, trusted, pending, painter, graphJob, late,
                 orphans>>

SnapshotRaises(th) ==
  /\ call[th].pc = "snap" /\ OutOfRange(call[th])
  /\ call' = [call EXCEPT ![th] = Ended(th)]
  /\ Release(th)
  /\ UNCHANGED <<graph, base, grid, edits, live, trusted, pending, painter, moves, late,
                 orphans>>

(* The new edges disagree with the rest: they are dropped, if the objects  *)
(* in the graph are still these.                                           *)
Reject(th) ==
  LET c == call[th] IN
  /\ c.pc = "verdict" /\ c.new # {}
  /\ edges' = IF c.own THEN edges \ c.new ELSE edges
  /\ call' = [call EXCEPT ![th] = Ended(th)]
  /\ Release(th)
  /\ UNCHANGED <<nodes, last, frozen, gap, full, base, grid, edits, live, trusted,
                 pending, painter, moves, late, orphans>>

TakeExtra(th) ==
  LET c == call[th] IN
  /\ c.pc \in {"verdict", "extra"}
  /\ call' = [call EXCEPT ![th] =
       [pc |-> "swap", snap |-> c.snap, poses |-> c.poses, seq |-> c.seq,
        live |-> c.live, for |-> c.for, valid |-> c.valid, own |-> c.own,
        extra |-> ScansAfter(nodes, c.seq), done |-> Len(edits)]]
  /\ UNCHANGED <<graph, base, grid, edits, live, trusted, pending, painter, graphJob, moves,
                 late, orphans>>

Abort(th) ==
  /\ call[th].pc = "swap" /\ ~call[th].valid
  /\ call' = [call EXCEPT ![th] = Ended(th)]
  /\ Release(th)
  /\ UNCHANGED <<graph, base, grid, edits, live, trusted, pending, painter, moves, late,
                 orphans>>

(* The scans are drawn once more only if there are more of them than when  *)
(* extra was taken.                                                        *)
Swap(th) ==
  LET c == call[th]
      newer == ScansAfter(nodes', c.seq)
      more == {w.seq : w \in newer} # {w.seq : w \in c.extra} IN
  /\ c.pc = "swap" /\ c.valid
  /\ nodes' = ApplyPoses(c)
  /\ grid' = Replay(RenderGrid(c, IF more THEN newer ELSE c.extra), c.done)
  /\ GridReplaced
  /\ live' = live + IF c.live = {} THEN TailShift(c) ELSE CHOOSE x \in c.live : TRUE
  /\ pending' = IF pending = NoPending THEN pending ELSE [pending EXCEPT !.valid = FALSE]
  /\ call' = [Outdate(call, TRUE) EXCEPT ![th] = Ended(th)]
  /\ Release(th)
  /\ late' = IF more THEN {} ELSE {w.seq : w \in c.extra \ newer}
  /\ orphans' = {}
  /\ UNCHANGED <<edges, last, frozen, gap, full, base, edits, trusted, moves>>

-----------------------------------------------------------------------------
(***************************************************************************)
(* The loop worker: run_loop_closure holds _graph_job from its snapshot to *)
(* the end of the redraw.                                                  *)
(***************************************************************************)
LoopBegins ==
  /\ call["worker"] = Idle /\ graphJob = "free" /\ ~full
  /\ Len(nodes) > frozen
  /\ graphJob' = "worker"
  /\ call' = [call EXCEPT !["worker"] =
       [pc |-> "detect", ids |-> [i \in DOMAIN nodes |-> nodes[i].id],
        low |-> IF trusted THEN 1 ELSE frozen + 1, prior |-> trusted /\ base,
        same |-> pending # NoPending /\ pending.valid, valid |-> TRUE, own |-> TRUE]]
  /\ UNCHANGED <<graph, base, grid, edits, live, trusted, pending, painter, moves, late,
                 orphans>>

NothingDetected ==
  /\ call["worker"].pc = "detect"
  /\ pending' = NoPending
  /\ call' = [call EXCEPT !["worker"] = Idle]
  /\ Release("worker")
  /\ UNCHANGED <<graph, base, grid, edits, live, trusted, painter, moves, late, orphans>>

(* A match of the newest keyframe with keyframe i (0: with the loaded      *)
(* image).  It is applied when it agrees with a chain of enough earlier    *)
(* ones, seen from other keyframes and at the same revision; a chain that  *)
(* is too old or was replaced too often has expired.                       *)
Agrees(c, cur, sameCorrection) ==
  pending # NoPending /\ c.same /\ pending.cur # cur /\ sameCorrection

Detected(i, needed, sameCorrection) ==
  LET c == call["worker"]
      cur == Len(c.ids)
      e == [i |-> i, j |-> cur, loop |-> TRUE, to |-> c.ids[cur],
            from |-> IF i = 0 THEN 0 ELSE c.ids[i]]
      chain == IF Agrees(c, cur, sameCorrection) THEN pending.edges \union {e} ELSE {e}
      need == IF Agrees(c, cur, sameCorrection) THEN AtLeast(pending.need, needed) ELSE needed
  IN
  /\ c.pc = "detect"
  /\ i \in (c.low .. cur - 1) \union IF c.prior THEN {0} ELSE {}
  /\ IF Cardinality(chain) < need
     THEN /\ pending' = [edges |-> chain, cur |-> cur, need |-> need, valid |-> c.valid]
          /\ call' = [call EXCEPT !["worker"] = Idle]
          /\ Release("worker")
     ELSE /\ pending' = NoPending
          /\ call' = [call EXCEPT !["worker"] =
               [pc |-> "commit", new |-> chain, valid |-> c.valid, own |-> TRUE]]
          /\ UNCHANGED graphJob
  /\ UNCHANGED <<graph, base, grid, edits, live, trusted, painter, moves, late, orphans>>

(* _live_first_free: keyframes of the saved map stay where they are.       *)
LiveFirstFree(i) == AtLeast(i, frozen + 1)
FirstFree(E) ==
  LET anchors == {e.i : e \in E} \ {0}
  IN LiveFirstFree(IF anchors = {} THEN 2
                   ELSE (CHOOSE a \in anchors : \A b \in anchors : a <= b) + 1)

Commit(small) ==
  LET c == call["worker"] IN
  /\ c.pc = "commit" /\ c.valid
  /\ edges' = edges \union c.new
  /\ IF small
     THEN call' = [call EXCEPT !["worker"] = Idle] /\ Release("worker")
     ELSE /\ call' = [call EXCEPT !["worker"] =
                        Rendering(FirstFree(c.new), c.new, {}, "loop")]
          /\ UNCHANGED graphJob
  /\ UNCHANGED <<nodes, last, frozen, gap, full, base, grid, edits, live, trusted,
                 pending, painter, moves, late, orphans>>

CommitAborts ==
  /\ call["worker"].pc = "commit" /\ ~call["worker"].valid
  /\ call' = [call EXCEPT !["worker"] = Idle]
  /\ Release("worker")
  /\ UNCHANGED <<graph, base, grid, edits, live, trusted, pending, painter, moves, late,
                 orphans>>

-----------------------------------------------------------------------------
(***************************************************************************)
(* The caller: optimize_pose_graph and apply_map_pose_correction look at   *)
(* the session under the lock, then wait for _graph_job.                   *)
(***************************************************************************)
OptimizeBegins ==
  /\ call["caller"] = Idle /\ Len(nodes) >= 2 /\ moves < MaxMoves
  /\ moves' = moves + 1
  /\ call' = [call EXCEPT !["caller"] = [pc |-> "correct", how |-> "optimize"]]
  /\ UNCHANGED <<graph, base, grid, edits, live, trusted, pending, painter, graphJob, late,
                 orphans>>

Optimize ==
  /\ call["caller"].pc = "correct" /\ call["caller"].how = "optimize" /\ graphJob = "free"
  /\ graphJob' = "caller"
  /\ call' = [call EXCEPT !["caller"] = Rendering(2, {}, {}, "optimize")]
  /\ UNCHANGED <<graph, base, grid, edits, live, trusted, pending, painter, moves, late,
                 orphans>>

(* The matched pose m; without keyframes only the pose is moved.           *)
CorrectionBegins(how, m) ==
  /\ call["caller"] = Idle /\ moves < MaxMoves
  /\ moves' = moves + 1
  /\ IF nodes = <<>>
     THEN live' = m /\ UNCHANGED call
     ELSE /\ call' = [call EXCEPT !["caller"] = [pc |-> "correct", how |-> how, m |-> m]]
          /\ UNCHANGED live
  /\ UNCHANGED <<graph, base, grid, edits, trusted, pending, painter, graphJob, late, orphans>>

MoveFrom(k, corr) ==
  nodes' = [i \in DOMAIN nodes |->
              IF i >= k THEN [nodes[i] EXCEPT !.off = @ + corr] ELSE nodes[i]]

(* The old keyframe nearest to the matched pose, 0 if there is none or it  *)
(* belongs to a map that is not trusted.                                   *)
Anchors == {a \in 0 .. Len(nodes) : a \in 1 .. frozen => trusted}

CorrectionFails ==      \* nodes[-1] of a graph that was emptied meanwhile
  /\ call["caller"].pc = "correct" /\ call["caller"].how # "optimize"
  /\ graphJob = "free" /\ nodes = <<>>
  /\ call' = [call EXCEPT !["caller"] = Idle]
  /\ UNCHANGED <<graph, base, grid, edits, live, trusted, pending, painter, graphJob, moves,
                 late, orphans>>

Correct(a, plausible) ==
  LET c == call["caller"]
      corr == c.m - live
      cur == Len(nodes)
      edge == Edge(a, cur, TRUE)
      Render(ff, new, l) == /\ call' = [call EXCEPT !["caller"] = Rendering(ff, new, l, "correct")]
                            /\ graphJob' = "caller"
                            /\ UNCHANGED live
      PoseOnly(p) == /\ live' = p
                     /\ call' = [call EXCEPT !["caller"] = Idle]
                     /\ UNCHANGED <<nodes, edges, graphJob>>
  IN
  /\ c.pc = "correct" /\ c.how # "optimize" /\ graphJob = "free" /\ cur > 0 /\ a \in Anchors
  /\ IF c.how = "force"
     THEN MoveFrom(LiveFirstFree(a + 1), corr) /\ UNCHANGED edges /\ Render(0, {}, {corr})
     ELSE IF ~plausible THEN PoseOnly(live)
     ELSE IF cur <= frozen \/ a = cur THEN PoseOnly(c.m)
     ELSE IF a > 0
     THEN /\ edges' = edges \union {edge} /\ UNCHANGED nodes
          /\ Render(LiveFirstFree(a + 1), {edge}, {})
     ELSE IF trusted /\ base
     THEN MoveFrom(frozen + 1, corr) /\ UNCHANGED edges /\ Render(0, {}, {corr})
     ELSE PoseOnly(live)
  /\ UNCHANGED <<last, frozen, gap, full, base, grid, edits, trusted, pending, painter,
                 moves, late, orphans>>

-----------------------------------------------------------------------------
(* A session starts empty, on an image, or on an image with its keyframes. *)
Init ==
  /\ \E s \in Sessions : base = s.image /\ frozen = s.saved
  /\ trusted \in BOOLEAN
  /\ ~base => trusted
  /\ nodes \in IF frozen = 0 THEN {<<>>}
               ELSE {<<[id |-> 1, at |-> p, off |-> 0, scans |-> {[seq |-> 1, rel |-> 0]}]>> :
                       p \in Places}
  /\ last = frozen /\ gap = (frozen > 0) /\ full = FALSE
  /\ edges = {} /\ edits = <<>> /\ live = 0
  /\ grid = Walls({[seq |-> x, rel |-> 0] :
                     x \in (IF base THEN {Image} ELSE {}) \union 1 .. frozen}, 0)
  /\ pending = NoPending /\ painter = Idle /\ graphJob = "free"
  /\ call = [th \in Threads |-> Idle]
  /\ moves = 0 /\ late = {} /\ orphans = {}

Tick == TakePose \/ TakeGrid \/ Publish \/ Discard
Loop == \/ LoopBegins \/ NothingDetected \/ CommitAborts
        \/ \E small \in BOOLEAN : Commit(small)
        \/ \E i \in 0 .. MaxNodes, need \in AgreeNeeded, same \in BOOLEAN :
             Detected(i, need, same)
Caller == \/ \E p \in Places, k \in {"clear", "mark"} : EditDisk(k, p)
          \/ OptimizeBegins \/ Optimize \/ CorrectionFails
          \/ \E how \in {"score", "force"} : CorrectionBegins(how, live + 1)
          \/ \E a \in 0 .. MaxNodes, plausible \in BOOLEAN : Correct(a, plausible)
Render(th) == \/ \E d \in {0, 1} : Snapshot(th, d)
              \/ SnapshotRaises(th) \/ Reject(th) \/ TakeExtra(th) \/ Abort(th) \/ Swap(th)
Next == \/ Tick \/ Loop \/ Caller
        \/ \E th \in Threads : \/ Render(th) \/ Baseline(th)
                               \/ \E p \in Places : ClearRegion(th, p)

Spec == Init /\ [][Next]_vars

-----------------------------------------------------------------------------
(***************************************************************************)
(* Properties.                                                             *)
(***************************************************************************)
(* The type invariant of the drawing: what nodes, edges, grid and the      *)
(* threads' calls can look like (engine.py, pose_graph.py).                *)
Scan == [seq : Nat, rel : Int]
Node == [id : Nat, at : Places, off : Int, scans : SUBSET Scan]
WallType == [seq : Nat \union {Mark}, at : Places, off : Int]
EdgeType == [i : Nat, j : Nat, loop : BOOLEAN, to : Nat, from : Nat]
EditType == [kind : {"clear_box", "clear", "mark"}, at : Places, seq : Nat]
Reasons == {"clear", "loop", "optimize", "correct"}

Baselines == [pc : {"baseline"}, valid : BOOLEAN, own : BOOLEAN]
Detects == [pc : {"detect"}, ids : Seq(Nat) \ {<<>>}, low : Nat \ {0}, prior : BOOLEAN,
            same : BOOLEAN, valid : BOOLEAN, own : BOOLEAN]
Commits == [pc : {"commit"}, new : SUBSET EdgeType, valid : BOOLEAN, own : BOOLEAN]
Corrects == [pc : {"correct"}, how : {"optimize"}] \union
            [pc : {"correct"}, how : {"score", "force"}, m : Int]
Begun == [pc : {"snap"}, ff : Nat, new : SUBSET EdgeType, live : SUBSET Int, for : Reasons,
          valid : BOOLEAN, own : BOOLEAN]
Solving == [pc : {"verdict", "extra"}, snap : Seq(Node), seq : Nat, new : SUBSET EdgeType,
            live : SUBSET Int, for : Reasons, poses : Seq(Int), valid : BOOLEAN, own : BOOLEAN]
Drawing == [pc : {"swap"}, snap : Seq(Node), poses : Seq(Int), seq : Nat, live : SUBSET Int,
            for : Reasons, valid : BOOLEAN, own : BOOLEAN, extra : SUBSET WallType, done : Nat]
Calls(th) == {Idle} \union Begun \union Solving \union Drawing \union Baselines
             \union IF th = "caller" THEN Corrects ELSE Detects \union Commits
Pendings == [edges : SUBSET EdgeType, cur : Nat, need : AgreeNeeded, valid : BOOLEAN]
Painters == [pc : {"posed", "paint"}, off : Int, fresh : BOOLEAN]

TypeOK ==
  /\ nodes \in Seq(Node) /\ edges \subseteq EdgeType
  /\ last \in Nat /\ frozen \in Nat /\ {gap, full, base, trusted} \subseteq BOOLEAN
  /\ grid \subseteq WallType /\ edits \in Seq(EditType) /\ live \in Int
  /\ pending \in {NoPending} \union Pendings
  /\ painter \in {Idle} \union Painters
  /\ graphJob \in Threads \union {"free"}
  /\ DOMAIN call = Threads /\ \A th \in Threads : call[th] \in Calls(th)
  /\ moves \in Nat

(* remove_nodes renumbers, and chains of detections wait across lock       *)
(* sections: an edge always joins the keyframes it was measured between    *)
(* (PoseGraph.remove_nodes, run_loop_closure's revision checks).           *)
EdgesJoinTheirKeyframes ==
  \A e \in edges :
    /\ e.j \in DOMAIN nodes /\ nodes[e.j].id = e.to
    /\ e.i # 0 => e.i \in DOMAIN nodes /\ nodes[e.i].id = e.from

(* clear_region: "later re-renders keep the hole".  What a box clear       *)
(* erased, of the image and of the scans, does not come back, whoever      *)
(* redraws or paints at that moment.                                       *)
ErasedStaysErased ==
  \A k \in DOMAIN edits, w \in grid :
    SeqScoped(edits[k]) /\ w.at = edits[k].at /\ w.seq >= Image => w.seq > edits[k].seq

(* The same of what the operator drew: a mark in the box, made before the  *)
(* clear, does not come back (the docstring of clear_region).              *)
MarksStayCleared ==
  \A k \in DOMAIN edits, w \in grid :
    SeqScoped(edits[k]) /\ w.at = edits[k].at /\ w.seq = Mark
      => \E j \in k + 1 .. Len(edits) : edits[j].kind = "mark" /\ edits[j].at = w.at

(* When no redraw is under way the grid shows the scans where the graph    *)
(* has them, and none the graph has dropped: a redraw that was overtaken   *)
(* or refused leaves no half-moved map.  (Excepted are the scans a swap    *)
(* left behind and those of a clear that emptied the graph.)               *)
Redrawing == \E th \in Threads : call[th].pc \in {"snap", "verdict", "extra", "swap"}
DrawnWhereTheGraphSays ==
  ~Redrawing =>
    \A w \in grid :
      w.seq > Image /\ w.seq \notin late \union orphans =>
        \E i \in DOMAIN nodes : \E s \in nodes[i].scans :
          s.seq = w.seq /\ w.off = nodes[i].off + s.rel

(* "Live corrections never move keyframes reloaded from the saved map"     *)
(* (_live_first_free); only the operator's optimize_pose_graph does.       *)
OptimizeSwaps ==
  \E th \in Threads : /\ call[th].pc = "swap" /\ call[th].for = "optimize"
                      /\ call'[th].pc # "swap"
SavedKeyframesStay ==
  [][\/ OptimizeSwaps
     \/ \A i \in 1 .. frozen, j \in DOMAIN nodes' :
          nodes'[j].id = nodes[i].id => nodes'[j].off = nodes[i].off]_vars

=============================================================================

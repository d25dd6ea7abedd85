----------------------------- MODULE MCPlanning -----------------------------
(* Two machines side by side that share no state: either a plan is searched, or
   the replans of a goal are followed; the other one rests in its first state.
   The plan: a 4 x 5 grid: one or two obstacles anywhere, or a wall across it; the robot at <<1, 1>>.
   The replans: three corridors, of one, two and three units. *)
EXTENDS PlanSearch, DetourBan

MCReaches == {[hard |-> 0, soft |-> 0, prefer |-> 0], [hard |-> 0, soft |-> 1, prefer |-> 2]}
MCWalls == {{<<r, 3>> : r \in S} : S \in SUBSET (0 .. 3)}
MCStatic ==
    {[alg |-> a, pose |-> <<1, 1>>, goal |-> <<2, 4>>, occ |-> o, unknown |-> {}, reach |-> r,
      hits |-> {}, view |-> {}, blocked |-> <<>>] :
        a \in {"theta", "astar"}, r \in MCReaches,
        o \in {s \in SUBSET Cells : Cardinality(s) <= 2} \cup MCWalls}
MCLive ==
    {[alg |-> "theta", pose |-> <<1, 1>>, goal |-> t, occ |-> {o}, unknown |-> {<<3, 4>>}, reach |-> r,
      hits |-> {h}, view |-> v, blocked |-> b] :
        t \in {<<1, 4>>, <<2, 3>>}, r \in MCReaches, o \in Cells,
        h \in (1 .. 2) \X (2 .. 4), v \in {{}, {<<1, 2>>}, {<<1, 3>>}}, b \in {<<>>, Line[<< <<1, 0>>, <<1, 4>> >>]}}
MCOutside == {[j EXCEPT !.goal = <<1, 9>>] : j \in {k \in MCStatic : Cardinality(k.occ) = 1}}
MCJobs == MCStatic \cup MCLive \cup MCOutside
MCLength == [r \in {"short", "mid", "long"} |-> CASE r = "short" -> 1 [] r = "mid" -> 2 [] OTHER -> 3]

Plans == stage # "rest"
MCInit ==
    \/ PlanInit /\ DetourInit
    \/ /\ DetourInit
       /\ stage = "rest" /\ job = CHOOSE j \in Jobs : TRUE
       /\ leg = "main" /\ costs = <<>> /\ from = job.pose /\ to = job.goal
       /\ g = <<>> /\ parent = <<>> /\ queue = {} /\ open = {} /\ closed = {} /\ pushes = 0
       /\ route = <<>> /\ main = <<>>
MCNext ==
    \/ PlanNext /\ UNCHANGED detourVars
    \/ ~Plans /\ DetourNext /\ UNCHANGED planVars
MCSpec == MCInit /\ [][MCNext]_<<planVars, detourVars>>
=============================================================================

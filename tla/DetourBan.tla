------------------------------ MODULE DetourBan ------------------------------
(***************************************************************************)
(* The replans of a goal (nav/control/supervisor.py _try_replan,           *)
(* replan_controller.py, periodic_replan.py).  Several corridors lead from *)
(* one fork to the goal.  A replan that takes a longer one bans the one it *)
(* leaves: its start stays painted, and shorter paths are refused except a *)
(* few times per goal.  The ban is lifted when nothing else is left.       *)
(*                                                                         *)
(* A path is a corridor and the place it was planned from: the code        *)
(* compares the points, and two paths of one corridor that begin at        *)
(* different places differ in their number.                                *)
(***************************************************************************)
EXTENDS Integers

CONSTANTS Length,        \* the length of every corridor, a function on the corridors
          FlipBudget,    \* detour_short_flip_budget
          LongAfter,     \* replan_allow_long_detour_after_fails
          MaxChanges, MaxGoals, MaxFails   \* bounds

ASSUME LengthAssumption == \A r \in DOMAIN Length : Length[r] \in Nat \ {0}

\* runtime_kwargs: max(0, int(...)) of both.
ASSUME BudgetAssumption == FlipBudget \in Nat /\ LongAfter \in Nat

Routes == DOMAIN Length
None == [route |-> "none"]

VARIABLES pos,        \* the corridor the robot is in and how far from the fork
          path,       \* the path it follows: [route, from, peel, len]
          seen,       \* what the planner and the local window see of every corridor
          ban,        \* _detour_ban_path
          minLength,  \* _detour_min_length_m, in twentieths
          flipsLeft,  \* _detour_short_flips_left
          fails,      \* failed_replan_while_blocked
          refined,    \* _stuck_pose_refine_used
          startShut,  \* the robot's own cell is hard, as long as its pose is off
          missed,     \* a static replan failed and nothing changed since
          flips,      \* returns under a ban, for the property
          changes, goals

detourVars == <<pos, path, seen, ban, minLength, flipsLeft, fails, refined, startShut, missed, flips, changes, goals>>

Larger2(m, n) == IF m < n THEN n ELSE m

-----------------------------------------------------------------------------
(* Paths from where the robot is *)

Way(r) == IF r = pos.route THEN Length[r] - pos.at ELSE pos.at + Length[r]

\* The remaining length of the followed path, at least one unit.
Remaining == Larger2(1, Way(path.route) + path.peel)

PathOn(r, peel) == [route |-> r, from |-> pos, peel |-> peel, len |-> Way(r) + peel]

\* paths_meaningfully_differ
Differ(a, b) == a.route # b.route \/ a.from # b.from \/ a.peel # b.peel

\* plan: a shortest way through corridors that are neither shut nor painted,
\* if the robot can leave its own cell.
Planned(stuck, painted) ==
    LET ways == {r \in Routes \ painted : seen[r] # "shut"}
    IN IF stuck THEN {} ELSE {PathOn(r, 0) : r \in {s \in ways : \A t \in ways : Way(s) <= Way(t)}}

\* _forced_side_detour: around what stands in the corridor, if there is room,
\* and not longer than 2.2 times the path.
Forced(stuck) ==
    IF stuck \/ seen[path.route] = "shut" \/ 10 * (Way(path.route) + 1) > 22 * path.len
    THEN {} ELSE {PathOn(path.route, 1)}

-----------------------------------------------------------------------------
(* Why a candidate is refused.  A hold is the ban with its length. *)

NoHold == [ban |-> None, min |-> 0]
Hold == [ban |-> ban, min |-> minLength]

Returns(h, c) == h # NoHold /\ (20 * c.len < h.min \/ ~Differ(h.ban, c))

\* _reject_short_flip
ShortFlipOffByOne(h, c) == Returns(h, c) /\ flipsLeft < 0     \* a mutant
ShortFlip(h, c) == Returns(h, c) /\ flipsLeft = 0

\* _reject_too_long: long detours wait until the block has lasted.
MayBeLong(h, ask) == h # NoHold \/ ask.force \/ ask.failed >= LongAfter
TooLong(h, ask, c) == ~MayBeLong(h, ask) /\ 4 * c.len > 7 * Remaining

StillBlocked(c) == seen[c.route] = "tight" /\ c.peel = 0

\* The verdict on a candidate for a request [different, failed, force].
Verdict(h, ask, c) ==
    CASE ask.different /\ c.peel = 0 /\ ~Differ(path, c) -> "same"
      [] StillBlocked(c) -> "blocked"
      [] ShortFlip(h, c) -> "flip"
      [] TooLong(h, ask, c) -> "long"
      [] OTHER -> "accepted"

\* An attempt of the loop with the corridors it paints.
Attempt(h, ask, stuck, painted) ==
    IF Planned(stuck, painted) = {} THEN {[verdict |-> "infeasible", path |-> path]}
    ELSE {[verdict |-> Verdict(h, ask, c), path |-> c] : c \in Planned(stuck, painted)}

\* The corridors the two attempts paint.  Under a hold both paint the banned
\* one, unless the robot is past the stretch that the paint covers; without,
\* the second comes after a failure only and paints the path's own.
Paints(h, ask) ==
    IF h # NoHold THEN {<<p, p>> : p \in IF pos.at = 0 THEN {{h.ban.route}} ELSE {{h.ban.route}, {}}}
    ELSE {<<{}, IF ask.failed >= 1 THEN {path.route} ELSE {}>>}

\* The side detour, tried last; often there is none.
Sides(h, ask, stuck) ==
    {[verdict |-> Verdict(h, ask, c), path |-> c] : c \in Forced(stuck)}
        \cup {[verdict |-> "none feasible", path |-> path]}

\* What two attempts and the side detour come to: an accepted path, or none and
\* whether a short flip was among the reasons.
Best(a, b, c) == IF a.verdict = "accepted" THEN a ELSE IF b.verdict = "accepted" THEN b ELSE c
Outcome(a, b, c) ==
    [ok |-> Best(a, b, c).verdict = "accepted", path |-> Best(a, b, c).path,
     flip |-> "flip" \in {a.verdict, b.verdict, c.verdict}]

Tries(h, ask, stuck) ==
    UNION {{Outcome(x[1], x[2], x[3]) :
                x \in Attempt(h, ask, stuck, p[1]) \X Attempt(h, ask, stuck, p[2]) \X Sides(h, ask, stuck)} :
            p \in Paints(h, ask)}

\* _commit_replan_path: a return under the hold spends a flip and ends it; a
\* path that is longer by 15 percent bans the one it leaves.
Committed(h, new) ==
    LET bans == ~Returns(h, new) /\ 20 * new.len > 23 * path.len /\ Differ(path, new)
    IN [ok |-> TRUE, path |-> new, flip |-> Returns(h, new),
        hold |-> IF bans THEN [ban |-> path, min |-> Larger2(15 * new.len, 21 * path.len)]
                 ELSE IF Returns(h, new) THEN NoHold ELSE h]

\* Nothing was accepted: the hold is lifted once and everything tried again,
\* unless a short flip was refused and the request does not insist.
LiftsNever(h, ask, t) == h # NoHold /\ ~t.flip     \* a mutant: the request cannot insist
Lifts(h, ask, t) == h # NoHold /\ (~t.flip \/ ask.force)

Refused(h) == [ok |-> FALSE, path |-> path, flip |-> FALSE, hold |-> h]

\* _try_replan
TryReplan(h, ask, stuck) ==
    UNION {IF t.ok THEN {Committed(h, t.path)}
           ELSE IF Lifts(h, ask, t)
           THEN {IF u.ok THEN Committed(NoHold, u.path) ELSE Refused(NoHold) :
                    u \in Tries(NoHold, [ask EXCEPT !.force = FALSE], stuck)}
           ELSE {Refused(h)} : t \in Tries(h, ask, stuck)}

Applies(r) ==
    /\ path' = r.path /\ ban' = r.hold.ban /\ minLength' = r.hold.min
    /\ flips' = flips + (IF r.flip THEN 1 ELSE 0)
    /\ flipsLeft' = IF r.flip /\ flipsLeft > 0 THEN flipsLeft - 1 ELSE flipsLeft

-----------------------------------------------------------------------------
(* The replans *)

Ask(different, failed, force) == [different |-> different, failed |-> failed, force |-> force]
Capped(n) == IF n > MaxFails THEN MaxFails ELSE n

LocalBlocked == seen[path.route] # "clear" \/ startShut

\* _recover_unreachable_start, when SLAM found a pose off the hard cell.
Recovered(h) == TryReplan(h, Ask(FALSE, 0, FALSE), FALSE)

\* apply_blocked_replan, and apply_escape_pre_replan after an unstick.  When the
\* robot's own cell is hard, SLAM is asked once per blocked episode for a better
\* pose, and the retry may keep the corridor.
BlockedReplan ==
    /\ LocalBlocked
    /\ \E r \in TryReplan(Hold, Ask(fails < 3, Larger2(1, fails), FALSE), startShut) :
         \/ /\ r.ok \/ ~startShut \/ refined
            /\ Applies(r)
            /\ fails' = IF r.ok THEN 0 ELSE Capped(fails + 1)
            /\ UNCHANGED <<refined, startShut>>
         \/ /\ ~r.ok /\ startShut /\ ~refined
            /\ refined' = TRUE
            /\ \/ Applies(r) /\ fails' = Capped(fails + 1) /\ UNCHANGED startShut
               \/ \E q \in Recovered(r.hold) :
                    /\ Applies(q) /\ startShut' = FALSE
                    /\ fails' = IF q.ok THEN 0 ELSE Capped(fails + 1)
    /\ missed' = FALSE
    /\ UNCHANGED <<pos, seen, changes, goals>>

\* apply_backup_done_replan, apply_escape_pre_replan, apply_escape_post_replan:
\* after a motion of the escape machine, blocked or not; a failure is not counted.
EscapeReplan ==
    /\ \E r \in TryReplan(Hold, Ask(TRUE, fails, FALSE), startShut) :
         Applies(r) /\ fails' = IF r.ok THEN 0 ELSE fails
    /\ missed' = FALSE
    /\ UNCHANGED <<pos, seen, refined, startShut, changes, goals>>

\* apply_stall_replan: a failure fails the goal unless the nose is blocked.
StallReplan ==
    /\ LocalBlocked
    /\ \E r \in TryReplan(Hold, Ask(TRUE, Larger2(2, fails), FALSE), startShut) :
         Applies(r) /\ fails' = IF r.ok THEN 0 ELSE Capped(fails + 1)
    /\ missed' = FALSE
    /\ UNCHANGED <<pos, seen, refined, startShut, changes, goals>>

\* run_periodic_replan, apply_periodic_replan: the map shuts the path.
StaticReplan ==
    /\ seen[path.route] = "shut"
    /\ \E failed \in {0, fails} : \E r \in TryReplan(Hold, Ask(FALSE, failed, TRUE), startShut) :
         /\ Applies(r)
         /\ fails' = IF r.ok THEN 0 ELSE fails
         /\ missed' = ~r.ok
    /\ UNCHANGED <<pos, seen, refined, startShut, changes, goals>>

-----------------------------------------------------------------------------
(* The robot and the world *)

\* block_policy: out of the block, a new one may ask for a pose again.
Unblocked ==
    /\ ~LocalBlocked /\ (fails # 0 \/ refined)
    /\ fails' = 0 /\ refined' = FALSE
    /\ UNCHANGED <<pos, path, seen, ban, minLength, flipsLeft, startShut, missed, flips, changes, goals>>

Moves ==
    /\ ~LocalBlocked /\ Way(path.route) > 0
    /\ pos' = IF pos.route = path.route THEN [pos EXCEPT !.at = @ + 1]
              ELSE IF pos.at > 0 THEN [pos EXCEPT !.at = @ - 1]
              ELSE [route |-> path.route, at |-> 1]
    /\ missed' = FALSE
    /\ UNCHANGED <<path, seen, ban, minLength, flipsLeft, fails, refined, startShut, flips, changes, goals>>

\* A person, a door, a map update, or a pose that is a little off.
WorldChanges ==
    /\ changes < MaxChanges
    /\ \/ /\ \E r \in Routes, v \in {"clear", "tight", "shut"} : seen' = [seen EXCEPT ![r] = v]
          /\ UNCHANGED startShut
       \/ startShut' = ~startShut /\ UNCHANGED seen
    /\ changes' = changes + 1 /\ missed' = FALSE
    /\ UNCHANGED <<pos, path, ban, minLength, flipsLeft, fails, refined, flips, goals>>

\* run_goal: the next goal starts without a ban and with a full budget.
RunGoal ==
    /\ goals < MaxGoals
    /\ goals' = goals + 1
    /\ pos' = [route |-> path.route, at |-> 0]
    /\ \E r \in Routes :
         /\ seen[r] # "shut" /\ \A t \in Routes : seen[t] # "shut" => Length[r] <= Length[t]
         /\ path' = [route |-> r, from |-> pos', peel |-> 0, len |-> Length[r]]
    /\ ban' = None /\ minLength' = 0 /\ flipsLeft' = FlipBudget
    /\ fails' = 0 /\ refined' = FALSE /\ startShut' = FALSE /\ missed' = FALSE /\ flips' = 0
    /\ UNCHANGED <<seen, changes>>

DetourInit ==
    \E r \in Routes :
        /\ \A t \in Routes : Length[r] <= Length[t]
        /\ pos = [route |-> r, at |-> 0]
        /\ path = [route |-> r, from |-> [route |-> r, at |-> 0], peel |-> 0, len |-> Length[r]]
        /\ seen = [t \in Routes |-> "clear"]
        /\ ban = None /\ minLength = 0 /\ flipsLeft = FlipBudget
        /\ fails = 0 /\ refined = FALSE /\ startShut = FALSE /\ missed = FALSE /\ flips = 0
        /\ changes = 0 /\ goals = 1

DetourNext ==
    BlockedReplan \/ EscapeReplan \/ StallReplan \/ StaticReplan \/ Unblocked \/ Moves \/ WorldChanges \/ RunGoal

DetourSpec == DetourInit /\ [][DetourNext]_detourVars

-----------------------------------------------------------------------------
(* Properties *)

\* A replan that the map demands, because it shuts the path, fails at most once
\* while the world stays as it is, a corridor is clear and the rest are clear or
\* shut: the ban, the budget and the early limit never refuse twice what is the
\* only way on.  (_try_replan, apply_periodic_replan)
StaticFailsOnce ==
    [][(missed /\ StaticReplan /\ ~startShut /\ (\E r \in Routes : seen[r] = "clear")
            /\ \A r \in Routes : seen[r] # "tight") => ~missed']_detourVars

\* Within a goal the robot goes back under a ban to a shorter or to the banned
\* path no more often than the budget says, whichever replan takes it back.
\* (_reject_short_flip, _commit_replan_path)
FlipsWithinBudget == flips + flipsLeft <= FlipBudget
=============================================================================

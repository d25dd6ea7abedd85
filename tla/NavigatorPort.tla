--------------------------- MODULE NavigatorPort ---------------------------
(***************************************************************************)
(* The navigator as its callers see it: BuiltinNavigator                   *)
(* (src/src/nav/control/navigator.py) with one step per call, as operators *)
(* on one record.  Goal g is the g-th call of navigate.                    *)
(*                                                                         *)
(* A goal is starting until its worker enters run_goal, active until       *)
(* run_goal returns, then over until its worker has written the last       *)
(* status and left.  A cancel that finds it starting is cleared by         *)
(* run_goal: the goal remembers that as lost.                              *)
(***************************************************************************)
EXTENDS Naturals

CONSTANTS Targets, NoTarget, MaxGoals

Goals == 1 .. MaxGoals

Ends == {"succeeded", "failed", "canceled"}

\* What nav_status tells: a state and the goal it is about.
Statuses == [state : {"idle", "active"} \cup Ends, to : Targets \cup {NoTarget}]

GoalRecords ==
    [to : Targets \cup {NoTarget}, pc : {"none", "starting", "active", "over", "gone"},
     end : {"none"} \cup Ends, told : BOOLEAN, lost : BOOLEAN, ghost : BOOLEAN]

Navigators ==
    [count : 0 .. MaxGoals, installed : 0 .. MaxGoals, last : Statuses,
     goal : [Goals -> GoalRecords]]

NoGoal == [to |-> NoTarget, pc |-> "none", end |-> "none",
           told |-> FALSE, lost |-> FALSE, ghost |-> FALSE]

AtRest == [count |-> 0, installed |-> 0, last |-> [state |-> "idle", to |-> NoTarget],
           goal |-> [g \in Goals |-> NoGoal]]

\* request_cancel on the supervisor installed.
Told(m) ==
    LET g == m.installed IN
    IF g = 0 \/ m.goal[g].pc = "over" THEN m
    ELSE IF m.goal[g].pc = "starting" THEN [m EXCEPT !.goal[g].lost = TRUE]
    ELSE [m EXCEPT !.goal[g].told = TRUE, !.goal[g].lost = FALSE, !.goal[g].ghost = FALSE]

CanNavigate(m) == m.count < MaxGoals

\* navigate; ghost: the caller has been told to stop.
Navigated(m, t, ghost) ==
    LET g == m.count + 1 IN
    [Told(m) EXCEPT
        !.count = g,
        !.installed = g,
        !.goal[g] = [NoGoal EXCEPT !.to = t, !.pc = "starting", !.ghost = ghost],
        !.last = [state |-> "active", to |-> t]]

Cancelled(m) == [Told(m) EXCEPT !.last.state = "canceled"]

\* nav_status: of the supervisor installed, else what the last worker left.
Status(m) ==
    LET g == m.installed IN
    IF g = 0 THEN m.last
    ELSE LET r == m.goal[g] IN
         CASE r.pc = "starting" -> [state |-> "idle", to |-> NoTarget]
           [] r.pc = "active" -> [state |-> "active", to |-> r.to]
           [] OTHER -> [state |-> r.end, to |-> r.to]

Started(m, g) == [m EXCEPT !.goal[g].pc = "active"]

\* How run_goal may end: canceled only if told to.
EndsOf(m, g) == IF m.goal[g].told THEN Ends ELSE Ends \ {"canceled"}

Ended(m, g, e) ==
    LET to == m.goal[g].to IN
    [m EXCEPT !.goal[g] = [NoGoal EXCEPT !.to = to, !.pc = "over", !.end = e]]

\* The worker's finally.
Exited(m, g) ==
    [m EXCEPT !.goal[g].pc = "gone",
              !.last = [state |-> m.goal[g].end, to |-> m.goal[g].to],
              !.installed = IF @ = g THEN 0 ELSE @]

\* Goals that may drive the base from now on, and that nobody has stopped.
Loose(m) == {g \in Goals : m.goal[g].pc \in {"starting", "active"} /\ ~m.goal[g].told}
=============================================================================

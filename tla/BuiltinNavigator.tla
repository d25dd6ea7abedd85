-------------------------- MODULE BuiltinNavigator --------------------------
(***************************************************************************)
(* The life of goals and of their worker threads: BuiltinNavigator         *)
(* (src/src/nav/control/navigator.py) and the skeleton of                  *)
(* NavSupervisor.run_goal (src/src/nav/control/supervisor.py).             *)
(*                                                                         *)
(* navigate() number g creates supervisor g and worker thread g.  Clients  *)
(* are the threads that asyncio.to_thread runs navigate and cancel in;     *)
(* they and the workers share the navigator's lock.  A tick of run_goal is *)
(* reduced to how it ends: a twist, a zero twist, or the end of the goal.  *)
(* What decides it is the subject of GoalRun and the modules after it.     *)
(***************************************************************************)
EXTENDS Naturals, FiniteSets

CONSTANTS
    Clients,            \* threads that call navigate and cancel
    MaxGoals,           \* bound: calls of navigate
    MaxCancels,         \* bound: calls of cancel
    MaxStopFailures     \* bound: world.stop() calls that raise

Free == "free"

ASSUME NavigatorAssumption ==
    /\ Free \notin Clients
    /\ MaxGoals \in Nat
    /\ MaxCancels \in Nat
    /\ MaxStopFailures \in Nat

Goals == 1 .. MaxGoals

Terminal == {"succeeded", "failed", "canceled"}

States == {"none", "idle", "active"} \cup Terminal

VARIABLES
    lock,           \* who holds BuiltinNavigator._lock
    supervisor,     \* _supervisor, 0 for None
    worker,         \* _worker, 0 for None
    lastStatus,     \* _last_status: the goal it is about and its state
    created,        \* number of supervisors made so far
    client,         \* where each client is inside navigate or cancel
    run,            \* where each worker thread is inside run_goal
    state,          \* NavSupervisor._status.state of each supervisor
    flag,           \* NavSupervisor._cancel of each supervisor
    base,           \* goal whose twist the base executes, 0 when stopped
    asked,          \* supervisors some call asked to cancel (ghost)
    late,           \* twists sent since that request, up to 2 (ghost)
    adrift,         \* goals whose last attempt to stop the base failed (ghost)
    cancels,        \* calls of cancel so far (bound)
    stopFailures    \* stop calls that raised (bound)

navVars == <<lock, supervisor, worker, lastStatus, created>>
runVars == <<run, state, flag>>
ghosts == <<asked, late, adrift>>
counters == <<cancels, stopFailures>>
vars == <<lock, supervisor, worker, lastStatus, created, client, run, state,
          flag, base, asked, late, adrift, cancels, stopFailures>>

TypeOK ==
    /\ lock \in {Free} \cup Clients
    /\ supervisor \in Goals \cup {0}
    /\ worker \in Goals \cup {0}
    /\ lastStatus \in [goal : Goals \cup {0}, state : {"idle", "active"} \cup Terminal]
    /\ created \in 0 .. MaxGoals
    /\ client \in [Clients -> {"out", "joining", "stopping"}]
    /\ run \in [Goals -> {"unborn", "born", "planning", "top", "tick", "except",
                          "leaving", "exited"}]
    /\ state \in [Goals -> States]
    /\ flag \in [Goals -> BOOLEAN]
    /\ base \in Goals \cup {0}
    /\ asked \in SUBSET Goals
    /\ late \in [Goals -> 0 .. 2]
    /\ adrift \in SUBSET Goals
    /\ cancels \in 0 .. MaxCancels
    /\ stopFailures \in 0 .. MaxStopFailures

Init ==
    /\ lock = Free
    /\ supervisor = 0
    /\ worker = 0
    /\ lastStatus = [goal |-> 0, state |-> "idle"]
    /\ created = 0
    /\ client = [c \in Clients |-> "out"]
    /\ run = [g \in Goals |-> "unborn"]
    /\ state = [g \in Goals |-> "none"]
    /\ flag = [g \in Goals |-> FALSE]
    /\ base = 0
    /\ asked = {}
    /\ late = [g \in Goals |-> 0]
    /\ adrift = {}
    /\ cancels = 0
    /\ stopFailures = 0

-----------------------------------------------------------------------------
(* Clients: navigate and cancel *)

\* request_cancel on the current supervisor, if there is one.
RequestCancel ==
    IF supervisor = 0
      THEN UNCHANGED <<flag, asked, late>>
      ELSE /\ flag' = [flag EXCEPT ![supervisor] = TRUE]
           /\ asked' = asked \cup {supervisor}
           /\ late' = IF flag[supervisor] THEN late
                                         ELSE [late EXCEPT ![supervisor] = 0]

\* navigate: take the lock, ask the old goal to cancel, start to join its worker.
NavigateBegin(c) ==
    /\ client[c] = "out"
    /\ lock = Free
    /\ created < MaxGoals
    /\ lock' = c
    /\ RequestCancel
    /\ client' = [client EXCEPT ![c] = "joining"]
    /\ UNCHANGED <<supervisor, worker, lastStatus, created, run, state, base, adrift, counters>>

\* The join has ended, by the worker's exit or by its timeout: a new
\* supervisor, a new thread, and the lock is released.
NavigateStart(c) ==
    /\ client[c] = "joining"
    /\ LET g == created + 1 IN
        /\ created' = g
        /\ supervisor' = g
        /\ worker' = g
        /\ lastStatus' = [goal |-> g, state |-> "active"]
        /\ run' = [run EXCEPT ![g] = "born"]
        /\ state' = [state EXCEPT ![g] = "idle"]
    /\ lock' = Free
    /\ client' = [client EXCEPT ![c] = "out"]
    /\ UNCHANGED <<flag, base, ghosts, counters>>

\* cancel: take the lock and ask the current goal to cancel.
CancelBegin(c) ==
    /\ client[c] = "out"
    /\ lock = Free
    /\ cancels < MaxCancels
    /\ cancels' = cancels + 1
    /\ lock' = c
    /\ RequestCancel
    /\ client' = [client EXCEPT ![c] = "stopping"]
    /\ UNCHANGED <<supervisor, worker, lastStatus, created, run, state, base, adrift,
                   stopFailures>>

\* cancel: world.stop(), whose failure is swallowed, then the status.
CancelEnd(c) ==
    /\ client[c] = "stopping"
    /\ \/ base' = 0 /\ UNCHANGED stopFailures
       \/ /\ stopFailures < MaxStopFailures
          /\ stopFailures' = stopFailures + 1
          /\ UNCHANGED base
    /\ lastStatus' = [lastStatus EXCEPT !.state = "canceled"]
    /\ lock' = Free
    /\ client' = [client EXCEPT ![c] = "out"]
    /\ UNCHANGED <<supervisor, worker, created, runVars, ghosts, cancels>>

-----------------------------------------------------------------------------
(* Workers: run_goal *)

At(g, here) == run[g] = here

GoTo(g, there) == run' = [run EXCEPT ![g] = there]

\* run_goal's first statement clears the cancel flag, whoever set it.
Begin(g) ==
    /\ At(g, "born")
    /\ flag' = [flag EXCEPT ![g] = FALSE]
    /\ state' = [state EXCEPT ![g] = "active"]
    /\ GoTo(g, "planning")
    /\ UNCHANGED <<navVars, client, base, ghosts, counters>>

PlanFeasible(g) ==
    /\ At(g, "planning")
    /\ GoTo(g, "top")
    /\ UNCHANGED <<navVars, client, state, flag, base, ghosts, counters>>

\* No feasible path: failed without a stop.
PlanInfeasible(g) ==
    /\ At(g, "planning")
    /\ GoTo(g, "leaving")
    /\ state' = [state EXCEPT ![g] = "failed"]
    /\ UNCHANGED <<navVars, client, flag, base, ghosts, counters>>

\* The end of a goal: world.stop() and the terminal status.
StopWith(g, s) ==
    /\ base' = 0
    /\ state' = [state EXCEPT ![g] = s]
    /\ GoTo(g, "leaving")
    /\ UNCHANGED <<navVars, client, flag, ghosts, counters>>

\* The deadline is tested before the cancel flag.
TimedOut(g) == At(g, "top") /\ StopWith(g, "failed")

\* Mutant: a canceled goal reports its state and returns without a stop.
SeeCancelWithoutStop(g) ==
    /\ At(g, "top")
    /\ flag[g]
    /\ state' = [state EXCEPT ![g] = "canceled"]
    /\ GoTo(g, "leaving")
    /\ UNCHANGED <<navVars, client, flag, base, ghosts, counters>>

SeeCancel(g) == At(g, "top") /\ flag[g] /\ StopWith(g, "canceled")

\* Mutant: the loop goes on without looking at the flag.
PassCancelUnchecked(g) ==
    /\ At(g, "top")
    /\ GoTo(g, "tick")
    /\ UNCHANGED <<navVars, client, state, flag, base, ghosts, counters>>

PassCancel(g) ==
    /\ At(g, "top")
    /\ ~flag[g]
    /\ GoTo(g, "tick")
    /\ UNCHANGED <<navVars, client, state, flag, base, ghosts, counters>>

\* The tick ends with a twist for the base.
Drive(g) ==
    /\ At(g, "tick")
    /\ base' = g
    /\ late' = IF g \in asked /\ late[g] < 2 THEN [late EXCEPT ![g] = @ + 1] ELSE late
    /\ GoTo(g, "top")
    /\ UNCHANGED <<navVars, client, state, flag, asked, adrift, counters>>

\* A held tick, or one without a scan, ends with a zero twist.
Halt(g) ==
    /\ At(g, "tick")
    /\ base' = 0
    /\ GoTo(g, "top")
    /\ UNCHANGED <<navVars, client, state, flag, ghosts, counters>>

\* The tick ends the goal: reached, pose lost, blocked too long, stalled.
Finish(g) == At(g, "tick") /\ \E s \in {"succeeded", "failed"} : StopWith(g, s)

\* Anything run_goal calls raises; world.stop() may be what raised.
Raise(g) ==
    /\ run[g] \in {"planning", "top", "tick"}
    /\ GoTo(g, "except")
    /\ UNCHANGED <<navVars, client, state, flag, base, ghosts, counters>>

RaiseInStop(g) ==
    /\ run[g] \in {"top", "tick"}
    /\ stopFailures < MaxStopFailures
    /\ stopFailures' = stopFailures + 1
    /\ GoTo(g, "except")
    /\ UNCHANGED <<navVars, client, state, flag, base, ghosts, cancels>>

\* The handler around the loop stops the base once more, swallows a failure
\* of that, and reports the goal as failed.
Handle(g) == At(g, "except") /\ StopWith(g, "failed")

HandleStopFails(g) ==
    /\ At(g, "except")
    /\ stopFailures < MaxStopFailures
    /\ stopFailures' = stopFailures + 1
    /\ state' = [state EXCEPT ![g] = "failed"]
    /\ adrift' = adrift \cup {g}
    /\ GoTo(g, "leaving")
    /\ UNCHANGED <<navVars, client, flag, base, asked, late, cancels>>

\* Mutant: the worker drops the current supervisor even if it is a newer one.
LeaveDropsAny(g) ==
    /\ At(g, "leaving")
    /\ lock = Free
    /\ lastStatus' = [goal |-> g, state |-> state[g]]
    /\ supervisor' = 0
    /\ GoTo(g, "exited")
    /\ UNCHANGED <<lock, worker, created, client, state, flag, base, ghosts, counters>>

\* The worker's finally: with the lock, publish the final status, and drop
\* the supervisor if it is still the current one.
Leave(g) ==
    /\ At(g, "leaving")
    /\ lock = Free
    /\ lastStatus' = [goal |-> g, state |-> state[g]]
    /\ supervisor' = IF supervisor = g THEN 0 ELSE supervisor
    /\ GoTo(g, "exited")
    /\ UNCHANGED <<lock, worker, created, client, state, flag, base, ghosts, counters>>

-----------------------------------------------------------------------------
ClientStep(c) ==
    NavigateBegin(c) \/ NavigateStart(c) \/ CancelBegin(c) \/ CancelEnd(c)

EndOfGoal(g) ==
    \/ PlanInfeasible(g) \/ TimedOut(g) \/ SeeCancel(g) \/ Finish(g)
    \/ Raise(g) \/ RaiseInStop(g) \/ Handle(g) \/ HandleStopFails(g) \/ Leave(g)

WorkerStep(g) ==
    Begin(g) \/ PlanFeasible(g) \/ PassCancel(g) \/ Drive(g) \/ Halt(g) \/ EndOfGoal(g)

Next == (\E c \in Clients : ClientStep(c)) \/ (\E g \in Goals : WorkerStep(g))

Spec == Init /\ [][Next]_vars

\* Threads run; a client that holds the lock goes on (the join is bounded by
\* its timeout, the stop by its acknowledgement timeout).
FairSpec ==
    /\ Spec
    /\ \A c \in Clients : WF_vars(NavigateStart(c) \/ CancelEnd(c))
    /\ \A g \in Goals : WF_vars(WorkerStep(g))
-----------------------------------------------------------------------------
(* Properties *)

Ended(g) == run[g] \in {"leaving", "exited"}

\* A goal that has ended is not what drives the base, unless the stop of the
\* exception handler itself failed: every other exit of run_goal stops first.
LeavesStopped == \A g \in Goals : Ended(g) /\ base = g => g \in adrift

\* Once a cancel is pending in a running supervisor, it sends at most the
\* twist of the tick it is in.
CancelWithinOneTick == \A g \in Goals : flag[g] => late[g] <= 1

\* nav_status asks the newest goal's supervisor until that goal's worker has
\* published its result: a late worker of an older goal does not detach it.
LiveGoalReported ==
    created > 0 /\ run[created] # "exited" => supervisor = created

\* A running goal that is asked to cancel ends, even if it is stuck in ticks
\* that hold the base.
CancelEndsGoal ==
    \A g \in Goals :
        (flag[g] /\ run[g] \notin {"unborn", "born"}) ~> run[g] = "exited"

\* The navigator implements the lifecycle of goals: a late worker, a superseded
\* goal or a client's stop never ends a goal twice nor lets an ended one drive.
Lifecycle == INSTANCE GoalLifecycle WITH status <- state, moving <- base

LifecycleSpec == Lifecycle!Spec

\* run_goal: "Plan and follow until success, failure, or cancel".  A goal that
\* was asked to cancel sends at most one more twist.
CancelHonoured == \A g \in asked : late[g] <= 1
=============================================================================

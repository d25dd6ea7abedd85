----------------------- MODULE BuiltinNavigatorProofs -----------------------
(***************************************************************************)
(* Proofs about BuiltinNavigator, for any number of client threads, goals, *)
(* cancels and failing stops.  One inductive invariant, IInv, carries all  *)
(* of them.                                                                *)
(***************************************************************************)
EXTENDS BuiltinNavigator, TLAPS

-----------------------------------------------------------------------------
(* The inductive invariant *)

\* A client inside navigate or cancel holds the lock, so goals are numbered
\* one at a time.
LockHeld ==
    \A c \in Clients :
        /\ client[c] # "out" => lock = c
        /\ client[c] = "joining" => created < MaxGoals

\* Goals that no navigate has created yet have no worker.
Uncreated == \A g \in Goals : g > created => run[g] = "unborn"

\* Where a worker is decides the state its supervisor reports.
StateFollowsRun ==
    \A g \in Goals :
        /\ run[g] = "unborn" => state[g] = "none"
        /\ run[g] = "born" => state[g] = "idle"
        /\ run[g] \in {"planning", "top", "tick", "except"} => state[g] = "active"
        /\ run[g] \in {"leaving", "exited"} => state[g] \in Terminal

\* A goal drives the base only after it has a plan.
DrivesAfterPlan ==
    \A g \in Goals : run[g] \in {"unborn", "born", "planning"} => base # g

\* With the flag up, the twist of the tick in progress is the last one.
LateBound ==
    \A g \in Goals : flag[g] => late[g] <= 1 /\ (run[g] = "tick" => late[g] = 0)

IInv ==
    /\ TypeOK
    /\ LockHeld
    /\ Uncreated
    /\ StateFollowsRun
    /\ DrivesAfterPlan
    /\ LateBound
    /\ LeavesStopped
    /\ LiveGoalReported

-----------------------------------------------------------------------------
LEMMA GoalsAreNats == \A g \in Goals : g \in Nat /\ g # 0 /\ g <= MaxGoals
  BY NavigatorAssumption DEF Goals

LEMMA InitIInv == Init => IInv
<1> SUFFICES ASSUME Init PROVE IInv
  OBVIOUS
<1>1. TypeOK
  BY NavigatorAssumption DEF Init, TypeOK, States
<1>2. LockHeld /\ Uncreated /\ StateFollowsRun /\ LateBound
  BY DEF Init, LockHeld, Uncreated, StateFollowsRun, LateBound
<1>3. DrivesAfterPlan /\ LeavesStopped /\ LiveGoalReported
  BY GoalsAreNats DEF Init, DrivesAfterPlan, LeavesStopped, LiveGoalReported, Ended
<1> QED BY <1>1, <1>2, <1>3 DEF IInv

\* Asking for a cancel raises one flag and restarts its count of late twists.
LEMMA RequestKeeps ==
    ASSUME IInv, RequestCancel, UNCHANGED run
    PROVE  /\ flag' \in [Goals -> BOOLEAN]
           /\ asked' \in SUBSET Goals
           /\ late' \in [Goals -> 0 .. 2]
           /\ LateBound'
<1>1. CASE supervisor = 0
  BY <1>1 DEF RequestCancel, IInv, TypeOK, LateBound
<1>2. CASE supervisor # 0
  <2>1. supervisor \in Goals
    BY <1>2 DEF IInv, TypeOK
  <2>2. flag' = [flag EXCEPT ![supervisor] = TRUE]
    BY <1>2 DEF RequestCancel
  <2>3. CASE flag[supervisor]
    BY <1>2, <2>1, <2>2, <2>3 DEF RequestCancel, IInv, TypeOK, LateBound
  <2>4. CASE ~flag[supervisor]
    BY <1>2, <2>1, <2>2, <2>4 DEF RequestCancel, IInv, TypeOK, LateBound
  <2> QED BY <2>3, <2>4
<1> QED BY <1>1, <1>2

LEMMA NavigateBeginKeeps ==
    ASSUME IInv, NEW c \in Clients, NavigateBegin(c) PROVE IInv'
<1> USE DEF IInv, NavigateBegin, counters
<1>0. /\ flag' \in [Goals -> BOOLEAN]
      /\ asked' \in SUBSET Goals
      /\ late' \in [Goals -> 0 .. 2]
      /\ LateBound'
  BY RequestKeeps
<1>1. TypeOK'
  BY <1>0 DEF TypeOK
<1>2. LockHeld'
  BY NavigatorAssumption DEF LockHeld, TypeOK
<1>3. Uncreated' /\ StateFollowsRun' /\ DrivesAfterPlan'
  BY DEF Uncreated, StateFollowsRun, DrivesAfterPlan
<1>4. LeavesStopped' /\ LiveGoalReported'
  BY DEF LeavesStopped, LiveGoalReported, Ended
<1> QED BY <1>0, <1>1, <1>2, <1>3, <1>4

LEMMA CancelBeginKeeps ==
    ASSUME IInv, NEW c \in Clients, CancelBegin(c) PROVE IInv'
<1> USE DEF IInv, CancelBegin
<1>0. /\ flag' \in [Goals -> BOOLEAN]
      /\ asked' \in SUBSET Goals
      /\ late' \in [Goals -> 0 .. 2]
      /\ LateBound'
  BY RequestKeeps
<1>1. TypeOK'
  <2>1. cancels' \in 0 .. MaxCancels
    BY NavigatorAssumption DEF TypeOK
  <2> QED BY <1>0, <2>1 DEF TypeOK
<1>2. LockHeld'
  BY NavigatorAssumption DEF LockHeld, TypeOK
<1>3. Uncreated' /\ StateFollowsRun' /\ DrivesAfterPlan'
  BY DEF Uncreated, StateFollowsRun, DrivesAfterPlan
<1>4. LeavesStopped' /\ LiveGoalReported'
  BY DEF LeavesStopped, LiveGoalReported, Ended
<1> QED BY <1>0, <1>1, <1>2, <1>3, <1>4

LEMMA NavigateStartKeeps ==
    ASSUME IInv, NEW c \in Clients, NavigateStart(c) PROVE IInv'
<1> USE DEF IInv, NavigateStart, ghosts, counters
<1> DEFINE g == created + 1
<1>1. g \in Goals /\ created \in Nat
  BY NavigatorAssumption DEF LockHeld, TypeOK, Goals
<1>2. run[g] = "unborn"
  BY <1>1 DEF Uncreated
<1>3. /\ run' = [run EXCEPT ![g] = "born"]
      /\ state' = [state EXCEPT ![g] = "idle"]
      /\ supervisor' = g /\ created' = g /\ worker' = g
      /\ lastStatus' = [goal |-> g, state |-> "active"]
  OBVIOUS
<1>4. TypeOK'
  <2>1. created' \in 0 .. MaxGoals
    BY <1>1, <1>3 DEF Goals
  <2> HIDE DEF g
  <2> QED BY <1>1, <1>3, <2>1 DEF TypeOK, States
<1>5. LockHeld'
  BY NavigatorAssumption DEF LockHeld, TypeOK
<1> HIDE DEF g
<1>6. Uncreated'
  BY <1>1, <1>3, GoalsAreNats DEF Uncreated, TypeOK, g
<1>7. StateFollowsRun'
  BY <1>1, <1>3 DEF StateFollowsRun, TypeOK
<1>8. DrivesAfterPlan'
  BY <1>1, <1>2, <1>3 DEF DrivesAfterPlan, TypeOK
<1>9. LateBound'
  BY <1>1, <1>2, <1>3 DEF LateBound, TypeOK
<1>10. LeavesStopped'
  BY <1>1, <1>2, <1>3 DEF LeavesStopped, Ended, TypeOK
<1>11. LiveGoalReported'
  BY <1>3 DEF LiveGoalReported
<1> QED BY <1>4, <1>5, <1>6, <1>7, <1>8, <1>9, <1>10, <1>11

LEMMA CancelEndKeeps ==
    ASSUME IInv, NEW c \in Clients, CancelEnd(c) PROVE IInv'
<1> USE DEF IInv, CancelEnd, runVars, ghosts
<1>1. base' \in {0, base}
  OBVIOUS
<1>2. TypeOK'
  <2>1. stopFailures' \in 0 .. MaxStopFailures
    BY NavigatorAssumption DEF TypeOK
  <2>2. lastStatus' \in [goal : Goals \cup {0}, state : {"idle", "active"} \cup Terminal]
    BY DEF TypeOK, Terminal
  <2> QED BY <1>1, <2>1, <2>2 DEF TypeOK
<1>3. LockHeld'
  BY NavigatorAssumption DEF LockHeld, TypeOK
<1>4. Uncreated' /\ StateFollowsRun' /\ LateBound' /\ LiveGoalReported'
  BY DEF Uncreated, StateFollowsRun, LateBound, LiveGoalReported
<1>5. DrivesAfterPlan' /\ LeavesStopped'
  BY <1>1, GoalsAreNats DEF DrivesAfterPlan, LeavesStopped, Ended
<1> QED BY <1>2, <1>3, <1>4, <1>5

-----------------------------------------------------------------------------
(* Worker steps *)

\* A worker step that leaves the lock, the counters of goals and the clients
\* alone keeps the lock discipline.
LEMMA ClientsKept ==
    ASSUME IInv, UNCHANGED <<lock, created, client>> PROVE LockHeld'
  BY DEF IInv, LockHeld

LEMMA BeginKeeps ==
    ASSUME IInv, NEW g \in Goals, Begin(g) PROVE IInv'
<1> USE DEF IInv, Begin, At, GoTo, navVars, ghosts, counters
<1>1. TypeOK'
  BY DEF TypeOK, States
<1>2. LockHeld'
  BY ClientsKept
<1>3. Uncreated' /\ StateFollowsRun' /\ DrivesAfterPlan' /\ LateBound'
  BY DEF Uncreated, StateFollowsRun, DrivesAfterPlan, LateBound, TypeOK
<1>4. LeavesStopped' /\ LiveGoalReported'
  BY GoalsAreNats DEF LeavesStopped, LiveGoalReported, Ended, TypeOK
<1> QED BY <1>1, <1>2, <1>3, <1>4

\* Steps that only move a worker from one running place to another.
LEMMA MoveKeeps ==
    ASSUME IInv, NEW g \in Goals, NEW there \in {"top", "tick", "except"},
           GoTo(g, there),
           run[g] \in {"planning", "top", "tick"},
           there = "tick" => ~flag[g],
           stopFailures' \in 0 .. MaxStopFailures,
           UNCHANGED <<navVars, client, state, flag, base, ghosts, cancels>>
    PROVE  IInv'
<1> USE DEF IInv, GoTo, navVars, ghosts
<1>1. TypeOK'
  BY DEF TypeOK
<1>2. LockHeld'
  BY ClientsKept
<1>3. Uncreated' /\ StateFollowsRun' /\ DrivesAfterPlan' /\ LateBound'
  BY DEF Uncreated, StateFollowsRun, DrivesAfterPlan, LateBound, TypeOK
<1>4. LeavesStopped' /\ LiveGoalReported'
  BY GoalsAreNats DEF LeavesStopped, LiveGoalReported, Ended, TypeOK
<1> QED BY <1>1, <1>2, <1>3, <1>4

LEMMA StopWithKeeps ==
    ASSUME IInv, NEW g \in Goals, NEW s \in Terminal, StopWith(g, s),
           run[g] \in {"top", "tick", "except"}
    PROVE  IInv'
<1> USE DEF IInv, StopWith, GoTo, navVars, ghosts, counters
<1>1. TypeOK'
  BY DEF TypeOK, States
<1>2. LockHeld'
  BY ClientsKept
<1>3. Uncreated' /\ StateFollowsRun' /\ LateBound'
  BY DEF Uncreated, StateFollowsRun, LateBound, TypeOK
<1>4. DrivesAfterPlan' /\ LeavesStopped' /\ LiveGoalReported'
  BY GoalsAreNats DEF DrivesAfterPlan, LeavesStopped, LiveGoalReported, Ended, TypeOK
<1> QED BY <1>1, <1>2, <1>3, <1>4

LEMMA PlanInfeasibleKeeps ==
    ASSUME IInv, NEW g \in Goals, PlanInfeasible(g) PROVE IInv'
<1> USE DEF IInv, PlanInfeasible, At, GoTo, navVars, ghosts, counters
<1>1. TypeOK'
  BY DEF TypeOK, States, Terminal
<1>2. LockHeld'
  BY ClientsKept
<1>3. Uncreated' /\ StateFollowsRun' /\ DrivesAfterPlan' /\ LateBound'
  BY DEF Uncreated, StateFollowsRun, DrivesAfterPlan, LateBound, TypeOK, Terminal
<1>4. LeavesStopped' /\ LiveGoalReported'
  BY DEF LeavesStopped, LiveGoalReported, DrivesAfterPlan, Ended, TypeOK
<1> QED BY <1>1, <1>2, <1>3, <1>4

LEMMA DriveKeeps ==
    ASSUME IInv, NEW g \in Goals, Drive(g) PROVE IInv'
<1> USE DEF IInv, Drive, At, GoTo, navVars, counters
<1>1. late' \in [Goals -> 0 .. 2]
  BY DEF TypeOK
<1>2. TypeOK'
  BY <1>1 DEF TypeOK
<1>3. LockHeld'
  BY ClientsKept
<1>4. Uncreated' /\ StateFollowsRun'
  BY DEF Uncreated, StateFollowsRun, TypeOK
<1>5. DrivesAfterPlan' /\ LeavesStopped' /\ LiveGoalReported'
  BY DEF DrivesAfterPlan, LeavesStopped, LiveGoalReported, Ended, TypeOK
<1>6. LateBound'
  <2> SUFFICES ASSUME NEW h \in Goals, flag[h]
               PROVE  late'[h] <= 1 /\ (run'[h] = "tick" => late'[h] = 0)
    BY DEF LateBound
  <2>1. CASE h = g
    BY <2>1 DEF LateBound, TypeOK
  <2>2. CASE h # g
    BY <2>2 DEF LateBound, TypeOK
  <2> QED BY <2>1, <2>2
<1> QED BY <1>2, <1>3, <1>4, <1>5, <1>6

LEMMA HaltKeeps ==
    ASSUME IInv, NEW g \in Goals, Halt(g) PROVE IInv'
<1> USE DEF IInv, Halt, At, GoTo, navVars, ghosts, counters
<1>1. TypeOK'
  BY DEF TypeOK
<1>2. LockHeld'
  BY ClientsKept
<1>3. Uncreated' /\ StateFollowsRun' /\ LateBound'
  BY DEF Uncreated, StateFollowsRun, LateBound, TypeOK
<1>4. DrivesAfterPlan' /\ LeavesStopped' /\ LiveGoalReported'
  BY GoalsAreNats DEF DrivesAfterPlan, LeavesStopped, LiveGoalReported, Ended, TypeOK
<1> QED BY <1>1, <1>2, <1>3, <1>4

LEMMA HandleStopFailsKeeps ==
    ASSUME IInv, NEW g \in Goals, HandleStopFails(g) PROVE IInv'
<1> USE DEF IInv, HandleStopFails, At, GoTo, navVars
<1>1. TypeOK'
  <2>1. stopFailures' \in 0 .. MaxStopFailures
    BY NavigatorAssumption DEF TypeOK
  <2> QED BY <2>1 DEF TypeOK, States, Terminal
<1>2. LockHeld'
  BY ClientsKept
<1>3. Uncreated' /\ StateFollowsRun' /\ DrivesAfterPlan' /\ LateBound'
  BY DEF Uncreated, StateFollowsRun, DrivesAfterPlan, LateBound, TypeOK, Terminal
<1>4. LeavesStopped' /\ LiveGoalReported'
  BY DEF LeavesStopped, LiveGoalReported, Ended, TypeOK
<1> QED BY <1>1, <1>2, <1>3, <1>4

LEMMA LeaveKeeps ==
    ASSUME IInv, NEW g \in Goals, Leave(g) PROVE IInv'
<1> USE DEF IInv, Leave, At, GoTo, ghosts, counters
<1>1. TypeOK'
  <2>1. state[g] \in Terminal
    BY DEF StateFollowsRun
  <2> QED BY <2>1 DEF TypeOK
<1>2. LockHeld'
  BY ClientsKept
<1>3. Uncreated' /\ StateFollowsRun' /\ DrivesAfterPlan' /\ LateBound'
  BY DEF Uncreated, StateFollowsRun, DrivesAfterPlan, LateBound, TypeOK
<1>4. LeavesStopped'
  BY DEF LeavesStopped, Ended, TypeOK
<1>5. LiveGoalReported'
  BY DEF LiveGoalReported, TypeOK
<1> QED BY <1>1, <1>2, <1>3, <1>4, <1>5

LEMMA StepIInv == IInv /\ [Next]_vars => IInv'
<1> SUFFICES ASSUME IInv, [Next]_vars PROVE IInv'
  OBVIOUS
<1>1. ASSUME NEW c \in Clients, ClientStep(c) PROVE IInv'
  BY <1>1, NavigateBeginKeeps, NavigateStartKeeps, CancelBeginKeeps, CancelEndKeeps
     DEF ClientStep
<1>2. ASSUME NEW g \in Goals, WorkerStep(g) PROVE IInv'
  <2>0. stopFailures \in 0 .. MaxStopFailures
    BY DEF IInv, TypeOK
  <2>1. CASE Begin(g)
    BY <2>1, BeginKeeps
  <2>2. CASE PlanFeasible(g)
    BY <2>0, <2>2, MoveKeeps DEF PlanFeasible, At, counters
  <2>3. CASE PassCancel(g)
    BY <2>0, <2>3, MoveKeeps DEF PassCancel, At, counters
  <2>4. CASE Drive(g)
    BY <2>4, DriveKeeps
  <2>5. CASE Halt(g)
    BY <2>5, HaltKeeps
  <2>6. CASE PlanInfeasible(g)
    BY <2>6, PlanInfeasibleKeeps
  <2>7. CASE TimedOut(g)
    BY <2>7, StopWithKeeps DEF TimedOut, At, Terminal
  <2>8. CASE SeeCancel(g)
    BY <2>8, StopWithKeeps DEF SeeCancel, At, Terminal
  <2>9. CASE Finish(g)
    BY <2>9, StopWithKeeps DEF Finish, At, Terminal
  <2>10. CASE Raise(g)
    BY <2>0, <2>10, MoveKeeps DEF Raise, counters
  <2>11. CASE RaiseInStop(g)
    <3>1. stopFailures' \in 0 .. MaxStopFailures
      BY <2>0, <2>11, NavigatorAssumption DEF RaiseInStop
    <3> QED BY <3>1, <2>11, MoveKeeps DEF RaiseInStop
  <2>12. CASE Handle(g)
    BY <2>12, StopWithKeeps DEF Handle, At, Terminal
  <2>13. CASE HandleStopFails(g)
    BY <2>13, HandleStopFailsKeeps
  <2>14. CASE Leave(g)
    BY <2>14, LeaveKeeps
  <2> QED
    BY <1>2, <2>1, <2>2, <2>3, <2>4, <2>5, <2>6, <2>7, <2>8, <2>9, <2>10, <2>11,
       <2>12, <2>13, <2>14 DEF WorkerStep, EndOfGoal
<1>3. CASE UNCHANGED vars
  BY <1>3 DEF vars, IInv, TypeOK, LockHeld, Uncreated, StateFollowsRun,
              DrivesAfterPlan, LateBound, LeavesStopped, LiveGoalReported, Ended
<1> QED BY <1>1, <1>2, <1>3 DEF Next

LEMMA Invariance == Spec => []IInv
  BY InitIInv, StepIInv, PTL DEF Spec

-----------------------------------------------------------------------------
(* The theorems *)

\* Every reachable state has the types of TypeOK.
THEOREM NavigatorTypes == Spec => []TypeOK
<1>1. IInv => TypeOK
  BY DEF IInv
<1> QED BY <1>1, Invariance, PTL

\* No goal drives the base after it ended, unless its last stop failed.
THEOREM NavigatorLeavesStopped == Spec => []LeavesStopped
<1>1. IInv => LeavesStopped
  BY DEF IInv
<1> QED BY <1>1, Invariance, PTL

\* A pending cancel lets at most one more twist through.
THEOREM NavigatorCancelsInOneTick == Spec => []CancelWithinOneTick
<1>1. IInv => CancelWithinOneTick
  BY DEF IInv, LateBound, CancelWithinOneTick
<1> QED BY <1>1, Invariance, PTL

\* nav_status follows the newest goal until its worker has published.
THEOREM NavigatorReportsLiveGoal == Spec => []LiveGoalReported
<1>1. IInv => LiveGoalReported
  BY DEF IInv
<1> QED BY <1>1, Invariance, PTL

-----------------------------------------------------------------------------
(* The navigator implements GoalLifecycle *)

LEMMA StopWithEnds ==
    ASSUME IInv, NEW g \in Goals, NEW s \in Terminal, StopWith(g, s),
           run[g] \in {"top", "tick", "except"}
    PROVE  Lifecycle!End(g)
<1>1. state[g] = "active"
  BY DEF IInv, StateFollowsRun
<1>2. base' \in {0, base} \ {g}
  BY GoalsAreNats DEF StopWith
<1> QED BY <1>1, <1>2 DEF StopWith, ghosts, Lifecycle!End, Lifecycle!Terminal, Terminal

LEMMA StepLifecycle ==
    ASSUME IInv, [Next]_vars
    PROVE  [Lifecycle!Next]_(Lifecycle!vars)
<1> USE DEF Lifecycle!Next, Lifecycle!vars
<1>1. ASSUME NEW c \in Clients, ClientStep(c)
      PROVE  Lifecycle!Next \/ UNCHANGED Lifecycle!vars
  <2>1. CASE NavigateBegin(c) \/ CancelBegin(c)
    BY <2>1 DEF NavigateBegin, CancelBegin
  <2>2. CASE NavigateStart(c)
    <3>1. created + 1 \in Goals /\ state[created + 1] = "none"
      BY <2>2, NavigatorAssumption
         DEF NavigateStart, IInv, TypeOK, LockHeld, Uncreated, StateFollowsRun, Goals
    <3>2. Lifecycle!Create(created + 1)
      BY <2>2, <3>1 DEF NavigateStart, ghosts, Lifecycle!Create
    <3> QED BY <3>1, <3>2
  <2>3. CASE CancelEnd(c)
    BY <2>3 DEF CancelEnd, runVars, ghosts, Lifecycle!Rest
  <2> QED BY <1>1, <2>1, <2>2, <2>3 DEF ClientStep
<1>2. ASSUME NEW g \in Goals, WorkerStep(g)
      PROVE  Lifecycle!Next \/ UNCHANGED Lifecycle!vars
  <2>1. CASE Begin(g)
    <3>1. Lifecycle!Activate(g)
      BY <2>1 DEF Begin, At, IInv, StateFollowsRun, ghosts, Lifecycle!Activate
    <3> QED BY <3>1
  <2>2. CASE PlanFeasible(g) \/ PassCancel(g) \/ Raise(g) \/ RaiseInStop(g) \/ Leave(g)
    BY <2>2 DEF PlanFeasible, PassCancel, Raise, RaiseInStop, Leave, ghosts
  <2>3. CASE Drive(g)
    <3>1. Lifecycle!Drive(g)
      BY <2>3 DEF Drive, At, IInv, StateFollowsRun, Lifecycle!Drive
    <3> QED BY <3>1
  <2>4. CASE Halt(g)
    BY <2>4 DEF Halt, ghosts, Lifecycle!Rest
  <2>5. CASE PlanInfeasible(g)
    <3>1. state[g] = "active" /\ base # g
      BY <2>5 DEF PlanInfeasible, At, IInv, StateFollowsRun, DrivesAfterPlan
    <3>2. Lifecycle!End(g)
      BY <2>5, <3>1 DEF PlanInfeasible, ghosts, Lifecycle!End, Lifecycle!Terminal
    <3> QED BY <3>2
  <2>6. CASE TimedOut(g) \/ SeeCancel(g) \/ Finish(g) \/ Handle(g)
    <3>1. Lifecycle!End(g)
      BY <2>6, StopWithEnds DEF TimedOut, SeeCancel, Finish, Handle, At, Terminal
    <3> QED BY <3>1
  <2>7. CASE HandleStopFails(g)
    <3>1. Lifecycle!FailUnstopped(g)
      BY <2>7 DEF HandleStopFails, At, IInv, StateFollowsRun, Lifecycle!FailUnstopped
    <3> QED BY <3>1
  <2> QED BY <1>2, <2>1, <2>2, <2>3, <2>4, <2>5, <2>6, <2>7 DEF WorkerStep, EndOfGoal
<1>3. CASE UNCHANGED vars
  BY <1>3 DEF vars
<1> QED BY <1>1, <1>2, <1>3 DEF Next

\* Every goal is created, activated and ended once, and only an active goal, or
\* one whose last stop failed, has the base moving.
THEOREM NavigatorImplementsLifecycle == Spec => LifecycleSpec
<1>1. Init => Lifecycle!Init
  BY DEF Init, Lifecycle!Init
<1>2. IInv /\ [Next]_vars => [Lifecycle!Next]_(Lifecycle!vars)
  BY StepLifecycle
<1> QED BY <1>1, <1>2, Invariance, PTL DEF Spec, LifecycleSpec, Lifecycle!Spec
=============================================================================

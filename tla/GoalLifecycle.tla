--------------------------- MODULE GoalLifecycle ---------------------------
(***************************************************************************)
(* What the navigator promises about goals: each goal is created once,     *)
(* becomes active once, ends once, and only an active goal has the base    *)
(* moving, unless it failed because the base could not be stopped.         *)
(***************************************************************************)
EXTENDS Naturals

CONSTANT Goals      \* goal numbers

VARIABLES
    status,     \* status[g]: "none", "idle", "active" or a terminal state
    moving,     \* the goal whose command the base executes, 0 when at rest
    adrift      \* goals that failed without a stop the base accepted

vars == <<status, moving, adrift>>

Terminal == {"succeeded", "failed", "canceled"}

Init == status = [g \in Goals |-> "none"] /\ moving = 0 /\ adrift = {}

Create(g) ==
    /\ status[g] = "none"
    /\ status' = [status EXCEPT ![g] = "idle"]
    /\ UNCHANGED <<moving, adrift>>

Activate(g) ==
    /\ status[g] = "idle"
    /\ status' = [status EXCEPT ![g] = "active"]
    /\ UNCHANGED <<moving, adrift>>

Drive(g) ==
    /\ status[g] = "active"
    /\ moving' = g
    /\ UNCHANGED <<status, adrift>>

Rest == moving' = 0 /\ UNCHANGED <<status, adrift>>

End(g) ==
    /\ status[g] = "active"
    /\ \E s \in Terminal : status' = [status EXCEPT ![g] = s]
    /\ moving' \in {0, moving} \ {g}
    /\ UNCHANGED adrift

FailUnstopped(g) ==
    /\ status[g] = "active"
    /\ status' = [status EXCEPT ![g] = "failed"]
    /\ adrift' = adrift \cup {g}
    /\ UNCHANGED moving

Next ==
    \/ \E g \in Goals : Create(g) \/ Activate(g) \/ Drive(g) \/ End(g) \/ FailUnstopped(g)
    \/ Rest

Spec == Init /\ [][Next]_vars
=============================================================================

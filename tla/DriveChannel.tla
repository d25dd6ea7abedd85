---------------------------- MODULE DriveChannel ----------------------------
(***************************************************************************)
(* The path of one velocity command from the threads that drive the robot  *)
(* to the base: ViamWorldIO.set_velocity, ._schedule_drive and its _issue  *)
(* coroutine (src/src/nav/io/viam_io.py).                                  *)
(*                                                                         *)
(* Callers are threads (the navigator's worker; the thread of a cancel).   *)
(* The coroutines run on the module's event loop.  A command is a record   *)
(* [n, t]: t is the twist, n numbers the changes of twist in the order     *)
(* they were accepted, so that a re-issue of the same twist is the same    *)
(* command.  Numbers are a device of the model; the code has twists only.  *)
(***************************************************************************)
EXTENDS Naturals, FiniteSets

CONSTANTS
    Callers,        \* threads that call set_velocity
    Twists,         \* sanitized body twists
    Stop,           \* the zero twist
    Slots,          \* _issue coroutines that may exist at once
    NoSlot,         \* no future
    NoCmd,          \* None
    MaxWants,       \* bound: changes of the wanted twist
    MaxFailures     \* bound: SetVelocity calls that raise

ASSUME DriveAssumption ==
    /\ Stop \in Twists
    /\ NoSlot \notin Slots
    /\ NoCmd \notin [n : Nat, t : Twists]
    /\ MaxWants \in Nat
    /\ MaxFailures \in Nat

Cmd == [n : Nat, t : Twists]

VARIABLES
    pc,         \* where each caller is inside set_velocity
    mine,       \* the command each caller is sending
    result,     \* how each caller's last call ended
    desired,    \* _last_desired_twist
    fresh,      \* _last_desired_at is younger than _drive_refresh_s
    pending,    \* _pending_drive_fut
    followup,   \* _drive_followup
    co,         \* the _issue coroutines and their futures
    lastError,  \* _last_drive carries an error
    base,       \* the command the base executes
    latest,     \* the newest command accepted (ghost)
    failures    \* SetVelocity calls that raised (bound only)

callerVars == <<pc, mine, result>>
wantVars == <<desired, fresh, latest>>
queueVars == <<pending, followup, lastError>>
loopVars == <<co, base, failures>>
vars == <<pc, mine, result, desired, fresh, pending, followup, co, lastError,
          base, latest, failures>>

InitialCmd == [n |-> 0, t |-> Stop]

TypeOK ==
    /\ pc \in [Callers -> {"idle", "accepted", "busy", "clear", "waiting"}]
    /\ mine \in [Callers -> [cmd : Cmd, fut : Slots \cup {NoSlot}]]
    /\ result \in [Callers -> {"none", "ok", "timeout", "error"}]
    /\ desired \in Cmd \cup {NoCmd}
    /\ fresh \in BOOLEAN
    /\ pending \in Slots \cup {NoSlot}
    /\ followup \in Cmd \cup {NoCmd}
    /\ co \in [Slots -> [pc : {"rpc", "returned", "done"}, cmd : Cmd, own : BOOLEAN]]
    /\ lastError \in BOOLEAN
    /\ base \in Cmd
    /\ latest \in Cmd
    /\ failures \in Nat

Init ==
    /\ pc = [c \in Callers |-> "idle"]
    /\ mine = [c \in Callers |-> [cmd |-> InitialCmd, fut |-> NoSlot]]
    /\ result = [c \in Callers |-> "none"]
    /\ desired = NoCmd
    /\ fresh = FALSE
    /\ pending = NoSlot
    /\ followup = NoCmd
    /\ co = [s \in Slots |-> [pc |-> "done", cmd |-> InitialCmd, own |-> FALSE]]
    /\ lastError = FALSE
    /\ base = InitialCmd
    /\ latest = InitialCmd
    /\ failures = 0

-----------------------------------------------------------------------------
(* set_velocity: the duplicate check *)

\* Mutant: an accepted twist is skipped for ever, not for _drive_refresh_s.
DuplicateWithoutRefresh(t) == desired # NoCmd /\ desired.t = t

\* The twist of the last accepted command, accepted less than
\* _drive_refresh_s ago: nothing is sent.
Duplicate(t) == desired # NoCmd /\ desired.t = t /\ fresh

\* The number of a command: that of the newest one if it repeats its twist.
Numbered(t) == IF t = latest.t THEN latest ELSE [n |-> latest.n + 1, t |-> t]

Skip(c, t) ==
    /\ pc[c] = "idle"
    /\ Duplicate(t)
    /\ lastError' = FALSE
    /\ result' = [result EXCEPT ![c] = "ok"]
    /\ UNCHANGED <<pc, mine, wantVars, pending, followup, loopVars>>

Accept(c, t) ==
    /\ pc[c] = "idle"
    /\ ~Duplicate(t)
    /\ Numbered(t).n <= MaxWants
    /\ latest' = Numbered(t)
    /\ desired' = Numbered(t)
    /\ fresh' = TRUE
    /\ pc' = [pc EXCEPT ![c] = "accepted"]
    /\ mine' = [mine EXCEPT ![c] = [cmd |-> Numbered(t), fut |-> NoSlot]]
    /\ UNCHANGED <<result, queueVars, loopVars>>

-----------------------------------------------------------------------------
(* _schedule_drive *)

\* fut is not None and not fut.done()
Busy == pending # NoSlot /\ co[pending].pc # "done"

CheckPending(c) ==
    /\ pc[c] = "accepted"
    /\ pc' = [pc EXCEPT ![c] = IF Busy THEN "busy" ELSE "clear"]
    /\ UNCHANGED <<mine, result, wantVars, queueVars, loopVars>>

\* Park the command behind the call in flight and return.
Coalesce(c) ==
    /\ pc[c] = "busy"
    /\ followup' = mine[c].cmd
    /\ lastError' = FALSE
    /\ pc' = [pc EXCEPT ![c] = "idle"]
    /\ result' = [result EXCEPT ![c] = "ok"]
    /\ UNCHANGED <<mine, wantVars, pending, loopVars>>

\* Mutant: what was parked survives the start of a new coroutine.
SubmitKeepsParked(c, s) ==
    /\ pc[c] = "clear"
    /\ co[s].pc = "done"
    /\ \A d \in Callers : pc[d] = "waiting" => mine[d].fut # s
    /\ lastError' = FALSE
    /\ co' = [co EXCEPT ![s] = [pc |-> "rpc", cmd |-> mine[c].cmd, own |-> TRUE]]
    /\ pending' = s
    /\ pc' = [pc EXCEPT ![c] = "waiting"]
    /\ mine' = [mine EXCEPT ![c].fut = s]
    /\ UNCHANGED <<result, wantVars, followup, base, failures>>

\* Drop what was parked, start a coroutine and wait for its future.
Submit(c, s) ==
    /\ pc[c] = "clear"
    /\ co[s].pc = "done"
    /\ \A d \in Callers : pc[d] = "waiting" => mine[d].fut # s
    /\ followup' = NoCmd
    /\ lastError' = FALSE
    /\ co' = [co EXCEPT ![s] = [pc |-> "rpc", cmd |-> mine[c].cmd, own |-> TRUE]]
    /\ pending' = s
    /\ pc' = [pc EXCEPT ![c] = "waiting"]
    /\ mine' = [mine EXCEPT ![c].fut = s]
    /\ UNCHANGED <<result, wantVars, base, failures>>

\* The future resolved within wait_s.  The error that surfaces is the one of
\* the intent that finished last; it forgets the desired twist.
WaitDone(c) ==
    /\ pc[c] = "waiting"
    /\ co[mine[c].fut].pc = "done"
    /\ pending' = IF pending = mine[c].fut THEN NoSlot ELSE pending
    /\ desired' = IF lastError THEN NoCmd ELSE desired
    /\ result' = [result EXCEPT ![c] = IF lastError THEN "error" ELSE "ok"]
    /\ pc' = [pc EXCEPT ![c] = "idle"]
    /\ UNCHANGED <<mine, fresh, latest, followup, lastError, loopVars>>

\* Mutant: the future is forgotten when the wait ends, even if it still runs.
WaitTimeoutForgets(c) ==
    /\ pc[c] = "waiting"
    /\ co[mine[c].fut].pc # "done"
    /\ result' = [result EXCEPT ![c] = "ok"]
    /\ pending' = NoSlot
    /\ pc' = [pc EXCEPT ![c] = "idle"]
    /\ UNCHANGED <<mine, wantVars, followup, lastError, loopVars>>

\* wait_s ran out.  The call is left running; the caller raises only when its
\* own command is no longer pending.
WaitTimeout(c) ==
    /\ pc[c] = "waiting"
    /\ LET f == co[mine[c].fut] IN
        /\ f.pc # "done"
        /\ result' = [result EXCEPT ![c] = IF f.pc = "rpc" /\ f.own THEN "ok"
                                                                    ELSE "timeout"]
    /\ pc' = [pc EXCEPT ![c] = "idle"]
    /\ UNCHANGED <<mine, wantVars, queueVars, loopVars>>

-----------------------------------------------------------------------------
(* the _issue coroutine, on the event loop *)

\* The loop body after the await: take the parked command, or return.
Drain(s, failed) ==
    /\ followup' = NoCmd
    /\ IF followup = NoCmd
         THEN /\ co' = [co EXCEPT ![s].pc = "returned", ![s].own = FALSE]
              /\ lastError' = failed
         ELSE /\ co' = [co EXCEPT ![s].cmd = followup, ![s].own = FALSE]
              /\ lastError' = FALSE

RpcOk(s) ==
    /\ co[s].pc = "rpc"
    /\ base' = co[s].cmd
    /\ Drain(s, FALSE)
    /\ UNCHANGED <<callerVars, wantVars, pending, failures>>

\* SetVelocity raised; the base may or may not have taken the command.
RpcFail(s) ==
    /\ co[s].pc = "rpc"
    /\ failures < MaxFailures
    /\ failures' = failures + 1
    /\ base' \in {base, co[s].cmd}
    /\ Drain(s, TRUE)
    /\ UNCHANGED <<callerVars, wantVars, pending>>

\* The coroutine has returned; a later turn of the loop resolves the future.
Resolve(s) ==
    /\ co[s].pc = "returned"
    /\ co' = [co EXCEPT ![s].pc = "done"]
    /\ UNCHANGED <<callerVars, wantVars, queueVars, base, failures>>

\* _drive_refresh_s passes.
RefreshDue ==
    /\ fresh
    /\ fresh' = FALSE
    /\ UNCHANGED <<callerVars, desired, latest, queueVars, loopVars>>

-----------------------------------------------------------------------------
SetVelocity(c, t) == Skip(c, t) \/ Accept(c, t)

Proceed(c) ==
    \/ CheckPending(c)
    \/ Coalesce(c)
    \/ \E s \in Slots : Submit(c, s)
    \/ WaitDone(c)
    \/ WaitTimeout(c)

LoopStep(s) == RpcOk(s) \/ RpcFail(s) \/ Resolve(s)

Next ==
    \/ \E c \in Callers, t \in Twists : SetVelocity(c, t)
    \/ \E c \in Callers : Proceed(c)
    \/ \E s \in Slots : LoopStep(s)
    \/ RefreshDue

Spec == Init /\ [][Next]_vars

\* A thread inside set_velocity goes on, the event loop turns, the base
\* answers and time passes.  Nobody is obliged to call set_velocity again.
ProgressFairness ==
    /\ \A c \in Callers : WF_vars(Proceed(c))
    /\ \A s \in Slots : WF_vars(LoopStep(s))
    /\ WF_vars(RefreshDue)

FairSpec == Spec /\ ProgressFairness

-----------------------------------------------------------------------------
(* Properties *)

\* A command never reaches the base after a newer one did: _schedule_drive
\* sends one call at a time and drops what it had parked before it starts
\* another coroutine.  Holds for one calling thread.
InOrder == [][base'.n >= base.n]_vars

\* Never two SetVelocity calls in flight.  Holds for one calling thread.
AtMostOneRpc ==
    \A s, r \in Slots : co[s].pc = "rpc" /\ co[r].pc = "rpc" => s = r

\* Between two calls of the thread, the parked command is the newest one it
\* sent: a call that was replaced is not left behind to be sent later.
ParkedIsNewest ==
    followup # NoCmd => \A c \in Callers : pc[c] = "idle" => followup = latest

\* set_velocity skips a twist only if that twist is what the base executes or
\* is still on its way ("identical cmds need not hit the module loop").
\* A failed call is the known exception.
UnderWay(t) ==
    \/ base.t = t
    \/ followup # NoCmd /\ followup.t = t
    \/ \E s \in Slots : co[s].pc = "rpc" /\ co[s].cmd.t = t
    \/ \E c \in Callers : pc[c] \in {"accepted", "busy", "clear"} /\ mine[c].cmd.t = t

SkippedIsRedundant ==
    failures = 0 => \A t \in Twists : Duplicate(t) => UnderWay(t)

\* While the control loop keeps asking for the same twist, the base ends up
\* executing it, whatever was dropped, failed or skipped on the way: this is
\* what re-issuing a held twist after _drive_refresh_s is for.
HeldTwistArrives == <>[](base.t = latest.t)

\* "Latest cmd is coalesced into _drive_followup and sent after the current
\* RPC finishes": a parked command is sent unless a newer one replaces it.
FollowupIsSent ==
    \A n \in 1 .. MaxWants :
        (followup # NoCmd /\ followup.n = n) ~> (base.n >= n \/ latest.n > n)

\* One calling thread drives the base in the order it accepted the commands.
Order == INSTANCE LatestCommand WITH issued <- latest.n, applied <- base.n

OrderSpec == Order!Spec
=============================================================================

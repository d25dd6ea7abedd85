------------------------- MODULE DriveChannelProofs -------------------------
(***************************************************************************)
(* Proofs about DriveChannel and NavScan, the two halves of ViamWorldIO,   *)
(* and about UsbPorts, the ports of the sensors behind it.                 *)
(* Type correctness of the velocity path holds for any number of calling   *)
(* threads; the order of commands is proved for one, which is what the     *)
(* navigator's worker is while nobody cancels.  The age of the scans is    *)
(* proved for a lidar that is read one way: behind calls, or in shared     *)
(* memory that is required.  The ports are proved apart, and found, for    *)
(* any nodes, any order of replugs and any configured paths.               *)
(***************************************************************************)
EXTENDS DriveChannel, NavScan, UsbPorts, TLAPS

-----------------------------------------------------------------------------
(* Types *)

\* The number given to an accepted twist makes a command of it.
LEMMA NumberedType ==
    ASSUME NEW t \in Twists, latest \in Cmd
    PROVE  Numbered(t) \in Cmd
  BY DEF Numbered, Cmd

LEMMA InitType == Init => TypeOK
<1>1. InitialCmd \in Cmd
  BY DriveAssumption DEF InitialCmd, Cmd
<1> SUFFICES ASSUME Init PROVE TypeOK
  OBVIOUS
<1>2. mine \in [Callers -> [cmd : Cmd, fut : Slots \cup {NoSlot}]]
  BY <1>1 DEF Init
<1>3. co \in [Slots -> [pc : {"rpc", "returned", "done"}, cmd : Cmd, own : BOOLEAN]]
  BY <1>1 DEF Init
<1>4. base \in Cmd /\ latest \in Cmd
  BY <1>1 DEF Init
<1> QED BY <1>2, <1>3, <1>4 DEF Init, TypeOK

\* One coroutine step after its await keeps the types of what it writes.
LEMMA DrainType ==
    ASSUME TypeOK, NEW s \in Slots, NEW failed \in BOOLEAN, Drain(s, failed)
    PROVE  /\ followup' \in Cmd \cup {NoCmd}
           /\ co' \in [Slots -> [pc : {"rpc", "returned", "done"}, cmd : Cmd, own : BOOLEAN]]
           /\ lastError' \in BOOLEAN
<1> DEFINE Co == [pc : {"rpc", "returned", "done"}, cmd : Cmd, own : BOOLEAN]
<1>1. co \in [Slots -> Co]
  BY DEF TypeOK
<1>2. CASE followup = NoCmd
  <2>1. [co[s] EXCEPT !.pc = "returned", !.own = FALSE] \in Co
    BY <1>1
  <2>2. co' = [co EXCEPT ![s] = [co[s] EXCEPT !.pc = "returned", !.own = FALSE]]
    BY <1>1, <1>2 DEF Drain
  <2> QED BY <1>1, <1>2, <2>1, <2>2 DEF Drain
<1>3. CASE followup # NoCmd
  <2>1. followup \in Cmd
    BY <1>3 DEF TypeOK
  <2>2. [co[s] EXCEPT !.cmd = followup, !.own = FALSE] \in Co
    BY <1>1, <2>1
  <2>3. co' = [co EXCEPT ![s] = [co[s] EXCEPT !.cmd = followup, !.own = FALSE]]
    BY <1>1, <1>3 DEF Drain
  <2> QED BY <1>1, <1>3, <2>2, <2>3 DEF Drain
<1> QED BY <1>2, <1>3

LEMMA StepType == TypeOK /\ [Next]_vars => TypeOK'
<1> SUFFICES ASSUME TypeOK, [Next]_vars PROVE TypeOK'
  OBVIOUS
<1> USE DEF wantVars, queueVars, loopVars, callerVars
<1>1. ASSUME NEW c \in Callers, NEW t \in Twists, Skip(c, t) PROVE TypeOK'
  BY <1>1 DEF Skip, TypeOK
<1>2. ASSUME NEW c \in Callers, NEW t \in Twists, Accept(c, t) PROVE TypeOK'
  <2>1. Numbered(t) \in Cmd
    BY NumberedType DEF TypeOK
  <2> QED BY <1>2, <2>1 DEF Accept, TypeOK
<1>3. ASSUME NEW c \in Callers, CheckPending(c) PROVE TypeOK'
  BY <1>3 DEF CheckPending, TypeOK
<1>4. ASSUME NEW c \in Callers, Coalesce(c) PROVE TypeOK'
  BY <1>4 DEF Coalesce, TypeOK
<1>5. ASSUME NEW c \in Callers, NEW s \in Slots, Submit(c, s) PROVE TypeOK'
  BY <1>5 DEF Submit, TypeOK
<1>6. ASSUME NEW c \in Callers, WaitDone(c) PROVE TypeOK'
  BY <1>6 DEF WaitDone, TypeOK
<1>7. ASSUME NEW c \in Callers, WaitTimeout(c) PROVE TypeOK'
  BY <1>7 DEF WaitTimeout, TypeOK
<1>8. ASSUME NEW s \in Slots, RpcOk(s) PROVE TypeOK'
  BY <1>8, DrainType DEF RpcOk, TypeOK
<1>9. ASSUME NEW s \in Slots, RpcFail(s) PROVE TypeOK'
  <2>1. Drain(s, TRUE)
    BY <1>9 DEF RpcFail
  <2>2. base' \in Cmd
    BY <1>9 DEF RpcFail, TypeOK
  <2>3. failures' \in Nat
    BY <1>9 DEF RpcFail, TypeOK
  <2> QED BY <1>9, <2>1, <2>2, <2>3, DrainType DEF RpcFail, TypeOK
<1>10. ASSUME NEW s \in Slots, Resolve(s) PROVE TypeOK'
  BY <1>10 DEF Resolve, TypeOK
<1>11. CASE RefreshDue
  BY <1>11 DEF RefreshDue, TypeOK
<1>12. CASE UNCHANGED vars
  BY <1>12 DEF vars, TypeOK
<1> QED
  BY <1>1, <1>2, <1>3, <1>4, <1>5, <1>6, <1>7, <1>8, <1>9, <1>10, <1>11, <1>12
     DEF Next, SetVelocity, Proceed, LoopStep

\* Every reachable state of the channel has the types of TypeOK, for any
\* number of calling threads.
THEOREM DriveTypes == Spec => []TypeOK
  BY InitType, StepType, PTL DEF Spec

-----------------------------------------------------------------------------
(* One calling thread *)

\* A coroutine that is not done is the one _pending_drive_fut points at.
OnlyPendingRuns == \A s \in Slots : co[s].pc # "done" => pending = s

\* The numbers of the base, of the call in flight, of the parked command and
\* of the newest command never decrease along that path.
PathOrdered ==
    /\ base.n <= latest.n
    /\ \A s \in Slots : co[s].pc = "rpc" =>
          /\ base.n <= co[s].cmd.n
          /\ co[s].cmd.n <= latest.n
    /\ followup # NoCmd =>
          /\ followup.n <= latest.n
          /\ base.n <= followup.n
          /\ \A s \in Slots : co[s].pc = "rpc" => co[s].cmd.n <= followup.n

\* Where the thread is decides what it holds and what may be parked.
CallerOrdered ==
    \A c \in Callers :
        /\ pc[c] \in {"accepted", "busy", "clear"} => mine[c].cmd = latest
        /\ pc[c] = "clear" => ~Busy
        /\ pc[c] = "waiting" => followup = NoCmd
        /\ pc[c] = "idle" /\ followup # NoCmd => followup = latest

SoloInv == TypeOK /\ OnlyPendingRuns /\ PathOrdered /\ CallerOrdered

Solo == \A c, d \in Callers : c = d

LEMMA SoloInit == Init => SoloInv
<1> SUFFICES ASSUME Init PROVE SoloInv
  OBVIOUS
<1>1. TypeOK
  BY InitType
<1>2. OnlyPendingRuns
  BY DEF Init, OnlyPendingRuns
<1>3. PathOrdered
  BY DEF Init, PathOrdered, InitialCmd
<1>4. CallerOrdered
  BY DEF Init, CallerOrdered
<1> QED BY <1>1, <1>2, <1>3, <1>4 DEF SoloInv

\* The newest command's number grows when a twist is accepted.
LEMMA AcceptGrows ==
    ASSUME TypeOK, NEW t \in Twists
    PROVE  Numbered(t).n \in latest.n .. latest.n + 1
  BY DEF TypeOK, Cmd, Numbered

\* After the await, the coroutine is still the only one that runs, and what
\* it sends next is no older than what the base has now.
LEMMA DrainOrdered ==
    ASSUME SoloInv, NEW s \in Slots, co[s].pc = "rpc", NEW failed \in BOOLEAN,
           Drain(s, failed), base' \in {base, co[s].cmd},
           UNCHANGED <<callerVars, wantVars, pending>>
    PROVE  OnlyPendingRuns' /\ PathOrdered' /\ CallerOrdered'
<1> USE DEF SoloInv, callerVars, wantVars
<1>1. pending = s /\ \A r \in Slots : r # s => co[r].pc = "done"
  BY DEF OnlyPendingRuns
<1>2. \A r \in Slots : r # s => co'[r] = co[r]
  BY DEF Drain, TypeOK
<1>3. followup' = NoCmd
  BY DEF Drain
<1>4. OnlyPendingRuns'
  BY <1>1, <1>2 DEF OnlyPendingRuns
<1>5. base'.n \in Nat /\ base.n \in Nat /\ latest.n \in Nat /\ co[s].cmd.n \in Nat
  BY DEF TypeOK, Cmd
<1>6. base.n <= base'.n /\ base'.n <= co[s].cmd.n /\ co[s].cmd.n <= latest.n
  BY <1>5 DEF PathOrdered
<1>7. CASE followup = NoCmd
  <2>1. co'[s].pc = "returned"
    BY <1>7 DEF Drain, TypeOK
  <2>2. PathOrdered'
    BY <1>1, <1>2, <1>3, <1>5, <1>6, <2>1 DEF PathOrdered
  <2> QED BY <1>1, <1>3, <1>4, <2>2, <1>7, DriveAssumption DEF CallerOrdered, Busy
<1>8. CASE followup # NoCmd
  <2>1. co'[s].cmd = followup
    BY <1>8 DEF Drain, TypeOK
  <2>2. followup.n \in Nat
    BY <1>8 DEF TypeOK, Cmd
  <2>3. base'.n <= followup.n /\ followup.n <= latest.n
    BY <1>5, <1>6, <1>8, <2>2 DEF PathOrdered
  <2>4. PathOrdered'
    BY <1>1, <1>2, <1>3, <1>5, <1>6, <2>1, <2>3 DEF PathOrdered
  <2> QED BY <1>1, <1>3, <1>4, <2>4, <1>8 DEF CallerOrdered, Busy
<1> QED BY <1>7, <1>8

LEMMA SoloStep == Solo /\ SoloInv /\ [Next]_vars => SoloInv'
<1> SUFFICES ASSUME Solo, SoloInv, [Next]_vars
             PROVE  OnlyPendingRuns' /\ PathOrdered' /\ CallerOrdered'
  BY StepType DEF SoloInv
<1> USE DEF SoloInv, wantVars, queueVars, loopVars, callerVars
<1>0. /\ latest.n \in Nat
      /\ base.n \in Nat
      /\ \A s \in Slots : co[s].cmd.n \in Nat
      /\ followup # NoCmd => followup.n \in Nat
  BY DEF TypeOK, Cmd
<1>1. ASSUME NEW c \in Callers, NEW t \in Twists, Skip(c, t)
      PROVE  OnlyPendingRuns' /\ PathOrdered' /\ CallerOrdered'
  BY <1>1 DEF Skip, OnlyPendingRuns, PathOrdered, CallerOrdered, Busy
<1>2. ASSUME NEW c \in Callers, NEW t \in Twists, Accept(c, t)
      PROVE  OnlyPendingRuns' /\ PathOrdered' /\ CallerOrdered'
  <2>1. latest'.n \in latest.n .. latest.n + 1
    BY <1>2, AcceptGrows DEF Accept
  <2>2. OnlyPendingRuns'
    BY <1>2 DEF Accept, OnlyPendingRuns
  <2>3. PathOrdered'
    BY <1>0, <1>2, <2>1 DEF Accept, PathOrdered
  <2>4. pc' = [d \in Callers |-> "accepted"] /\ mine'[c].cmd = latest'
    BY <1>2 DEF Accept, TypeOK, Solo
  <2>5. CallerOrdered'
    BY <2>4 DEF CallerOrdered, Solo
  <2> QED BY <2>2, <2>3, <2>5
<1>3. ASSUME NEW c \in Callers, CheckPending(c)
      PROVE  OnlyPendingRuns' /\ PathOrdered' /\ CallerOrdered'
  BY <1>3 DEF CheckPending, OnlyPendingRuns, PathOrdered, CallerOrdered, Busy, TypeOK
<1>4. ASSUME NEW c \in Callers, Coalesce(c)
      PROVE  OnlyPendingRuns' /\ PathOrdered' /\ CallerOrdered'
  <2>1. followup' = latest
    BY <1>4 DEF Coalesce, CallerOrdered
  <2>2. OnlyPendingRuns'
    BY <1>4 DEF Coalesce, OnlyPendingRuns
  <2>3. PathOrdered'
    BY <1>0, <1>4, <2>1 DEF Coalesce, PathOrdered
  <2>4. pc' = [d \in Callers |-> "idle"]
    BY <1>4 DEF Coalesce, TypeOK, Solo
  <2>5. CallerOrdered'
    BY <1>4, <2>1, <2>4 DEF Coalesce, CallerOrdered
  <2> QED BY <2>2, <2>3, <2>5
<1>5. ASSUME NEW c \in Callers, NEW s \in Slots, Submit(c, s)
      PROVE  OnlyPendingRuns' /\ PathOrdered' /\ CallerOrdered'
  <2>1. \A r \in Slots : co[r].pc = "done"
    BY <1>5, DriveAssumption DEF Submit, CallerOrdered, OnlyPendingRuns, Busy
  <2>2. co'[s] = [pc |-> "rpc", cmd |-> latest, own |-> TRUE]
    BY <1>5 DEF Submit, CallerOrdered, TypeOK
  <2>3. \A r \in Slots : r # s => co'[r] = co[r]
    BY <1>5 DEF Submit, TypeOK
  <2>4. OnlyPendingRuns'
    BY <1>5, <2>1, <2>3 DEF Submit, OnlyPendingRuns
  <2>5. PathOrdered'
    BY <1>0, <1>5, <2>1, <2>2, <2>3 DEF Submit, PathOrdered
  <2>6. pc' = [d \in Callers |-> "waiting"] /\ followup' = NoCmd
    BY <1>5 DEF Submit, TypeOK, Solo
  <2>7. CallerOrdered'
    BY <2>6 DEF CallerOrdered
  <2> QED BY <2>4, <2>5, <2>7
<1>6. ASSUME NEW c \in Callers, WaitDone(c)
      PROVE  OnlyPendingRuns' /\ PathOrdered' /\ CallerOrdered'
  <2>1. OnlyPendingRuns'
    BY <1>6 DEF WaitDone, OnlyPendingRuns
  <2>2. PathOrdered'
    BY <1>6 DEF WaitDone, PathOrdered
  <2>3. pc' = [d \in Callers |-> "idle"] /\ followup' = NoCmd
    BY <1>6 DEF WaitDone, TypeOK, Solo, CallerOrdered
  <2>4. CallerOrdered'
    BY <2>3 DEF CallerOrdered
  <2> QED BY <2>1, <2>2, <2>4
<1>7. ASSUME NEW c \in Callers, WaitTimeout(c)
      PROVE  OnlyPendingRuns' /\ PathOrdered' /\ CallerOrdered'
  <2>1. OnlyPendingRuns' /\ PathOrdered'
    BY <1>7 DEF WaitTimeout, OnlyPendingRuns, PathOrdered
  <2>2. pc' = [d \in Callers |-> "idle"]
    BY <1>7 DEF WaitTimeout, TypeOK, Solo
  <2>3. followup' = NoCmd
    BY <1>7 DEF WaitTimeout, CallerOrdered
  <2>4. CallerOrdered'
    BY <2>2, <2>3 DEF CallerOrdered
  <2> QED BY <2>1, <2>4
<1>8. ASSUME NEW s \in Slots, RpcOk(s)
      PROVE  OnlyPendingRuns' /\ PathOrdered' /\ CallerOrdered'
  BY <1>8, DrainOrdered DEF RpcOk
<1>9. ASSUME NEW s \in Slots, RpcFail(s)
      PROVE  OnlyPendingRuns' /\ PathOrdered' /\ CallerOrdered'
  BY <1>9, DrainOrdered DEF RpcFail
<1>10. ASSUME NEW s \in Slots, Resolve(s)
       PROVE  OnlyPendingRuns' /\ PathOrdered' /\ CallerOrdered'
  <2>1. \A r \in Slots : r # s => co'[r] = co[r]
    BY <1>10 DEF Resolve, TypeOK
  <2>2. co'[s].pc = "done"
    BY <1>10 DEF Resolve, TypeOK
  <2>3. OnlyPendingRuns'
    BY <1>10, <2>1, <2>2 DEF Resolve, OnlyPendingRuns
  <2>4. PathOrdered'
    BY <1>10, <2>1, <2>2 DEF Resolve, PathOrdered
  <2>5. Busy' => Busy
    BY <1>10, <2>1, <2>2 DEF Resolve, Busy, TypeOK
  <2>6. CallerOrdered'
    BY <1>10, <2>5 DEF Resolve, CallerOrdered
  <2> QED BY <2>3, <2>4, <2>6
<1>11. CASE RefreshDue
  BY <1>11 DEF RefreshDue, OnlyPendingRuns, PathOrdered, CallerOrdered, Busy
<1>12. CASE UNCHANGED vars
  BY <1>12 DEF vars, OnlyPendingRuns, PathOrdered, CallerOrdered, Busy
<1> QED
  BY <1>1, <1>2, <1>3, <1>4, <1>5, <1>6, <1>7, <1>8, <1>9, <1>10, <1>11, <1>12
     DEF Next, SetVelocity, Proceed, LoopStep

LEMMA SoloInvariance == ASSUME Solo PROVE Spec => []SoloInv
<1>1. Init => SoloInv
  BY SoloInit
<1>2. SoloInv /\ [Next]_vars => SoloInv'
  BY SoloStep
<1> QED BY <1>1, <1>2, PTL DEF Spec

\* A step moves the base along the order of acceptance: the lemma behind the
\* two theorems on order.
LEMMA BaseMovesForward ==
    ASSUME SoloInv, [Next]_vars
    PROVE  /\ latest'.n \in latest.n .. latest.n + 1
           /\ base'.n \in base.n .. latest.n
           /\ latest'.n # latest.n => base' = base
<1> USE DEF SoloInv, wantVars, queueVars, loopVars, callerVars
<1>0. /\ latest.n \in Nat /\ base.n \in Nat /\ base.n <= latest.n
      /\ \A s \in Slots : co[s].cmd.n \in Nat
  BY DEF TypeOK, Cmd, PathOrdered
<1>1. CASE UNCHANGED <<base, latest>>
  BY <1>0, <1>1
<1>2. ASSUME NEW c \in Callers, NEW t \in Twists, Accept(c, t)
      PROVE  latest'.n \in latest.n .. latest.n + 1 /\ base' = base
  BY <1>2, AcceptGrows DEF Accept
<1>3. ASSUME NEW s \in Slots, RpcOk(s) \/ RpcFail(s)
      PROVE  latest' = latest /\ base'.n \in base.n .. latest.n
  <2>1. latest' = latest /\ base' \in {base, co[s].cmd} /\ co[s].pc = "rpc"
    BY <1>3 DEF RpcOk, RpcFail
  <2> QED BY <1>0, <2>1 DEF PathOrdered
<1>4. ASSUME Next PROVE \/ UNCHANGED <<base, latest>>
                        \/ \E c \in Callers, t \in Twists : Accept(c, t)
                        \/ \E s \in Slots : RpcOk(s) \/ RpcFail(s)
  BY <1>4 DEF Next, SetVelocity, Proceed, LoopStep, Skip, CheckPending, Coalesce,
              Submit, WaitDone, WaitTimeout, Resolve, RefreshDue
<1>5. CASE UNCHANGED vars
  BY <1>1, <1>5 DEF vars
<1> QED BY <1>0, <1>1, <1>2, <1>3, <1>4, <1>5

\* With one calling thread, at most one SetVelocity call is in flight.
THEOREM DriveOneCall == ASSUME Solo PROVE Spec => []AtMostOneRpc
<1>1. SoloInv => AtMostOneRpc
  BY DEF SoloInv, OnlyPendingRuns, AtMostOneRpc
<1> QED BY <1>1, SoloInvariance, PTL

\* With one calling thread, what is parked between two calls is the newest
\* command.
THEOREM DriveParkedIsNewest == ASSUME Solo PROVE Spec => []ParkedIsNewest
<1>1. SoloInv => ParkedIsNewest
  BY DEF SoloInv, CallerOrdered, ParkedIsNewest
<1> QED BY <1>1, SoloInvariance, PTL

\* With one calling thread, no command overtakes a newer one on its way to
\* the base.
THEOREM DriveInOrder == ASSUME Solo PROVE Spec => InOrder
<1>1. SoloInv /\ [Next]_vars => [base'.n >= base.n]_vars
  <2> SUFFICES ASSUME SoloInv, [Next]_vars PROVE base'.n >= base.n
    OBVIOUS
  <2>1. base'.n \in base.n .. latest.n /\ base.n \in Nat /\ latest.n \in Nat
    BY BaseMovesForward DEF SoloInv, TypeOK, Cmd
  <2> QED BY <2>1
<1> QED BY <1>1, SoloInvariance, PTL DEF Spec, InOrder

\* With one calling thread, the channel implements LatestCommand: the base
\* executes a subsequence of the accepted commands, in order.
THEOREM DriveImplementsOrder == ASSUME Solo PROVE Spec => OrderSpec
<1>1. Init => Order!Init
  BY DEF Init, Order!Init, InitialCmd
<1>2. SoloInv /\ [Next]_vars => [Order!Next]_(Order!vars)
  <2> SUFFICES ASSUME SoloInv, [Next]_vars PROVE [Order!Next]_(Order!vars)
    OBVIOUS
  <2>1. /\ latest'.n \in latest.n .. latest.n + 1
        /\ base'.n \in base.n .. latest.n
        /\ latest'.n # latest.n => base' = base
        /\ latest.n \in Nat
    BY BaseMovesForward DEF SoloInv, TypeOK, Cmd
  <2>2. CASE latest'.n = latest.n
    BY <2>1, <2>2 DEF Order!Next, Order!Apply, Order!vars
  <2>3. CASE latest'.n # latest.n
    BY <2>1, <2>3 DEF Order!Next, Order!Issue, Order!vars
  <2> QED BY <2>2, <2>3
<1> QED BY <1>1, <1>2, SoloInvariance, PTL DEF Spec, OrderSpec, Order!Spec

-----------------------------------------------------------------------------
(* The scans: the inductive invariant.                                     *)

ScanTypeOK ==
    /\ sensors \in SUBSET {"lidar", "depth"} /\ by \in {"rpc", "required", "fallback"}
    /\ sees \in BOOLEAN /\ depthToo \in BOOLEAN /\ busy \in BOOLEAN
    /\ ask \in [at : {"rest", "lidar", "poll", "wait", "depth", "merge"}, got : 0 .. Unseen]
    /\ call \in [at : {"none", "open", "scan", "miss"}, age : Ages]
    /\ job \in [at : {"none", "open", "lost"}, age : Ages]
    /\ late \in [at : {"none", "open", "lost"}, age : Ages]
    /\ depth \in [age : 0 .. Unseen, at : Nat]
    /\ kept \in [age : 0 .. Unseen, at : Nat]
    /\ handed \in 0 .. Unseen /\ since \in Nat

Served == kept.age # Unseen /\ kept.at <= MaxAge

\* Between two askings something that was at most cap old grows no older than
\* the kept scan lets it; a pause may outlast that, and then the next tick asks.
Within(age, cap) == IF Served THEN age <= cap + kept.at ELSE age <= cap \/ since = 0

CallInTime ==
    call.at # "none" =>
        /\ by = "rpc" /\ "lidar" \in sensors
        /\ ask.at = "rest" => Within(call.age, StuckAfter)
        /\ ask.at = "lidar" => call.age <= StuckAfter + MaxAge + 1 \/ since <= 1
        /\ ask.at \in {"wait", "depth", "merge"} => call.age <= StuckAfter

JobInTime ==
    job.at # "none" =>
        /\ busy /\ "depth" \in sensors
        /\ depth.age = Unseen \/ depth.at >= Period
        /\ ask.at = "rest" \/ ~depthToo => Within(job.age, StuckAfter - 1)
        /\ ask.at = "merge" /\ depthToo => job.age <= StuckAfter - 1
        /\ ask.at \in {"lidar", "wait", "depth"} /\ depthToo => job.age <= StuckAfter + MaxAge \/ since <= 1

LidarInTime ==
    /\ by # "fallback" /\ ask.at # "poll"
    /\ ask.at \in {"rest", "lidar", "wait"} => ask.got = Unseen
    /\ ask.got # Unseen => ask.got <= StuckAfter + MaxAge + 1 \/ since <= 1

DepthInTime ==
    depth.age # Unseen /\ depth.at <= MaxAge =>
        depth.age <= StuckAfter + MaxAge + depth.at \/ since <= 1 + depth.at

KeptInTime ==
    Served => kept.age <= StuckAfter + 2 * MaxAge + kept.at \/ since <= 1 + MaxAge + kept.at

HandedInTime == handed # Unseen => handed <= Bound \/ since <= 1 + 2 * MaxAge

\* Only a lidar is asked for as one.
AsksALidar == ask.at \in {"lidar", "wait"} => "lidar" \in sensors

ScanIInv ==
    /\ ScanTypeOK /\ AsksALidar
    /\ CallInTime /\ JobInTime /\ LidarInTime /\ DepthInTime /\ KeptInTime /\ HandedInTime

NoFallback == "fallback" \notin Links

-----------------------------------------------------------------------------
LEMMA ScanNumbers ==
    /\ MaxAge \in Nat /\ MaxAge >= 1 /\ StuckAfter \in Nat /\ StuckAfter >= 1 /\ Period \in Nat
    /\ FrameAge \in Nat /\ FrameAge <= StuckAfter
    /\ Bound \in Nat /\ Bound = StuckAfter + 3 * MaxAge /\ Unseen = Bound + 2 /\ Ages = 0 .. Bound + 1
  BY NavScanAssumption DEF Bound, Unseen, Ages

LEMMA ElderIs ==
    /\ \A a \in Ages : Elder(a) \in Ages /\ Elder(a) <= a + 1
    /\ \A a \in 0 .. Unseen : Elder(a) \in 0 .. Unseen /\ (a # Unseen => Elder(a) <= a + 1 /\ Elder(a) # Unseen)
  BY ScanNumbers DEF Elder

LEMMA ElapsedIs ==
    \A n \in Nat : /\ Elapsed(n) \in Nat /\ n <= Elapsed(n) /\ Elapsed(n) <= n + 1
                   /\ n >= Period => Elapsed(n) >= Period
                   /\ Elapsed(n) <= MaxAge => Elapsed(n) = n + 1
  BY ScanNumbers DEF Elapsed

\* A scan that is a tick older.
LEMMA AgedIs ==
    ASSUME NEW k \in [age : 0 .. Unseen, at : Nat]
    PROVE  /\ Aged(k) \in [age : 0 .. Unseen, at : Nat]
           /\ Aged(k).age = Unseen <=> k.age = Unseen
           /\ k.age # Unseen => /\ Aged(k).age <= k.age + 1 /\ k.at <= Aged(k).at
                                /\ Aged(k).at <= MaxAge => Aged(k).at = k.at + 1
                                /\ k.at >= Period => Aged(k).at >= Period
<1>1. CASE k.age = Unseen
  BY <1>1 DEF Aged
<1>2. CASE k.age # Unseen
  <2> DEFINE a == Elder(k.age)
             n == Elapsed(k.at)
  <2>1. a \in 0 .. Unseen /\ a <= k.age + 1 /\ a # Unseen
    BY <1>2, ElderIs
  <2>2. n \in Nat /\ k.at <= n /\ (n <= MaxAge => n = k.at + 1) /\ (k.at >= Period => n >= Period)
    BY ElapsedIs
  <2>3. Aged(k) = [age |-> a, at |-> n]
    BY <1>2 DEF Aged
  <2> HIDE DEF a, n
  <2> QED
    BY <1>2, <2>1, <2>2, <2>3
<1> QED
  BY <1>1, <1>2

LEMMA WaitingIs ==
    ASSUME NEW S, NEW c \in [at : S, age : Ages]
    PROVE  /\ Waiting(c) \in [at : S, age : Ages] /\ Waiting(c).at = c.at
           /\ Waiting(c).age <= c.age + 1
<1>1. CASE c.at = "none"
  BY <1>1, ScanNumbers DEF Waiting
<1>2. CASE c.at # "none"
  <2> DEFINE a == Elder(c.age)
  <2>1. a \in Ages /\ a <= c.age + 1
    BY ElderIs
  <2>2. Waiting(c) = [c EXCEPT !.age = a]
    BY <1>2 DEF Waiting
  <2> HIDE DEF a
  <2> QED
    BY <2>1, <2>2
<1> QED
  BY <1>1, <1>2

LEMMA NotAskedIs ==
    /\ NotAsked \in [at : {"none", "open", "scan", "miss"}, age : Ages] /\ NotAsked.at = "none"
    /\ NotAsked \in [at : {"none", "open", "lost"}, age : Ages]
  BY ScanNumbers DEF NotAsked

LEMMA ScanInit == ASSUME NoFallback, NavScanInit PROVE ScanIInv
<1>1. ScanTypeOK
  <2>1. NoneKept \in [age : 0 .. Unseen, at : Nat] /\ Unseen \in 0 .. Unseen
    BY ScanNumbers DEF NoneKept
  <2> QED
    BY <2>1, NotAskedIs, NavScanAssumption DEF NavScanInit, ScanTypeOK
<1>2. CallInTime /\ JobInTime
  BY NotAskedIs DEF NavScanInit, CallInTime, JobInTime
<1>3. LidarInTime
  BY NavScanAssumption DEF NavScanInit, LidarInTime, NoFallback
<1>4. DepthInTime /\ KeptInTime /\ HandedInTime
  BY DEF NavScanInit, DepthInTime, KeptInTime, HandedInTime, NoneKept, Served
<1> QED
  BY <1>1, <1>2, <1>3, <1>4 DEF ScanIInv, NavScanInit, AsksALidar

LEMMA ScanLoop ==
    ASSUME ScanIInv, CallEnds \/ CameraTurns \/ JobStores \/ JobFails \/ LateEnds
    PROVE  ScanIInv'
<1>1. CASE CallEnds
  <2>1. PICK end \in {"scan", "miss"} : call' = [call EXCEPT !.at = end]
    BY <1>1 DEF CallEnds
  <2>2. call' \in [at : {"none", "open", "scan", "miss"}, age : Ages] /\ call'.age = call.age /\ call.at # "none"
    BY <1>1, <2>1 DEF CallEnds, ScanIInv, ScanTypeOK
  <2> QED
    BY <1>1, <2>2 DEF CallEnds, ScanIInv, ScanTypeOK, CallInTime, JobInTime, LidarInTime, DepthInTime, KeptInTime,
       HandedInTime, Within, Served, AsksALidar
<1>2. CASE CameraTurns
  <2>1. job' \in [at : {"none", "open", "lost"}, age : Ages] /\ job'.age = job.age
        /\ (job'.at = "none" <=> job.at = "none")
    BY <1>2 DEF CameraTurns, ScanIInv, ScanTypeOK
  <2> QED
    BY <1>2, <2>1 DEF CameraTurns, ScanIInv, ScanTypeOK, CallInTime, JobInTime, LidarInTime, DepthInTime, KeptInTime,
       HandedInTime, Within, Served, AsksALidar
<1>3. CASE JobStores
  <2>1. job' = NotAsked /\ depth' = [age |-> job.age, at |-> 0] /\ busy' = FALSE /\ job.at # "none"
    BY <1>3 DEF JobStores
  <2>2. job.age \in Ages /\ job.age \in 0 .. Unseen
    BY ScanNumbers DEF ScanIInv, ScanTypeOK
  <2>3. job.age <= StuckAfter + MaxAge \/ since <= 1
    <3>1. CASE ask.at = "rest" \/ ~depthToo
      BY <2>1, <2>2, <3>1, ScanNumbers DEF ScanIInv, ScanTypeOK, JobInTime, Within, Served
    <3>2. CASE ~(ask.at = "rest" \/ ~depthToo)
      BY <2>1, <2>2, <3>2, ScanNumbers DEF ScanIInv, ScanTypeOK, JobInTime, LidarInTime
    <3> QED
      BY <3>1, <3>2
  <2>4. DepthInTime'
    BY <1>3, <2>1, <2>2, <2>3, ScanNumbers DEF JobStores, DepthInTime
  <2>5. ScanTypeOK'
    <3>1. depth' \in [age : 0 .. Unseen, at : Nat] /\ job' \in [at : {"none", "open", "lost"}, age : Ages]
      BY <2>1, <2>2, NotAskedIs
    <3> QED
      BY <1>3, <2>1, <3>1 DEF JobStores, ScanIInv, ScanTypeOK
  <2> QED
    BY <1>3, <2>1, <2>4, <2>5, NotAskedIs DEF JobStores, ScanIInv, CallInTime, JobInTime, LidarInTime, KeptInTime,
       HandedInTime, Within, Served, AsksALidar
<1>4. CASE JobFails
  <2>1. ScanTypeOK'
    BY <1>4, NotAskedIs DEF JobFails, ScanIInv, ScanTypeOK
  <2> QED
    BY <1>4, <2>1, NotAskedIs DEF JobFails, ScanIInv, CallInTime, JobInTime, LidarInTime, DepthInTime, KeptInTime,
       HandedInTime, Within, Served, AsksALidar
<1>5. CASE LateEnds
  <2>1. late' = NotAsked /\ depth' = depth
    BY <1>5 DEF LateEnds, Current
  <2>2. ScanTypeOK'
    BY ZenonT(40), <1>5, <2>1, NotAskedIs DEF LateEnds, ScanIInv, ScanTypeOK
  <2>3. UNCHANGED <<sensors, by, ask, depthToo, call, job, busy, depth, kept, handed, since>>
    BY <1>5, <2>1 DEF LateEnds
  <2> QED
    BY <2>2, <2>3 DEF ScanIInv, CallInTime, JobInTime, LidarInTime, DepthInTime, KeptInTime, HandedInTime,
       Within, Served, AsksALidar
<1> QED
  BY <1>1, <1>2, <1>3, <1>4, <1>5

-----------------------------------------------------------------------------
(* Time                                                                    *)

LEMMA PassesIs ==
    ASSUME ScanTypeOK, Passes
    PROVE  /\ call' \in [at : {"none", "open", "scan", "miss"}, age : Ages] /\ call'.at = call.at
           /\ call'.age <= call.age + 1
           /\ job' \in [at : {"none", "open", "lost"}, age : Ages] /\ job'.at = job.at
           /\ job'.age <= job.age + 1
           /\ late' \in [at : {"none", "open", "lost"}, age : Ages]
           /\ depth' \in [age : 0 .. Unseen, at : Nat]
<1>1. call' \in [at : {"none", "open", "scan", "miss"}, age : Ages] /\ call'.at = call.at
      /\ call'.age <= call.age + 1
  BY WaitingIs DEF Passes, ScanTypeOK
<1>2. job' \in [at : {"none", "open", "lost"}, age : Ages] /\ job'.at = job.at /\ job'.age <= job.age + 1
  BY WaitingIs DEF Passes, ScanTypeOK
<1>3. late' \in [at : {"none", "open", "lost"}, age : Ages]
  BY WaitingIs DEF Passes, ScanTypeOK
<1>4. depth' \in [age : 0 .. Unseen, at : Nat]
  BY AgedIs DEF Passes, ScanTypeOK
<1> QED
  BY <1>1, <1>2, <1>3, <1>4

\* The depth scan and the kept one are a tick older, and so is the asking, unless
\* it begins anew or everything has run out.
LEMMA AgeInTime ==
    ASSUME ScanIInv, depth' = Aged(depth), kept' = Aged(kept), since' \in Nat,
           since' <= since + 1, Settled => since' \in {0, since}
    PROVE  DepthInTime' /\ KeptInTime'
<1>0. depth \in [age : 0 .. Unseen, at : Nat] /\ kept \in [age : 0 .. Unseen, at : Nat] /\ since \in Nat
  BY DEF ScanIInv, ScanTypeOK
<1>1. DepthInTime'
  <2> SUFFICES ASSUME depth'.age # Unseen, depth'.at <= MaxAge
               PROVE  depth'.age <= StuckAfter + MaxAge + depth'.at \/ since' <= 1 + depth'.at
    BY DEF DepthInTime
  <2>1. depth.age # Unseen /\ depth'.at = depth.at + 1 /\ depth'.age <= depth.age + 1
    BY <1>0, AgedIs
  <2>2. depth.age \in Nat /\ depth.at \in Nat /\ depth'.age \in Nat
    BY <1>0, <2>1, AgedIs, ScanNumbers
  <2> QED
    BY SMTT(20), <1>0, <2>1, <2>2, ScanNumbers DEF ScanIInv, DepthInTime
<1>2. KeptInTime'
  <2> SUFFICES ASSUME kept'.age # Unseen, kept'.at <= MaxAge
               PROVE  kept'.age <= StuckAfter + 2 * MaxAge + kept'.at \/ since' <= 1 + MaxAge + kept'.at
    BY DEF KeptInTime, Served
  <2>1. kept.age # Unseen /\ kept'.at = kept.at + 1 /\ kept'.age <= kept.age + 1
    BY <1>0, AgedIs
  <2>2. kept.age \in Nat /\ kept.at \in Nat /\ kept'.age \in Nat
    BY <1>0, <2>1, AgedIs, ScanNumbers
  <2>3. kept.at <= MaxAge
    BY <2>1, <2>2, ScanNumbers
  <2>4. kept.age <= StuckAfter + 2 * MaxAge + kept.at \/ since <= 1 + MaxAge + kept.at
    BY <2>1, <2>3 DEF ScanIInv, KeptInTime, Served
  <2>5. since <= 1 + MaxAge + kept.at => since' <= 1 + MaxAge + kept'.at
    BY <1>0, <2>1, <2>2, ScanNumbers
  <2>6. kept.age <= StuckAfter + 2 * MaxAge + kept.at => kept'.age <= StuckAfter + 2 * MaxAge + kept'.at
    BY SMTT(20), <2>1, <2>2, ScanNumbers
  <2> QED
    BY <2>4, <2>5, <2>6
<1> QED
  BY <1>1, <1>2

\* What was within its time stays so while the kept scan serves, and after a
\* pause.
LEMMA WithinAges ==
    ASSUME ScanTypeOK, kept' = Aged(kept), NEW age \in Nat, NEW older \in Nat, older <= age + 1, NEW cap \in Nat,
           Within(age, cap)
    PROVE  /\ Served' => older <= cap + kept'.at
           /\ ~Served' => older <= cap + MaxAge + 1 \/ since = 0
<1>0. kept \in [age : 0 .. Unseen, at : Nat] /\ since \in Nat
  BY DEF ScanTypeOK
<1>1. Served' => Served /\ kept'.at = kept.at + 1
  <2> SUFFICES ASSUME kept'.age # Unseen, kept'.at <= MaxAge
               PROVE  kept.age # Unseen /\ kept.at <= MaxAge /\ kept'.at = kept.at + 1
    BY DEF Served
  <2>1. kept.age # Unseen /\ kept'.at = kept.at + 1 /\ kept.at \in Nat
    BY <1>0, AgedIs
  <2> QED
    BY <2>1, ScanNumbers
<1>2. kept.at \in Nat
  BY <1>0
<1> QED
  BY <1>0, <1>1, <1>2, ScanNumbers DEF Within, Served

LEMMA ScanPauses == ASSUME ScanIInv, Pauses PROVE ScanIInv'
<1>0. ScanTypeOK /\ ask.at = "rest" /\ ask.got = Unseen
  BY DEF Pauses, ScanIInv, LidarInTime
<1>1. /\ call' \in [at : {"none", "open", "scan", "miss"}, age : Ages] /\ call'.at = call.at
      /\ call'.age <= call.age + 1
      /\ job' \in [at : {"none", "open", "lost"}, age : Ages] /\ job'.at = job.at
      /\ job'.age <= job.age + 1
      /\ late' \in [at : {"none", "open", "lost"}, age : Ages]
      /\ depth' \in [age : 0 .. Unseen, at : Nat]
  BY <1>0, PassesIs DEF Pauses
<1>2. kept' \in [age : 0 .. Unseen, at : Nat]
  BY <1>0, AgedIs DEF Pauses, ScanTypeOK
<1>3. ScanTypeOK'
  BY <1>0, <1>1, <1>2, ScanNumbers DEF Pauses, ScanTypeOK
<1>4. DepthInTime' /\ KeptInTime'
  BY <1>0, AgeInTime DEF Pauses, Passes, ScanTypeOK
<1>5. call.age \in Nat /\ call'.age \in Nat /\ job.age \in Nat /\ job'.age \in Nat
  BY <1>0, <1>1, ScanNumbers DEF ScanTypeOK
<1>6. CallInTime'
  <2> SUFFICES ASSUME call'.at # "none" PROVE CallInTime'
    BY DEF CallInTime
  <2>1. call.at # "none" /\ Within(call.age, StuckAfter)
    BY <1>0, <1>1 DEF ScanIInv, CallInTime
  <2>2. Served' => call'.age <= StuckAfter + kept'.at
    BY <1>0, <1>1, <1>5, <2>1, WithinAges, ScanNumbers DEF Pauses
  <2> QED
    BY <1>0, <2>1, <2>2 DEF Pauses, ScanIInv, CallInTime, Within, Served
<1>7. JobInTime'
  <2> SUFFICES ASSUME job'.at # "none" PROVE JobInTime'
    BY DEF JobInTime
  <2>1. job.at # "none" /\ Within(job.age, StuckAfter - 1) /\ StuckAfter - 1 \in Nat
    BY <1>0, <1>1, ScanNumbers DEF ScanIInv, JobInTime
  <2>2. Served' => job'.age <= StuckAfter - 1 + kept'.at
    BY <1>0, <1>1, <1>5, <2>1, WithinAges DEF Pauses
  <2>3. depth'.age = Unseen \/ depth'.at >= Period
    BY <1>0, <2>1, AgedIs DEF Pauses, Passes, ScanTypeOK, ScanIInv, JobInTime
  <2> QED
    BY <1>0, <2>1, <2>2, <2>3 DEF Pauses, ScanIInv, JobInTime, Within, Served
<1>8. LidarInTime' /\ HandedInTime'
  BY <1>0 DEF Pauses, ScanIInv, LidarInTime, HandedInTime
<1> QED
  BY <1>0, <1>3, <1>4, <1>6, <1>7, <1>8 DEF Pauses, ScanIInv, AsksALidar

LEMMA ScanTick == ASSUME ScanIInv, GetScan PROVE ScanIInv'
<1>0. ScanTypeOK /\ ask.at = "rest" /\ ask.got = Unseen /\ since \in Nat
  BY DEF GetScan, ScanIInv, LidarInTime, ScanTypeOK
<1>1. /\ call' \in [at : {"none", "open", "scan", "miss"}, age : Ages] /\ call'.at = call.at
      /\ call'.age <= call.age + 1
      /\ job' \in [at : {"none", "open", "lost"}, age : Ages] /\ job'.at = job.at
      /\ job'.age <= job.age + 1
      /\ late' \in [at : {"none", "open", "lost"}, age : Ages]
      /\ depth' \in [age : 0 .. Unseen, at : Nat]
  BY <1>0, PassesIs DEF GetScan
<1>2. kept' \in [age : 0 .. Unseen, at : Nat] /\ kept' = Aged(kept)
  BY <1>0, AgedIs DEF GetScan, ScanTypeOK
<1>3. /\ since' \in Nat /\ since <= since' /\ since' <= since + 1 /\ (Settled => since' = since)
      /\ since = 0 => since' <= 1
  BY <1>0 DEF GetScan
<1>4. DepthInTime' /\ KeptInTime'
  BY <1>0, <1>2, <1>3, AgeInTime DEF GetScan, Passes
<1>5. call.age \in Nat /\ call'.age \in Nat /\ job.age \in Nat /\ job'.age \in Nat
  BY <1>0, <1>1, ScanNumbers DEF ScanTypeOK
<1>6. \/ Served' /\ handed' = kept'.age /\ ask' = ask
      \/ /\ ask' = [at |-> IF "lidar" \in sensors THEN "lidar" ELSE "depth", got |-> Unseen]
         /\ handed' = Unseen
  BY DEF GetScan, Asking, Served
<1>7. handed' \in 0 .. Unseen /\ ask'.at \in {"rest", "lidar", "depth"} /\ ask'.got = Unseen
      /\ ask' \in [at : {"rest", "lidar", "poll", "wait", "depth", "merge"}, got : 0 .. Unseen]
  BY <1>0, <1>2, <1>6, ScanNumbers DEF ScanTypeOK
<1>8. ScanTypeOK'
  BY <1>0, <1>1, <1>2, <1>3, <1>7 DEF GetScan, ScanTypeOK
<1>9. CallInTime'
  <2> SUFFICES ASSUME call'.at # "none" PROVE CallInTime'
    BY DEF CallInTime
  <2>1. call.at # "none" /\ Within(call.age, StuckAfter) /\ by = "rpc" /\ "lidar" \in sensors
    BY <1>0, <1>1 DEF ScanIInv, CallInTime
  <2>2. /\ Served' => call'.age <= StuckAfter + kept'.at
        /\ ~Served' => call'.age <= StuckAfter + MaxAge + 1 \/ since = 0
    BY <1>0, <1>1, <1>2, <1>5, <2>1, WithinAges, ScanNumbers
  <2>3. CASE Served' /\ ask' = ask
    BY <1>0, <2>1, <2>2, <2>3 DEF GetScan, CallInTime, Within
  <2>4. CASE ask'.at = "lidar"
    <3>1. call'.age <= StuckAfter + MaxAge + 1 \/ since' <= 1
      BY <1>2, <1>3, <1>5, <2>2, ScanNumbers DEF Served
    <3> QED
      BY <2>1, <2>4, <3>1 DEF GetScan, CallInTime
  <2> QED
    BY <1>6, <2>1, <2>3, <2>4
<1>10. JobInTime'
  <2> SUFFICES ASSUME job'.at # "none" PROVE JobInTime'
    BY DEF JobInTime
  <2>1. job.at # "none" /\ Within(job.age, StuckAfter - 1) /\ StuckAfter - 1 \in Nat
    BY <1>0, <1>1, ScanNumbers DEF ScanIInv, JobInTime
  <2>2. /\ Served' => job'.age <= StuckAfter - 1 + kept'.at
        /\ ~Served' => job'.age <= StuckAfter - 1 + MaxAge + 1 \/ since = 0
    BY <1>0, <1>1, <1>2, <1>5, <2>1, WithinAges
  <2>3. depth'.age = Unseen \/ depth'.at >= Period
    BY <1>0, <2>1, AgedIs DEF GetScan, Passes, ScanTypeOK, ScanIInv, JobInTime
  <2>4. job'.age <= StuckAfter + MaxAge \/ since' <= 1
    BY <1>2, <1>3, <1>5, <2>2, ScanNumbers DEF Served
  <2>5. ask'.at = "rest" => Served'
    BY <1>6
  <2>6. depthToo' = TRUE /\ busy' = busy /\ sensors' = sensors
    BY DEF GetScan
  <2> QED
    BY <1>0, <1>7, <2>1, <2>2, <2>3, <2>4, <2>5, <2>6 DEF ScanIInv, JobInTime, Within
<1>11. LidarInTime'
  BY <1>7 DEF GetScan, ScanIInv, LidarInTime
<1>12. HandedInTime'
  <2> SUFFICES ASSUME handed' # Unseen PROVE handed' <= Bound \/ since' <= 1 + 2 * MaxAge
    BY DEF HandedInTime
  <2>1. Served' /\ handed' = kept'.age
    BY <1>6
  <2>2. kept'.at <= MaxAge /\ kept'.at \in Nat /\ kept'.age \in Nat
    BY <1>2, <2>1, ScanNumbers DEF Served
  <2> QED
    BY <1>3, <1>4, <2>1, <2>2, ScanNumbers DEF KeptInTime
<1>13. AsksALidar'
  BY <1>0, <1>6 DEF GetScan, AsksALidar
<1> QED
  BY <1>4, <1>8, <1>9, <1>10, <1>11, <1>12, <1>13 DEF ScanIInv

-----------------------------------------------------------------------------
(* The steps of get_scan                                                   *)

Stops == {"rest", "lidar", "poll", "wait", "depth", "merge"}

LEMMA LidarAsked == ASSUME ScanIInv, GetLidarScan PROVE ScanIInv'
<1>0. ScanTypeOK /\ ask.at = "rest"
  BY DEF GetLidarScan, ScanIInv
<1>1. /\ ask' = [at |-> IF "lidar" \in sensors THEN "lidar" ELSE "depth", got |-> Unseen]
      /\ depthToo' = FALSE /\ handed' = Unseen
      /\ UNCHANGED <<sensors, by, sees, call, job, late, busy, depth, kept, since>>
  BY DEF GetLidarScan, Asking
<1>2. ask' \in [at : Stops, got : 0 .. Unseen] /\ ask'.at \in {"lidar", "depth"} /\ ask'.got = Unseen
      /\ handed' \in 0 .. Unseen
  BY <1>1, ScanNumbers DEF Stops
<1>3. ScanTypeOK'
  BY <1>0, <1>1, <1>2 DEF ScanTypeOK, Stops
<1>4. CallInTime'
  <2> SUFFICES ASSUME call.at # "none" PROVE CallInTime'
    BY <1>1 DEF CallInTime
  <2>1. Within(call.age, StuckAfter) /\ by = "rpc" /\ "lidar" \in sensors
    BY <1>0 DEF ScanIInv, CallInTime
  <2>2. call.age <= StuckAfter + MaxAge + 1 \/ since <= 1
    BY <1>0, <2>1, ScanNumbers DEF Within, Served, ScanTypeOK
  <2> QED
    BY <1>1, <2>1, <2>2 DEF CallInTime
<1>5. JobInTime'
  BY <1>0, <1>1 DEF ScanIInv, JobInTime, Within, Served
<1>6. LidarInTime' /\ DepthInTime' /\ KeptInTime' /\ HandedInTime'
  BY <1>0, <1>1, <1>2 DEF ScanIInv, LidarInTime, DepthInTime, KeptInTime, HandedInTime, Served
<1>7. AsksALidar'
  BY <1>1 DEF AsksALidar
<1> QED
  BY <1>3, <1>4, <1>5, <1>6, <1>7 DEF ScanIInv

\* A step that goes on with what the lidar gave.
LEMMA LidarGoesOn ==
    ASSUME ScanIInv, NEW at \in {"wait", "depth"}, NEW age \in 0 .. Unseen, Then(at, age), Others,
           busy' = busy, ask.at \in {"lidar", "wait"},
           at = "wait" => age = Unseen,
           age # Unseen => age <= StuckAfter + MaxAge + 1 \/ since <= 1,
           call' \in [at : {"none", "open", "scan", "miss"}, age : Ages],
           call'.at # "none" => by = "rpc" /\ "lidar" \in sensors /\ call'.age <= StuckAfter
    PROVE  ScanIInv'
<1>1. ask' = [at |-> at, got |-> age]
  BY DEF Then
<1>2. ScanTypeOK'
  BY <1>1 DEF Others, ScanIInv, ScanTypeOK
<1>3. CallInTime' /\ LidarInTime'
  BY <1>1 DEF Others, ScanIInv, CallInTime, LidarInTime
<1>4. JobInTime'
  BY <1>1 DEF Others, ScanIInv, JobInTime, Within, Served
<1>5. DepthInTime' /\ KeptInTime' /\ HandedInTime'
  BY DEF Others, ScanIInv, DepthInTime, KeptInTime, HandedInTime, Served
<1>6. AsksALidar'
  BY <1>1 DEF Others, ScanIInv, AsksALidar
<1> QED
  BY <1>2, <1>3, <1>4, <1>5, <1>6 DEF ScanIInv

LEMMA FrameRead == ASSUME ScanIInv, ReadsFrame PROVE ScanIInv'
<1>0. ScanTypeOK /\ ask.at = "lidar" /\ by = "required" /\ call' = call /\ call.at = "none" /\ Others /\ busy' = busy
  BY DEF ReadsFrame, ScanIInv, ScanTypeOK, LidarInTime, CallInTime
<1>1. call' \in [at : {"none", "open", "scan", "miss"}, age : Ages]
  BY <1>0 DEF ScanTypeOK
<1>2. ASSUME NEW a \in 0 .. FrameAge, Then("depth", a) PROVE ScanIInv'
  <2>1. a \in 0 .. Unseen /\ a <= StuckAfter + MaxAge + 1
    BY ScanNumbers
  <2> QED
    BY <1>0, <1>1, <1>2, <2>1, LidarGoesOn
<1>3. ASSUME Then("depth", Unseen) PROVE ScanIInv'
  <2>1. Unseen \in 0 .. Unseen
    BY ScanNumbers
  <2> QED
    BY <1>0, <1>1, <1>3, <2>1, LidarGoesOn
<1> QED
  BY <1>0, <1>2, <1>3 DEF ReadsFrame

LEMMA CallPolled == ASSUME ScanIInv, PollsCall PROVE ScanIInv'
<1>0. ScanTypeOK /\ ask.at = "lidar" /\ by = "rpc" /\ Others /\ busy' = busy /\ Unseen \in 0 .. Unseen
  BY ScanNumbers DEF PollsCall, ScanIInv, LidarInTime
<1>1. CASE call.at \in {"scan", "miss"} /\ Then("depth", Collected) /\ call' = NotAsked
  <2>1. call.age \in 0 .. Unseen /\ (call.age <= StuckAfter + MaxAge + 1 \/ since <= 1)
    BY <1>0, <1>1, ScanNumbers DEF ScanIInv, ScanTypeOK, CallInTime
  <2>2. Collected \in 0 .. Unseen /\ (Collected # Unseen => Collected <= StuckAfter + MaxAge + 1 \/ since <= 1)
    BY <1>0, <2>1 DEF Collected
  <2> QED
    BY <1>0, <1>1, <2>2, NotAskedIs, LidarGoesOn
<1>2. CASE call.at = "open" /\ ~IsStuck /\ Then("depth", Unseen) /\ UNCHANGED call
  <2>1. call.age <= StuckAfter /\ call' \in [at : {"none", "open", "scan", "miss"}, age : Ages]
        /\ "lidar" \in sensors
    BY <1>0, <1>2, ScanNumbers DEF IsStuck, ScanIInv, ScanTypeOK, CallInTime
  <2> QED
    BY <1>0, <1>2, <2>1, LidarGoesOn
<1>3. CASE Then("wait", Unseen) /\ call' = [at |-> "open", age |-> 0]
  <2>1. call' \in [at : {"none", "open", "scan", "miss"}, age : Ages] /\ call'.age <= StuckAfter
    BY <1>3, ScanNumbers
  <2>2. "lidar" \in sensors
    BY <1>0 DEF ScanIInv, AsksALidar
  <2> QED
    BY <1>0, <1>3, <2>1, <2>2, LidarGoesOn
<1> QED
  BY <1>1, <1>2, <1>3 DEF PollsCall

LEMMA CallAwaited == ASSUME ScanIInv, AwaitsCall PROVE ScanIInv'
<1>0. ScanTypeOK /\ ask.at = "wait" /\ Others /\ busy' = busy /\ Then("depth", Collected)
  BY DEF AwaitsCall, ScanIInv
<1>1. call.age \in 0 .. Unseen /\ (call.at # "none" => call.age <= StuckAfter /\ by = "rpc" /\ "lidar" \in sensors)
  BY <1>0, ScanNumbers DEF ScanIInv, ScanTypeOK, CallInTime
<1>2. Collected \in 0 .. Unseen /\ (Collected # Unseen => Collected <= StuckAfter + MaxAge + 1)
  BY <1>1, ScanNumbers DEF Collected
<1>3. call' \in [at : {"none", "open", "scan", "miss"}, age : Ages]
      /\ (call'.at # "none" => by = "rpc" /\ "lidar" \in sensors /\ call'.age <= StuckAfter)
  BY <1>0, <1>1, NotAskedIs DEF AwaitsCall, ScanTypeOK
<1> QED
  BY <1>0, <1>2, <1>3, LidarGoesOn

LEMMA DepthKicked == ASSUME ScanIInv, KicksDepth PROVE ScanIInv'
<1>0. ScanTypeOK /\ ask.at = "depth" /\ ask' = [ask EXCEPT !.at = "merge"]
      /\ UNCHANGED <<sensors, by, sees, depthToo, call, depth, kept, handed, since>>
  BY DEF KicksDepth, ScanIInv
<1>1. ask'.at = "merge" /\ ask'.got = ask.got /\ ask' \in [at : Stops, got : 0 .. Unseen]
  BY <1>0 DEF ScanTypeOK, Stops
<1>2. CASE "depth" \in sensors /\ depthToo /\ (busy => GivenUp)
  <2>1. /\ busy' = ~Recent
        /\ job' = IF Recent THEN job ELSE [at |-> IF sees THEN "open" ELSE "lost", age |-> 0]
        /\ late' = IF Recent \/ job.at = "none" THEN late ELSE job
    BY <1>2 DEF KicksDepth
  <2>2. Recent => job.at = "none"
    BY <1>0, ScanNumbers DEF Recent, ScanIInv, JobInTime, ScanTypeOK
  <2>3. job' \in [at : {"none", "open", "lost"}, age : Ages] /\ late' \in [at : {"none", "open", "lost"}, age : Ages]
    <3>1. [at |-> IF sees THEN "open" ELSE "lost", age |-> 0] \in [at : {"none", "open", "lost"}, age : Ages]
      BY ScanNumbers
    <3> QED
      BY <1>0, <2>1, <3>1 DEF ScanTypeOK
  <2>4. ScanTypeOK'
    <3>1. busy' \in BOOLEAN
      BY <2>1
    <3> QED
      BY <1>0, <1>1, <2>3, <3>1 DEF ScanTypeOK, Stops
  <2>5. JobInTime'
    <3>1. CASE Recent
      BY <2>1, <2>2, <3>1 DEF JobInTime
    <3>2. CASE ~Recent
      <4>2. job' = [at |-> IF sees THEN "open" ELSE "lost", age |-> 0]
        BY <2>1, <3>2
      <4>3. busy' /\ job'.age = 0
        <5>1. busy'
          BY <2>1, <3>2
        <5>2. job'.age = 0
          BY <4>2
        <5> QED
          BY <5>1, <5>2
      <4>4. depth.at \in Nat /\ Period \in Nat
        BY <1>0, ScanNumbers, NavScanAssumption DEF ScanTypeOK
      <4>5. depth.age = Unseen \/ depth.at >= Period
        BY <3>2, <4>4 DEF Recent
      <4>1. busy' /\ job'.age = 0 /\ (depth.age = Unseen \/ depth.at >= Period)
        BY <4>3, <4>5
      <4> QED
        BY <1>0, <1>1, <1>2, <4>1, ScanNumbers DEF JobInTime
    <3> QED
      BY <3>1, <3>2
  <2> QED
    BY <1>0, <1>1, <2>4, <2>5 DEF ScanIInv, CallInTime, LidarInTime, DepthInTime, KeptInTime, HandedInTime, Served,
       AsksALidar
<1>3. CASE ~("depth" \in sensors /\ depthToo /\ (busy => GivenUp))
  <2>1. UNCHANGED <<job, late, busy>>
    BY <1>3 DEF KicksDepth
  <2>2. ScanTypeOK'
    BY <1>0, <1>1, <2>1 DEF ScanTypeOK, Stops
  <2>3. JobInTime'
    <3> SUFFICES ASSUME job.at # "none" PROVE JobInTime'
      BY <2>1 DEF JobInTime
    <3>1. busy /\ "depth" \in sensors /\ job.age \in Nat
      BY <1>0, ScanNumbers DEF ScanIInv, JobInTime, ScanTypeOK
    <3>2. depthToo => job.age <= StuckAfter - 1
      BY <1>3, <3>1, ScanNumbers DEF GivenUp
    <3> QED
      BY <1>0, <1>1, <2>1, <3>2 DEF ScanIInv, JobInTime, Within, Served
  <2> QED
    BY <1>0, <1>1, <2>1, <2>2, <2>3 DEF ScanIInv, CallInTime, LidarInTime, DepthInTime, KeptInTime, HandedInTime,
       Served, AsksALidar
<1> QED
  BY <1>2, <1>3

LEMMA ScanMerged == ASSUME ScanIInv, Merges PROVE ScanIInv'
<1>0. ScanTypeOK /\ ask.at = "merge" /\ ask' = [at |-> "rest", got |-> Unseen]
      /\ UNCHANGED <<sensors, by, sees, depthToo, call, job, late, busy, depth, since>>
  BY DEF Merges, ScanIInv
<1>1. PICK near \in BOOLEAN :
        LET ages == Usable(near) \cup ({ask.got} \ {Unseen})
            oldest == CHOOSE a \in ages : \A b \in ages : b <= a
        IN IF ages = {}
           THEN /\ handed' = IF depthToo /\ Reusable(kept) THEN kept.age ELSE Unseen
                /\ UNCHANGED kept
           ELSE /\ handed' = oldest
                /\ kept' = IF depthToo THEN [age |-> oldest, at |-> 0] ELSE kept
  BY DEF Merges
<1> DEFINE ages == Usable(near) \cup ({ask.got} \ {Unseen})
           oldest == CHOOSE a \in ages : \A b \in ages : b <= a
<1>2. /\ since \in Nat /\ depth \in [age : 0 .. Unseen, at : Nat] /\ kept \in [age : 0 .. Unseen, at : Nat]
      /\ ask.got \in 0 .. Unseen
  BY <1>0 DEF ScanTypeOK
<1>3. \A a \in ages : a \in 0 .. Unseen /\ a # Unseen
                     /\ (a <= StuckAfter + 2 * MaxAge \/ since <= 1 + MaxAge)
  <2>1. ask.got # Unseen => ask.got <= StuckAfter + 2 * MaxAge \/ since <= 1 + MaxAge
    BY <1>2, ScanNumbers DEF ScanIInv, LidarInTime
  <2>2. depth.age # Unseen /\ depth.at <= MaxAge => depth.age <= StuckAfter + 2 * MaxAge \/ since <= 1 + MaxAge
    BY <1>2, ScanNumbers DEF ScanIInv, DepthInTime
  <2> QED
    BY <1>2, <2>1, <2>2 DEF Usable
<1>4. ages # {} => oldest \in ages
  <2>1. ages \subseteq {depth.age, ask.got} /\ depth.age \in Nat /\ ask.got \in Nat
    BY <1>2, ScanNumbers DEF Usable
  <2>2. ages # {} => \E a \in ages : \A b \in ages : b <= a
    BY <2>1
  <2> QED
    BY <2>2
<1>5. IF ages = {}
      THEN /\ handed' = IF depthToo /\ Reusable(kept) THEN kept.age ELSE Unseen
           /\ UNCHANGED kept
      ELSE /\ handed' = oldest
           /\ kept' = IF depthToo THEN [age |-> oldest, at |-> 0] ELSE kept
  BY <1>1
<1> HIDE DEF ages, oldest
<1>6. oldest \in ages => oldest \in 0 .. Unseen /\ oldest # Unseen
                        /\ (oldest <= StuckAfter + 2 * MaxAge \/ since <= 1 + MaxAge)
  BY <1>3
<1>7. kept' \in [age : 0 .. Unseen, at : Nat] /\ handed' \in 0 .. Unseen
  BY <1>2, <1>4, <1>5, <1>6, ScanNumbers
<1>8. ScanTypeOK'
  BY <1>0, <1>7, ScanNumbers DEF ScanTypeOK
<1>9. HandedInTime'
  <2>1. CASE ages = {}
    <3> SUFFICES ASSUME handed' # Unseen PROVE kept.age <= Bound \/ since <= 1 + 2 * MaxAge
      BY <1>0, <1>5, <2>1 DEF HandedInTime
    <3>1. Served
      BY <1>5, <2>1 DEF Reusable, Served
    <3> QED
      BY <1>2, <3>1, ScanNumbers DEF ScanIInv, KeptInTime, Served
  <2>2. CASE ages # {}
    BY <1>0, <1>2, <1>4, <1>5, <1>6, <2>2, ScanNumbers DEF HandedInTime
  <2> QED
    BY <2>1, <2>2
<1>10. kept' = kept \/ (depthToo /\ kept'.at = 0 /\ kept'.age = oldest /\ oldest \in ages)
  BY <1>4, <1>5
<1>11. KeptInTime'
  <2>1. CASE kept' = kept
    BY <1>0, <2>1 DEF ScanIInv, KeptInTime, Served
  <2>2. CASE kept'.at = 0 /\ kept'.age = oldest /\ oldest \in ages
    BY <1>0, <1>2, <1>6, <2>2, ScanNumbers DEF KeptInTime
  <2> QED
    BY <1>10, <2>1, <2>2
<1>12. CallInTime'
  <2> SUFFICES ASSUME call.at # "none" PROVE CallInTime'
    BY <1>0 DEF CallInTime
  <2>1. call.age <= StuckAfter /\ by = "rpc" /\ "lidar" \in sensors /\ call.age \in Nat
    BY <1>0, ScanNumbers DEF ScanIInv, CallInTime, ScanTypeOK
  <2>2. kept'.at \in Nat
    BY <1>7
  <2>3. Within(call.age, StuckAfter)'
    BY <1>0, <2>1, <2>2, ScanNumbers DEF Within
  <2> QED
    BY <1>0, <2>1, <2>3 DEF CallInTime
<1>13. JobInTime'
  <2> SUFFICES ASSUME job.at # "none" PROVE JobInTime'
    BY <1>0 DEF JobInTime
  <2>1. job.age \in Nat /\ kept'.at \in Nat
    BY <1>0, <1>7, ScanNumbers DEF ScanTypeOK
  <2>2. Within(job.age, StuckAfter - 1)'
    <3>1. CASE depthToo
      <4>1. job.age <= StuckAfter - 1
        BY <1>0, <3>1 DEF ScanIInv, JobInTime
      <4> QED
        BY <1>0, <2>1, <4>1, ScanNumbers DEF Within
    <3>2. CASE ~depthToo
      <4>1. kept' = kept
        BY <1>10, <3>2
      <4> QED
        BY <1>0, <3>2, <4>1 DEF ScanIInv, JobInTime, Within, Served
    <3> QED
      BY <3>1, <3>2
  <2> QED
    BY <1>0, <2>2 DEF ScanIInv, JobInTime
<1>14. LidarInTime' /\ DepthInTime'
  BY <1>0 DEF ScanIInv, LidarInTime, DepthInTime
<1> QED
  BY <1>0, <1>8, <1>9, <1>11, <1>12, <1>13, <1>14 DEF ScanIInv, AsksALidar

LEMMA ScanStep == ASSUME ScanIInv, [NavScanNext]_navScanVars PROVE ScanIInv'
<1>1. CASE UNCHANGED navScanVars
  BY <1>1 DEF navScanVars, ScanIInv, ScanTypeOK, CallInTime, JobInTime, LidarInTime, DepthInTime, KeptInTime,
     HandedInTime, Within, Served, AsksALidar
<1>2. CASE NavScanNext
  BY <1>2, ScanLoop, ScanPauses, ScanTick, LidarAsked, FrameRead, CallPolled, CallAwaited, DepthKicked, ScanMerged
     DEF NavScanNext, Asks, Proceeds
<1> QED
  BY <1>1, <1>2

LEMMA ScanInductive == ASSUME NoFallback PROVE NavScanSpec => []ScanIInv
<1>1. NavScanInit => ScanIInv
  BY ScanInit
<1>2. ScanIInv /\ [NavScanNext]_navScanVars => ScanIInv'
  BY ScanStep
<1> QED
  BY <1>1, <1>2, PTL DEF NavScanSpec

(* The ages of the scans, of the call and of the jobs, and where a call of  *)
(* get_scan stands, keep their types, for a lidar that is read one way.     *)
THEOREM ScanTypes == ASSUME NoFallback PROVE NavScanSpec => []ScanTypeOK
<1>1. ScanIInv => ScanTypeOK
  BY DEF ScanIInv
<1> QED
  BY <1>1, ScanInductive, PTL

(* FreshScans: a navigator that goes on asking is never handed something   *)
(* measured longer ago than a stuck call and three times max_age, for any   *)
(* sensors and any ages, when the lidar has no second way to be read.       *)
THEOREM ScansAreFresh == ASSUME NoFallback PROVE NavScanSpec => []FreshScans
<1>1. ScanIInv => FreshScans
  <2> SUFFICES ASSUME ScanIInv, Settled, handed # Unseen PROVE handed <= Bound
    BY DEF FreshScans
  <2>1. since > 1 + 2 * MaxAge /\ since \in Nat
    BY ScanNumbers DEF Settled, ScanIInv, ScanTypeOK
  <2> QED
    BY <2>1, ScanNumbers DEF ScanIInv, HandedInTime
<1> QED
  BY <1>1, ScanInductive, PTL

-----------------------------------------------------------------------------
(* The ports of the lidar and the IMU (UsbPorts)                           *)

\* A driver that goes through the candidates: not one with a fixed path, nor
\* one that reconnects.
Seeking(o) ==
    \/ drv[o].pc \in {"list", "next", "fail", "claim"}
    \/ drv[o].pc \in {"probe", "asking"} /\ drv[o].cand # {}

\* As long as the sensor is plugged in, its port is still to be tried, is being
\* tried, or has an old claim of the other driver.
SensorAhead(o) ==
    /\ Plugged(o)
    /\ drv[o].pc = "list" /\ drv[o].round = 1 => o \in drv[o].cand
    /\ \/ drv[o].pc \in {"list", "claim"}
       \/ o \in drv[o].todo
       \/ node[o] \in stale
       \/ drv[o].pc = "probe" /\ drv[o].path = o
       \/ drv[o].pc = "asking" /\ fd[o] = o

SearchHolds(o) ==
    /\ drv[o].pc \in {"up", "lost"} => drv[o].cand = {}
    /\ Seeking(o) =>
         /\ ~drv[o].loop /\ drv[o].todo \subseteq drv[o].cand
         /\ drv[o].pc \in {"probe", "asking", "fail", "claim"} => drv[o].path \in Devices
         /\ drv[o].pc = "asking" /\ fd[o] \in Devices => fd[o] = drv[o].path
         /\ drv[o].pc = "claim" => drv[o].path = o
         /\ o \notin missed => SensorAhead(o)

\* The open lock is held while a port is asked, and only then is a port open
\* that is not the driver's own.
AskedAlone ==
    \A o \in Drivers :
      /\ usb = o <=> drv[o].pc = "asking"
      /\ fd[o] \in Devices /\ fd[o] # o => drv[o].pc = "asking"

\* A claim is on the node its owner's sensor has, or an old one.
ClaimsKnown ==
    \A n \in Nodes, w \in Drivers : claims[n] = w => node[w] = n \/ n \in stale

\* The sensors' own bridges are not of the chip that their driver refuses.
BridgesFit == \A o \in Drivers : bridge[o] # Reserved(o) /\ o \in {d \in Devices :
                 Safe(d) /\ ((bridge[d] = "cp210") <=> (Setting(o) = "cp210"))}

PortsIInv ==
    /\ PortsTypeOK /\ BridgesFit /\ AskedAlone /\ ClaimsKnown /\ PortsApart
    /\ \A o \in Drivers : SearchHolds(o)

LEMMA OtherDriver ==
    ASSUME NEW o \in Drivers
    PROVE  Other(o) \in Drivers /\ Other(o) # o /\ \A w \in Drivers : w # o => w = Other(o)
  BY DEF Drivers, Other

LEMMA NamesApart == Drivers \subseteq Devices /\ None \notin Devices /\ None \notin Nodes
                    /\ Nodes \cap Devices = {} /\ "dead" \notin Devices
  BY PortsAssumption DEF Drivers, Devices, None

\* What is behind a path is a device, and its own link leads to it.
LEMMA BehindPath ==
    ASSUME PortsTypeOK, NEW path \in Paths \cup {None}
    PROVE  /\ DeviceAt(path) \in Devices \cup {None}
           /\ path \in Devices => DeviceAt(path) = IF Plugged(path) THEN path ELSE None
<1>1. CASE path \in Devices
  BY <1>1, NamesApart DEF DeviceAt
<1>2. CASE path \notin Devices /\ \E d \in Devices : node[d] = path
  <2>1. PICK d \in Devices : node[d] = path
    BY <1>2
  <2>2. DeviceAt(path) = CHOOSE e \in Devices : node[e] = path
    BY <1>2 DEF DeviceAt
  <2>3. DeviceAt(path) \in Devices /\ node[DeviceAt(path)] = path
    BY <2>1, <2>2
  <2> QED BY <1>2, <2>3
<1>3. CASE path \notin Devices /\ ~\E d \in Devices : node[d] = path
  BY <1>3 DEF DeviceAt
<1> QED BY <1>1, <1>2, <1>3

DrvRecs == [pc : {"off", "list", "next", "probe", "asking", "claim", "fail", "up", "lost"},
            path : Paths \cup {None}, cand : SUBSET Devices, todo : SUBSET Devices,
            round : 1 .. Rounds, again : BOOLEAN, loop : BOOLEAN]

LEMMA DrvType == PortsTypeOK => \A o \in Drivers : drv[o] \in DrvRecs
  BY DEF PortsTypeOK, DrvRecs

LEMMA IdleType == Idle \in DrvRecs
  BY DEF Idle, DrvRecs, Rounds

LEMMA FreshType ==
    ASSUME NEW path \in Paths, NEW cand \in SUBSET Devices
    PROVE  /\ [Idle EXCEPT !.pc = "probe", !.path = path] \in DrvRecs
           /\ [Idle EXCEPT !.pc = "list", !.cand = cand] \in DrvRecs
  BY IdleType DEF DrvRecs

LEMMA CandidatesAre == \A o \in Drivers : Candidates(o) \in SUBSET Devices
  BY DEF Candidates

LEMMA NotOpenType ==
    ASSUME PortsTypeOK, NEW o \in Drivers, NEW b \in BOOLEAN, NotOpen(o, b)
    PROVE  drv' \in [Drivers -> DrvRecs]
<1>1. drv \in [Drivers -> DrvRecs]
  BY DEF PortsTypeOK, DrvRecs
<1>2. drv[o] \in DrvRecs
  BY <1>1
<1>3. [drv[o] EXCEPT !.pc = "fail", !.again = @ \/ b] \in DrvRecs
  BY <1>2 DEF DrvRecs
<1>4. [drv[o] EXCEPT !.pc = "lost"] \in DrvRecs
  BY <1>2 DEF DrvRecs
<1>5. CASE Searching(o)
  <2>1. drv' = [drv EXCEPT ![o] = Failed(o, b)]
    BY <1>1, <1>5 DEF NotOpen
  <2> QED BY <1>1, <1>3, <2>1 DEF Failed
<1>6. CASE ~Searching(o) /\ drv[o].loop
  <2>1. drv' = [drv EXCEPT ![o] = [drv[o] EXCEPT !.pc = "lost"]]
    BY <1>1, <1>6 DEF NotOpen
  <2> QED BY <1>1, <1>4, <2>1
<1>7. CASE ~Searching(o) /\ ~drv[o].loop
  <2>1. drv' = [drv EXCEPT ![o] = Idle]
    BY <1>1, <1>7 DEF NotOpen
  <2> QED BY <1>1, IdleType, <2>1
<1> QED BY <1>5, <1>6, <1>7

LEMMA GoesType ==
    ASSUME PortsTypeOK, NEW o \in Drivers,
           NEW at \in {"off", "list", "next", "probe", "asking", "claim", "fail", "up", "lost"},
           Goes(o, at)
    PROVE  drv' \in [Drivers -> DrvRecs]
<1>1. drv \in [Drivers -> DrvRecs]
  BY DEF PortsTypeOK, DrvRecs
<1>2. [drv[o] EXCEPT !.pc = at] \in DrvRecs
  BY <1>1 DEF DrvRecs
<1>3. drv' = [drv EXCEPT ![o] = [drv[o] EXCEPT !.pc = at]]
  BY DEF Goes
<1> QED BY <1>1, <1>2, <1>3

\* What an action may do to where the drivers are.
LEMMA DrvStep ==
    ASSUME PortsTypeOK, PortsNext
    PROVE  drv' \in [Drivers -> DrvRecs]
<1>1. drv \in [Drivers -> DrvRecs]
  BY DEF PortsTypeOK, DrvRecs
<1>2. CASE UNCHANGED drv
  BY <1>1, <1>2
<1>3. ASSUME NEW o \in Drivers, Configure(o) PROVE drv' \in [Drivers -> DrvRecs]
  <2>1. CASE \E path \in FixedPaths :
               drv' = [drv EXCEPT ![o] = [Idle EXCEPT !.pc = "probe", !.path = path]]
    <3>1. PICK path \in Paths :
             drv' = [drv EXCEPT ![o] = [Idle EXCEPT !.pc = "probe", !.path = path]]
      BY <2>1, PortsAssumption
    <3>2. [Idle EXCEPT !.pc = "probe", !.path = path] \in DrvRecs
      BY FreshType
    <3> QED BY <1>1, <3>1, <3>2
  <2>2. CASE drv' = [drv EXCEPT ![o] = [Idle EXCEPT !.pc = "list", !.cand = Candidates(o)]]
    <3>1. [Idle EXCEPT !.pc = "list", !.cand = Candidates(o)] \in DrvRecs
      <4>1. Candidates(o) \in SUBSET Devices
        BY CandidatesAre
      <4> QED BY <4>1, IdleType DEF DrvRecs
    <3> QED BY <1>1, <2>2, <3>1
  <2> QED BY <1>3, <2>1, <2>2 DEF Configure
<1>4. ASSUME NEW o \in Drivers, Close(o) \/ GivesUp(o) PROVE drv' \in [Drivers -> DrvRecs]
  <2>1. drv' = [drv EXCEPT ![o] = Idle]
    BY <1>4 DEF Close, GivesUp
  <2> QED BY <1>1, <2>1, IdleType
<1>5. ASSUME NEW o \in Drivers, List(o) PROVE drv' \in [Drivers -> DrvRecs]
  <2>1. PICK found \in SUBSET Devices :
           drv' = [drv EXCEPT ![o].pc = "next", ![o].cand = Unclaimed(o, found),
                              ![o].todo = Unclaimed(o, found), ![o].again = FALSE]
    <3>1. drv[o].cand \in SUBSET Devices
      BY <1>1 DEF DrvRecs
    <3> QED BY <1>5, <3>1, CandidatesAre DEF List
  <2>2. Unclaimed(o, found) \in SUBSET Devices
    BY DEF Unclaimed
  <2>3. drv[o] \in DrvRecs
    BY <1>1
  <2>4. [drv[o] EXCEPT !.pc = "next", !.cand = Unclaimed(o, found),
                       !.todo = Unclaimed(o, found), !.again = FALSE] \in DrvRecs
    BY <2>2, <2>3 DEF DrvRecs
  <2>5. drv' = [drv EXCEPT ![o] = [drv[o] EXCEPT !.pc = "next", !.cand = Unclaimed(o, found),
                       !.todo = Unclaimed(o, found), !.again = FALSE]]
    BY <1>1, <2>1
  <2> QED BY <1>1, <2>4, <2>5
<1>6. ASSUME NEW o \in Drivers, NextPort(o) PROVE drv' \in [Drivers -> DrvRecs]
  <2>1. PICK p \in drv[o].todo :
           drv' = [drv EXCEPT ![o].pc = "probe", ![o].path = p, ![o].todo = @ \ {p}]
    BY <1>6 DEF NextPort
  <2>2. p \in Paths /\ drv[o] \in DrvRecs
    BY <1>1 DEF DrvRecs, Paths
  <2>3. [drv[o] EXCEPT !.pc = "probe", !.path = p, !.todo = @ \ {p}] \in DrvRecs
    BY <2>2 DEF DrvRecs
  <2>4. drv' = [drv EXCEPT ![o] = [drv[o] EXCEPT !.pc = "probe", !.path = p, !.todo = @ \ {p}]]
    BY <1>1, <2>1
  <2> QED BY <1>1, <2>3, <2>4
<1>7. ASSUME NEW o \in Drivers, NextRound(o) PROVE drv' \in [Drivers -> DrvRecs]
  <2>1. drv[o] \in DrvRecs /\ drv[o].round < Rounds
    BY <1>1, <1>7 DEF NextRound
  <2> DEFINE k == drv[o].round + 1
  <2>4. k \in 1 .. Rounds
    BY <2>1 DEF DrvRecs, Rounds
  <2>5. [drv[o] EXCEPT !.pc = "list", !.round = k] \in DrvRecs
    <3> HIDE DEF k
    <3> QED BY <2>1, <2>4 DEF DrvRecs
  <2>2. [drv[o] EXCEPT !.pc = "list", !.round = @ + 1] \in DrvRecs
    BY <2>5
  <2>3. drv' = [drv EXCEPT ![o] = [drv[o] EXCEPT !.pc = "list", !.round = @ + 1]]
    BY <1>1, <1>7 DEF NextRound
  <2> QED BY <1>1, <2>2, <2>3
<1>8. ASSUME NEW o \in Drivers, ProbeFailed(o) PROVE drv' \in [Drivers -> DrvRecs]
  BY <1>8, GoesType DEF ProbeFailed
<1>9. ASSUME NEW o \in Drivers, Claim(o) PROVE drv' \in [Drivers -> DrvRecs]
  <2>1. drv[o].path \in Paths \cup {None} /\ (o = "lidar") \in BOOLEAN
    BY <1>1 DEF DrvRecs
  <2>2. [Idle EXCEPT !.pc = "up", !.path = drv[o].path, !.loop = (o = "lidar")] \in DrvRecs
    BY <2>1, IdleType DEF DrvRecs
  <2> QED BY <1>1, <1>9, <2>2 DEF Claim
<1>10. ASSUME NEW o \in Drivers, Open(o) PROVE drv' \in [Drivers -> DrvRecs]
  <2>1. PICK b \in BOOLEAN : NotOpen(o, b) \/ Goes(o, "asking")
    <3>1. (DeviceAt(drv[o].path) = None \/ MayOpen(o, DeviceAt(drv[o].path))) \in BOOLEAN
      OBVIOUS
    <3> QED BY <1>10, <3>1 DEF Open
  <2> QED BY <2>1, NotOpenType, GoesType
<1>11. ASSUME NEW o \in Drivers, Answers(o) PROVE drv' \in [Drivers -> DrvRecs]
  <2>1. CASE Goes(o, "claim")
    BY <2>1, GoesType
  <2>2. CASE drv' = [drv EXCEPT ![o].pc = "up", ![o].loop = (o = "lidar")]
    <3>1. [drv[o] EXCEPT !.pc = "up", !.loop = (o = "lidar")] \in DrvRecs
      <4>1. drv[o] \in DrvRecs
        BY <1>1
      <4> QED BY <4>1 DEF DrvRecs
    <3>2. drv' = [drv EXCEPT ![o] = [drv[o] EXCEPT !.pc = "up", !.loop = (o = "lidar")]]
      BY <1>1, <2>2
    <3> QED BY <1>1, <3>1, <3>2
  <2> QED BY <1>11, <2>1, <2>2 DEF Answers
<1>12. ASSUME NEW o \in Drivers, NoAnswer(o) PROVE drv' \in [Drivers -> DrvRecs]
  <2>1. (fd[o] = "dead") \in BOOLEAN /\ NotOpen(o, fd[o] = "dead")
    BY <1>12 DEF NoAnswer
  <2> QED BY <2>1, NotOpenType
<1>13. CASE Loses \/ Reconnects
  <2>1. "lidar" \in Drivers /\ (Goes("lidar", "lost") \/ Goes("lidar", "probe"))
    BY <1>13 DEF Loses, Reconnects, Drivers
  <2> QED BY <2>1, GoesType
<1>14. ASSUME NEW d \in Devices, Unplug(d) \/ \E n \in Nodes : Plug(d, n)
       PROVE  UNCHANGED drv
  BY <1>14 DEF Unplug, Plug
<1> QED BY <1>2, <1>3, <1>4, <1>5, <1>6, <1>7, <1>8, <1>9, <1>10, <1>11, <1>12, <1>13, <1>14
        DEF PortsNext, Searches, Opens

\* The bounds: what a step does to the counters and the ghosts.
LEMMA GhostStep ==
    ASSUME PortsTypeOK, PortsNext
    PROVE  /\ missed' \subseteq Drivers /\ stale' \subseteq Nodes
           /\ changes' \in 0 .. MaxChanges /\ calls' \in 0 .. MaxCalls
<1> USE PortsAssumption
<1>1. /\ missed \subseteq Drivers /\ stale \subseteq Nodes
      /\ changes \in 0 .. MaxChanges /\ calls \in 0 .. MaxCalls
      /\ node \in [Devices -> Nodes \cup {None}]
  BY DEF PortsTypeOK
<1>2. ASSUME NEW o \in Drivers, Configure(o) \/ Close(o) \/ Searches(o) \/ Opens(o)
      PROVE  /\ missed' \subseteq Drivers /\ stale' \subseteq stale /\ changes' = changes
             /\ calls' \in {calls, calls + 1} /\ calls' <= MaxCalls
  <2>1. CASE Configure(o) \/ Close(o)
    <3>1. /\ calls < MaxCalls /\ calls' = calls + 1 /\ UNCHANGED Plugs
          /\ missed' \in {missed, missed \ {o}, missed \cup {o}}
      BY <2>1 DEF Configure, Close
    <3> QED BY <1>1, <3>1 DEF Plugs
  <2>2. CASE Searches(o)
    <3>1. /\ UNCHANGED <<missed, calls, changes>>
          /\ stale' = stale \/ stale' = stale \ {Realpath(drv[o].path)}
      <4>1. CASE Claim(o)
        BY <4>1 DEF Claim
      <4>2. CASE UNCHANGED <<Plugs, missed, calls>>
        BY <4>2 DEF Plugs
      <4> QED BY <2>2, <4>1, <4>2 DEF Searches, List, NextPort, NextRound, GivesUp, ProbeFailed
    <3> QED BY <1>1, <3>1
  <2>3. CASE Opens(o)
    BY <1>1, <2>3 DEF Opens, Open, Answers, NoAnswer, Plugs
  <2> QED BY <1>2, <2>1, <2>2, <2>3
<1>3. CASE Loses \/ Reconnects
  BY <1>1, <1>3 DEF Loses, Reconnects, Plugs
<1>4. ASSUME NEW d \in Devices, Unplug(d) \/ \E n \in Nodes : Plug(d, n)
      PROVE  /\ missed' \subseteq Drivers /\ stale' \subseteq Nodes /\ calls' = calls
             /\ changes < MaxChanges /\ changes' = changes + 1
  BY <1>1, <1>4 DEF Unplug, Plug, Plugged
<1> QED BY <1>1, <1>2, <1>3, <1>4 DEF PortsNext

\* What a step does to the devices, the lock, the claims and what is open.
LEMMA HubStep ==
    ASSUME PortsTypeOK, PortsNext
    PROVE  /\ node' \in [Devices -> Nodes \cup {None}] /\ UNCHANGED <<bridge, soft>>
           /\ \A d, e \in Devices : d # e /\ Plugged(d)' => node'[d] # node'[e]
<1>1. /\ node \in [Devices -> Nodes \cup {None}]
      /\ \A d, e \in Devices : d # e /\ Plugged(d) => node[d] # node[e]
  BY DEF PortsTypeOK
<1>2. CASE UNCHANGED <<node, bridge, soft>>
  BY <1>1, <1>2 DEF Plugged
<1>3. ASSUME NEW d \in Devices, Unplug(d)
      PROVE  /\ node' \in [Devices -> Nodes \cup {None}] /\ UNCHANGED <<bridge, soft>>
             /\ \A c, e \in Devices : c # e /\ Plugged(c)' => node'[c] # node'[e]
  <2>1. node' = [node EXCEPT ![d] = None] /\ UNCHANGED <<bridge, soft>>
    BY <1>3 DEF Unplug
  <2> QED BY <1>1, <2>1, NamesApart DEF Plugged
<1>4. ASSUME NEW d \in Devices, NEW n \in Nodes, Plug(d, n)
      PROVE  /\ node' \in [Devices -> Nodes \cup {None}] /\ UNCHANGED <<bridge, soft>>
             /\ \A c, e \in Devices : c # e /\ Plugged(c)' => node'[c] # node'[e]
  <2>1. /\ node' = [node EXCEPT ![d] = n] /\ UNCHANGED <<bridge, soft>>
        /\ \A e \in Devices : node[e] # n
    BY <1>4 DEF Plug
  <2> QED BY <1>1, <2>1, NamesApart DEF Plugged
<1> QED BY <1>2, <1>3, <1>4 DEF PortsNext, Configure, Close, Searches, Opens, List, NextPort, NextRound,
     GivesUp, ProbeFailed, Claim, Open, Answers, NoAnswer, Loses, Reconnects, Plugs

LEMMA RealpathType ==
    PortsTypeOK => \A path \in Paths \cup {None} : Realpath(path) \in Paths \cup {None}
  BY DEF Realpath, PortsTypeOK, Paths

ClaimTable == [Paths -> Drivers \cup {None}]

LEMMA LockStep ==
    ASSUME PortsTypeOK, PortsNext
    PROVE  /\ usb' \in Drivers \cup {None} /\ claims' \in ClaimTable
           /\ fd' \in [Drivers -> Devices \cup {None, "dead"}]
<1>1. /\ usb \in Drivers \cup {None} /\ claims \in ClaimTable
      /\ fd \in [Drivers -> Devices \cup {None, "dead"}]
  BY DEF PortsTypeOK, ClaimTable
<1>2. \A path \in Paths \cup {None} : Release(path) => claims' \in ClaimTable
  BY <1>1 DEF Release, ClaimTable
<1>3. \A o \in Drivers : drv[o].path \in Paths \cup {None}
  BY DrvType DEF DrvRecs
<1>4. ASSUME NEW o \in Drivers, Close(o) \/ ProbeFailed(o) \/ Claim(o)
      PROVE  /\ usb' \in Drivers \cup {None} /\ claims' \in ClaimTable
             /\ fd' \in [Drivers -> Devices \cup {None, "dead"}]
  <2>1. claims' \in ClaimTable
    BY <1>1, <1>2, <1>3, <1>4 DEF Close, ProbeFailed, Claim, ClaimTable
  <2> QED BY <1>1, <1>4, <2>1 DEF Close, ProbeFailed, Claim
<1>5. ASSUME NEW o \in Drivers, Open(o)
      PROVE  /\ usb' \in Drivers \cup {None} /\ claims' \in ClaimTable
             /\ fd' \in [Drivers -> Devices \cup {None, "dead"}]
  <2>1. DeviceAt(drv[o].path) \in Devices \cup {None}
    BY <1>3, BehindPath
  <2>2. fd' = fd \/ fd' = [fd EXCEPT ![o] = DeviceAt(drv[o].path)]
    BY <1>5 DEF Open
  <2>3. usb' = usb \/ usb' = o
    BY <1>5 DEF Open
  <2>4. claims' = claims
    BY <1>5 DEF Open
  <2> QED BY <1>1, <2>1, <2>2, <2>3, <2>4
<1>6. ASSUME NEW o \in Drivers, Answers(o) \/ NoAnswer(o)
      PROVE  /\ usb' \in Drivers \cup {None} /\ claims' \in ClaimTable
             /\ fd' \in [Drivers -> Devices \cup {None, "dead"}]
  BY <1>1, <1>6 DEF Answers, NoAnswer
<1>7. CASE Loses
  <2>1. claims' \in ClaimTable
    BY <1>2, <1>3, <1>7 DEF Loses, Drivers
  <2> QED BY <1>1, <1>7, <2>1 DEF Loses
<1>8. ASSUME NEW d \in Devices, Unplug(d)
      PROVE  /\ usb' \in Drivers \cup {None} /\ claims' \in ClaimTable
             /\ fd' \in [Drivers -> Devices \cup {None, "dead"}]
  BY <1>1, <1>8 DEF Unplug
<1>9. CASE UNCHANGED <<usb, claims, fd>>
  BY <1>1, <1>9
<1> QED BY <1>4, <1>5, <1>6, <1>7, <1>8, <1>9 DEF PortsNext, Configure, Searches, Opens, List, NextPort,
     NextRound, GivesUp, Reconnects, Plug

LEMMA PortsTypesInit == PortsInit => PortsTypeOK
<1> SUFFICES ASSUME PortsInit PROVE PortsTypeOK
  OBVIOUS
<1> USE PortsAssumption
<1>1. drv \in [Drivers -> DrvRecs]
  BY IdleType DEF PortsInit
<1>2. bridge \in [Devices -> {"cp210", "ch340", "other"}]
  BY DEF PortsInit, Devices
<1>3. /\ node \in [Devices -> Nodes \cup {None}]
      /\ \A d, e \in Devices : d # e /\ Plugged(d) => node[d] # node[e]
  BY DEF PortsInit, Plugged
<1>4. /\ soft \in BOOLEAN /\ claims \in [Paths -> Drivers \cup {None}]
      /\ usb \in Drivers \cup {None} /\ fd \in [Drivers -> Devices \cup {None, "dead"}]
      /\ missed \subseteq Drivers /\ stale \subseteq Nodes
      /\ changes \in 0 .. MaxChanges /\ calls \in 0 .. MaxCalls
  BY DEF PortsInit
<1> QED BY <1>1, <1>2, <1>3, <1>4 DEF PortsTypeOK, DrvRecs

LEMMA PortsTypesStep == PortsTypeOK /\ [PortsNext]_portVars => PortsTypeOK'
<1> SUFFICES ASSUME PortsTypeOK, [PortsNext]_portVars PROVE PortsTypeOK'
  OBVIOUS
<1>1. CASE PortsNext
  <2>1. bridge \in [Devices -> {"cp210", "ch340", "other"}] /\ soft \in BOOLEAN
    BY DEF PortsTypeOK
  <2> QED BY <1>1, <2>1, DrvStep, GhostStep, HubStep, LockStep DEF PortsTypeOK, DrvRecs, ClaimTable
<1>2. CASE UNCHANGED portVars
  BY <1>2 DEF PortsTypeOK, portVars, Plugged
<1> QED BY <1>1, <1>2

-----------------------------------------------------------------------------
(* What each action of a driver does to its own record. *)

LEMMA OwnRecord ==
    ASSUME PortsTypeOK, NEW o \in Drivers, NEW r, drv' = [drv EXCEPT ![o] = r]
    PROVE  drv'[o] = r /\ \A w \in Drivers : w # o => drv'[w] = drv[w]
  BY DEF PortsTypeOK

LEMMA GoesRecord ==
    ASSUME PortsTypeOK, NEW o \in Drivers, NEW at, Goes(o, at)
    PROVE  /\ drv'[o].pc = at /\ drv'[o].path = drv[o].path /\ drv'[o].cand = drv[o].cand
           /\ drv'[o].todo = drv[o].todo /\ drv'[o].round = drv[o].round /\ drv'[o].loop = drv[o].loop
           /\ \A w \in Drivers : w # o => drv'[w] = drv[w]
<1>1. drv \in [Drivers -> DrvRecs] /\ drv[o] \in DrvRecs
  BY DEF PortsTypeOK, DrvRecs
<1>2. drv' = [drv EXCEPT ![o] = [drv[o] EXCEPT !.pc = at]]
  BY <1>1 DEF Goes
<1>3. drv'[o] = [drv[o] EXCEPT !.pc = at] /\ \A w \in Drivers : w # o => drv'[w] = drv[w]
  BY <1>1, <1>2
<1> QED BY <1>1, <1>3 DEF DrvRecs

\* A port that does not open, or does not answer.
LEMMA NotOpenRecord ==
    ASSUME PortsTypeOK, NEW o \in Drivers, NEW b, NotOpen(o, b)
    PROVE  /\ Searching(o) =>
                /\ drv'[o].pc = "fail" /\ drv'[o].path = drv[o].path /\ drv'[o].cand = drv[o].cand
                /\ drv'[o].todo = drv[o].todo /\ drv'[o].loop = drv[o].loop
           /\ ~Searching(o) =>
                /\ drv'[o].pc \in {"off", "lost"}
                /\ drv'[o].cand \in {drv[o].cand, {}}
           /\ \A w \in Drivers : w # o => drv'[w] = drv[w]
<1>1. drv \in [Drivers -> DrvRecs] /\ drv[o] \in DrvRecs
  BY DEF PortsTypeOK, DrvRecs
<1>2. CASE Searching(o)
  <2>1. drv' = [drv EXCEPT ![o] = Failed(o, b)]
    BY <1>2, <1>1 DEF NotOpen
  <2>2. drv'[o] = Failed(o, b) /\ \A w \in Drivers : w # o => drv'[w] = drv[w]
    BY <1>1, <2>1
  <2> QED BY <1>1, <1>2, <2>2 DEF Failed, DrvRecs
<1>3. CASE ~Searching(o) /\ drv[o].loop
  <2>1. drv' = [drv EXCEPT ![o] = [drv[o] EXCEPT !.pc = "lost"]]
    BY <1>3, <1>1 DEF NotOpen
  <2>2. drv'[o] = [drv[o] EXCEPT !.pc = "lost"] /\ \A w \in Drivers : w # o => drv'[w] = drv[w]
    BY <1>1, <2>1
  <2> QED BY <1>1, <1>3, <2>2 DEF DrvRecs
<1>4. CASE ~Searching(o) /\ ~drv[o].loop
  <2>1. drv' = [drv EXCEPT ![o] = Idle]
    BY <1>4, <1>1 DEF NotOpen
  <2>2. drv'[o] = Idle /\ \A w \in Drivers : w # o => drv'[w] = drv[w]
    BY <1>1, <2>1
  <2> QED BY <1>4, <2>2 DEF Idle
<1> QED BY <1>2, <1>3, <1>4

LEMMA ConfigureRecord ==
    ASSUME PortsTypeOK, NEW o \in Drivers, Configure(o)
    PROVE  /\ \/ drv'[o].pc = "probe" /\ drv'[o].cand = {}
              \/ /\ drv'[o].pc = "list" /\ drv'[o].cand = Candidates(o)
                 /\ drv'[o].todo = {} /\ ~drv'[o].loop
           /\ \A w \in Drivers : w # o => drv'[w] = drv[w]
<1>1. CASE \E path \in FixedPaths :
             drv' = [drv EXCEPT ![o] = [Idle EXCEPT !.pc = "probe", !.path = path]]
  <2>1. PICK path \in FixedPaths :
             drv' = [drv EXCEPT ![o] = [Idle EXCEPT !.pc = "probe", !.path = path]]
    BY <1>1
  <2>2. /\ drv'[o] = [Idle EXCEPT !.pc = "probe", !.path = path]
        /\ \A w \in Drivers : w # o => drv'[w] = drv[w]
    BY <2>1, OwnRecord
  <2> QED BY <2>2 DEF Idle
<1>2. CASE drv' = [drv EXCEPT ![o] = [Idle EXCEPT !.pc = "list", !.cand = Candidates(o)]]
  <2>2. /\ drv'[o] = [Idle EXCEPT !.pc = "list", !.cand = Candidates(o)]
        /\ \A w \in Drivers : w # o => drv'[w] = drv[w]
    BY <1>2, OwnRecord
  <2> QED BY <2>2 DEF Idle
<1> QED BY <1>1, <1>2 DEF Configure

LEMMA IdleRecord ==
    ASSUME PortsTypeOK, NEW o \in Drivers, Close(o) \/ GivesUp(o)
    PROVE  /\ drv'[o].pc = "off" /\ drv'[o].cand = {}
           /\ \A w \in Drivers : w # o => drv'[w] = drv[w]
<1>1. drv'[o] = Idle /\ \A w \in Drivers : w # o => drv'[w] = drv[w]
  BY OwnRecord DEF Close, GivesUp
<1> QED BY <1>1 DEF Idle

Fresh(o) == IF drv[o].round > 1 /\ Candidates(o) # {} THEN Candidates(o) ELSE drv[o].cand

LEMMA ListRecord ==
    ASSUME PortsTypeOK, NEW o \in Drivers, List(o)
    PROVE  /\ drv'[o].pc = "next" /\ drv'[o].loop = drv[o].loop
           /\ drv'[o].todo = Unclaimed(o, Fresh(o)) /\ drv'[o].cand = Unclaimed(o, Fresh(o))
           /\ \A w \in Drivers : w # o => drv'[w] = drv[w]
<1>1. drv \in [Drivers -> DrvRecs] /\ drv[o] \in DrvRecs
  BY DEF PortsTypeOK, DrvRecs
<1> DEFINE left == Unclaimed(o, Fresh(o))
<1>2. drv' = [drv EXCEPT ![o].pc = "next", ![o].cand = left, ![o].todo = left, ![o].again = FALSE]
  BY DEF List, Fresh
<1> HIDE DEF left
<1>3. /\ drv'[o] = [drv[o] EXCEPT !.pc = "next", !.cand = left, !.todo = left, !.again = FALSE]
      /\ \A w \in Drivers : w # o => drv'[w] = drv[w]
  BY <1>1, <1>2
<1>4. /\ drv'[o].pc = "next" /\ drv'[o].loop = drv[o].loop
      /\ drv'[o].todo = left /\ drv'[o].cand = left
  BY <1>1, <1>3 DEF DrvRecs
<1> QED BY <1>3, <1>4 DEF left

LEMMA NextPortRecord ==
    ASSUME PortsTypeOK, NEW o \in Drivers, NextPort(o)
    PROVE  /\ drv'[o].pc = "probe" /\ drv'[o].loop = drv[o].loop /\ drv'[o].cand = drv[o].cand
           /\ drv'[o].path \in drv[o].todo /\ drv'[o].todo = drv[o].todo \ {drv'[o].path}
           /\ \A w \in Drivers : w # o => drv'[w] = drv[w]
<1>1. drv \in [Drivers -> DrvRecs] /\ drv[o] \in DrvRecs
  BY DEF PortsTypeOK, DrvRecs
<1>2. PICK p \in drv[o].todo :
        drv' = [drv EXCEPT ![o].pc = "probe", ![o].path = p, ![o].todo = @ \ {p}]
  BY DEF NextPort
<1>3. /\ drv'[o] = [drv[o] EXCEPT !.pc = "probe", !.path = p, !.todo = @ \ {p}]
      /\ \A w \in Drivers : w # o => drv'[w] = drv[w]
  BY <1>1, <1>2
<1> QED BY <1>1, <1>2, <1>3 DEF DrvRecs

LEMMA NextRoundRecord ==
    ASSUME PortsTypeOK, NEW o \in Drivers, NextRound(o)
    PROVE  /\ drv'[o].pc = "list" /\ drv'[o].loop = drv[o].loop /\ drv'[o].cand = drv[o].cand
           /\ drv'[o].todo = drv[o].todo /\ drv'[o].round = drv[o].round + 1
           /\ \A w \in Drivers : w # o => drv'[w] = drv[w]
<1>1. drv \in [Drivers -> DrvRecs] /\ drv[o] \in DrvRecs
  BY DEF PortsTypeOK, DrvRecs
<1>2. drv' = [drv EXCEPT ![o].pc = "list", ![o].round = @ + 1]
  BY DEF NextRound
<1>3. /\ drv'[o] = [drv[o] EXCEPT !.pc = "list", !.round = @ + 1]
      /\ \A w \in Drivers : w # o => drv'[w] = drv[w]
  BY <1>1, <1>2
<1> QED BY <1>1, <1>3 DEF DrvRecs

LEMMA ClaimRecord ==
    ASSUME PortsTypeOK, NEW o \in Drivers, Claim(o)
    PROVE  /\ drv'[o].pc = "up" /\ drv'[o].cand = {}
           /\ \A w \in Drivers : w # o => drv'[w] = drv[w]
<1>1. /\ drv'[o] = [Idle EXCEPT !.pc = "up", !.path = drv[o].path, !.loop = (o = "lidar")]
      /\ \A w \in Drivers : w # o => drv'[w] = drv[w]
  BY OwnRecord DEF Claim
<1> QED BY <1>1 DEF Idle

LEMMA UpRecord ==
    ASSUME PortsTypeOK, NEW o \in Drivers,
           drv' = [drv EXCEPT ![o].pc = "up", ![o].loop = (o = "lidar")]
    PROVE  /\ drv'[o].pc = "up" /\ drv'[o].cand = drv[o].cand
           /\ \A w \in Drivers : w # o => drv'[w] = drv[w]
<1>1. drv \in [Drivers -> DrvRecs] /\ drv[o] \in DrvRecs
  BY DEF PortsTypeOK, DrvRecs
<1>2. /\ drv'[o] = [drv[o] EXCEPT !.pc = "up", !.loop = (o = "lidar")]
      /\ \A w \in Drivers : w # o => drv'[w] = drv[w]
  BY <1>1
<1> QED BY <1>1, <1>2 DEF DrvRecs

-----------------------------------------------------------------------------
(* The parts of PortsIInv, one at a time *)

LEMMA PortsIInvInit == PortsInit => PortsIInv
<1> SUFFICES ASSUME PortsInit PROVE PortsIInv
  OBVIOUS
<1>1. PortsTypeOK
  BY PortsTypesInit
<1>2. BridgesFit
  <2>1. PICK l \in {"cp210", "other"}, i \in {"ch340", "other"} :
          bridge = [d \in Devices |-> CASE d = "lidar" -> l [] d = "imu" -> i
                                        [] d = "relay" -> "ch340" [] d = "can" -> "other"]
    BY DEF PortsInit
  <2>2. "lidar" \in Devices /\ "imu" \in Devices
    BY DEF Devices
  <2>3. bridge["lidar"] = l /\ bridge["imu"] = i
    BY <2>1, <2>2
  <2> QED BY <2>2, <2>3 DEF BridgesFit, Reserved, Setting, Safe, LooksLikeCan, HostsCan, Drivers
<1>3. \A o \in Drivers : drv[o].pc = "off" /\ drv[o].cand = {} /\ fd[o] = None
  BY DEF PortsInit, Idle
<1>4. AskedAlone
  BY <1>3, NamesApart DEF PortsInit, AskedAlone, Drivers, None
<1>5. ClaimsKnown
  BY NamesApart DEF PortsInit, ClaimsKnown, Paths
<1>6. PortsApart
  BY <1>3, NamesApart DEF PortsApart, Drivers
<1>7. \A o \in Drivers : SearchHolds(o)
  BY <1>3 DEF SearchHolds, Seeking
<1> QED BY <1>1, <1>2, <1>4, <1>5, <1>6, <1>7 DEF PortsIInv

\* What the actions of a driver leave of the other's.
LEMMA OthersKept ==
    ASSUME PortsTypeOK, NEW o \in Drivers, Configure(o) \/ Close(o) \/ Searches(o) \/ Opens(o)
    PROVE  \A w \in Drivers : w # o => drv'[w] = drv[w] /\ fd'[w] = fd[w]
<1>1. \A w \in Drivers : w # o => drv'[w] = drv[w]
  <2>1. CASE Open(o)
    BY <2>1, NotOpenRecord, GoesRecord DEF Open
  <2>2. CASE Answers(o)
    BY <2>2, UpRecord, GoesRecord DEF Answers
  <2>3. CASE NoAnswer(o)
    BY <2>3, NotOpenRecord DEF NoAnswer
  <2>4. CASE ProbeFailed(o)
    BY <2>4, GoesRecord DEF ProbeFailed
  <2> QED BY <2>1, <2>2, <2>3, <2>4, ConfigureRecord, IdleRecord, ListRecord, NextPortRecord,
             NextRoundRecord, ClaimRecord DEF Searches, Opens
<1>2. fd \in [Drivers -> Devices \cup {None, "dead"}]
  BY DEF PortsTypeOK
<1>3. UNCHANGED fd \/ \E v : fd' = [fd EXCEPT ![o] = v]
  <2>1. CASE Open(o)
    BY <2>1 DEF Open
  <2>2. CASE ~Open(o)
    BY <2>2 DEF Configure, Close, Searches, Opens, List, NextPort, NextRound, GivesUp, ProbeFailed,
                Claim, Answers, NoAnswer
  <2> QED BY <2>1, <2>2
<1>4. \A w \in Drivers : w # o => fd'[w] = fd[w]
  BY <1>2, <1>3
<1> QED BY <1>1, <1>4

\* One at a time has the open lock, and what it then finds open is its own port.
LEMMA AskedStep == PortsIInv /\ PortsNext => AskedAlone'
<1> SUFFICES ASSUME PortsIInv, PortsNext PROVE AskedAlone'
  OBVIOUS
<1> DEFINE Alone(o) == /\ usb = o <=> drv[o].pc = "asking"
                       /\ fd[o] \in Devices /\ fd[o] # o => drv[o].pc = "asking"
<1>1. PortsTypeOK /\ \A o \in Drivers : Alone(o)
  BY DEF PortsIInv, AskedAlone
<1>2. SUFFICES \A o \in Drivers : Alone(o)'
  BY DEF AskedAlone
<1>3. fd \in [Drivers -> Devices \cup {None, "dead"}] /\ usb \in Drivers \cup {None}
  BY <1>1 DEF PortsTypeOK
<1>4. None \notin Drivers /\ None \notin Devices /\ "dead" \notin Devices
  BY DEF Drivers, Devices, None
<1>5. ASSUME NEW o \in Drivers, Configure(o) \/ Close(o) \/ Searches(o) \/ Opens(o),
             usb' = o <=> drv'[o].pc = "asking",
             usb' = usb \/ (usb' \in {o, None} /\ usb \in {o, None}),
             fd'[o] \in Devices /\ fd'[o] # o => drv'[o].pc = "asking"
      PROVE  \A w \in Drivers : Alone(w)'
  <2>1. \A w \in Drivers : w # o => drv'[w] = drv[w] /\ fd'[w] = fd[w] /\ (usb' = w <=> usb = w)
    BY <1>1, <1>4, <1>5, OthersKept
  <2> QED BY <1>1, <1>5, <2>1
<1>6. ASSUME NEW o \in Drivers, Configure(o) \/ Close(o) \/ Searches(o)
      PROVE  \A w \in Drivers : Alone(w)'
  <2>1. usb' = usb /\ drv[o].pc # "asking" /\ drv'[o].pc # "asking"
    <3>1. CASE Configure(o)
      BY <1>1, <3>1, ConfigureRecord DEF Configure
    <3>2. CASE Close(o) \/ GivesUp(o)
      BY <1>1, <3>2, IdleRecord DEF Close, GivesUp
    <3>3. CASE List(o)
      BY <1>1, <3>3, ListRecord DEF List
    <3>4. CASE NextPort(o)
      BY <1>1, <3>4, NextPortRecord DEF NextPort
    <3>5. CASE NextRound(o)
      BY <1>1, <3>5, NextRoundRecord DEF NextRound
    <3>6. CASE ProbeFailed(o)
      BY <1>1, <3>6, GoesRecord DEF ProbeFailed
    <3>7. CASE Claim(o)
      BY <1>1, <3>7, ClaimRecord DEF Claim
    <3> QED BY <1>6, <3>1, <3>2, <3>3, <3>4, <3>5, <3>6, <3>7 DEF Searches
  <2>2. fd'[o] \in {fd[o], None}
    BY <1>3, <1>6 DEF Configure, Close, Searches, List, NextPort, NextRound, GivesUp, ProbeFailed, Claim
  <2>3. usb' = o <=> drv'[o].pc = "asking"
    BY <1>1, <2>1
  <2>4. fd'[o] \in Devices /\ fd'[o] # o => drv'[o].pc = "asking"
    BY <1>1, <1>4, <2>1, <2>2
  <2> QED BY <1>5, <1>6, <2>1, <2>3, <2>4
<1>7. ASSUME NEW o \in Drivers, Open(o) PROVE \A w \in Drivers : Alone(w)'
  <2> DEFINE d == DeviceAt(drv[o].path)
  <2>1. CASE MayOpen(o, d) /\ ~InUse(o, d)
    <3>1. usb = None /\ usb' = o /\ Goes(o, "asking")
      BY <1>7, <2>1 DEF Open
    <3>2. drv'[o].pc = "asking"
      BY <1>1, <3>1, GoesRecord
    <3>3. Opens(o) /\ usb' \in {o, None} /\ usb \in {o, None}
      BY <1>7, <3>1 DEF Opens
    <3>4. usb' = o <=> drv'[o].pc = "asking"
      BY <3>1, <3>2
    <3>5. fd'[o] \in Devices /\ fd'[o] # o => drv'[o].pc = "asking"
      BY <3>2
    <3> QED BY <1>5, <3>3, <3>4, <3>5
  <2>2. CASE ~(MayOpen(o, d) /\ ~InUse(o, d))
    <3>1. /\ usb = None /\ usb' = usb /\ fd' = fd /\ drv[o].pc = "probe"
          /\ \E b : NotOpen(o, b)
      BY <1>7, <2>2 DEF Open
    <3>2. drv'[o].pc # "asking"
      BY <1>1, <3>1, NotOpenRecord
    <3>3. usb' # o
      BY <1>4, <3>1
    <3>4. fd'[o] \in Devices /\ fd'[o] # o => drv'[o].pc = "asking"
      BY <1>1, <3>1
    <3>5. Opens(o) /\ (usb' = o <=> drv'[o].pc = "asking")
      BY <1>7, <3>2, <3>3 DEF Opens
    <3> QED BY <1>5, <3>1, <3>4, <3>5
  <2> QED BY <2>1, <2>2
<1>8. ASSUME NEW o \in Drivers, Answers(o) PROVE \A w \in Drivers : Alone(w)'
  <2>1. usb = o /\ usb' = None /\ fd' = fd /\ fd[o] = o
    BY <1>8 DEF Answers
  <2>2. drv'[o].pc # "asking"
    BY <1>1, <1>8, GoesRecord, UpRecord DEF Answers
  <2>3. Opens(o) /\ usb' \in {o, None} /\ usb \in {o, None}
    BY <1>8, <2>1 DEF Opens
  <2>4. usb' = o <=> drv'[o].pc = "asking"
    BY <1>4, <2>1, <2>2
  <2>5. fd'[o] \in Devices /\ fd'[o] # o => drv'[o].pc = "asking"
    BY <2>1
  <2> QED BY <1>5, <2>3, <2>4, <2>5
<1>9. ASSUME NEW o \in Drivers, NoAnswer(o) PROVE \A w \in Drivers : Alone(w)'
  <2>1. usb = o /\ usb' = None /\ fd'[o] = None /\ \E b : NotOpen(o, b)
    BY <1>3, <1>9 DEF NoAnswer
  <2>2. drv'[o].pc # "asking"
    BY <1>1, <2>1, NotOpenRecord
  <2>3. Opens(o) /\ usb' \in {o, None} /\ usb \in {o, None}
    BY <1>9, <2>1 DEF Opens
  <2>4. usb' = o <=> drv'[o].pc = "asking"
    BY <1>4, <2>1, <2>2
  <2>5. fd'[o] \in Devices /\ fd'[o] # o => drv'[o].pc = "asking"
    BY <1>4, <2>1
  <2> QED BY <1>5, <2>3, <2>4, <2>5
<1>10. CASE Loses \/ Reconnects
  <2> DEFINE l == "lidar"
  <2>1. /\ l \in Drivers /\ drv[l].pc \in {"up", "lost"} /\ usb' = usb
        /\ Goes(l, "lost") \/ Goes(l, "probe")
        /\ fd' = fd \/ fd' = [fd EXCEPT ![l] = None]
    BY <1>10 DEF Loses, Reconnects, Drivers
  <2> HIDE DEF l
  <2>2. drv'[l].pc \in {"lost", "probe"} /\ \A w \in Drivers : w # l => drv'[w] = drv[w]
    BY <1>1, <2>1, GoesRecord
  <2>3. fd'[l] \in {fd[l], None} /\ \A w \in Drivers : w # l => fd'[w] = fd[w]
    BY <1>3, <2>1
  <2>4. Alone(l)'
    BY <1>1, <1>4, <2>1, <2>2, <2>3
  <2> QED BY <1>1, <2>1, <2>2, <2>3, <2>4
<1>11. ASSUME NEW d \in Devices, Unplug(d) PROVE \A w \in Drivers : Alone(w)'
  <2>1. /\ usb' = usb /\ drv' = drv /\ \A w \in Drivers : fd'[w] \in {fd[w], "dead"}
    BY <1>11 DEF Unplug
  <2> QED BY <1>1, <1>4, <2>1
<1>12. ASSUME NEW d \in Devices, NEW n \in Nodes, Plug(d, n) PROVE \A w \in Drivers : Alone(w)'
  <2>1. usb' = usb /\ drv' = drv /\ fd' = fd
    BY <1>12 DEF Plug
  <2> QED BY <1>1, <2>1
<1> HIDE DEF Alone
<1> QED BY <1>6, <1>7, <1>8, <1>9, <1>10, <1>11, <1>12 DEF PortsNext, Opens

\* A claim whose owner's sensor is elsewhere is stale until it is made anew.
LEMMA ClaimsStep == PortsIInv /\ PortsNext => ClaimsKnown'
<1> SUFFICES ASSUME PortsIInv, PortsNext PROVE ClaimsKnown'
  OBVIOUS
<1>1. PortsTypeOK /\ ClaimsKnown /\ \A o \in Drivers : SearchHolds(o)
  BY DEF PortsIInv
<1>2. /\ node \in [Devices -> Nodes \cup {None}] /\ claims \in [Paths -> Drivers \cup {None}]
      /\ Nodes \subseteq Paths /\ Drivers \subseteq Devices /\ None \notin Drivers
  BY <1>1, NamesApart DEF PortsTypeOK, Paths, Drivers, None
<1>3. ASSUME UNCHANGED <<node, stale>>, NEW path, claims' = claims \/ Release(path)
      PROVE  ClaimsKnown'
  <2>1. \A n \in Nodes : claims'[n] \in {claims[n], None}
    BY <1>2, <1>3 DEF Release
  <2> QED BY <1>1, <1>2, <1>3, <2>1 DEF ClaimsKnown
<1>4. ASSUME NEW o \in Drivers, Claim(o) PROVE ClaimsKnown'
  <2> DEFINE r == Realpath(drv[o].path)
  <2>1. drv[o].path = o
    BY <1>1, <1>4 DEF Claim, SearchHolds, Seeking
  <2>2. r \in Nodes => r = node[o]
    BY <1>2, <2>1, NamesApart DEF Realpath
  <2>3. claims' = [claims EXCEPT ![r] = o] /\ stale' = stale \ {r} /\ node' = node
    BY <1>4 DEF Claim
  <2> HIDE DEF r
  <2>4. ASSUME NEW n \in Nodes, NEW w \in Drivers, claims'[n] = w
        PROVE  node'[w] = n \/ n \in stale'
    <3>1. CASE n = r
      BY <1>2, <2>2, <2>3, <2>4, <3>1
    <3>2. CASE n # r
      BY <1>1, <1>2, <2>3, <2>4, <3>2 DEF ClaimsKnown
    <3> QED BY <3>1, <3>2
  <2> QED BY <2>4 DEF ClaimsKnown
<1>5. ASSUME NEW d \in Devices, Unplug(d) PROVE ClaimsKnown'
  <2>1. node' = [node EXCEPT ![d] = None] /\ stale' = stale \cup {node[d]} /\ claims' = claims
    BY <1>5 DEF Unplug
  <2>2. ASSUME NEW n \in Nodes, NEW w \in Drivers, claims'[n] = w
        PROVE  node'[w] = n \/ n \in stale'
    BY <1>1, <1>2, <2>1, <2>2 DEF ClaimsKnown
  <2> QED BY <2>2 DEF ClaimsKnown
<1>6. ASSUME NEW d \in Devices, NEW m \in Nodes, Plug(d, m) PROVE ClaimsKnown'
  <2>1. node' = [node EXCEPT ![d] = m] /\ stale' = stale /\ claims' = claims /\ node[d] = None
    BY <1>6 DEF Plug, Plugged
  <2>2. ASSUME NEW n \in Nodes, NEW w \in Drivers, claims'[n] = w
        PROVE  node'[w] = n \/ n \in stale'
    BY <1>1, <1>2, <2>1, <2>2, NamesApart DEF ClaimsKnown
  <2> QED BY <2>2 DEF ClaimsKnown
<1>7. CASE UNCHANGED <<node, stale, claims>>
  BY <1>3, <1>7
<1>8. ASSUME NEW o \in Drivers, Close(o) \/ ProbeFailed(o) PROVE ClaimsKnown'
  BY <1>3, <1>8 DEF Close, ProbeFailed, Plugs
<1>9. CASE Loses
  BY <1>3, <1>9 DEF Loses, Plugs
<1>10. ASSUME NEW o \in Drivers,
              Configure(o) \/ List(o) \/ NextPort(o) \/ NextRound(o) \/ GivesUp(o) \/ Opens(o)
       PROVE  UNCHANGED <<node, stale, claims>>
  BY <1>10 DEF Configure, List, NextPort, NextRound, GivesUp, Opens, Open, Answers, NoAnswer, Plugs
<1>11. Reconnects => UNCHANGED <<node, stale, claims>>
  BY DEF Reconnects, Plugs
<1> QED BY <1>4, <1>5, <1>6, <1>7, <1>8, <1>9, <1>10, <1>11 DEF PortsNext, Searches

\* What is open was allowed to be opened.
LEMMA ApartStep == PortsIInv /\ PortsNext => PortsApart'
<1> SUFFICES ASSUME PortsIInv, PortsNext PROVE PortsApart'
  OBVIOUS
<1>1. PortsTypeOK /\ PortsApart
  BY DEF PortsIInv
<1>2. /\ fd \in [Drivers -> Devices \cup {None, "dead"}] /\ UNCHANGED <<bridge, soft>>
      /\ \A o \in Drivers : drv[o].path \in Paths \cup {None}
  BY <1>1, HubStep, DrvType DEF PortsTypeOK, DrvRecs
<1>3. None \notin Devices /\ "dead" \notin Devices /\ "lidar" \in Drivers /\ "imu" \in Drivers
  BY NamesApart DEF Drivers
<1>4. ASSUME \A o \in Drivers : fd'[o] \in {fd[o], None, "dead"} PROVE PortsApart'
  <2>1. \A o \in Drivers : fd'[o] \in Devices => fd'[o] = fd[o]
    BY <1>3, <1>4
  <2> QED BY <1>1, <1>2, <1>3, <2>1 DEF PortsApart, Safe, LooksLikeCan, HostsCan
<1>5. ASSUME NEW o \in Drivers, NEW d, d = DeviceAt(drv[o].path), MayOpen(o, d), ~InUse(o, d),
             fd' = [fd EXCEPT ![o] = d]
      PROVE  PortsApart'
  <2>1. d \in Devices /\ Safe(d) /\ bridge[d] # Reserved(o)
    <3>1. d \in Devices \cup {None}
      BY <1>1, <1>2, <1>5, BehindPath
    <3> QED BY <1>5, <3>1 DEF MayOpen
  <2>2. fd'[o] = d /\ \A w \in Drivers : w # o => fd'[w] = fd[w]
    BY <1>2, <1>5
  <2>3. Other(o) \in Drivers /\ Other(o) # o /\ (fd[Other(o)] = d => soft)
    BY <1>5, OtherDriver DEF InUse
  <2>4. \A w \in Drivers : fd'[w] \in Devices => Safe(fd'[w]) /\ bridge'[fd'[w]] # Reserved(w)
    <3>1. \A w \in Drivers : w # o /\ fd[w] \in Devices => Safe(fd[w]) /\ bridge[fd[w]] # Reserved(w)
      BY <1>1 DEF PortsApart
    <3> QED BY <1>2, <2>1, <2>2, <3>1
  <2>5. fd'["lidar"] = fd'["imu"] => soft'
    <3>1. o \in {"lidar", "imu"} /\ Other(o) \in {"lidar", "imu"}
      BY <2>3 DEF Drivers
    <3>2. fd'[Other(o)] = fd[Other(o)]
      BY <2>2, <2>3
    <3>3. CASE o = "lidar"
      BY <1>2, <2>2, <2>3, <3>2, <3>3 DEF Other
    <3>4. CASE o = "imu"
      BY <1>2, <2>2, <2>3, <3>2, <3>4 DEF Other
    <3> QED BY <3>1, <3>3, <3>4
  <2> QED BY <2>4, <2>5 DEF PortsApart, Safe, LooksLikeCan, HostsCan
<1>6. ASSUME NEW o \in Drivers, Open(o) PROVE PortsApart'
  <2> DEFINE d == DeviceAt(drv[o].path)
  <2>1. CASE MayOpen(o, d) /\ ~InUse(o, d)
    <3>1. fd' = [fd EXCEPT ![o] = d]
      BY <1>6, <2>1 DEF Open
    <3> QED BY <1>5, <2>1, <3>1
  <2>2. CASE ~(MayOpen(o, d) /\ ~InUse(o, d))
    BY <1>4, <1>6, <2>2 DEF Open
  <2> QED BY <2>1, <2>2
<1>7. ASSUME NEW o \in Drivers, Close(o) \/ NoAnswer(o) PROVE PortsApart'
  <2>1. fd' = [fd EXCEPT ![o] = None]
    BY <1>7 DEF Close, NoAnswer
  <2> QED BY <1>2, <1>4, <2>1
<1>8. CASE Loses
  <2>1. fd' = [fd EXCEPT !["lidar"] = None]
    BY <1>8 DEF Loses
  <2> QED BY <1>2, <1>4, <2>1
<1>9. ASSUME NEW d \in Devices, Unplug(d) PROVE PortsApart'
  <2>1. fd' = [o \in Drivers |-> IF fd[o] = d THEN "dead" ELSE fd[o]]
    BY <1>9 DEF Unplug
  <2> QED BY <1>4, <2>1
<1>10. CASE UNCHANGED fd
  BY <1>4, <1>10
<1> QED BY <1>6, <1>7, <1>8, <1>9, <1>10 DEF PortsNext, Configure, Searches, Opens, List, NextPort, NextRound,
     GivesUp, ProbeFailed, Claim, Answers, Reconnects, Plug

\* What a driver that did not move is owed still holds, when its sensor's node
\* and what is stale about it are as they were.
LEMMA SearchKept ==
    ASSUME NEW w \in Drivers, SearchHolds(w), drv'[w] = drv[w],
           fd'[w] # fd[w] => fd'[w] \notin Devices /\ fd[w] # w,
           w \notin missed' => w \notin missed,
           Plugged(w) /\ w \notin missed' => node'[w] = node[w],
           Plugged(w) /\ node[w] \in stale => node[w] \in stale'
    PROVE  SearchHolds(w)'
<1>1. Seeking(w)' <=> Seeking(w)
  BY DEF Seeking
<1>2. drv[w].pc \in {"up", "lost"} => drv[w].cand = {}
  BY DEF SearchHolds
<1>3. ASSUME Seeking(w) PROVE
         /\ ~drv'[w].loop /\ drv'[w].todo \subseteq drv'[w].cand
         /\ drv'[w].pc \in {"probe", "asking", "fail", "claim"} => drv'[w].path \in Devices
         /\ drv'[w].pc = "asking" /\ fd'[w] \in Devices => fd'[w] = drv'[w].path
         /\ drv'[w].pc = "claim" => drv'[w].path = w
  BY <1>3 DEF SearchHolds
<1>4. ASSUME Seeking(w), w \notin missed' PROVE SensorAhead(w)'
  <2>1. SensorAhead(w)
    BY <1>4 DEF SearchHolds
  <2>2. Plugged(w) /\ node'[w] = node[w]
    BY <1>4, <2>1 DEF SensorAhead
  <2> QED BY <2>1, <2>2 DEF SensorAhead, Plugged
<1> QED BY <1>1, <1>2, <1>3, <1>4 DEF SearchHolds

\* One driver moves, and the hub does not: the other driver is owed what it was.
LEMMA OneMoves ==
    ASSUME PortsIInv, NEW o \in Drivers, Configure(o) \/ Close(o) \/ Searches(o) \/ Opens(o),
           SearchHolds(o)'
    PROVE  \A w \in Drivers : SearchHolds(w)'
<1>1. PortsTypeOK /\ \A w \in Drivers : SearchHolds(w)
  BY DEF PortsIInv
<1>2. ASSUME NEW w \in Drivers, w # o PROVE SearchHolds(w)'
  <2>1. drv'[w] = drv[w] /\ fd'[w] = fd[w]
    BY <1>1, <1>2, OthersKept
  <2>2. w \notin missed' => w \notin missed
    BY <1>2 DEF Configure, Close, Searches, List, NextPort, NextRound, GivesUp, ProbeFailed, Claim,
                Opens, Open, Answers, NoAnswer
  <2>3. CASE Claim(o)
    <3>1. node' = node /\ stale' = stale \ {Realpath(drv[o].path)} /\ drv[o].path = o
      BY <1>1, <2>3 DEF Claim, SearchHolds, Seeking
    <3>2. Plugged(w) => node[w] # Realpath(o)
      <4>1. node \in [Devices -> Nodes \cup {None}] /\ o \in Devices /\ w \in Devices /\ o # w
        BY <1>1, <1>2, NamesApart DEF PortsTypeOK
      <4>2. Plugged(w) => node[w] \in Nodes
        BY <4>1 DEF Plugged
      <4>3. Plugged(w) /\ Plugged(o) => node[w] # node[o]
        BY <1>1, <4>1 DEF PortsTypeOK
      <4> QED BY <4>1, <4>2, <4>3, NamesApart DEF Realpath
    <3> QED BY <1>1, <2>1, <2>2, <3>1, <3>2, SearchKept
  <2>4. CASE ~Claim(o)
    <3>1. node' = node /\ stale' = stale
      BY <2>4 DEF Configure, Close, Searches, List, NextPort, NextRound, GivesUp, ProbeFailed,
                  Opens, Open, Answers, NoAnswer, Plugs
    <3> QED BY <1>1, <2>1, <2>2, <3>1, SearchKept
  <2> QED BY <2>3, <2>4
<1> QED BY <1>2

\* The candidates of a search have the sensor's own port, if it is plugged in.
LEMMA OwnPortIsCandidate ==
    ASSUME PortsIInv, NEW o \in Drivers, Plugged(o)
    PROVE  o \in Candidates(o)
  BY NamesApart DEF PortsIInv, BridgesFit, Candidates

\* It stays on the list when the claims are taken from it, but for an old one.
LEMMA OwnPortIsLeft ==
    ASSUME PortsIInv, NEW o \in Drivers, Plugged(o), NEW paths, o \in paths, node[o] \notin stale
    PROVE  o \in Unclaimed(o, paths)
<1>1. /\ o \in Devices /\ Other(o) \in Devices /\ Other(o) # o
      /\ node \in [Devices -> Nodes \cup {None}] /\ node[o] \in Nodes
      /\ claims \in [Paths -> Drivers \cup {None}] /\ node[o] \in Paths
  BY OtherDriver, NamesApart DEF PortsIInv, PortsTypeOK, Plugged, Paths
<1>2. Realpath(o) = node[o]
  BY <1>1 DEF Realpath
<1>3. node[Other(o)] # node[o]
  BY <1>1 DEF PortsIInv, PortsTypeOK
<1>4. claims[node[o]] # Other(o)
  BY <1>1, <1>3, OtherDriver DEF PortsIInv, ClaimsKnown
<1>5. claims[node[o]] \in {None, o}
  BY <1>1, <1>4, OtherDriver
<1>6. ~ClaimedByOther(o, o)
  BY <1>2, <1>5 DEF ClaimedByOther
<1>7. Family(o) # Reserved(o)
  BY <1>1 DEF PortsIInv, BridgesFit, Family
<1> QED BY <1>6, <1>7 DEF Unclaimed

\* Nobody else has the sensor's own port open when the lock is free.
LEMMA OwnPortOpens ==
    ASSUME PortsIInv, NEW o \in Drivers, usb = None
    PROVE  MayOpen(o, o) /\ ~InUse(o, o)
<1>1. o # None /\ Safe(o) /\ bridge[o] # Reserved(o)
  BY NamesApart DEF PortsIInv, BridgesFit
<1>2. Other(o) \in Drivers /\ Other(o) # o /\ o \in Devices /\ None \notin Drivers
  BY OtherDriver, NamesApart DEF Drivers, None
<1>3. fd[Other(o)] # o
  BY <1>2 DEF PortsIInv, AskedAlone
<1> QED BY <1>1, <1>3 DEF MayOpen, InUse

\* A driver that does not search is owed nothing.
LEMMA NotSeeking ==
    ASSUME NEW o \in Drivers, ~Seeking(o)', drv'[o].cand = {}
    PROVE  SearchHolds(o)'
  BY DEF SearchHolds

LEMMA SearchStep == PortsIInv /\ PortsNext => \A w \in Drivers : SearchHolds(w)'
<1> SUFFICES ASSUME PortsIInv, PortsNext PROVE \A w \in Drivers : SearchHolds(w)'
  OBVIOUS
<1>1. PortsTypeOK /\ AskedAlone /\ \A w \in Drivers : SearchHolds(w) /\ drv[w] \in DrvRecs
  BY DrvType DEF PortsIInv
<1>2. ASSUME NEW o \in Drivers, Configure(o) PROVE \A w \in Drivers : SearchHolds(w)'
  <2>1. UNCHANGED <<node, stale>> /\ (o \notin missed' => Plugged(o))
    BY <1>2 DEF Configure, Plugs
  <2>2. CASE drv'[o].pc = "probe" /\ drv'[o].cand = {}
    BY <1>2, <2>2, NotSeeking, OneMoves DEF Seeking
  <2>3. CASE /\ drv'[o].pc = "list" /\ drv'[o].cand = Candidates(o)
             /\ drv'[o].todo = {} /\ ~drv'[o].loop
    <3>1. o \notin missed' => SensorAhead(o)'
      BY <2>1, <2>3, OwnPortIsCandidate DEF SensorAhead, Plugged
    <3>2. SearchHolds(o)'
      BY <2>3, <3>1 DEF SearchHolds
    <3> QED BY <1>2, <3>2, OneMoves
  <2> QED BY <1>1, <1>2, <2>2, <2>3, ConfigureRecord
<1>3. ASSUME NEW o \in Drivers, Close(o) \/ GivesUp(o) PROVE \A w \in Drivers : SearchHolds(w)'
  <2>1. drv'[o].pc = "off" /\ drv'[o].cand = {}
    BY <1>1, <1>3, IdleRecord
  <2>2. SearchHolds(o)'
    BY <2>1, NotSeeking DEF Seeking
  <2> QED BY <1>3, <2>2, OneMoves DEF Searches
<1>4. ASSUME NEW o \in Drivers, List(o) PROVE \A w \in Drivers : SearchHolds(w)'
  <2>1. /\ drv'[o].pc = "next" /\ drv'[o].loop = drv[o].loop
        /\ drv'[o].todo = Unclaimed(o, Fresh(o)) /\ drv'[o].cand = Unclaimed(o, Fresh(o))
    BY <1>1, <1>4, ListRecord
  <2>2. drv[o].pc = "list" /\ UNCHANGED <<node, stale, missed>> /\ Seeking(o)
    BY <1>4 DEF List, Plugs, Seeking
  <2>3. ~drv[o].loop /\ (o \notin missed => SensorAhead(o))
    BY <1>1, <2>2 DEF SearchHolds
  <2>4. ASSUME o \notin missed PROVE SensorAhead(o)'
    <3>1. Plugged(o) /\ (drv[o].round = 1 => o \in drv[o].cand)
      BY <2>2, <2>3, <2>4 DEF SensorAhead
    <3>2. o \in Fresh(o)
      <4>1. drv[o].round = 1 \/ drv[o].round > 1
        BY <1>1 DEF DrvRecs
      <4> QED BY <3>1, <4>1, OwnPortIsCandidate DEF Fresh
    <3>3. node[o] \in stale \/ o \in Unclaimed(o, Fresh(o))
      BY <3>1, <3>2, OwnPortIsLeft
    <3> QED BY <2>1, <2>2, <3>1, <3>3 DEF SensorAhead, Plugged
  <2>5. SearchHolds(o)'
    BY <2>1, <2>2, <2>3, <2>4 DEF SearchHolds
  <2> QED BY <1>4, <2>5, OneMoves DEF Searches
<1>5. ASSUME NEW o \in Drivers, NextPort(o) PROVE \A w \in Drivers : SearchHolds(w)'
  <2>1. /\ drv'[o].pc = "probe" /\ drv'[o].loop = drv[o].loop /\ drv'[o].cand = drv[o].cand
        /\ drv'[o].path \in drv[o].todo /\ drv'[o].todo = drv[o].todo \ {drv'[o].path}
    BY <1>1, <1>5, NextPortRecord
  <2>2. drv[o].pc = "next" /\ UNCHANGED <<node, stale, missed>> /\ Seeking(o)
    BY <1>5 DEF NextPort, Plugs, Seeking
  <2>3. ~drv[o].loop /\ drv[o].todo \subseteq drv[o].cand /\ (o \notin missed => SensorAhead(o))
    BY <1>1, <2>2 DEF SearchHolds
  <2>4. drv[o].todo \subseteq Devices
    BY <1>1 DEF DrvRecs
  <2>5. o \notin missed => SensorAhead(o)'
    BY <2>1, <2>2, <2>3 DEF SensorAhead, Plugged
  <2>6. SearchHolds(o)'
    BY <2>1, <2>2, <2>3, <2>4, <2>5 DEF SearchHolds
  <2> QED BY <1>5, <2>6, OneMoves DEF Searches
<1>6. ASSUME NEW o \in Drivers, NextRound(o) PROVE \A w \in Drivers : SearchHolds(w)'
  <2>1. /\ drv'[o].pc = "list" /\ drv'[o].loop = drv[o].loop /\ drv'[o].cand = drv[o].cand
        /\ drv'[o].todo = drv[o].todo /\ drv'[o].round = drv[o].round + 1
    BY <1>1, <1>6, NextRoundRecord
  <2>2. drv[o].pc = "next" /\ UNCHANGED <<node, stale, missed>> /\ Seeking(o) /\ drv[o].round >= 1
    BY <1>1, <1>6 DEF NextRound, Plugs, Seeking, DrvRecs
  <2>3. ~drv[o].loop /\ drv[o].todo \subseteq drv[o].cand /\ (o \notin missed => SensorAhead(o))
    BY <1>1, <2>2 DEF SearchHolds
  <2>4. drv'[o].round # 1
    BY <1>1, <2>1, <2>2 DEF DrvRecs
  <2>5. o \notin missed => SensorAhead(o)'
    BY <2>1, <2>2, <2>3, <2>4 DEF SensorAhead, Plugged
  <2>6. SearchHolds(o)'
    BY <2>1, <2>2, <2>3, <2>5 DEF SearchHolds
  <2> QED BY <1>6, <2>6, OneMoves DEF Searches
<1>7. ASSUME NEW o \in Drivers, ProbeFailed(o) PROVE \A w \in Drivers : SearchHolds(w)'
  <2>1. /\ drv'[o].pc = "next" /\ drv'[o].loop = drv[o].loop /\ drv'[o].cand = drv[o].cand
        /\ drv'[o].todo = drv[o].todo
    BY <1>1, <1>7, GoesRecord DEF ProbeFailed
  <2>2. drv[o].pc = "fail" /\ UNCHANGED <<node, stale, missed>> /\ Seeking(o)
    BY <1>7 DEF ProbeFailed, Plugs, Seeking
  <2>3. ~drv[o].loop /\ drv[o].todo \subseteq drv[o].cand /\ (o \notin missed => SensorAhead(o))
    BY <1>1, <2>2 DEF SearchHolds
  <2>5. o \notin missed => SensorAhead(o)'
    BY <2>1, <2>2, <2>3 DEF SensorAhead, Plugged
  <2>6. SearchHolds(o)'
    BY <2>1, <2>2, <2>3, <2>5 DEF SearchHolds
  <2> QED BY <1>7, <2>6, OneMoves DEF Searches
<1>8. ASSUME NEW o \in Drivers, Claim(o) PROVE \A w \in Drivers : SearchHolds(w)'
  <2>1. drv'[o].pc = "up" /\ drv'[o].cand = {}
    BY <1>1, <1>8, ClaimRecord
  <2>2. SearchHolds(o)'
    BY <2>1, NotSeeking DEF Seeking
  <2> QED BY <1>8, <2>2, OneMoves DEF Searches
<1>9. ASSUME NEW o \in Drivers, ~Seeking(o), NEW b, NotOpen(o, b),
             drv[o].pc \in {"probe", "asking"}
      PROVE  SearchHolds(o)'
  <2>1. drv[o].cand = {} /\ ~Searching(o)
    BY <1>9 DEF Seeking, Searching
  <2>2. drv'[o].pc \in {"off", "lost"} /\ drv'[o].cand = {}
    BY <1>1, <1>9, <2>1, NotOpenRecord
  <2> QED BY <2>2, NotSeeking DEF Seeking
\* A search whose port fails: its own port is not the one that failed.
<1>10. ASSUME NEW o \in Drivers, Seeking(o), NEW b, NotOpen(o, b),
              drv[o].pc \in {"probe", "asking"}, UNCHANGED <<node, stale, missed>>,
              o \notin missed => /\ drv[o].pc = "probe" => drv[o].path # o
                                 /\ drv[o].pc = "asking" => fd[o] # o
       PROVE  SearchHolds(o)'
  <2>1. drv[o].cand # {} /\ ~drv[o].loop /\ Searching(o)
    BY <1>1, <1>10 DEF Seeking, Searching, SearchHolds
  <2>2. /\ drv'[o].pc = "fail" /\ drv'[o].path = drv[o].path /\ drv'[o].cand = drv[o].cand
        /\ drv'[o].todo = drv[o].todo /\ drv'[o].loop = drv[o].loop
    BY <1>1, <1>10, <2>1, NotOpenRecord
  <2>3. /\ drv[o].todo \subseteq drv[o].cand /\ drv[o].path \in Devices
        /\ o \notin missed => SensorAhead(o)
    BY <1>1, <1>10 DEF SearchHolds
  <2>4. o \notin missed => SensorAhead(o)'
    BY <1>10, <2>2, <2>3 DEF SensorAhead, Plugged
  <2> QED BY <1>10, <2>1, <2>2, <2>3, <2>4 DEF SearchHolds
<1>11. ASSUME NEW o \in Drivers, Open(o) PROVE \A w \in Drivers : SearchHolds(w)'
  <2> DEFINE d == DeviceAt(drv[o].path)
  <2>1. drv[o].pc = "probe" /\ usb = None /\ UNCHANGED <<node, stale, missed>>
    BY <1>11 DEF Open, Plugs
  <2>2. /\ o \in Devices /\ fd \in [Drivers -> Devices \cup {None, "dead"}]
        /\ drv[o].path \in Paths \cup {None}
    BY <1>1, NamesApart DEF PortsTypeOK, DrvRecs
  <2>3. Seeking(o) => d = IF Plugged(drv[o].path) THEN drv[o].path ELSE None
    <3>1. Seeking(o) => drv[o].path \in Devices
      BY <1>1, <2>1 DEF SearchHolds
    <3> QED BY <1>1, <2>2, <3>1, BehindPath
  <2>4. SUFFICES SearchHolds(o)'
    BY <1>11, OneMoves DEF Opens
  <2>5. CASE MayOpen(o, d) /\ ~InUse(o, d)
    <3>1. fd' = [fd EXCEPT ![o] = d] /\ Goes(o, "asking") /\ d # None
      BY <1>11, <2>5 DEF Open, MayOpen
    <3>2. /\ drv'[o].pc = "asking" /\ drv'[o].path = drv[o].path /\ drv'[o].cand = drv[o].cand
          /\ drv'[o].todo = drv[o].todo /\ drv'[o].loop = drv[o].loop
      BY <1>1, <3>1, GoesRecord
    <3>3. fd'[o] = d
      BY <2>2, <3>1
    <3> HIDE DEF d
    <3>4. CASE ~Seeking(o)
      <4>1. drv'[o].cand = {} /\ ~Seeking(o)'
        BY <2>1, <3>2, <3>4 DEF Seeking
      <4> QED BY <4>1, NotSeeking
    <3>5. CASE Seeking(o)
      <4>1. d = drv[o].path
        BY <2>3, <3>1, <3>5
      <4>2. /\ ~drv[o].loop /\ drv[o].todo \subseteq drv[o].cand /\ drv[o].path \in Devices
            /\ o \notin missed => SensorAhead(o)
        BY <1>1, <2>1, <3>5 DEF SearchHolds
      <4>3. o \notin missed => SensorAhead(o)'
        BY <2>1, <3>2, <3>3, <4>1, <4>2 DEF SensorAhead, Plugged
      <4> QED BY <2>1, <3>2, <3>3, <4>1, <4>2, <4>3 DEF SearchHolds
    <3> QED BY <3>4, <3>5
  <2>6. CASE ~(MayOpen(o, d) /\ ~InUse(o, d))
    <3>1. PICK b : NotOpen(o, b)
      BY <1>11, <2>6 DEF Open
    <3>2. CASE ~Seeking(o)
      BY <1>9, <2>1, <3>1, <3>2
    <3>3. CASE Seeking(o)
      <4>1. ASSUME o \notin missed PROVE drv[o].path # o
        <5>1. Plugged(o)
          BY <1>1, <3>3, <4>1 DEF SearchHolds, SensorAhead
        <5>2. d # o
          BY <2>1, <2>6, OwnPortOpens
        <5> QED BY <2>3, <3>3, <5>1, <5>2
      <4>2. o \notin missed => /\ drv[o].pc = "probe" => drv[o].path # o
                               /\ drv[o].pc = "asking" => fd[o] # o
        BY <2>1, <4>1
      <4>3. drv[o].pc \in {"probe", "asking"}
        BY <2>1
      <4> QED BY <1>10, <2>1, <3>1, <3>3, <4>2, <4>3
    <3> QED BY <3>2, <3>3
  <2> QED BY <2>5, <2>6
<1>12. ASSUME NEW o \in Drivers, Answers(o) PROVE \A w \in Drivers : SearchHolds(w)'
  <2>1. /\ drv[o].pc = "asking" /\ fd[o] = o /\ o \in Devices /\ UNCHANGED <<node, stale, missed, fd>>
    BY <1>12, NamesApart DEF Answers, Plugs
  <2>2. SUFFICES SearchHolds(o)'
    BY <1>12, OneMoves DEF Opens
  <2>3. CASE Searching(o)
    <3>1. Goes(o, "claim") /\ Seeking(o)
      BY <1>12, <2>1, <2>3 DEF Answers, Seeking, Searching
    <3>2. /\ drv'[o].pc = "claim" /\ drv'[o].path = drv[o].path /\ drv'[o].cand = drv[o].cand
          /\ drv'[o].todo = drv[o].todo /\ drv'[o].loop = drv[o].loop
      BY <1>1, <3>1, GoesRecord
    <3>3. /\ ~drv[o].loop /\ drv[o].todo \subseteq drv[o].cand /\ drv[o].path = o
          /\ o \notin missed => SensorAhead(o)
      BY <1>1, <2>1, <3>1 DEF SearchHolds
    <3>4. o \notin missed => SensorAhead(o)'
      BY <2>1, <3>2, <3>3 DEF SensorAhead, Plugged
    <3> QED BY <2>1, <3>2, <3>3, <3>4 DEF SearchHolds
  <2>4. CASE ~Searching(o)
    <3>1. drv[o].cand = {}
      BY <1>1, <2>1, <2>4 DEF SearchHolds, Seeking, Searching
    <3>2. drv'[o].pc = "up" /\ drv'[o].cand = {}
      BY <1>1, <1>12, <2>4, <3>1, UpRecord DEF Answers
    <3> QED BY <3>2, NotSeeking DEF Seeking
  <2> QED BY <2>3, <2>4
<1>13. ASSUME NEW o \in Drivers, NoAnswer(o) PROVE \A w \in Drivers : SearchHolds(w)'
  <2>1. drv[o].pc = "asking" /\ usb = o /\ UNCHANGED <<node, stale, missed>>
    BY <1>13 DEF NoAnswer, Plugs
  <2>2. SUFFICES SearchHolds(o)'
    BY <1>13, OneMoves DEF Opens
  <2>3. fd[o] # o
    <3>1. Other(o) \in Drivers /\ Other(o) # o /\ o \in Devices
      BY OtherDriver, NamesApart
    <3>2. fd[Other(o)] # o
      BY <1>1, <2>1, <3>1 DEF AskedAlone
    <3> QED BY <1>13, <3>2 DEF NoAnswer
  <2>4. PICK b : NotOpen(o, b)
    BY <1>13 DEF NoAnswer
  <2>5. CASE ~Seeking(o)
    BY <1>9, <2>1, <2>4, <2>5
  <2>6. CASE Seeking(o)
    <3>1. o \notin missed => /\ drv[o].pc = "probe" => drv[o].path # o
                             /\ drv[o].pc = "asking" => fd[o] # o
      BY <2>1, <2>3
    <3>2. drv[o].pc \in {"probe", "asking"}
      BY <2>1
    <3> QED BY <1>10, <2>1, <2>4, <2>6, <3>1, <3>2
  <2> QED BY <2>5, <2>6
<1>14. CASE Loses \/ Reconnects
  <2> DEFINE l == "lidar"
  <2>1. /\ l \in Drivers /\ drv[l].pc \in {"up", "lost"} /\ UNCHANGED <<node, stale, missed>>
        /\ Goes(l, "lost") \/ Goes(l, "probe")
        /\ fd' = fd \/ fd' = [fd EXCEPT ![l] = None]
    BY <1>14 DEF Loses, Reconnects, Drivers, Plugs
  <2> HIDE DEF l
  <2>2. drv[l].cand = {}
    BY <1>1, <2>1 DEF SearchHolds
  <2>3. /\ drv'[l].pc \in {"lost", "probe"} /\ drv'[l].cand = {}
        /\ \A w \in Drivers : w # l => drv'[w] = drv[w]
    BY <1>1, <2>1, <2>2, GoesRecord
  <2>4. SearchHolds(l)'
    BY <2>1, <2>3, NotSeeking DEF Seeking
  <2>5. \A w \in Drivers : w # l => fd'[w] = fd[w]
    BY <1>1, <2>1 DEF PortsTypeOK
  <2>6. ASSUME NEW w \in Drivers, w # l PROVE SearchHolds(w)'
    BY <1>1, <2>1, <2>3, <2>5, <2>6, SearchKept
  <2> QED BY <2>4, <2>6
<1>15. ASSUME NEW d \in Devices, Unplug(d), NEW w \in Drivers PROVE SearchHolds(w)'
  <2>1. /\ node' = [node EXCEPT ![d] = None] /\ stale' = stale \cup {node[d]} /\ drv' = drv
        /\ missed' = missed \cup ({d} \cap Drivers)
        /\ fd' = [o \in Drivers |-> IF fd[o] = d THEN "dead" ELSE fd[o]]
    BY <1>15 DEF Unplug
  <2>2. w \in Devices /\ node \in [Devices -> Nodes \cup {None}] /\ "dead" \notin Devices
    BY <1>1, NamesApart DEF PortsTypeOK
  <2>3. CASE d # w
    <3>1. fd'[w] # fd[w] => fd'[w] \notin Devices /\ fd[w] # w
      BY <2>1, <2>2, <2>3
    <3>2. drv'[w] = drv[w] /\ (w \notin missed' => w \notin missed) /\ node'[w] = node[w]
          /\ stale \subseteq stale'
      BY <2>1, <2>2, <2>3
    <3> QED BY <1>1, <3>1, <3>2, SearchKept
  <2>4. CASE d = w
    <3>1. w \in missed' /\ drv'[w] = drv[w] /\ stale \subseteq stale'
      BY <2>1, <2>4
    <3>2. fd'[w] \in Devices => fd'[w] = fd[w]
      BY <2>1, <2>2
    <3>3. Seeking(w)' <=> Seeking(w)
      BY <3>1 DEF Seeking
    <3> QED BY <1>1, <3>1, <3>2, <3>3 DEF SearchHolds
  <2> QED BY <2>3, <2>4
<1>16. ASSUME NEW d \in Devices, NEW n \in Nodes, Plug(d, n), NEW w \in Drivers PROVE SearchHolds(w)'
  <2>1. /\ node' = [node EXCEPT ![d] = n] /\ UNCHANGED <<stale, drv, missed, fd>> /\ ~Plugged(d)
    BY <1>16 DEF Plug
  <2>2. w \in Devices /\ node \in [Devices -> Nodes \cup {None}]
    BY <1>1, NamesApart DEF PortsTypeOK
  <2>3. Plugged(w) => node'[w] = node[w]
    BY <2>1, <2>2
  <2> QED BY <1>1, <2>1, <2>3, SearchKept
<1> QED BY <1>2, <1>3, <1>4, <1>5, <1>6, <1>7, <1>8, <1>11, <1>12, <1>13, <1>14, <1>15, <1>16
        DEF PortsNext, Searches, Opens

LEMMA PortsIInvStep == PortsIInv /\ [PortsNext]_portVars => PortsIInv'
<1> SUFFICES ASSUME PortsIInv, [PortsNext]_portVars PROVE PortsIInv'
  OBVIOUS
<1>1. PortsTypeOK'
  BY PortsTypesStep DEF PortsIInv
<1>2. CASE PortsNext
  <2>1. BridgesFit'
    <3>1. bridge' = bridge /\ BridgesFit
      BY <1>2, HubStep DEF PortsIInv
    <3> QED BY <3>1 DEF BridgesFit, Setting, Safe, LooksLikeCan, HostsCan
  <2> QED BY <1>1, <1>2, <2>1, AskedStep, ClaimsStep, ApartStep, SearchStep DEF PortsIInv
<1>3. CASE UNCHANGED portVars
  <2>1. BridgesFit' /\ AskedAlone' /\ ClaimsKnown' /\ PortsApart'
    BY <1>3 DEF PortsIInv, portVars, BridgesFit, Setting, AskedAlone, ClaimsKnown, PortsApart, Safe,
                LooksLikeCan, HostsCan
  <2>2. ASSUME NEW w \in Drivers PROVE SearchHolds(w)'
    <3>1. SearchHolds(w)
      BY DEF PortsIInv
    <3> QED BY <1>3, <3>1, SearchKept DEF portVars
  <2> QED BY <1>1, <2>1, <2>2 DEF PortsIInv
<1> QED BY <1>2, <1>3

\* Whatever is unplugged and plugged in again, and under whatever node: neither
\* driver has the CAN adapter or the other's chip open, and no exclusive port
\* is open twice (_open_unlocked, is_safe_sensor_serial_port).
THEOREM PortsStayApart == PortsSpec => []PortsApart
<1>1. PortsInit => PortsIInv
  BY PortsIInvInit
<1>2. PortsIInv /\ [PortsNext]_portVars => PortsIInv'
  BY PortsIInvStep
<1>3. PortsIInv => PortsApart
  BY DEF PortsIInv
<1> QED BY <1>1, <1>2, <1>3, PTL DEF PortsSpec

\* A search (open_first_working) that gives up while its sensor was plugged in
\* all along met an old claim of the other driver on the sensor's node: that
\* the other was probing the port at the same time is never the reason.
THEOREM SearchesDoFind == PortsSpec => SearchesFind
<1> DEFINE Step == \A o \in Drivers : GivesUp(o) => o \in missed \/ node[o] \in stale
<1>1. PortsInit => PortsIInv
  BY PortsIInvInit
<1>2. PortsIInv /\ [PortsNext]_portVars => PortsIInv'
  BY PortsIInvStep
<1>3. PortsIInv => Step
  <2> SUFFICES ASSUME PortsIInv, NEW o \in Drivers, GivesUp(o), o \notin missed
               PROVE  node[o] \in stale
    OBVIOUS
  <2>1. drv[o].pc = "next" /\ drv[o].todo = {}
    BY DEF GivesUp
  <2>2. SensorAhead(o)
    BY <2>1 DEF PortsIInv, SearchHolds, Seeking
  <2> QED BY <2>1, <2>2 DEF SensorAhead
<1>4. PortsIInv /\ [PortsNext]_portVars => [Step]_portVars
  BY <1>3
<1> HIDE DEF Step
<1>5. PortsSpec => [][Step]_portVars
  BY <1>1, <1>2, <1>4, PTL DEF PortsSpec
<1> QED BY <1>5 DEF SearchesFind, Step
=============================================================================

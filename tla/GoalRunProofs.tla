---------------------------- MODULE GoalRunProofs ----------------------------
(***************************************************************************)
(* Proofs about GoalRun, for any limits and any reverse budget.  What the  *)
(* escape machine returns is stated first, for anything a tick may sense;  *)
(* then one inductive invariant, IInv, carries every property.  The last   *)
(* part is about what localization does during a goal (LocHold).           *)
(***************************************************************************)
EXTENDS GoalRun, LocHold, TLAPS

-----------------------------------------------------------------------------
(* The escape machine *)

\* What tick_pre and tick_post may return.
EscapeResults ==
    [machine : Machines, cmd : {"none", "zero", "turn", "rev"},
     label : {"none", "planning", "reverse", "turn", "wait"},
     replan : Triggers \cup {"none"}]

\* No escape is under way while one cools down, and one that is under way
\* knows what began it.
Calm(m) == m.mode # "idle" => ~m.cooling /\ m.trigger # "none"

\* A reverse that may go on for a tick.
Reversing(m) == m.mode = "reverse" /\ -Budget < m.backed /\ m.backed < Budget

\* How machine m may become n within a tick that requests no replan.
Follows(m, n) == m.mode = "reverse" => n.mode = "reverse" /\ n.backed = m.backed

LEMMA ZeroBacked == 0 \in -Budget .. Budget
  BY EscapeAssumption

LEMMA EnterType ==
    ASSUME NEW m \in Machines, NEW mode \in {"reverse", "turn"}, NEW trigger \in Triggers
    PROVE  /\ Enter(m, mode, trigger) \in Machines
           /\ Enter(m, mode, trigger).mode = mode
           /\ Enter(m, mode, trigger).trigger = trigger
           /\ Enter(m, mode, trigger).cooling = m.cooling
           /\ Enter(m, mode, trigger).backed = 0
  BY ZeroBacked DEF Enter, Machines

LEMMA NewMachineType == NewMachine \in Machines /\ Calm(NewMachine)
  BY ZeroBacked DEF NewMachine, Machines, Calm

LEMMA ClearType ==
    ASSUME NEW m \in Machines
    PROVE  /\ ClearEpisode(m) \in Machines
           /\ ClearEpisode(m).mode = "idle"
           /\ ClearEpisode(m).cooling = m.cooling
  BY ZeroBacked DEF ClearEpisode, NewMachine, Machines

LEMMA FinishType ==
    ASSUME NEW m \in Machines
    PROVE  /\ Finish(m) \in EscapeResults
           /\ Calm(Finish(m).machine)
           /\ Finish(m).replan = m.trigger
           /\ Finish(m).cmd = "zero"
           /\ Finish(m).machine.cooling
<1> DEFINE n == [NewMachine EXCEPT !.cooling = TRUE]
<1>1. n \in Machines /\ n.mode = "idle" /\ n.cooling
  BY ZeroBacked DEF NewMachine, Machines
<1>2. m.trigger \in Triggers \cup {"none"}
  BY DEF Machines
<1>3. Finish(m) = Result(n, "zero", "planning", m.trigger)
  BY DEF Finish
<1> HIDE DEF n
<1> QED
  BY <1>1, <1>2, <1>3 DEF Result, EscapeResults, Calm

LEMMA NothingType ==
    ASSUME NEW m \in Machines
    PROVE  /\ Nothing(m) \in EscapeResults
           /\ Nothing(m).machine = m
           /\ Nothing(m).cmd = "none"
           /\ Nothing(m).replan = "none"
  BY DEF Nothing, Result, EscapeResults

LEMMA ResultType ==
    ASSUME NEW m \in Machines, NEW c \in {"zero", "turn", "rev"},
           NEW l \in {"planning", "reverse", "turn", "wait"}
    PROVE  /\ Result(m, c, l, "none") \in EscapeResults
           /\ Result(m, c, l, "none").machine = m
           /\ Result(m, c, l, "none").cmd = c
           /\ Result(m, c, l, "none").replan = "none"
  BY DEF Result, EscapeResults

\* What both entry points keep of the machine m they are given: r is what they
\* return.
Sound(m, r) ==
    /\ r \in EscapeResults
    /\ Calm(r.machine)
    /\ r.cmd = "rev" => Reversing(r.machine)
    /\ r.replan = "none" => Follows(m, r.machine)

LEMMA ContinueReverseSound ==
    ASSUME NEW m \in Machines, NEW s, Calm(m), m.mode = "reverse"
    PROVE  /\ Sound(m, ContinueReverse(m, s))
           /\ ContinueReverse(m, s).cmd # "none"
<1>1. CASE m.backed \in {Budget, -Budget} \/ ~s.geo.rearStill
  BY <1>1, FinishType DEF ContinueReverse, Sound, Calm
<1>2. CASE ~(m.backed \in {Budget, -Budget} \/ ~s.geo.rearStill)
  <2>1. Reversing(m)
    BY <1>2, EscapeAssumption DEF Reversing, Machines
  <2> QED
    BY <1>2, <2>1, ResultType DEF ContinueReverse, Sound, Follows
<1> QED
  BY <1>1, <1>2

LEMMA ContinueTurnSound ==
    ASSUME NEW m \in Machines, NEW s, Calm(m), m.mode = "turn"
    PROVE  /\ Sound(m, ContinueTurn(m, s))
           /\ ContinueTurn(m, s).cmd # "none"
<1>1. CASE s.geo.turned
  BY <1>1, FinishType DEF ContinueTurn, Sound, Calm
<1>2. CASE ~s.geo.turned
  BY <1>2, ResultType DEF ContinueTurn, Sound, Follows
<1> QED
  BY <1>1, <1>2

LEMMA EnterReverseSound ==
    ASSUME NEW m \in Machines, m.mode # "reverse", ~m.cooling, NEW trigger \in Triggers
    PROVE  LET r == Result(Enter(m, "reverse", trigger), "rev", "reverse", "none")
           IN  Sound(m, r) /\ r.cmd # "none"
  BY EnterType, ResultType, EscapeAssumption
     DEF Sound, Calm, Reversing, Follows, Triggers

LEMMA EnterTurnSound ==
    ASSUME NEW m \in Machines, m.mode # "reverse", ~m.cooling, NEW trigger \in Triggers
    PROVE  LET r == Result(Enter(m, "turn", trigger), "turn", "turn", "none")
           IN  Sound(m, r) /\ r.cmd # "none"
  BY EnterType, ResultType DEF Sound, Calm, Follows, Triggers

LEMMA NothingSound ==
    ASSUME NEW m \in Machines, Calm(m)
    PROVE  Sound(m, Nothing(m))
  BY NothingType DEF Sound, Follows

LEMMA WaitSound ==
    ASSUME NEW m \in Machines, NEW s, m.mode = "idle", ~m.cooling
    PROVE  Sound(m, Wait(m, s)) /\ Wait(m, s).cmd # "none"
<1> DEFINE keep == Result(m, IF s.cmd = "turn" THEN "turn" ELSE "zero", "wait", "none")
<1>1. Sound(m, keep) /\ keep.cmd # "none"
  BY ResultType DEF Sound, Calm, Follows
<1> DEFINE r == Result(Enter(m, "reverse", "blocked_nose_unstick"), "rev", "reverse", "none")
           t == Result(Enter(m, "turn", "blocked_nose_unstick"), "turn", "turn", "none")
<1>2. Sound(m, r) /\ r.cmd # "none" /\ Sound(m, t) /\ t.cmd # "none"
  BY EnterReverseSound, EnterTurnSound DEF Triggers
<1>3. Wait(m, s) \in {keep, r, t}
  BY DEF Wait
<1> QED
  BY <1>1, <1>2, <1>3

\* tick_pre keeps the machine sound; while the policy waits it has an answer
\* to every command of the follower unless an escape cools down.
LEMMA TickPreSound ==
    ASSUME NEW m \in Machines, NEW s, Calm(m)
    PROVE  /\ Sound(m, TickPre(m, s))
           /\ s.held => TickPre(m, s) = Nothing(m)
           /\ m.cooling => TickPre(m, s) = Nothing(m)
           /\ s.waiting /\ ~s.held /\ ~m.cooling => TickPre(m, s).cmd # "none"
<1> USE DEF Calm
<1>1. CASE s.held
  BY <1>1, NothingSound DEF TickPre
<1>2. CASE ~s.held /\ m.mode = "reverse"
  BY <1>2, ContinueReverseSound DEF TickPre
<1>3. CASE ~s.held /\ m.mode = "turn"
  <2>1. CASE s.cmd = "rev" /\ s.geo.straight /\ ~s.nose
    <3> DEFINE n == Enter(m, "reverse", "blocked_nose_unstick")
    <3>1. n \in Machines /\ Calm(n) /\ n.mode = "reverse"
      BY <1>3, EnterType DEF Calm, Triggers
    <3>2. Sound(n, ContinueReverse(n, s)) /\ ContinueReverse(n, s).cmd # "none"
      BY <3>1, ContinueReverseSound
    <3>3. TickPre(m, s) = ContinueReverse(n, s)
      BY <1>3, <2>1 DEF TickPre
    <3> HIDE DEF n
    <3> QED
      BY <1>3, <3>2, <3>3 DEF Sound, Follows
  <2>2. CASE ~(s.cmd = "rev" /\ s.geo.straight /\ ~s.nose)
    <3>1. TickPre(m, s) = ContinueTurn(m, s)
      BY <1>3, <2>2 DEF TickPre
    <3> QED
      BY <1>3, <3>1, ContinueTurnSound
  <2> QED
    BY <2>1, <2>2
<1>4. CASE ~s.held /\ m.mode = "idle" /\ m.cooling
  BY <1>4, NothingSound DEF TickPre
<1>5. CASE ~s.held /\ m.mode = "idle" /\ ~m.cooling
  <2> DEFINE r == Result(Enter(m, "reverse", "narrow_reverse_done"), "rev", "reverse", "none")
  <2>1. Sound(m, r) /\ r.cmd # "none"
    BY <1>5, EnterReverseSound DEF Triggers
  <2>2. CASE BumperReverse(s)
    <3>1. TickPre(m, s) = r
      BY <1>5, <2>2 DEF TickPre
    <3> QED
      BY <1>5, <2>1, <3>1
  <2>3. CASE ~BumperReverse(s) /\ s.waiting
    <3>1. TickPre(m, s) = Wait(m, s)
      BY <1>5, <2>3 DEF TickPre
    <3> QED
      BY <1>5, <3>1, WaitSound
  <2>4. CASE ~BumperReverse(s) /\ ~s.waiting
    <3>1. TickPre(m, s) = Nothing(m)
      BY <1>5, <2>4 DEF TickPre
    <3> QED
      BY <1>5, <2>4, <3>1, NothingSound
  <2> QED
    BY <2>2, <2>3, <2>4
<1> QED
  BY <1>1, <1>2, <1>3, <1>4, <1>5 DEF Machines

\* What tick_post keeps.  It may drop an escape, but only where localization
\* holds the base, a corridor leads it or a cooldown runs.
LEMMA TickPostSound ==
    ASSUME NEW m \in Machines, NEW s, Calm(m)
    PROVE  LET r == TickPost(m, s) IN
           /\ r \in EscapeResults
           /\ Calm(r.machine)
           /\ r.cmd = "rev" => Reversing(r.machine)
           /\ r.replan = "none" /\ ~s.held /\ ~s.corridor => Follows(m, r.machine)
           /\ s.held \/ s.corridor => r.cmd = "none" /\ r.replan = "none"
           /\ m.cooling => r.machine.cooling
<1>1. CASE s.held \/ s.corridor \/ m.cooling
  <2> DEFINE n == DropUndrivable(m, s)
  <2>1. n \in Machines /\ Calm(n) /\ n.cooling = m.cooling
    BY ClearType DEF DropUndrivable, Calm
  <2>2. TickPost(m, s) = Nothing(n)
    BY <1>1 DEF TickPost
  <2>3. ~s.held /\ ~s.corridor => Follows(m, n)
    BY <1>1 DEF Calm, Follows
  <2> HIDE DEF n
  <2> QED
    BY <2>1, <2>2, <2>3, NothingType
<1>2. CASE ~(s.held \/ s.corridor \/ m.cooling)
  <2>1. TickPost(m, s) = PostActive(m, s)
    BY <1>2 DEF TickPost
  <2>2. SUFFICES Sound(m, PostActive(m, s))
    BY <1>2, <2>1 DEF Sound
  <2>3. CASE m.mode # "idle" /\ m.trigger = "undrivable_nose" /\ m.mode = "reverse"
    BY <2>3, ContinueReverseSound DEF PostActive
  <2>4. CASE m.mode # "idle" /\ m.trigger = "undrivable_nose" /\ m.mode = "turn"
    BY <2>4, ContinueTurnSound DEF PostActive
  <2>5. CASE m.mode # "idle" /\ m.trigger # "undrivable_nose"
    BY <2>5, NothingSound DEF PostActive
  <2>6. CASE m.mode = "idle"
    <3> DEFINE t == Result(Enter(m, "turn", "undrivable_nose"), "turn", "turn", "none")
               n == Enter(m, "reverse", "undrivable_nose")
    <3>1. Sound(m, t)
      BY <1>2, <2>6, EnterTurnSound DEF Triggers
    <3>2. n \in Machines /\ Calm(n) /\ n.mode = "reverse"
      BY <1>2, EnterType DEF Calm, Triggers
    <3>3. Sound(n, ContinueReverse(n, s))
      BY <3>2, ContinueReverseSound
    <3>4. PostActive(m, s) \in {t, ContinueReverse(n, s), Nothing(m)}
      BY <2>6 DEF PostActive
    <3> HIDE DEF n, t
    <3> QED
      BY <2>6, <3>1, <3>3, <3>4, NothingSound DEF Sound, Follows
  <2> QED
    BY <2>3, <2>4, <2>5, <2>6 DEF Machines
<1> QED
  BY <1>1, <1>2

-----------------------------------------------------------------------------
(* The inductive invariant of a goal *)

Episodes ==
    [since : BOOLEAN, fails : 0 .. StallLimit, count : 0 .. FailLimit,
     dist : BOOLEAN, static : 0 .. StaticLimit, avoid : BOOLEAN,
     corridor : BOOLEAN, escape : Machines]

Ticks ==
    [held : BOOLEAN, scan : BOOLEAN, nose : BOOLEAN, cheap : BOOLEAN,
     blocked : BOOLEAN, waiting : BOOLEAN,
     corridor : {"none", "aligned", "wide"}, cmd : Twists,
     label : {"none", "clear", "avoid", "no_scan", "escape", "corridor"},
     progressed : BOOLEAN, escaping : BOOLEAN]

Opening == {"top", "sense", "policy", "replan", "follow"}

Closing == {"output", "stall", "send"}

\* Whatever gives the goal up as blocked has just counted up to the limit, and
\* the count never runs ahead of the failures since the last fresh start.
Counted ==
    /\ ep.count <= streak
    /\ pc = "blocked" => ep.count >= FailLimit

\* A tick finds out about a corridor only in its block policy, and only with a
\* scan; one that waits does not replan there.
Planned ==
    /\ pc \in {"sense", "policy"} => tick.corridor = "none"
    /\ tick.corridor # "none" => tick.scan
    /\ pc = "replan" => ~tick.waiting

\* Held and waiting ticks count as progress, the latter once they have a command.
Progressing ==
    /\ tick.held => tick.progressed
    /\ pc \in {"periodic", "gate"} \cup Closing => (tick.waiting => tick.progressed)

\* The limiter's reference is rest, or the twist that is about to be sent.
Referenced ==
    /\ pc \in Opening \cup {"periodic", "gate"} => (base = "none" => sent = "none")
    /\ pc \in Closing => sent \in {"none", Direction(tick.cmd)}

\* Without a scan only an escape has a twist that is not zero.
Blind ==
    pc \in {"periodic", "gate"} \cup Closing /\ ~tick.scan
      => tick.cmd \in {"zero", "done"} \/ tick.label = "escape"

\* While the policy waits, the escape has the word.
Waiting ==
    pc \in {"periodic", "gate"} \cup Closing
      => (tick.waiting /\ ~tick.held /\ tick.corridor = "none" /\ ~ep.escape.cooling
            => tick.label = "escape")

\* Where a held tick has its last word.
Held == pc \in Closing /\ tick.held => tick.cmd = "zero"

\* A twist of the escape's reverse comes from a reverse that may go on.
Escaping ==
    /\ pc \in Opening => ~tick.escaping
    /\ tick.escaping =>
         tick.cmd = "rev" /\ tick.label = "escape" /\ ~tick.held /\ Reversing(ep.escape)

\* What the reverse has covered is at most what lies between the place where
\* the base is and the farthest it can have been ahead of the start.
Covered ==
    ~flicker /\ reversed > 0
      => ep.escape.mode = "reverse" /\ reversed <= ep.escape.backed + Budget

Covering == pc \in Opening \cup {"periodic", "gate"} \/ tick.escaping => Covered

IInv ==
    /\ TypeOK
    /\ CountHasItsDistance
    /\ Calm(ep.escape)
    /\ Counted
    /\ Planned
    /\ Progressing
    /\ StallOnlyWhenDriving
    /\ Referenced
    /\ Blind
    /\ Waiting
    /\ Held
    /\ Escaping
    /\ Covering
    /\ ReverseIsBounded

LEMMA TypeIs ==
    TypeOK <=>
    /\ pc \in {"top", "sense", "policy", "replan", "follow", "periodic", "gate",
               "output", "stall", "send"} \cup Ends
    /\ ep \in Episodes
    /\ tick \in Ticks
    /\ sent \in Directions
    /\ base \in Directions
    /\ streak \in 0 .. FailLimit
    /\ reversed \in 0 .. 2 * Budget + 1
    /\ flicker \in BOOLEAN
  BY DEF TypeOK, Episodes, Ticks

LEMMA InitIInv == Init => IInv
<1> SUFFICES ASSUME Init PROVE IInv
  OBVIOUS
<1>1. ep = NewEpisode /\ NewEpisode \in Episodes /\ Calm(NewEpisode.escape)
  BY NewMachineType, GoalAssumption DEF Init, NewEpisode, Episodes
<1>2. tick = NewTick /\ NewTick \in Ticks
  BY DEF Init, NewTick, Ticks, Twists
<1>3. streak \in 0 .. FailLimit /\ reversed \in 0 .. 2 * Budget + 1
  BY GoalAssumption, EscapeAssumption DEF Init
<1>4. pc = "top" /\ sent \in Directions /\ base \in Directions /\ flicker \in BOOLEAN
  BY DEF Init, Directions
<1>5. TypeOK
  BY <1>1, <1>2, <1>3, <1>4, TypeIs
<1> QED
  BY <1>1, <1>2, <1>5, GoalAssumption, EscapeAssumption
     DEF IInv, Init, NewEpisode, NewTick, CountHasItsDistance, Counted, Planned,
         Progressing, StallOnlyWhenDriving, Referenced, Blind, Waiting, Held, Escaping,
         Covering, Covered, ReverseIsBounded, Opening, Closing

-----------------------------------------------------------------------------
(* The ends and the beginning of a tick *)

\* Whatever ends the goal changes nothing that the invariant is about.
LEMMA EndStep ==
    ASSUME IInv, NEW how \in Ends \ {"blocked", "stalled"}, End(how),
           pc \in {"top", "output"}
    PROVE  IInv'
<1>1. UNCHANGED <<ep, tick, sent, streak, reversed, flicker>> /\ base' \in Directions
  BY DEF End, ghosts, Directions
<1>2. /\ pc' = how
      /\ pc' \notin Opening \cup {"periodic", "gate", "blocked", "stalled"} \cup Closing
  BY DEF End, Ends, Opening, Closing
<1>3. TypeOK'
  BY <1>1, <1>2, TypeIs DEF IInv, TypeOK
<1>4. Covering' /\ Escaping'
  BY <1>1, <1>2 DEF IInv, Covering, Covered, Escaping, Opening, Closing
<1>5. Progressing'
  BY <1>1, <1>2 DEF IInv, Progressing
<1>6. Counted' /\ Planned' /\ StallOnlyWhenDriving'
  BY <1>1, <1>2 DEF IInv, Counted, Planned, StallOnlyWhenDriving, Opening
<1>7. Referenced' /\ Blind' /\ Waiting' /\ Held'
  BY <1>2 DEF Referenced, Blind, Waiting, Held
<1> QED
  BY <1>1, <1>3, <1>4, <1>5, <1>6, <1>7
     DEF IInv, CountHasItsDistance, Calm, ReverseIsBounded

\* A goal that got closer forgets its failures.
LEMMA OnGoalProgressKeeps ==
    ASSUME NEW e \in Episodes
    PROVE  /\ OnGoalProgress(e) \in Episodes
           /\ OnGoalProgress(e).count = 0 /\ ~OnGoalProgress(e).dist
           /\ OnGoalProgress(e).escape = e.escape
<1> DEFINE f == [e EXCEPT !.count = 0]
<1>1. f \in Episodes /\ f.count = 0 /\ f.escape = e.escape
  BY GoalAssumption DEF Episodes
<1>2. OnGoalProgress(e) = [f EXCEPT !.dist = FALSE]
  BY DEF OnGoalProgress
<1> HIDE DEF f
<1> QED
  BY <1>1, <1>2 DEF Episodes

LEMMA CooledKeeps ==
    ASSUME NEW e \in Episodes, NEW cooled \in BOOLEAN, Calm(e.escape)
    PROVE  LET f == [e EXCEPT !.escape.cooling = @ /\ ~cooled] IN
           /\ f \in Episodes
           /\ f.count = e.count /\ f.dist = e.dist
           /\ f.escape.mode = e.escape.mode /\ f.escape.backed = e.escape.backed
           /\ Calm(f.escape)
<1> DEFINE m == [e.escape EXCEPT !.cooling = @ /\ ~cooled]
<1>1. e.escape \in Machines
  BY DEF Episodes
<1>2. m \in Machines /\ m.mode = e.escape.mode /\ m.backed = e.escape.backed
      /\ m.trigger = e.escape.trigger /\ (m.cooling => e.escape.cooling)
  BY <1>1 DEF Machines
<1>3. [e EXCEPT !.escape.cooling = @ /\ ~cooled] = [e EXCEPT !.escape = m]
  OBVIOUS
<1> HIDE DEF m
<1> QED
  BY <1>2, <1>3 DEF Episodes, Calm

LEMMA BeginTickStep == IInv /\ BeginTick => IInv'
<1> SUFFICES ASSUME IInv, BeginTick PROVE IInv'
  OBVIOUS
<1>1. PICK held \in BOOLEAN, closer \in BOOLEAN, cooled \in BOOLEAN :
        /\ ep' = LET e == IF closer THEN OnGoalProgress(ep) ELSE ep
                 IN  [e EXCEPT !.escape.cooling = @ /\ ~cooled]
        /\ streak' = IF closer THEN 0 ELSE streak
        /\ tick' = [NewTick EXCEPT !.held = held, !.progressed = held]
  BY DEF BeginTick
<1>2. pc = "top" /\ pc' = "sense" /\ UNCHANGED <<sent, base, reversed, flicker>>
  BY DEF BeginTick, twist
<1>3. ep \in Episodes /\ Calm(ep.escape) /\ streak \in 0 .. FailLimit
      /\ ep.count <= streak /\ (ep.count > 0 <=> ep.dist)
  BY TypeIs DEF IInv, Counted, CountHasItsDistance
<1> DEFINE e == IF closer THEN OnGoalProgress(ep) ELSE ep
<1>4. /\ e \in Episodes /\ e.escape = ep.escape
      /\ e.count <= streak' /\ (e.count > 0 <=> e.dist)
      /\ streak' \in 0 .. FailLimit
  BY <1>1, <1>3, OnGoalProgressKeeps, GoalAssumption
<1>5. /\ ep' \in Episodes
      /\ ep'.escape.mode = ep.escape.mode
      /\ ep'.escape.backed = ep.escape.backed
      /\ Calm(ep'.escape)
      /\ ep'.count <= streak' /\ (ep'.count > 0 <=> ep'.dist)
  <2> HIDE DEF e
  <2>1. ep' = [e EXCEPT !.escape.cooling = @ /\ ~cooled]
    BY <1>1 DEF e
  <2> QED
    BY <1>3, <1>4, <2>1, CooledKeeps
<1>6. /\ tick' \in Ticks
      /\ tick'.corridor = "none" /\ ~tick'.escaping
      /\ tick'.held => tick'.progressed
  BY <1>1 DEF NewTick, Ticks, Twists
<1>7. TypeOK'
  BY <1>2, <1>4, <1>5, <1>6, TypeIs DEF IInv, TypeOK, Episodes, Ticks
<1>8. Covering' /\ ReverseIsBounded' /\ Referenced'
  BY <1>2, <1>5, <1>6
     DEF IInv, Covering, Covered, ReverseIsBounded, Referenced, Opening, Closing
<1> QED
  BY <1>2, <1>5, <1>6, <1>7, <1>8
     DEF IInv, CountHasItsDistance, Counted, Planned, Progressing,
         StallOnlyWhenDriving, Blind, Waiting, Held, Escaping, Opening, Closing

-----------------------------------------------------------------------------
(* Sensing and the block policy *)

\* What is left to show of a step that ends before the follower.
LEMMA OpeningStep ==
    ASSUME TypeOK', pc' \in {"policy", "replan", "follow"},
           ep'.count > 0 <=> ep'.dist, Calm(ep'.escape), ep'.count <= streak', Planned',
           tick'.held => tick'.progressed, ~tick'.escaping,
           base' = "none" => sent' = "none", Covered', ReverseIsBounded'
    PROVE  IInv'
<1>1. pc' \notin {"blocked", "stalled", "periodic", "gate"} \cup Closing
  BY DEF Closing
<1>2. Progressing' /\ StallOnlyWhenDriving' /\ Blind' /\ Waiting' /\ Held' /\ Counted'
  BY <1>1 DEF Progressing, StallOnlyWhenDriving, Blind, Waiting, Held, Counted
<1>3. Referenced' /\ Escaping' /\ Covering'
  BY <1>1 DEF Referenced, Escaping, Covering
<1> QED
  BY <1>2, <1>3 DEF IInv, CountHasItsDistance, Calm

\* What the invariant says of a goal before the follower's turn.
LEMMA OpeningFacts ==
    ASSUME IInv, pc \in Opening
    PROVE  /\ ep \in Episodes /\ tick \in Ticks /\ streak \in 0 .. FailLimit
           /\ reversed \in 0 .. 2 * Budget + 1 /\ flicker \in BOOLEAN
           /\ ep.count > 0 <=> ep.dist
           /\ Calm(ep.escape) /\ ep.escape \in Machines
           /\ ep.count <= streak
           /\ tick.held => tick.progressed
           /\ ~tick.escaping
           /\ base = "none" => sent = "none"
           /\ Covered /\ ReverseIsBounded
<1>1. ep \in Episodes
  BY TypeIs DEF IInv
<1> QED
  BY <1>1, TypeIs
     DEF IInv, CountHasItsDistance, Counted, Progressing, Escaping, Referenced,
         Covering, Episodes

LEMMA SenseStep == IInv /\ Sense => IInv'
<1> SUFFICES ASSUME IInv, Sense PROVE IInv'
  OBVIOUS
<1>1. \E scan, nose, cheap, blocked, since \in BOOLEAN :
        /\ tick' = [tick EXCEPT !.scan = scan, !.nose = nose, !.cheap = cheap,
                                !.blocked = blocked]
        /\ ep' = [ep EXCEPT !.since = since]
  <2>1. PICK scan, nose, cheap, hard, untrusted, turning \in BOOLEAN :
          LET local == PathLocallyBlocked(hard, nose, cheap)
              blocked == local /\ (~(untrusted /\ nose) \/ turning)
          IN  /\ turning => ep.avoid
              /\ tick' = [tick EXCEPT !.scan = scan, !.nose = nose, !.cheap = cheap,
                                      !.blocked = blocked]
              /\ ep' = [ep EXCEPT !.since = @ \/ (turning /\ local)]
    BY DEF Sense
  <2> DEFINE local == PathLocallyBlocked(hard, nose, cheap)
             blocked == local /\ (~(untrusted /\ nose) \/ turning)
             since == ep.since \/ (turning /\ local)
  <2>2. blocked \in BOOLEAN /\ since \in BOOLEAN
    OBVIOUS
  <2>3. /\ tick' = [tick EXCEPT !.scan = scan, !.nose = nose, !.cheap = cheap,
                                !.blocked = blocked]
        /\ ep' = [ep EXCEPT !.since = since]
    BY <2>1
  <2> HIDE DEF blocked, since
  <2> QED
    BY <2>2, <2>3
<1>2. pc = "sense" /\ pc' = "policy" /\ UNCHANGED <<sent, base, streak, reversed, flicker>>
  BY DEF Sense, twist, ghosts
<1>3. tick.corridor = "none" /\ pc \in Opening
  BY <1>2 DEF IInv, Planned, Opening
<1>4. /\ tick' \in Ticks /\ tick'.corridor = "none" /\ tick'.held = tick.held
      /\ tick'.progressed = tick.progressed /\ tick'.escaping = tick.escaping
  BY <1>1, <1>3, OpeningFacts DEF Ticks
<1>5. /\ ep' \in Episodes /\ ep'.escape = ep.escape
      /\ ep'.count = ep.count /\ ep'.dist = ep.dist
  BY <1>1, <1>3, OpeningFacts DEF Episodes
<1>6. TypeOK'
  BY <1>2, <1>4, <1>5, TypeIs DEF IInv, TypeOK, Episodes, Ticks
<1>7. Planned' /\ Covered' /\ ReverseIsBounded'
  BY <1>2, <1>3, <1>4, <1>5, OpeningFacts DEF Planned, Covered, ReverseIsBounded
<1> QED
  BY <1>2, <1>3, <1>4, <1>5, <1>6, <1>7, OpeningFacts, OpeningStep

\* What the reset packs keep and what they set.
LEMMA OnUnblockedKeeps ==
    ASSUME NEW e \in Episodes
    PROVE  /\ OnUnblocked(e) \in Episodes
           /\ OnUnblocked(e).count = e.count /\ OnUnblocked(e).dist = e.dist
           /\ OnUnblocked(e).escape = ClearEpisode(e.escape)
<1> DEFINE m == ClearEpisode(e.escape)
<1>1. m \in Machines
  BY ClearType DEF Episodes
<1>2. OnUnblocked(e) = [e EXCEPT !.since = FALSE, !.fails = 0, !.corridor = FALSE,
                               !.escape = m]
  BY DEF OnUnblocked
<1> HIDE DEF m
<1>3. OnUnblocked(e) \in Episodes
  <2>1. 0 \in 0 .. StallLimit /\ 0 \in 0 .. FailLimit
    BY GoalAssumption
  <2> QED
    BY <1>1, <1>2, <2>1 DEF Episodes
<1> QED
  BY <1>1, <1>2, <1>3 DEF m, Episodes

LEMMA OnBlockedReplanOkKeeps ==
    ASSUME NEW e \in Episodes
    PROVE  /\ OnBlockedReplanOk(e) \in Episodes
           /\ OnBlockedReplanOk(e).count = 0 /\ ~OnBlockedReplanOk(e).dist
           /\ OnBlockedReplanOk(e).escape = ClearEpisode(e.escape)
<1> DEFINE m == ClearEpisode(e.escape)
<1>1. m \in Machines
  BY ClearType DEF Episodes
<1>2. OnBlockedReplanOk(e) = [e EXCEPT !.since = FALSE, !.fails = 0, !.count = 0, !.dist = FALSE,
                                     !.avoid = FALSE, !.corridor = FALSE, !.escape = m]
  BY DEF OnBlockedReplanOk
<1> HIDE DEF m
<1>3. OnBlockedReplanOk(e) \in Episodes
  <2>1. 0 \in 0 .. StallLimit /\ 0 \in 0 .. FailLimit
    BY GoalAssumption
  <2> QED
    BY <1>1, <1>2, <2>1 DEF Episodes
<1> QED
  BY <1>1, <1>2, <1>3 DEF m, Episodes

LEMMA OnBlockedReplanFailKeeps ==
    ASSUME NEW e \in Episodes
    PROVE  /\ OnBlockedReplanFail(e) \in Episodes
           /\ OnBlockedReplanFail(e).count = LesserOf(e.count + 1, FailLimit)
           /\ OnBlockedReplanFail(e).dist
           /\ OnBlockedReplanFail(e).escape = e.escape
<1> DEFINE k == LesserOf(e.count + 1, FailLimit)
           j == LesserOf(e.fails + 1, StallLimit)
<1>1. k \in 0 .. FailLimit /\ j \in 0 .. StallLimit
  BY GoalAssumption DEF LesserOf, Episodes
<1>2. OnBlockedReplanFail(e) = [e EXCEPT !.fails = j, !.count = k, !.dist = TRUE]
  BY DEF OnBlockedReplanFail
<1> HIDE DEF k, j
<1>3. OnBlockedReplanFail(e) \in Episodes
  BY <1>1, <1>2 DEF Episodes
<1> QED
  BY <1>1, <1>2, <1>3 DEF k, Episodes

LEMMA UnblockedStep == IInv /\ Unblocked => IInv'
<1> SUFFICES ASSUME IInv, Unblocked PROVE IInv'
  OBVIOUS
<1>1. /\ pc = "policy" /\ pc' = "follow" /\ pc \in Opening
      /\ UNCHANGED <<tick, sent, base, streak, reversed>>
      /\ ep' = OnUnblocked(ep)
      /\ flicker' = (flicker \/ ep.escape.mode = "reverse")
  BY DEF Unblocked, twist, Opening
<1>2. /\ ep' \in Episodes /\ ep'.count = ep.count /\ ep'.dist = ep.dist
      /\ ep'.escape = ClearEpisode(ep.escape) /\ Calm(ep'.escape)
  BY <1>1, OpeningFacts, OnUnblockedKeeps, ClearType DEF Calm
<1>3. TypeOK'
  BY <1>1, <1>2, OpeningFacts, TypeIs DEF IInv, TypeOK, Episodes
<1>4. Covered' /\ ReverseIsBounded'
  BY <1>1, OpeningFacts DEF Covered, ReverseIsBounded
<1>5. Planned'
  BY <1>1 DEF IInv, Planned
<1> QED
  BY <1>1, <1>2, <1>3, <1>4, <1>5, OpeningFacts, OpeningStep

LEMMA BlockedStep == IInv /\ Blocked => IInv'
<1> SUFFICES ASSUME IInv, Blocked PROVE IInv'
  OBVIOUS
<1>1. /\ pc = "policy" /\ pc \in Opening
      /\ UNCHANGED <<sent, base, streak, reversed, flicker>>
  BY DEF Blocked, twist, ghosts, Opening
<1>2. PICK found \in {"none", "aligned", "wide"}, look, wait, cor \in BOOLEAN :
        /\ found # "none" => tick.scan
        /\ ep' = [ep EXCEPT !.since = TRUE, !.corridor = cor]
        /\ tick' = [tick EXCEPT !.corridor = found, !.waiting = wait]
        /\ pc' \in {"replan", "follow"} /\ (pc' = "replan" => ~wait)
  <2>1. PICK waited, cooled, stuck \in BOOLEAN, found \in {"none", "aligned", "wide"} :
          LET look == MayLookForCorridor(waited)
              action == WithCorridor(BlockAction(waited, cooled, stuck), found, cooled)
          IN  /\ waited => ep.since
              /\ stuck => ~tick.progressed
              /\ found # "none" => look
              /\ ep' = [ep EXCEPT !.since = TRUE,
                                  !.corridor = IF look THEN found # "none" ELSE @]
              /\ tick' = [tick EXCEPT !.corridor = found, !.waiting = action = "wait"]
              /\ pc' = IF action = "replan" THEN "replan" ELSE "follow"
    BY DEF Blocked
  <2> DEFINE act == WithCorridor(BlockAction(waited, cooled, stuck), found, cooled)
             cor == IF MayLookForCorridor(waited) THEN found # "none" ELSE ep.corridor
  <2>2. found # "none" => tick.scan
    BY <2>1 DEF MayLookForCorridor
  <2>3. cor \in BOOLEAN /\ (act = "wait") \in BOOLEAN
    BY <1>1, OpeningFacts DEF Episodes
  <2>4. /\ ep' = [ep EXCEPT !.since = TRUE, !.corridor = cor]
        /\ tick' = [tick EXCEPT !.corridor = found, !.waiting = (act = "wait")]
        /\ pc' = IF act = "replan" THEN "replan" ELSE "follow"
    BY <2>1, <1>1, OpeningFacts DEF Episodes
  <2> HIDE DEF act, cor
  <2> QED
    BY <2>2, <2>3, <2>4
<1>3. /\ tick' \in Ticks /\ tick'.held = tick.held /\ tick'.scan = tick.scan
      /\ tick'.progressed = tick.progressed /\ tick'.escaping = tick.escaping
      /\ tick'.corridor = found /\ tick'.waiting = wait
  BY <1>1, <1>2, OpeningFacts DEF Ticks
<1>4. /\ ep' \in Episodes /\ ep'.escape = ep.escape
      /\ ep'.count = ep.count /\ ep'.dist = ep.dist
  BY <1>1, <1>2, OpeningFacts DEF Episodes
<1>5. TypeOK'
  BY <1>1, <1>2, <1>3, <1>4, TypeIs DEF IInv, TypeOK, Episodes, Ticks
<1>6. Planned' /\ Covered' /\ ReverseIsBounded'
  BY <1>1, <1>2, <1>3, <1>4, OpeningFacts DEF Planned, Covered, ReverseIsBounded
<1> QED
  BY <1>1, <1>2, <1>3, <1>4, <1>5, <1>6, OpeningFacts, OpeningStep

LEMMA BlockedReplanOkStep == IInv /\ BlockedReplanOk => IInv'
<1> SUFFICES ASSUME IInv, BlockedReplanOk PROVE IInv'
  OBVIOUS
<1>1. /\ pc = "replan" /\ pc' = "follow" /\ pc \in Opening
      /\ ep' = OnBlockedReplanOk(ep) /\ tick' = [tick EXCEPT !.corridor = "none"]
      /\ sent' = "none" /\ base' = "none"
      /\ streak' = 0 /\ reversed' = 0 /\ flicker' = FALSE
  BY DEF BlockedReplanOk, StopToPlan, Opening
<1>2. /\ ep' \in Episodes /\ ep'.count = 0 /\ ~ep'.dist /\ Calm(ep'.escape)
  BY <1>1, OpeningFacts, OnBlockedReplanOkKeeps, ClearType DEF Calm
<1>3. /\ tick' \in Ticks /\ tick'.held = tick.held /\ tick'.corridor = "none"
      /\ tick'.progressed = tick.progressed /\ tick'.escaping = tick.escaping
  BY <1>1, OpeningFacts DEF Ticks
<1>4. TypeOK'
  <2>1. streak' \in 0 .. FailLimit /\ reversed' \in 0 .. 2 * Budget + 1
    BY <1>1, GoalAssumption, EscapeAssumption
  <2> QED
    BY <1>1, <1>2, <1>3, <2>1 DEF TypeOK, Episodes, Ticks, Directions
<1>5. Planned' /\ Covered' /\ ReverseIsBounded'
  BY <1>1, <1>3, EscapeAssumption DEF Planned, Covered, ReverseIsBounded
<1> QED
  BY <1>1, <1>2, <1>3, <1>4, <1>5, OpeningFacts, OpeningStep

\* One more failure on both counts.
LEMMA OneMoreFailure ==
    ASSUME NEW e \in Episodes, NEW n \in 0 .. FailLimit, e.count <= n
    PROVE  LET f == OnBlockedReplanFail(e)
               k == LesserOf(n + 1, FailLimit)
           IN  /\ f \in Episodes /\ f.escape = e.escape
               /\ f.count > 0 <=> f.dist
               /\ f.count <= k /\ k \in 0 .. FailLimit
  BY OnBlockedReplanFailKeeps, GoalAssumption DEF LesserOf, Episodes

\* A goal is given up as blocked: nothing but the counts is left to show.
LEMMA GivenUp ==
    ASSUME TypeOK', pc' = "blocked", ep'.count >= FailLimit, Calm(ep'.escape),
           ep'.count > 0 <=> ep'.dist, ep'.count <= streak',
           tick'.corridor # "none" => tick'.scan,
           tick'.held => tick'.progressed, ~tick'.escaping, ReverseIsBounded'
    PROVE  IInv'
<1>1. pc' \notin Opening \cup {"stalled", "periodic", "gate"} \cup Closing
  BY DEF Opening, Closing
<1>2. Progressing' /\ StallOnlyWhenDriving' /\ Blind' /\ Waiting' /\ Held' /\ Counted'
  BY <1>1 DEF Progressing, StallOnlyWhenDriving, Blind, Waiting, Held, Counted
<1>3. Referenced' /\ Escaping' /\ Covering' /\ Planned'
  BY <1>1 DEF Referenced, Escaping, Covering, Planned, Opening
<1> QED
  BY <1>2, <1>3 DEF IInv, CountHasItsDistance, Calm

LEMMA BlockedReplanFailsStep == IInv /\ BlockedReplanFails => IInv'
<1> SUFFICES ASSUME IInv, BlockedReplanFails PROVE IInv'
  OBVIOUS
<1>1. /\ pc = "replan" /\ pc \in Opening
      /\ ep' = OnBlockedReplanFail(ep) /\ streak' = LesserOf(streak + 1, FailLimit)
      /\ sent' = "none" /\ base' = "none"
      /\ UNCHANGED <<tick, reversed, flicker>>
      /\ pc' \in {"blocked", "follow"} /\ (pc' = "blocked" => ep'.count >= FailLimit)
  BY DEF BlockedReplanFails, StopToPlan, Opening, GiveUp
<1>2. /\ ep' \in Episodes /\ ep'.escape = ep.escape /\ (ep'.count > 0 <=> ep'.dist)
      /\ ep'.count <= streak' /\ streak' \in 0 .. FailLimit
  BY <1>1, OpeningFacts, OneMoreFailure
<1>3. TypeOK'
  BY <1>1, <1>2, OpeningFacts DEF TypeOK, Episodes, Ticks, Directions, Ends
<1>4. Covered' /\ ReverseIsBounded' /\ tick'.held = tick.held
  BY <1>1, <1>2, OpeningFacts DEF Covered, ReverseIsBounded
<1>5. tick'.corridor # "none" => tick'.scan
  BY <1>1 DEF IInv, Planned
<1>6. CASE pc' = "blocked"
  BY <1>1, <1>2, <1>3, <1>4, <1>5, <1>6, OpeningFacts, GivenUp
<1>7. CASE pc' = "follow"
  <2>1. Planned'
    BY <1>5, <1>7 DEF Planned
  <2> QED
    BY <1>1, <1>2, <1>3, <1>4, <1>7, <2>1, OpeningFacts, OpeningStep
<1> QED
  BY <1>1, <1>6, <1>7

-----------------------------------------------------------------------------
(* The follower and the first half of the escape *)

\* What the escape machine is told of the tick, whatever the readings say.
LEMMA SenseOf ==
    ASSUME NEW e, NEW cmd, NEW label, NEW spinBlocked, NEW readings
    PROVE  LET s == EscapeSense(e, cmd, label, spinBlocked, readings) IN
           /\ s.held = tick.held
           /\ s.waiting = tick.waiting
           /\ s.corridor = (label = "corridor")
  BY DEF EscapeSense

LEMMA CommandOf ==
    ASSUME NEW cmd \in FollowerCommands
    PROVE  /\ cmd.cmd \in Twists
           /\ cmd.label \in {"clear", "avoid", "no_scan"}
           /\ ~tick.scan => cmd.cmd \in {"zero", "done"}
  BY DEF FollowerCommands, Twists

LEMMA PreReplanOkKeeps ==
    ASSUME NEW e \in Episodes, NEW unstick \in BOOLEAN
    PROVE  LET f == OnEscapePreReplanOk(e, unstick) IN
           /\ f \in Episodes /\ f.escape = e.escape
           /\ (f.count = 0 /\ ~f.dist) \/ (~unstick /\ f.count = e.count /\ f.dist = e.dist)
<1>1. 0 \in 0 .. StallLimit /\ 0 \in 0 .. FailLimit
  BY GoalAssumption
<1>2. CASE unstick
  <2>1. OnEscapePreReplanOk(e, unstick) =
          [e EXCEPT !.since = FALSE, !.fails = 0, !.count = 0, !.dist = FALSE,
                    !.avoid = FALSE]
    BY <1>2 DEF OnEscapePreReplanOk
  <2> QED
    BY <1>1, <2>1 DEF Episodes
<1>3. CASE ~unstick
  <2>1. OnEscapePreReplanOk(e, unstick) = [e EXCEPT !.since = FALSE, !.fails = 0]
    BY <1>3 DEF OnEscapePreReplanOk
  <2> QED
    BY <1>1, <1>3, <2>1 DEF Episodes
<1> QED
  BY <1>2, <1>3

\* What a replan of the escape leaves behind, found or not.
LEMMA EscapePreReplanKeeps ==
    ASSUME NEW e \in Episodes, NEW trigger, EscapePreReplan(e, trigger),
           tick \in Ticks, streak \in 0 .. FailLimit,
           e.count > 0 <=> e.dist, e.count <= streak,
           tick.held => tick.progressed
    PROVE  /\ ep' \in Episodes /\ ep'.escape = e.escape
           /\ ep'.count > 0 <=> ep'.dist
           /\ ep'.count <= streak' /\ streak' \in 0 .. FailLimit
           /\ tick' \in Ticks /\ tick'.cmd = "zero" /\ tick'.label = "escape"
           /\ ~tick'.escaping
           /\ tick'.held \/ tick'.waiting => tick'.progressed
           /\ tick'.corridor = tick.corridor /\ tick'.scan = tick.scan
           /\ pc' = "periodic" \/ (pc' = "blocked" /\ ep'.count >= FailLimit)
<1> DEFINE unstick == trigger = "blocked_nose_unstick"
           fresh == [tick EXCEPT !.cmd = "zero", !.label = "escape", !.escaping = FALSE]
<1>1. \/ /\ ep' = OnEscapePreReplanOk(e, unstick)
         /\ streak' = IF unstick THEN 0 ELSE streak
         /\ tick' = [fresh EXCEPT !.progressed = TRUE]
         /\ pc' = "periodic"
      \/ /\ ep' = IF unstick THEN OnBlockedReplanFail(e) ELSE e
         /\ streak' = IF unstick THEN LesserOf(streak + 1, FailLimit) ELSE streak
         /\ tick' = [fresh EXCEPT !.progressed = ProgressInWait(tick)]
         /\ pc' = IF unstick /\ GiveUp(ep') THEN "blocked" ELSE "periodic"
  BY DEF EscapePreReplan
<1>2. unstick \in BOOLEAN
  OBVIOUS
<1>3. /\ ep' \in Episodes /\ ep'.escape = e.escape
      /\ ep'.count > 0 <=> ep'.dist
      /\ ep'.count <= streak' /\ streak' \in 0 .. FailLimit
  <2> HIDE DEF unstick
  <2>1. CASE ep' = OnEscapePreReplanOk(e, unstick)
             /\ streak' = IF unstick THEN 0 ELSE streak
    BY <1>2, <2>1, PreReplanOkKeeps, GoalAssumption DEF Episodes
  <2>2. CASE ep' = (IF unstick THEN OnBlockedReplanFail(e) ELSE e)
             /\ streak' = IF unstick THEN LesserOf(streak + 1, FailLimit) ELSE streak
    BY <2>2, OneMoreFailure
  <2> QED
    BY <1>1, <2>1, <2>2
<1>4. PICK p \in BOOLEAN :
        /\ tick' = [fresh EXCEPT !.progressed = p]
        /\ tick.held \/ tick.waiting => p
  BY <1>1 DEF ProgressInWait, Ticks
<1>5. /\ tick' \in Ticks /\ tick'.cmd = "zero" /\ tick'.label = "escape"
      /\ ~tick'.escaping /\ tick'.corridor = tick.corridor /\ tick'.scan = tick.scan
      /\ tick'.held \/ tick'.waiting => tick'.progressed
  BY <1>4 DEF Ticks, Twists
<1>6. pc' = "periodic" \/ (pc' = "blocked" /\ ep'.count >= FailLimit)
  BY <1>1 DEF GiveUp
<1> QED
  BY <1>3, <1>5, <1>6

\* What is left to show of a step that ends between the follower and the gate.
LEMMA MiddleStep ==
    ASSUME TypeOK', pc' \in {"periodic", "gate"},
           ep'.count > 0 <=> ep'.dist, Calm(ep'.escape), ep'.count <= streak',
           tick'.corridor # "none" => tick'.scan,
           tick'.held \/ tick'.waiting => tick'.progressed,
           base' = "none" => sent' = "none", Blind', Waiting', Escaping',
           Covered', ReverseIsBounded'
    PROVE  IInv'
<1>1. pc' \notin {"blocked", "stalled", "sense", "policy", "replan"} \cup Closing
  BY DEF Closing
<1>2. Progressing' /\ StallOnlyWhenDriving' /\ Held' /\ Counted' /\ Planned'
  BY <1>1 DEF Progressing, StallOnlyWhenDriving, Held, Counted, Planned
<1>3. Referenced' /\ Covering'
  BY <1>1 DEF Referenced, Covering
<1> QED
  BY <1>2, <1>3 DEF IInv, CountHasItsDistance, Calm

LEMMA FollowStep == IInv /\ Follow => IInv'
<1> SUFFICES ASSUME IInv, Follow PROVE IInv'
  OBVIOUS
<1>1. pc = "follow" /\ pc \in Opening
  BY DEF Follow, Opening
<1>2. PICK cmd \in FollowerCommands, readings \in PreReadings :
        LET e == [ep EXCEPT !.avoid = cmd.label = "avoid"]
            r == TickPre(ep.escape, EscapeSense(e, cmd.cmd, cmd.label, cmd.spinBlocked, readings))
            after == [e EXCEPT !.escape = r.machine]
        IN  IF r.replan # "none"
              THEN /\ EscapePreReplan(after, r.replan)
                   /\ StopToPlan
                   /\ reversed' = 0
                   /\ flicker' = FALSE
              ELSE /\ ep' = after
                   /\ tick' = [tick EXCEPT
                        !.cmd = IF r.cmd = "none" THEN cmd.cmd ELSE r.cmd,
                        !.label = IF r.cmd = "none" THEN cmd.label ELSE "escape",
                        !.escaping = r.cmd = "rev",
                        !.progressed = ProgressInWait(tick)]
                   /\ pc' = "periodic"
                   /\ UNCHANGED <<twist, ghosts>>
  BY DEF Follow
<1> DEFINE e == [ep EXCEPT !.avoid = cmd.label = "avoid"]
           s == EscapeSense(e, cmd.cmd, cmd.label, cmd.spinBlocked, readings)
           r == TickPre(ep.escape, s)
           after == [e EXCEPT !.escape = r.machine]
<1>3. /\ ep \in Episodes /\ tick \in Ticks /\ ep.escape \in Machines /\ Calm(ep.escape)
      /\ ep.count > 0 <=> ep.dist
      /\ ep.count <= streak /\ streak \in 0 .. FailLimit
      /\ tick.held => tick.progressed
  BY <1>1, OpeningFacts
<1>4. s.held = tick.held /\ s.waiting = tick.waiting
  BY SenseOf
<1>5. /\ r \in EscapeResults /\ Calm(r.machine)
      /\ r.cmd = "rev" => Reversing(r.machine)
      /\ r.replan = "none" => Follows(ep.escape, r.machine)
      /\ tick.held => r.cmd = "none"
      /\ tick.waiting /\ ~tick.held /\ ~r.machine.cooling => r.cmd # "none"
  <2> HIDE DEF s
  <2>1. Sound(ep.escape, r)
    BY <1>3, TickPreSound
  <2>2. tick.held => r = Nothing(ep.escape)
    BY <1>3, <1>4, TickPreSound
  <2>3. ep.escape.cooling => r = Nothing(ep.escape)
    BY <1>3, TickPreSound
  <2>4. tick.waiting /\ ~tick.held /\ ~ep.escape.cooling => r.cmd # "none"
    BY <1>3, <1>4, TickPreSound
  <2> HIDE DEF r
  <2> QED
    BY <1>3, <2>1, <2>2, <2>3, <2>4, NothingType DEF Sound
<1>6. /\ after \in Episodes /\ after.escape = r.machine
      /\ after.count = ep.count /\ after.dist = ep.dist
  <2>1. r.machine \in Machines
    BY <1>5 DEF EscapeResults
  <2> HIDE DEF r
  <2>2. e \in Episodes /\ e.count = ep.count /\ e.dist = ep.dist
    BY <1>3 DEF Episodes
  <2> HIDE DEF e
  <2> QED
    BY <2>1, <2>2 DEF Episodes
<1>7. tick.corridor # "none" => tick.scan
  BY DEF IInv, Planned
<1>8. CASE r.replan # "none"
  <2>1. EscapePreReplan(after, r.replan) /\ StopToPlan /\ reversed' = 0 /\ flicker' = FALSE
    BY <1>2, <1>8
  <2> HIDE DEF after, r
  <2>2. sent' = "none" /\ base' = "none"
    BY <2>1 DEF StopToPlan
  <2>3. /\ ep' \in Episodes /\ ep'.escape = r.machine
        /\ ep'.count > 0 <=> ep'.dist
        /\ ep'.count <= streak' /\ streak' \in 0 .. FailLimit
        /\ tick' \in Ticks /\ tick'.cmd = "zero" /\ tick'.label = "escape"
        /\ ~tick'.escaping
        /\ tick'.held \/ tick'.waiting => tick'.progressed
        /\ tick'.corridor = tick.corridor /\ tick'.scan = tick.scan
        /\ pc' = "periodic" \/ (pc' = "blocked" /\ ep'.count >= FailLimit)
    BY <1>3, <1>6, <2>1, EscapePreReplanKeeps
  <2>4. TypeOK'
    <3>1. reversed' \in 0 .. 2 * Budget + 1
      BY <2>1, EscapeAssumption
    <3> QED
      BY <2>1, <2>2, <2>3, <3>1 DEF TypeOK, Episodes, Ticks, Directions, Ends
  <2>5. Covered' /\ ReverseIsBounded'
    BY <2>1, EscapeAssumption DEF Covered, ReverseIsBounded
  <2>6. tick'.corridor # "none" => tick'.scan
    BY <1>7, <2>3
  <2>7. Calm(ep'.escape)
    BY <1>5, <2>3
  <2>8. CASE pc' = "periodic"
    <3>1. Blind' /\ Waiting' /\ Escaping'
      BY <2>3, <2>8 DEF Blind, Waiting, Escaping
    <3> QED
      BY <2>2, <2>3, <2>4, <2>5, <2>6, <2>7, <2>8, <3>1, MiddleStep
  <2>9. CASE pc' = "blocked" /\ ep'.count >= FailLimit
    BY <2>2, <2>3, <2>4, <2>5, <2>6, <2>7, <2>9, GivenUp
  <2> QED
    BY <2>3, <2>8, <2>9
<1>9. CASE r.replan = "none"
  <2> DEFINE c == IF r.cmd = "none" THEN cmd.cmd ELSE r.cmd
             l == IF r.cmd = "none" THEN cmd.label ELSE "escape"
             x == r.cmd = "rev"
             p == ProgressInWait(tick)
  <2>1. /\ ep' = after /\ pc' = "periodic"
        /\ tick' = [tick EXCEPT !.cmd = c, !.label = l, !.escaping = x, !.progressed = p]
        /\ UNCHANGED <<sent, base, streak, reversed, flicker>>
    BY <1>2, <1>9 DEF twist, ghosts
  <2>2. /\ c \in Twists /\ l \in {"clear", "avoid", "no_scan", "escape"}
        /\ ~tick.scan => c \in {"zero", "done"} \/ l = "escape"
        /\ tick.waiting /\ ~tick.held /\ ~r.machine.cooling => l = "escape"
        /\ x => c = "rev" /\ l = "escape" /\ ~tick.held /\ Reversing(r.machine)
        /\ x \in BOOLEAN
    <3> HIDE DEF r
    <3> QED
      BY <1>5, CommandOf DEF EscapeResults, Twists
  <2>3. p \in BOOLEAN /\ (tick.held \/ tick.waiting => p)
    BY <1>3 DEF ProgressInWait, Ticks
  <2> HIDE DEF after, r, c, l, x, p
  <2>4. /\ tick' \in Ticks /\ tick'.cmd = c /\ tick'.label = l /\ tick'.escaping = x
        /\ tick'.progressed = p /\ tick'.held = tick.held /\ tick'.waiting = tick.waiting
        /\ tick'.scan = tick.scan /\ tick'.corridor = tick.corridor
    BY <1>3, <2>1, <2>2, <2>3 DEF Ticks
  <2>5. TypeOK'
    BY <1>6, <2>1, <2>4, TypeIs DEF IInv, TypeOK, Episodes, Ticks
  <2>6. Covered' /\ ReverseIsBounded'
    BY <1>1, <1>5, <1>6, <1>9, <2>1, OpeningFacts DEF Covered, ReverseIsBounded, Follows
  <2>7. Blind' /\ Waiting' /\ Escaping'
    BY <1>6, <2>1, <2>2, <2>4 DEF Blind, Waiting, Escaping, Opening
  <2>8. base' = "none" => sent' = "none"
    BY <1>1, <2>1, OpeningFacts
  <2> QED
    BY <1>3, <1>5, <1>6, <1>7, <2>1, <2>3, <2>4, <2>5, <2>6, <2>7, <2>8, MiddleStep
<1> QED
  BY <1>8, <1>9

-----------------------------------------------------------------------------
(* Periodic replans *)

\* What the invariant says of a goal between the follower and the gate.
LEMMA MiddleFacts ==
    ASSUME IInv, pc \in {"periodic", "gate"}
    PROVE  /\ ep \in Episodes /\ tick \in Ticks /\ streak \in 0 .. FailLimit
           /\ reversed \in 0 .. 2 * Budget + 1 /\ flicker \in BOOLEAN
           /\ sent \in Directions /\ base \in Directions
           /\ ep.count > 0 <=> ep.dist
           /\ Calm(ep.escape) /\ ep.escape \in Machines
           /\ ep.count <= streak
           /\ tick.corridor # "none" => tick.scan
           /\ tick.held \/ tick.waiting => tick.progressed
           /\ base = "none" => sent = "none"
           /\ Covered /\ ReverseIsBounded
<1>1. ep \in Episodes
  BY TypeIs DEF IInv
<1> QED
  BY <1>1, TypeIs
     DEF IInv, CountHasItsDistance, Counted, Progressing, Referenced, Planned,
         Covering, Episodes

\* An episode that keeps its failure counts and its escape.
Alike(e, f) ==
    f \in Episodes /\ f.count = e.count /\ f.dist = e.dist /\ f.escape = e.escape

LEMMA OnPeriodicReplanOkKeeps ==
    ASSUME NEW e \in Episodes PROVE Alike(e, OnPeriodicReplanOk(e))
<1>1. 0 \in 0 .. StallLimit /\ 0 \in 0 .. StaticLimit
  BY GoalAssumption
<1> QED
  BY <1>1 DEF Alike, OnPeriodicReplanOk, Episodes

LEMMA OnReplanOkKeeps ==
    ASSUME NEW e \in Episodes PROVE Alike(e, OnReplanOk(e))
<1>1. 0 \in 0 .. StallLimit
  BY GoalAssumption
<1> QED
  BY <1>1 DEF Alike, OnReplanOk, Episodes

\* A periodic replan changes nothing of the tick but that it progressed.
LEMMA PeriodicKeeps ==
    ASSUME IInv, pc = "periodic", Alike(ep, ep'), NEW p \in BOOLEAN, tick.progressed => p,
           tick' = [tick EXCEPT !.progressed = p], UNCHANGED <<streak, reversed, flicker>>,
           sent' \in Directions, base' \in Directions, base' = "none" => sent' = "none"
    PROVE  /\ pc' = "gate" => IInv'
           /\ pc' = "static" => IInv'
<1>1. /\ tick' \in Ticks /\ tick'.cmd = tick.cmd /\ tick'.label = tick.label
      /\ tick'.escaping = tick.escaping /\ tick'.held = tick.held
      /\ tick'.waiting = tick.waiting /\ tick'.scan = tick.scan
      /\ tick'.corridor = tick.corridor
      /\ tick'.held \/ tick'.waiting => tick'.progressed
  BY MiddleFacts DEF Ticks
<1>2. pc' \in {"gate", "static"} => TypeOK'
  BY <1>1, MiddleFacts DEF TypeOK, Alike, Episodes, Ticks, Ends
<1>3. Covered' /\ ReverseIsBounded'
  BY MiddleFacts DEF Covered, ReverseIsBounded, Alike
<1>4. /\ ep'.count > 0 <=> ep'.dist
      /\ Calm(ep'.escape) /\ ep'.count <= streak'
      /\ tick'.corridor # "none" => tick'.scan
  BY <1>1, MiddleFacts DEF Alike
<1>5. ASSUME pc' = "gate" PROVE IInv'
  <2>1. Blind' /\ Waiting' /\ Escaping'
    BY <1>1, <1>5 DEF IInv, Blind, Waiting, Escaping, Alike, Opening
  <2> QED
    BY <1>1, <1>2, <1>3, <1>4, <1>5, <2>1, MiddleStep
<1>6. ASSUME pc' = "static" PROVE IInv'
  <2>1. pc' \notin Opening \cup {"blocked", "stalled", "periodic", "gate"} \cup Closing
    BY <1>6 DEF Opening, Closing
  <2>2. Escaping'
    BY <1>1, <2>1 DEF IInv, Escaping, Alike
  <2>3. Progressing' /\ Counted' /\ Planned' /\ StallOnlyWhenDriving'
    BY <1>1, <1>4, <2>1 DEF Progressing, Counted, Planned, StallOnlyWhenDriving, Opening
  <2>4. Referenced' /\ Blind' /\ Waiting' /\ Held'
    BY <2>1 DEF Referenced, Blind, Waiting, Held
  <2> QED
    BY <1>2, <1>3, <1>4, <1>6, <2>2, <2>3, <2>4
       DEF IInv, CountHasItsDistance, Covering, Calm
<1> QED
  BY <1>5, <1>6

LEMMA PeriodicStep == IInv /\ Periodic => IInv'
<1> SUFFICES ASSUME IInv, Periodic PROVE IInv'
  OBVIOUS
<1>1. pc = "periodic"
  BY DEF Periodic, NoPeriodicReplan, PeriodicReplanOk, PeriodicReplanFails
<1>2. tick.progressed \in BOOLEAN /\ tick = [tick EXCEPT !.progressed = tick.progressed]
  BY <1>1, MiddleFacts DEF Ticks
<1>3. Alike(ep, ep)
  BY <1>1, MiddleFacts DEF Alike
<1>4. CASE NoPeriodicReplan
  <2>1. UNCHANGED <<ep, tick, sent, base, streak, reversed, flicker>> /\ pc' = "gate"
    BY <1>4 DEF NoPeriodicReplan, twist, ghosts
  <2>2. Alike(ep, ep') /\ tick' = [tick EXCEPT !.progressed = tick.progressed]
    BY <1>2, <1>3, <2>1
  <2>3. sent' \in Directions /\ base' \in Directions /\ (base' = "none" => sent' = "none")
    BY <1>1, <2>1, MiddleFacts
  <2> QED
    BY <1>1, <1>2, <2>1, <2>2, <2>3, PeriodicKeeps
<1>5. CASE PeriodicReplanOk
  <2>1. /\ UNCHANGED <<streak, reversed, flicker>> /\ pc' = "gate"
        /\ tick' = [tick EXCEPT !.progressed = TRUE]
        /\ sent' = "none" /\ base' = "none" /\ ep' = OnPeriodicReplanOk(ep)
    BY <1>5 DEF PeriodicReplanOk, StopToPlan, ghosts
  <2>2. Alike(ep, ep')
    BY <1>1, <2>1, MiddleFacts, OnPeriodicReplanOkKeeps
  <2>3. sent' \in Directions /\ base' \in Directions
    BY <2>1 DEF Directions
  <2> QED
    BY <1>1, <2>1, <2>2, <2>3, PeriodicKeeps
<1>6. CASE PeriodicReplanFails
  <2>1. /\ UNCHANGED <<tick, streak, reversed, flicker>> /\ pc' \in {"gate", "static"}
        /\ sent' = "none" /\ base' = "none"
        /\ ep' = [ep EXCEPT !.static = LesserOf(@ + 1, StaticLimit)]
    BY <1>6 DEF PeriodicReplanFails, StopToPlan, ghosts
  <2>2. Alike(ep, ep')
    <3>1. ep \in Episodes
      BY <1>1, MiddleFacts
    <3>2. LesserOf(ep.static + 1, StaticLimit) \in 0 .. StaticLimit
      BY <3>1, GoalAssumption DEF LesserOf, Episodes
    <3> QED
      BY <2>1, <3>1, <3>2 DEF Alike, Episodes
  <2>3. sent' \in Directions /\ base' \in Directions
    BY <2>1 DEF Directions
  <2>4. tick' = [tick EXCEPT !.progressed = tick.progressed]
    BY <1>2, <2>1
  <2> QED
    BY <1>1, <1>2, <2>1, <2>2, <2>3, <2>4, PeriodicKeeps
<1> QED
  BY <1>4, <1>5, <1>6 DEF Periodic

-----------------------------------------------------------------------------
(* The final gate *)

\* What is left to show of a step that ends behind the gate.
LEMMA ClosingStep ==
    ASSUME TypeOK', pc' \in Closing,
           ep'.count > 0 <=> ep'.dist, Calm(ep'.escape), ep'.count <= streak',
           tick'.corridor # "none" => tick'.scan,
           tick'.held \/ tick'.waiting => tick'.progressed,
           sent' \in {"none", Direction(tick'.cmd)}, Blind', Waiting', Escaping',
           tick'.held => tick'.cmd = "zero", tick'.escaping => Covered', ReverseIsBounded'
    PROVE  IInv'
<1>1. pc' \notin {"blocked", "stalled", "periodic", "gate"} \cup Opening
  BY DEF Closing, Opening
<1>2. Progressing' /\ StallOnlyWhenDriving' /\ Held' /\ Counted' /\ Planned'
  BY <1>1 DEF Progressing, StallOnlyWhenDriving, Held, Counted, Planned, Opening
<1>3. Referenced' /\ Covering'
  BY <1>1 DEF Referenced, Covering
<1> QED
  BY <1>2, <1>3 DEF IInv, CountHasItsDistance, Calm

\* What the corridor and the hold make of the tick.
LEMMA ShapedTick ==
    ASSUME tick \in Ticks, NEW t \in Shaped
    PROVE  /\ t \in Ticks /\ t.held = tick.held /\ t.waiting = tick.waiting
           /\ t.scan = tick.scan /\ t.corridor = tick.corridor
           /\ t.progressed = tick.progressed
           /\ t.held => t.cmd = "zero"
           /\ t.corridor = "none" => t.label = tick.label
           /\ t.corridor = "none" /\ ~t.held => t.cmd = tick.cmd
           /\ t.escaping =>
                tick.escaping /\ ~t.held /\ t.cmd = tick.cmd /\ t.label = tick.label
<1> DEFINE along == {[tick EXCEPT !.cmd = c, !.label = "corridor", !.escaping = FALSE] :
                       c \in CorridorMotions}
<1>1. CASE tick.held
  <2>1. t = [tick EXCEPT !.cmd = "zero", !.escaping = FALSE]
    BY <1>1 DEF Shaped
  <2> QED
    BY <1>1, <2>1 DEF Ticks, Twists
<1>2. CASE ~tick.held /\ tick.corridor = "none"
  <2>1. t = tick
    BY <1>2 DEF Shaped
  <2> QED
    BY <1>2, <2>1
<1>3. CASE ~tick.held /\ tick.corridor # "none"
  <2>1. t = tick \/ t \in along
    BY <1>3 DEF Shaped
  <2>2. CASE t = tick
    BY <1>3, <2>2
  <2>3. CASE t \in along
    <3>1. PICK c \in {"fwd", "turn"} :
            t = [tick EXCEPT !.cmd = c, !.label = "corridor", !.escaping = FALSE]
      BY <2>3 DEF CorridorMotions
    <3> QED
      BY <1>3, <3>1 DEF Ticks, Twists
  <2> QED
    BY <2>1, <2>2, <2>3
<1> QED
  BY <1>1, <1>2, <1>3 DEF Ticks

\* What the rate limiter and the guard may leave of a command.
LEMMA GatedCommand ==
    ASSUME NEW cmd \in Twists, cmd # "done",
           NEW c \in UNION {Vetoed(limited) : limited \in Slewed(cmd)}
    PROVE  c \in Twists /\ (cmd = "zero" => c = "zero")
  BY DEF Vetoed, Slewed, Twists

LEMMA GateStep == IInv /\ Gate => IInv'
<1> SUFFICES ASSUME IInv, Gate PROVE IInv'
  OBVIOUS
<1>1. /\ pc = "gate" /\ pc' = "output" /\ pc' \in Closing
      /\ sent' = Direction(tick'.cmd)
  BY DEF Gate, Closing
<1>2. PICK t \in Shaped :
        IF t.cmd = "done"
          THEN tick' = t /\ UNCHANGED <<ep, base, ghosts>>
          ELSE \E c \in UNION {Vetoed(limited) : limited \in Slewed(t.cmd)},
                  readings \in PostReadings :
                LET v == [t EXCEPT !.cmd = c, !.escaping = @ /\ c = "rev"]
                    r == TickPost(ep.escape, EscapeSense(ep, c, v.label, FALSE, readings))
                    after == [ep EXCEPT !.escape = r.machine]
                IN  /\ readings.reaches => c # "zero"
                    /\ IF r.replan # "none"
                         THEN EscapePostReplan(after, v)
                         ELSE /\ ep' = after
                              /\ tick' = IF r.cmd = "none" THEN v
                                    ELSE [v EXCEPT !.cmd = r.cmd, !.label = "escape",
                                                   !.escaping = r.cmd = "rev"]
                              /\ UNCHANGED <<base, ghosts>>
  BY DEF Gate
<1>3. /\ ep \in Episodes /\ tick \in Ticks /\ streak \in 0 .. FailLimit
      /\ reversed \in 0 .. 2 * Budget + 1 /\ flicker \in BOOLEAN
      /\ base \in Directions
      /\ ep.count > 0 <=> ep.dist
      /\ Calm(ep.escape) /\ ep.escape \in Machines
      /\ ep.count <= streak
      /\ tick.corridor # "none" => tick.scan
      /\ tick.held \/ tick.waiting => tick.progressed
      /\ Covered /\ ReverseIsBounded
  BY <1>1, MiddleFacts
<1>4. /\ ~tick.scan => tick.cmd \in {"zero", "done"} \/ tick.label = "escape"
      /\ tick.waiting /\ ~tick.held /\ tick.corridor = "none" /\ ~ep.escape.cooling
           => tick.label = "escape"
      /\ tick.escaping =>
           tick.cmd = "rev" /\ tick.label = "escape" /\ ~tick.held /\ Reversing(ep.escape)
  BY <1>1 DEF IInv, Blind, Waiting, Escaping
<1>5. /\ t \in Ticks /\ t.held = tick.held /\ t.waiting = tick.waiting
      /\ t.scan = tick.scan /\ t.corridor = tick.corridor
      /\ t.progressed = tick.progressed
      /\ t.held => t.cmd = "zero"
      /\ t.corridor = "none" => t.label = tick.label
      /\ t.corridor = "none" /\ ~t.held => t.cmd = tick.cmd
      /\ t.escaping =>
           tick.escaping /\ ~t.held /\ t.cmd = tick.cmd /\ t.label = tick.label
  BY <1>3, ShapedTick
<1>6. /\ ~t.scan => t.cmd \in {"zero", "done"} \/ t.label = "escape"
      /\ t.waiting /\ ~t.held /\ t.corridor = "none" /\ ~ep.escape.cooling
           => t.label = "escape"
      /\ t.escaping => t.cmd = "rev" /\ t.label = "escape" /\ Reversing(ep.escape)
  BY <1>3, <1>4, <1>5
<1>7. Direction(tick'.cmd) \in Directions
  BY DEF Direction, Directions
\* A step that keeps the counts and ends with a tick like t, in the eyes of the
\* invariant, is all there is to show.
<1> DEFINE Enough ==
      /\ ep' \in Episodes /\ ep'.count = ep.count /\ ep'.dist = ep.dist
      /\ Calm(ep'.escape) /\ (ep.escape.cooling => ep'.escape.cooling)
      /\ streak' = streak /\ base' \in Directions
      /\ reversed' \in 0 .. 2 * Budget + 1 /\ flicker' \in BOOLEAN
      /\ ReverseIsBounded'
      /\ tick' \in Ticks /\ tick'.held = t.held /\ tick'.waiting = t.waiting
      /\ tick'.scan = t.scan /\ tick'.corridor = t.corridor
      /\ t.progressed => tick'.progressed
      /\ t.held => tick'.cmd = "zero"
      /\ tick'.label \in {t.label, "escape"}
      /\ tick'.label = "escape" \/ t.scan \/ tick'.cmd \in {"zero", "done"}
      /\ tick'.escaping =>
           /\ tick'.cmd = "rev" /\ tick'.label = "escape" /\ ~t.held
           /\ Reversing(ep'.escape) /\ Covered'
<1>8. ASSUME Enough PROVE IInv'
  <2>1. TypeOK'
    BY <1>1, <1>3, <1>7, <1>8 DEF TypeOK, Episodes, Ticks
  <2>2. Blind' /\ Waiting' /\ Escaping'
    BY <1>1, <1>5, <1>6, <1>8 DEF Blind, Waiting, Escaping, Closing, Opening
  <2>3. sent' \in {"none", Direction(tick'.cmd)}
    BY <1>1
  <2> QED
    BY <1>1, <1>3, <1>5, <1>8, <2>1, <2>2, <2>3, ClosingStep
<1> SUFFICES Enough
  BY <1>8
<1>9. CASE t.cmd = "done"
  <2>1. tick' = t /\ UNCHANGED <<ep, base, streak, reversed, flicker>>
    BY <1>2, <1>9 DEF ghosts
  <2> QED
    BY <1>3, <1>5, <1>6, <1>9, <2>1 DEF ReverseIsBounded
<1>10. CASE t.cmd # "done"
  <2>1. PICK c \in UNION {Vetoed(limited) : limited \in Slewed(t.cmd)},
             readings \in PostReadings :
                LET v == [t EXCEPT !.cmd = c, !.escaping = @ /\ c = "rev"]
                    r == TickPost(ep.escape, EscapeSense(ep, c, v.label, FALSE, readings))
                    after == [ep EXCEPT !.escape = r.machine]
                IN  /\ readings.reaches => c # "zero"
                    /\ IF r.replan # "none"
                         THEN EscapePostReplan(after, v)
                         ELSE /\ ep' = after
                              /\ tick' = IF r.cmd = "none" THEN v
                                    ELSE [v EXCEPT !.cmd = r.cmd, !.label = "escape",
                                                   !.escaping = r.cmd = "rev"]
                              /\ UNCHANGED <<base, ghosts>>
    BY <1>2, <1>10
  <2> DEFINE v == [t EXCEPT !.cmd = c, !.escaping = @ /\ c = "rev"]
             s == EscapeSense(ep, c, v.label, FALSE, readings)
             r == TickPost(ep.escape, s)
             after == [ep EXCEPT !.escape = r.machine]
  <2>2. c \in Twists /\ (t.cmd = "zero" => c = "zero")
    <3>1. t.cmd \in Twists
      BY <1>5 DEF Ticks
    <3> QED
      BY <1>10, <3>1, GatedCommand
  <2>3. /\ v \in Ticks /\ v.held = t.held /\ v.waiting = t.waiting /\ v.scan = t.scan
        /\ v.corridor = t.corridor /\ v.progressed = t.progressed /\ v.label = t.label
        /\ v.cmd = c /\ v.escaping = (t.escaping /\ c = "rev")
    BY <1>5, <2>2 DEF Ticks
  <2>4. s.held = t.held /\ s.corridor = (t.label = "corridor")
    <3>1. v.label = t.label
      BY <2>3
    <3>2. s.held = tick.held /\ s.corridor = (v.label = "corridor")
      <4> HIDE DEF v
      <4> QED
        BY DEF EscapeSense
    <3> HIDE DEF v, s
    <3> QED
      BY <1>5, <3>1, <3>2
  <2>5. /\ r \in EscapeResults /\ Calm(r.machine)
        /\ r.cmd = "rev" => Reversing(r.machine)
        /\ r.replan = "none" /\ ~t.held /\ t.label # "corridor"
             => Follows(ep.escape, r.machine)
        /\ t.held \/ t.label = "corridor" => r.cmd = "none" /\ r.replan = "none"
        /\ ep.escape.cooling => r.machine.cooling
    <3> HIDE DEF s
    <3> QED
      BY <1>3, <2>4, TickPostSound
  <2>6. /\ after \in Episodes /\ after.escape = r.machine
        /\ after.count = ep.count /\ after.dist = ep.dist
    <3>1. r.machine \in Machines
      BY <2>5 DEF EscapeResults
    <3> HIDE DEF r
    <3> QED
      BY <1>3, <3>1 DEF Episodes
  <2>7. CASE r.replan # "none"
    <3>1. EscapePostReplan(after, v)
      BY <2>1, <2>7
    <3> HIDE DEF after, v, r
    <3>2. /\ base' = "none" /\ streak' = streak /\ reversed' = 0 /\ flicker' = FALSE
          /\ ep' = OnReplanOk(after) \/ ep' = after
      BY <3>1 DEF EscapePostReplan
    <3>3. Alike(after, ep')
      BY <2>6, <3>2, OnReplanOkKeeps DEF Alike
    <3>4. PICK p \in BOOLEAN :
            /\ tick' = [v EXCEPT !.cmd = "zero", !.label = "escape", !.escaping = FALSE,
                                 !.progressed = p]
            /\ v.progressed => p
      <4>1. v = [v EXCEPT !.progressed = v.progressed] /\ v.progressed \in BOOLEAN
        BY <2>3 DEF Ticks
      <4>2. CASE tick' = [v EXCEPT !.cmd = "zero", !.label = "escape",
                                   !.escaping = FALSE, !.progressed = TRUE]
        BY <4>2
      <4>3. CASE tick' = [v EXCEPT !.cmd = "zero", !.label = "escape", !.escaping = FALSE]
        <5>1. tick' = [v EXCEPT !.cmd = "zero", !.label = "escape", !.escaping = FALSE,
                                !.progressed = v.progressed]
          BY <2>3, <4>3 DEF Ticks
        <5> QED
          BY <4>1, <5>1
      <4> QED
        BY <3>1, <4>2, <4>3 DEF EscapePostReplan
    <3>5. /\ tick' \in Ticks /\ tick'.held = t.held /\ tick'.waiting = t.waiting
          /\ tick'.scan = t.scan /\ tick'.corridor = t.corridor
          /\ t.progressed => tick'.progressed
          /\ tick'.cmd = "zero" /\ tick'.label = "escape" /\ ~tick'.escaping
      BY <2>3, <3>4 DEF Ticks, Twists
    <3>6. ReverseIsBounded' /\ reversed' \in 0 .. 2 * Budget + 1
      BY <3>2, EscapeAssumption DEF ReverseIsBounded
    <3>7. base' \in Directions /\ flicker' \in BOOLEAN
      BY <3>2 DEF Directions
    <3> QED
      BY <2>5, <2>6, <3>2, <3>3, <3>5, <3>6, <3>7 DEF Alike
  <2>8. CASE r.replan = "none"
    <3>1. /\ ep' = after
          /\ tick' = IF r.cmd = "none" THEN v
                     ELSE [v EXCEPT !.cmd = r.cmd, !.label = "escape",
                                    !.escaping = r.cmd = "rev"]
          /\ UNCHANGED <<base, streak, reversed, flicker>>
      BY <2>1, <2>8 DEF ghosts
    <3> HIDE DEF after, v, r
    <3>2. ReverseIsBounded'
      BY <1>3, <3>1 DEF ReverseIsBounded
    <3>3. Follows(ep.escape, r.machine) => Covered'
      BY <1>3, <2>6, <3>1 DEF Covered, Follows
    <3>4. CASE r.cmd = "none"
      <4>1. tick' = v
        BY <3>1, <3>4
      <4>2. v.escaping =>
              /\ c = "rev" /\ t.label = "escape" /\ ~t.held
              /\ Reversing(r.machine) /\ Covered'
        <5>1. v.escaping => Follows(ep.escape, r.machine)
          BY <1>5, <1>6, <2>3, <2>5, <2>8
        <5> QED
          BY <1>5, <1>6, <2>3, <3>3, <5>1 DEF Reversing, Follows
      <4>3. t.held => c = "zero"
        BY <1>5, <2>2
      <4>4. t.label = "escape" \/ t.scan \/ c \in {"zero", "done"}
        BY <1>6, <1>10, <2>2
      <4> QED
        BY <1>3, <2>3, <2>5, <2>6, <3>1, <3>2, <4>1, <4>2, <4>3, <4>4
    <3>5. CASE r.cmd # "none"
      <4>1. tick' = [v EXCEPT !.cmd = r.cmd, !.label = "escape", !.escaping = r.cmd = "rev"]
        BY <3>1, <3>5
      <4>2. r.cmd \in Twists
        BY <2>5, <3>5 DEF EscapeResults, Twists
      <4>3. /\ tick' \in Ticks /\ tick'.held = v.held /\ tick'.waiting = v.waiting
            /\ tick'.scan = v.scan /\ tick'.corridor = v.corridor
            /\ tick'.progressed = v.progressed /\ tick'.cmd = r.cmd
            /\ tick'.label = "escape" /\ tick'.escaping = (r.cmd = "rev")
        BY <2>3, <4>1, <4>2 DEF Ticks
      <4>4. ~t.held /\ Follows(ep.escape, r.machine)
        BY <2>5, <2>8, <3>5
      <4> QED
        BY <1>3, <2>3, <2>5, <2>6, <3>1, <3>2, <3>3, <4>3, <4>4
    <3> QED
      BY <3>4, <3>5
  <2> QED
    BY <2>7, <2>8
<1> QED
  BY <1>9, <1>10

-----------------------------------------------------------------------------
(* The output, the stall watch and the twist *)

\* What the invariant says of a goal behind the gate.
LEMMA ClosingFacts ==
    ASSUME IInv, pc \in Closing
    PROVE  /\ ep \in Episodes /\ tick \in Ticks /\ streak \in 0 .. FailLimit
           /\ reversed \in 0 .. 2 * Budget + 1 /\ flicker \in BOOLEAN
           /\ sent \in Directions /\ base \in Directions
           /\ ep.count > 0 <=> ep.dist
           /\ Calm(ep.escape) /\ ep.escape \in Machines
           /\ ep.count <= streak
           /\ tick.corridor # "none" => tick.scan
           /\ tick.held \/ tick.waiting => tick.progressed
           /\ sent \in {"none", Direction(tick.cmd)}
           /\ ~tick.scan => tick.cmd \in {"zero", "done"} \/ tick.label = "escape"
           /\ tick.waiting /\ ~tick.held /\ tick.corridor = "none" /\ ~ep.escape.cooling
                => tick.label = "escape"
           /\ tick.held => tick.cmd = "zero"
           /\ tick.escaping =>
                /\ tick.cmd = "rev" /\ tick.label = "escape" /\ ~tick.held
                /\ Reversing(ep.escape) /\ Covered
           /\ ReverseIsBounded
<1>1. ep \in Episodes
  BY TypeIs DEF IInv
<1> QED
  BY <1>1, TypeIs
     DEF IInv, CountHasItsDistance, Counted, Progressing, Referenced, Planned,
         Blind, Waiting, Held, Escaping, Covering, Episodes

LEMMA OutputStep == IInv /\ Output => IInv'
<1> SUFFICES ASSUME IInv, Output PROVE IInv'
  OBVIOUS
<1>1. /\ pc = "output" /\ pc \in Closing
      /\ sent' = Direction(tick'.cmd)
      /\ UNCHANGED <<ep, base, streak, reversed, flicker>>
  BY DEF Output, ghosts, Closing
<1>2. PICK c \in Twists :
        /\ tick' = [tick EXCEPT !.cmd = c] /\ pc' \in {"send", "stall"}
        /\ tick.cmd \in {"zero", "done"} => c \in {"zero", "done"}
        /\ tick.cmd = "zero" => c = "zero"
        /\ tick.cmd = "rev" /\ tick.label # "no_scan" => c = "rev"
  <2>1. tick.cmd \in Twists
    BY <1>1, ClosingFacts DEF Ticks
  <2> QED
    BY <2>1 DEF Output, Lifted, Twists
<1>3. /\ tick' \in Ticks /\ tick'.cmd = c /\ tick'.label = tick.label
      /\ tick'.escaping = tick.escaping /\ tick'.held = tick.held
      /\ tick'.waiting = tick.waiting /\ tick'.scan = tick.scan
      /\ tick'.corridor = tick.corridor /\ tick'.progressed = tick.progressed
  BY <1>1, <1>2, ClosingFacts DEF Ticks
<1>4. TypeOK'
  <2>1. sent' \in Directions
    BY <1>1 DEF Direction, Directions
  <2> QED
    BY <1>1, <1>2, <1>3, <2>1, ClosingFacts DEF TypeOK, Episodes, Ticks
<1>5. Blind' /\ Waiting' /\ Escaping'
  BY <1>1, <1>2, <1>3, ClosingFacts DEF Blind, Waiting, Escaping, Opening
<1>6. (tick'.escaping => Covered') /\ ReverseIsBounded'
  BY <1>1, <1>3, ClosingFacts DEF Covered, ReverseIsBounded
<1> QED
  BY <1>1, <1>2, <1>3, <1>4, <1>5, <1>6, ClosingFacts, ClosingStep DEF Closing

\* A step of the stall watch that keeps the escape and the counts.
LEMMA StallKeeps ==
    ASSUME IInv, pc = "stall", Alike(ep, ep'), UNCHANGED <<tick, streak, reversed, flicker>>,
           sent' \in {"none", sent}, base' \in Directions,
           pc' = "send" \/ (pc' = "stalled" /\ ~tick.progressed)
    PROVE  IInv'
<1>1. pc \in Closing
  BY DEF Closing
<1>2. TypeOK'
  BY <1>1, ClosingFacts DEF TypeOK, Alike, Episodes, Ticks, Directions, Ends
<1>3. (tick'.escaping => Covered') /\ ReverseIsBounded'
  BY <1>1, ClosingFacts DEF Covered, ReverseIsBounded, Alike
<1>4. /\ ep'.count > 0 <=> ep'.dist
      /\ Calm(ep'.escape) /\ ep'.count <= streak'
  BY <1>1, ClosingFacts DEF Alike
<1>5. Blind' /\ Waiting' /\ Escaping'
  BY <1>1, ClosingFacts DEF Blind, Waiting, Escaping, Alike, Opening
<1>6. CASE pc' = "send"
  BY <1>1, <1>2, <1>3, <1>4, <1>5, <1>6, ClosingFacts, ClosingStep DEF Closing
<1>7. CASE pc' = "stalled" /\ ~tick.progressed
  <2>1. pc' \notin {"blocked", "periodic", "gate"} \cup Opening \cup Closing
    BY <1>7 DEF Opening, Closing
  <2>2. Progressing' /\ Counted' /\ Planned' /\ StallOnlyWhenDriving'
    BY <1>1, <1>4, <1>7, <2>1, ClosingFacts
       DEF Progressing, Counted, Planned, StallOnlyWhenDriving, Opening
  <2>3. Referenced' /\ Held' /\ Covering'
    BY <1>3, <2>1 DEF Referenced, Held, Covering
  <2> QED
    BY <1>2, <1>3, <1>4, <1>5, <2>2, <2>3 DEF IInv, CountHasItsDistance, Calm
<1> QED
  BY <1>6, <1>7

LEMMA StallStep == IInv /\ Stall => IInv'
<1> SUFFICES ASSUME IInv, Stall PROVE IInv'
  OBVIOUS
<1>1. pc = "stall" /\ pc \in Closing
  BY DEF Stall, NotStalled, StallReplanOk, StallReplanFails, Stalled, Closing
<1>2. ep \in Episodes /\ base \in Directions /\ Alike(ep, ep)
  BY <1>1, ClosingFacts DEF Alike
<1>3. CASE NotStalled
  BY <1>1, <1>2, <1>3, StallKeeps DEF NotStalled, twist, ghosts
<1>4. CASE StallReplanOk
  <2>1. /\ sent' = "none" /\ base' = "none" /\ ep' = OnReplanOk(ep) /\ pc' = "send"
        /\ UNCHANGED <<tick, streak, reversed, flicker>>
    BY <1>4 DEF StallReplanOk, StopToPlan, ghosts
  <2>2. Alike(ep, ep') /\ base' \in Directions
    BY <1>2, <2>1, OnReplanOkKeeps DEF Directions
  <2> QED
    BY <1>1, <2>1, <2>2, StallKeeps
<1>5. CASE StallReplanFails
  <2>1. /\ sent' = "none" /\ base' = "none" /\ ~tick.progressed
        /\ UNCHANGED <<tick, streak, reversed, flicker>>
        /\ \/ ep.fails < StallLimit /\ ep' = [ep EXCEPT !.fails = @ + 1] /\ pc' = "send"
           \/ ep' = ep /\ pc' = "stalled"
    BY <1>5 DEF StallReplanFails, Stalled, StopToPlan, ghosts
  <2>2. ep.fails < StallLimit => ep.fails + 1 \in 0 .. StallLimit
    BY <1>2, GoalAssumption DEF Episodes
  <2>3. Alike(ep, ep') /\ base' \in Directions
    BY <1>2, <2>1, <2>2 DEF Alike, Episodes, Directions
  <2> QED
    BY <1>1, <2>1, <2>3, StallKeeps
<1> QED
  BY <1>3, <1>4, <1>5 DEF Stall

\* How far a base that moves by step has come with an escape under way.
LEMMA DisplacedKeeps ==
    ASSUME NEW m \in Machines, NEW step \in {-1, 0, 1}, Calm(m)
    PROVE  LET n == Displaced(m, step) IN
           /\ n \in Machines /\ n.mode = m.mode /\ Calm(n)
           /\ Reversing(m) /\ step # -1 => n.backed = m.backed + step
<1>1. m.backed \in -Budget .. Budget
  BY DEF Machines
<1>2. PICK b \in -Budget .. Budget :
        /\ Displaced(m, step) = [m EXCEPT !.backed = b]
        /\ Reversing(m) /\ step # -1 => b = m.backed + step
  <2> DEFINE b == IF m.mode # "idle" /\ m.backed + step \in -Budget .. Budget
                    THEN m.backed + step ELSE m.backed
  <2>1. b \in -Budget .. Budget
    BY <1>1
  <2>2. Displaced(m, step) = [m EXCEPT !.backed = b]
    BY DEF Displaced, Machines
  <2>3. Reversing(m) /\ step # -1 => b = m.backed + step
    BY <1>1, EscapeAssumption DEF Reversing
  <2> QED
    BY <2>1, <2>2, <2>3
<1> QED
  BY <1>2 DEF Machines, Calm

LEMMA SendStep == IInv /\ Send => IInv'
<1> SUFFICES ASSUME IInv, Send PROVE IInv'
  OBVIOUS
<1>1. /\ pc = "send" /\ pc' = "top" /\ pc \in Closing
      /\ tick' = NewTick /\ streak' = streak /\ flicker' = (tick.escaping /\ flicker)
  BY DEF Send, Closing
<1>2. /\ ep \in Episodes /\ tick \in Ticks /\ ep.escape \in Machines /\ Calm(ep.escape)
      /\ streak \in 0 .. FailLimit /\ reversed \in 0 .. 2 * Budget + 1
      /\ sent \in Directions /\ flicker \in BOOLEAN
      /\ ep.count > 0 <=> ep.dist
      /\ ep.count <= streak
      /\ sent \in {"none", Direction(tick.cmd)}
      /\ tick.escaping => tick.cmd = "rev" /\ Reversing(ep.escape) /\ Covered
  BY <1>1, ClosingFacts
<1>3. PICK moved \in {0, 1}, refused \in BOOLEAN :
        LET step == [fwd |-> -moved, rev |-> moved, none |-> 0][Direction(tick.cmd)]
        IN  /\ refused => moved = 0
            /\ ep' = [ep EXCEPT !.escape = Displaced(@, step)]
            /\ reversed' = IF tick.escaping THEN LesserOf(reversed + step, 2 * Budget + 1) ELSE 0
            /\ sent' = IF refused THEN "none" ELSE sent
            /\ base' = IF refused THEN "none" ELSE Direction(tick.cmd)
  BY DEF Send
<1> DEFINE step == [fwd |-> -moved, rev |-> moved, none |-> 0][Direction(tick.cmd)]
           m == Displaced(ep.escape, step)
<1>4. step \in {-1, 0, 1} /\ (tick.escaping => step = moved)
  <2>1. CASE tick.cmd = "fwd"
    BY <1>2, <2>1 DEF Direction
  <2>2. CASE tick.cmd = "rev"
    BY <2>2 DEF Direction
  <2>3. CASE tick.cmd \notin {"fwd", "rev"}
    BY <1>2, <2>3 DEF Direction
  <2> QED
    BY <2>1, <2>2, <2>3
<1>5. /\ ep' = [ep EXCEPT !.escape = m]
      /\ reversed' = IF tick.escaping THEN LesserOf(reversed + step, 2 * Budget + 1) ELSE 0
      /\ sent' \in {"none", sent} /\ base' \in Directions
      /\ base' = "none" => sent' = "none"
  BY <1>2, <1>3 DEF Direction, Directions
<1> HIDE DEF step
<1>6. /\ m \in Machines /\ m.mode = ep.escape.mode /\ Calm(m)
      /\ Reversing(ep.escape) /\ step # -1 => m.backed = ep.escape.backed + step
  BY <1>2, <1>4, DisplacedKeeps
<1> HIDE DEF m
<1>7. /\ ep' \in Episodes /\ ep'.escape = m /\ ep'.count = ep.count /\ ep'.dist = ep.dist
  BY <1>2, <1>5, <1>6 DEF Episodes
<1>8. reversed' \in 0 .. 2 * Budget + 1 /\ Covered' /\ ReverseIsBounded'
  <2>1. CASE ~tick.escaping
    BY <1>5, <2>1, EscapeAssumption DEF Covered, ReverseIsBounded
  <2>2. CASE tick.escaping
    <3>1. step \in {0, 1} /\ flicker' = flicker
      BY <1>1, <1>2, <1>4, <2>2
    <3>2. ep.escape.backed \in -Budget .. Budget
      BY <1>2 DEF Machines
    <3>3. /\ m.mode = "reverse" /\ m.backed = ep.escape.backed + step
          /\ -Budget < ep.escape.backed /\ ep.escape.backed < Budget
      BY <1>2, <1>6, <2>2, <3>1 DEF Reversing
    <3>4. reversed' = LesserOf(reversed + step, 2 * Budget + 1)
      BY <1>5, <2>2
    <3>5. reversed' \in 0 .. 2 * Budget + 1 /\ reversed' <= reversed + step
      BY <1>2, <3>1, <3>4, EscapeAssumption DEF LesserOf
    <3>6. Covered
      BY <1>2, <2>2
    <3>7. ~flicker => reversed + step <= m.backed + Budget \/ reversed + step = 0
      BY <1>2, <3>1, <3>2, <3>3, <3>6, EscapeAssumption DEF Covered
    <3>8. ~flicker' /\ reversed' > 0 =>
            ep'.escape.mode = "reverse" /\ reversed' <= ep'.escape.backed + Budget
      BY <1>2, <1>7, <3>1, <3>2, <3>3, <3>5, <3>7, EscapeAssumption
    <3>9. ~flicker' => reversed' <= 2 * Budget
      BY <1>2, <3>1, <3>2, <3>3, <3>5, <3>7, EscapeAssumption
    <3> QED
      BY <1>2, <3>1, <3>5, <3>8, <3>9, EscapeAssumption DEF Covered, ReverseIsBounded
  <2> QED
    BY <2>1, <2>2
<1>9. /\ tick' \in Ticks /\ tick'.corridor = "none" /\ ~tick'.escaping
      /\ ~tick'.held /\ ~tick'.waiting /\ pc' \notin Closing
  BY <1>1 DEF NewTick, Ticks, Twists, Closing
<1>10. TypeOK'
  BY <1>1, <1>2, <1>5, <1>7, <1>8, <1>9 DEF TypeOK, Episodes, Ticks, Directions
<1> QED
  BY <1>1, <1>2, <1>5, <1>6, <1>7, <1>8, <1>9, <1>10
     DEF IInv, CountHasItsDistance, Counted, Planned, Progressing, Calm,
         StallOnlyWhenDriving, Referenced, Blind, Waiting, Held, Escaping, Covering, Opening

-----------------------------------------------------------------------------
(* The theorems *)

LEMMA NextIInv == IInv /\ [Next]_vars => IInv'
<1> SUFFICES ASSUME IInv, [Next]_vars PROVE IInv'
  OBVIOUS
<1>1. CASE Head
  <2>1. CASE BeginTick
    BY <2>1, BeginTickStep
  <2>2. CASE TimedOut \/ Canceled \/ NoPose \/ AtGoal \/ LocalizationLost
    <3>1. PICK how \in Ends \ {"blocked", "stalled"} : End(how) /\ pc = "top"
      BY <2>2 DEF TimedOut, Canceled, NoPose, AtGoal, LocalizationLost, Ends
    <3> QED
      BY <3>1, EndStep
  <2> QED
    BY <1>1, <2>1, <2>2 DEF Head
<1>2. CASE Sense
  BY <1>2, SenseStep
<1>3. CASE Policy
  BY <1>3, UnblockedStep, BlockedStep, BlockedReplanOkStep, BlockedReplanFailsStep DEF Policy
<1>4. CASE Follow
  BY <1>4, FollowStep
<1>5. CASE Periodic
  BY <1>5, PeriodicStep
<1>6. CASE Gate
  BY <1>6, GateStep
<1>7. CASE Output
  BY <1>7, OutputStep
<1>8. CASE DoneAtGoal
  <2>1. "succeeded" \in Ends \ {"blocked", "stalled"} /\ End("succeeded") /\ pc = "output"
    BY <1>8 DEF DoneAtGoal, Ends
  <2> QED
    BY <2>1, EndStep
<1>9. CASE Stall
  BY <1>9, StallStep
<1>10. CASE Send
  BY <1>10, SendStep
<1>11. CASE UNCHANGED vars
  BY <1>11
     DEF vars, IInv, TypeOK, CountHasItsDistance, Calm, Counted, Planned, Progressing,
         StallOnlyWhenDriving, Referenced, Blind, Waiting, Held, Escaping, Reversing,
         Covering, Covered, ReverseIsBounded
<1> QED
  BY <1>1, <1>2, <1>3, <1>4, <1>5, <1>6, <1>7, <1>8, <1>9, <1>10, <1>11 DEF Next

\* The inductive invariant of a goal, on which the theorems below rest.
THEOREM Invariant == Spec => []IInv
  BY InitIInv, NextIInv, PTL DEF Spec

\* Every variable of a goal has its type, whatever the limits: the counters
\* stay within them and the escape within its budget.
THEOREM GoalTypes == Spec => []TypeOK
<1>1. IInv => TypeOK
  BY DEF IInv
<1> QED
  BY <1>1, Invariant, PTL

\* The failure count of GoalEpisode and the distance that resets it are set and
\* cleared together.
THEOREM CountKeepsItsDistance == Spec => []CountHasItsDistance
<1>1. IInv => CountHasItsDistance
  BY DEF IInv
<1> QED
  BY <1>1, Invariant, PTL

\* _abort_blocked_replans gives a goal up only after FailLimit failures since
\* the last success or progress.
THEOREM AbortsAreEarned == Spec => []AbortIsEarned
<1>1. IInv => AbortIsEarned
  <2> SUFFICES ASSUME IInv, pc = "blocked" PROVE streak >= FailLimit
    BY DEF AbortIsEarned
  <2>1. ep \in Episodes /\ streak \in 0 .. FailLimit
    BY TypeIs DEF IInv
  <2>2. ep.count <= streak /\ ep.count >= FailLimit
    BY DEF IInv, Counted
  <2> QED
    BY <2>1, <2>2, GoalAssumption DEF Episodes
<1> QED
  BY <1>1, Invariant, PTL

\* A tick that localization holds sends a zero twist, whoever asked for another.
THEOREM HeldTicksAreZero == Spec => []HeldTickIsZero
<1>1. IInv => HeldTickIsZero
  BY DEF IInv, Held, HeldTickIsZero, Closing
<1> QED
  BY <1>1, Invariant, PTL

\* No escape begins before the cooldown of the last one is over.
THEOREM EscapesCoolDown == Spec => []NoEscapeWhileCooling
<1>1. IInv => NoEscapeWhileCooling
  BY DEF IInv, Calm, NoEscapeWhileCooling
<1> QED
  BY <1>1, Invariant, PTL

\* An escape that no unblocked tick interrupted reverses at most twice its budget.
THEOREM ReversesAreBounded == Spec => []ReverseIsBounded
<1>1. IInv => ReverseIsBounded
  BY DEF IInv
<1> QED
  BY <1>1, Invariant, PTL

\* A waiting tick outside a cooldown and a corridor goes forward only in an escape.
THEOREM WaitsNeverAskForward == Spec => []WaitNeverAsksForward
<1>1. IInv => WaitNeverAsksForward
  BY DEF IInv, Waiting, Held, WaitNeverAsksForward, Closing
<1> QED
  BY <1>1, Invariant, PTL

\* A tick without a scan goes forward only in an escape.
THEOREM BlindTicksNeverAskForward == Spec => []BlindNeverAsksForward
<1>1. IInv => BlindNeverAsksForward
  BY DEF IInv, Blind, BlindNeverAsksForward, Closing
<1> QED
  BY <1>1, Invariant, PTL

\* A goal does not stall out of a tick that was held or that waited.
THEOREM StallsOnlyWhenDriving == Spec => []StallOnlyWhenDriving
<1>1. IInv => StallOnlyWhenDriving
  BY DEF IInv
<1> QED
  BY <1>1, Invariant, PTL

\* A base at rest before the gate is a base the slew limiter knows to be at rest.
THEOREM RestsAreNoted == Spec => []RestIsNoted
<1>1. IInv => RestIsNoted
  BY DEF IInv, Referenced, RestIsNoted
<1> QED
  BY <1>1, Invariant, PTL

-----------------------------------------------------------------------------
(* Localization during the goal (LocHold)                                  *)

Navs == [phase : {"idle", "settling", "checking"}, step : Steps, stop : BOOLEAN,
         calm : BOOLEAN, severe : BOOLEAN, used : BOOLEAN, travel : BOOLEAN,
         early : BOOLEAN]

\* The steps that move the pose farther than a driving check may.
Forcing == Recoveries \cup {"apply"}

\* A check that is under way, or due, has stopped the base if it was begun for
\* a scan that fits badly, or may move the pose far.
Poised(n) == n.phase # "idle" => (n.severe => n.stop) /\ (n.step \in Forcing => n.stop)

\* What a tick may make of n: it asks for the check that it then waits for, and
\* it does not let the base drive under one that may move the pose far.
Permitted(n, o) ==
    /\ o \in [nav : Navs, ask : BOOLEAN, hold : BOOLEAN]
    /\ Poised(o.nav)
    /\ o.ask => o.nav.phase = "checking"
    /\ ~o.ask /\ o.nav.phase = "checking" => n.phase = "checking"
    /\ o.nav.phase = "checking" /\ o.nav.step \in Forcing => o.hold

HoldIInv ==
    /\ HoldTypeOK
    /\ Poised(nav)
    /\ OneCheck
    /\ AppliesHalted

LEMMA LaunchedSound ==
    ASSUME NEW n, NEW m \in Navs, NEW step \in Steps, m.severe => m.stop,
           step \in Forcing => m.stop
    PROVE  Permitted(n, Launched(m, step))
  BY DEF Launched, Outcome, Permitted, Navs, Poised

LEMMA SettledSound ==
    ASSUME NEW n, NEW m \in Navs, NEW step \in Steps, m.stop
    PROVE  Permitted(n, Settled(m, step))
  BY DEF Settled, Outcome, Permitted, Navs, Poised

LEMMA StoppedIs ==
    ASSUME NEW m \in Navs
    PROVE  /\ Stopped(m) \in Navs /\ Stopped(m).stop
           /\ Stopped(m).phase = m.phase /\ Stopped(m).step = m.step
  BY DEF Stopped, Navs

LEMMA DecidesSound ==
    ASSUME NEW n, NEW m \in Navs, m.phase = "idle", m.severe => m.stop, NEW answer, NEW verdict
    PROVE  Permitted(n, Decides(m, answer, verdict))
<1>1. CASE Blocks(answer, verdict) /\ ~m.used /\ m.step \notin Recoveries
  <2> DEFINE k == [StoppedToRecover(m) EXCEPT !.used = TRUE]
  <2>1. k \in Navs /\ k.stop
    BY DEF StoppedToRecover, Stopped, Navs
  <2> QED
    BY <1>1, <2>1, LaunchedSound DEF Decides, Steps
<1>2. CASE ~(Blocks(answer, verdict) /\ ~m.used /\ m.step \notin Recoveries)
  <2> DEFINE b == Blocks(answer, verdict) \/ verdict # "fits"
             k == [m EXCEPT !.stop = FALSE, !.travel = b]
  <2>1. b \in BOOLEAN
    OBVIOUS
  <2>2. k \in Navs /\ k.phase = "idle"
    BY <2>1 DEF Navs
  <2> QED
    BY <1>2, <2>2 DEF Decides, Outcome, Permitted, Poised
<1> QED
  BY <1>1, <1>2

LEMMA ConsumesSound ==
    ASSUME NEW n \in Navs, n.phase = "checking", Poised(n), NEW answer,
           NEW o \in Consumes([n EXCEPT !.phase = "idle"], answer)
    PROVE  Permitted(n, o)
<1> DEFINE m == [n EXCEPT !.phase = "idle"]
           skips == [m EXCEPT !.early = TRUE]
<1>1. /\ m \in Navs /\ m.phase = "idle" /\ m.step = n.step /\ m.stop = n.stop
      /\ m.severe => m.stop
      /\ m.step \in Forcing => m.stop
  BY DEF Navs, Poised
<1>2. /\ Stopped(m) \in Navs /\ Stopped(m).stop
      /\ {"confirm", "recovery_confirm", "apply", "recovery_apply"} \subseteq Steps
  BY <1>1, StoppedIs DEF Steps
<1>3. /\ skips \in Navs /\ skips.phase = "idle"
      /\ Stopped(skips) \in Navs /\ Stopped(skips).phase = "idle"
  <2>1. skips \in Navs /\ skips.phase = "idle"
    BY <1>1 DEF Navs
  <2> QED
    BY <2>1, StoppedIs
<1>4. \A k \in Navs, h \in BOOLEAN : k.phase = "idle" => Permitted(n, Outcome(k, FALSE, h))
  BY DEF Permitted, Outcome, Poised
<1>5. CASE o = Settled(Stopped(m), "confirm") \/ o = Settled(Stopped(m), "recovery_confirm")
  BY <1>2, <1>5, SettledSound
<1>6. CASE o = Launched(Stopped(m), "apply")
  BY <1>2, <1>6, LaunchedSound
<1>7. CASE m.step = "recovery" /\ o = Launched(m, "recovery_apply")
  BY <1>1, <1>2, <1>7, LaunchedSound DEF Forcing, Recoveries
<1>8. CASE \/ o = Outcome(skips, FALSE, FALSE)
           \/ o = Outcome(IF m.calm THEN Stopped(skips) ELSE skips, FALSE, TRUE)
  BY <1>3, <1>4, <1>8
<1>9. CASE \E verdict \in Verdicts : o = Decides(m, answer, verdict)
  BY <1>1, <1>9, DecidesSound
<1>10. \/ o = Settled(Stopped(m), "confirm") \/ o = Settled(Stopped(m), "recovery_confirm")
       \/ o = Launched(Stopped(m), "apply")
       \/ m.step = "recovery" /\ o = Launched(m, "recovery_apply")
       \/ o = Outcome(skips, FALSE, FALSE)
       \/ o = Outcome(IF skips.calm THEN Stopped(skips) ELSE skips, FALSE, TRUE)
       \/ o = Outcome(IF m.calm THEN Stopped(skips) ELSE skips, FALSE, TRUE)
       \/ \E verdict \in Verdicts : o = Decides(m, answer, verdict)
  BY DEF Consumes
<1> QED
  BY <1>1, <1>3, <1>4, <1>5, <1>6, <1>7, <1>8, <1>9, <1>10

LEMMA BegunSound ==
    ASSUME NEW n \in Navs, NEW calm \in BOOLEAN, NEW severe \in BOOLEAN
    PROVE  Permitted(n, Begun(n, calm, severe))
<1> DEFINE m == [n EXCEPT !.travel = FALSE, !.calm = calm, !.severe = severe,
                          !.stop = severe \/ ~calm]
<1>1. /\ m \in Navs
      /\ m.severe => m.stop
      /\ ~calm => m.stop
  BY DEF Navs
<1>2. "probe" \in Steps /\ "probe" \notin Forcing
  BY DEF Steps, Forcing, Recoveries
<1>3. Begun(n, calm, severe) = IF calm THEN Launched(m, "probe") ELSE Settled(m, "probe")
  BY DEF Begun
<1> HIDE DEF m
<1> QED
  BY <1>1, <1>2, <1>3, LaunchedSound, SettledSound

LEMMA LooksSound ==
    ASSUME NEW n \in Navs, n.phase = "idle", NEW o \in Looks(n)
    PROVE  Permitted(n, o)
<1>1. /\ [n EXCEPT !.early = FALSE] \in Navs /\ [n EXCEPT !.early = FALSE].phase = "idle"
      /\ [n EXCEPT !.travel = FALSE, !.early = FALSE] \in Navs
      /\ [n EXCEPT !.travel = FALSE, !.early = FALSE].phase = "idle"
  BY DEF Navs
<1>2. \A k \in Navs : k.phase = "idle" => Permitted(n, Outcome(k, FALSE, FALSE))
  BY DEF Permitted, Outcome, Poised
<1>3. \/ o = Outcome([n EXCEPT !.early = FALSE], FALSE, FALSE)
      \/ o = Outcome([n EXCEPT !.travel = FALSE, !.early = FALSE], FALSE, FALSE)
      \/ \E calm \in BOOLEAN, severe \in BOOLEAN : o = Begun(n, calm, severe)
  <2>1. \/ o = Outcome([n EXCEPT !.early = FALSE], FALSE, FALSE)
        \/ o = Outcome([n EXCEPT !.travel = FALSE, !.early = FALSE], FALSE, FALSE)
        \/ o \in Beginnings(n)
    BY Zenon DEF Looks
  <2>2. o \in Beginnings(n) => \E calm \in BOOLEAN, severe \in BOOLEAN : o = Begun(n, calm, severe)
    BY DEF Beginnings
  <2> QED
    BY <2>1, <2>2
<1> QED
  BY <1>1, <1>2, <1>3, BegunSound

\* Whatever a check answered and however the scan fits, what a tick makes of
\* the refinement is sound.
LEMMA RefinesSound ==
    ASSUME NEW n \in Navs, Poised(n), NEW o \in Refines(n)
    PROVE  Permitted(n, o)
<1>1. CASE n.phase = "checking" /\ job.pc = "answered"
  BY <1>1, ConsumesSound DEF Refines
<1>2. CASE n.phase = "checking" /\ job.pc # "answered"
  <2>1. o = Outcome(n, FALSE, n.stop)
    BY <1>2 DEF Refines
  <2> QED
    BY <1>2, <2>1 DEF Outcome, Permitted, Poised, Navs
<1>3. CASE n.phase = "settling"
  <2> DEFINE m == [n EXCEPT !.phase = "idle"]
  <2>1. /\ m \in Navs /\ n.step \in Steps
        /\ m.severe => m.stop
        /\ n.step \in Forcing => m.stop
    BY <1>3 DEF Navs, Poised
  <2>2. Permitted(n, Launched(m, n.step))
    BY <2>1, LaunchedSound
  <2>3. Permitted(n, Outcome(n, FALSE, TRUE))
    BY <1>3 DEF Permitted, Outcome
  <2> QED
    BY <1>3, <2>2, <2>3 DEF Refines
<1>4. CASE n.phase = "idle"
  BY <1>4, LooksSound DEF Refines
<1> QED
  BY <1>1, <1>2, <1>3, <1>4 DEF Navs

\* A tick that ends as it should keeps what the goal and its check agree on.
LEMMA TickEndsKeeps ==
    ASSUME HoldIInv, NEW n \in Navs, n.phase = nav.phase, NEW o, Permitted(n, o), TickEnds(o),
           lost' \in 0 .. LostTicks, over' \in BOOLEAN
    PROVE  HoldIInv'
<1>1. HoldTypeOK'
  BY DEF HoldIInv, HoldTypeOK, TickEnds, Permitted, Navs, NoJob, Answers, Steps
<1>2. Poised(nav)' /\ AppliesHalted'
  BY DEF TickEnds, Permitted, Poised, AppliesHalted, Forcing
<1>3. OneCheck'
  BY DEF HoldIInv, TickEnds, Permitted, OneCheck, NoJob
<1> QED
  BY <1>1, <1>2, <1>3 DEF HoldIInv

LEMMA HoldInitIInv == HoldInit => HoldIInv
<1> SUFFICES ASSUME HoldInit PROVE HoldIInv
  OBVIOUS
<1>1. HoldTypeOK
  <2>1. slam \in [track : {"tracking", "degraded", "lost"}, streak : 0 .. LostAfter] /\ lost \in 0 .. LostTicks
    BY HoldAssumption DEF HoldInit
  <2>2. nav \in Navs
    BY DEF HoldInit, NewNav, Navs, Steps
  <2>3. job \in [pc : {"none", "asked", "published", "answered"}, step : Steps, answer : Answers]
    BY DEF HoldInit, NoJob, Steps, Answers
  <2> QED
    BY <2>1, <2>2, <2>3 DEF HoldInit, HoldTypeOK, Idle, Navs
<1> QED
  BY <1>1 DEF HoldInit, HoldIInv, Poised, OneCheck, AppliesHalted, NewNav, NoJob

\* What SLAM publishes, the threads of the checks and the engine leave the
\* refinement alone.
LEMMA OthersKeep ==
    ASSUME HoldIInv, UNCHANGED <<nav, drive>>, HoldTypeOK', job'.pc = "none" <=> job.pc = "none"
    PROVE  HoldIInv'
  BY DEF HoldIInv, Poised, OneCheck, AppliesHalted

LEMMA PublishTypes ==
    ASSUME HoldTypeOK, NEW what, NEW ofJob \in BOOLEAN, PublishBegins(what, ofJob)
    PROVE  /\ slam' \in [track : {"tracking", "degraded", "lost"}, streak : 0 .. LostAfter]
           /\ board' \in [awaits : BOOLEAN, track : {"none", "tracking", "degraded", "lost"}]
           /\ pub' \in [pc : {"idle", "fill", "state"}, awaits : BOOLEAN, job : BOOLEAN]
<1> DEFINE run == Fewer(slam.streak + 1, LostAfter)
<1>1. run \in 0 .. LostAfter
  BY HoldAssumption DEF Fewer, HoldTypeOK
<1> HIDE DEF run
<1>2. Observed(what) \in [track : {"tracking", "degraded", "lost"}, streak : 0 .. LostAfter]
  <2>1. \/ Observed(what) = slam
        \/ Observed(what) = [track |-> "tracking", streak |-> 0]
        \/ Observed(what) = [track |-> "degraded", streak |-> 0]
        \/ Observed(what) = [track |-> IF run = LostAfter THEN "lost" ELSE "degraded", streak |-> run]
    BY DEF Observed, run
  <2> QED
    BY <1>1, <2>1, HoldAssumption DEF HoldTypeOK
<1> QED
  BY <1>2 DEF PublishBegins

LEMMA HoldNextIInv == HoldIInv /\ [HoldNext]_holdVars => HoldIInv'
<1> SUFFICES ASSUME HoldIInv, [HoldNext]_holdVars PROVE HoldIInv'
  OBVIOUS
<1>0. HoldTypeOK /\ nav \in Navs /\ Poised(nav) /\ lost \in 0 .. LostTicks /\ over \in BOOLEAN
  BY DEF HoldIInv, HoldTypeOK, Navs
<1>1. CASE TickAwaits
  BY <1>1 DEF TickAwaits, HoldIInv, HoldTypeOK, Poised, OneCheck, AppliesHalted
<1>2. CASE TickRefines
  <2>1. PICK o \in Refines(nav) : TickEnds(o)
    BY <1>2 DEF TickRefines
  <2>2. lost' \in 0 .. LostTicks /\ over' \in BOOLEAN
    BY <1>0, <1>2, HoldAssumption DEF TickRefines
  <2> QED
    BY <1>0, <2>1, <2>2, RefinesSound, TickEndsKeeps
<1>3. CASE TickLost
  <2> DEFINE n == Stopped(nav)
  <2>1. n \in Navs /\ n.stop /\ n.phase = nav.phase /\ Poised(n)
    BY <1>0, StoppedIs DEF Poised
  <2> HIDE DEF n
  <2>2. lost' \in 0 .. LostTicks /\ over' \in BOOLEAN
    BY <1>0, <1>3, HoldAssumption DEF TickLost, Fewer, LostTooLong
  <2>3. PICK o \in IF n.phase # "idle" THEN Refines(n)
                   ELSE {Outcome(n, FALSE, TRUE), Launched(n, "recovery")} :
               TickEnds([o EXCEPT !.hold = TRUE])
    BY <1>3 DEF TickLost, n
  <2>4. Permitted(n, o)
    <3>1. CASE n.phase # "idle"
      BY <2>1, <2>3, <3>1, RefinesSound
    <3>2. CASE n.phase = "idle" /\ o = Outcome(n, FALSE, TRUE)
      BY <2>1, <3>2 DEF Permitted, Outcome
    <3>3. CASE n.phase = "idle" /\ o = Launched(n, "recovery")
      BY <2>1, <3>3, LaunchedSound DEF Steps
    <3> QED
      BY <2>3, <3>1, <3>2, <3>3
  <2>5. Permitted(n, [o EXCEPT !.hold = TRUE])
    <3> DEFINE k == [o EXCEPT !.hold = TRUE]
    <3>1. /\ k \in [nav : Navs, ask : BOOLEAN, hold : BOOLEAN]
          /\ k.nav = o.nav /\ k.ask = o.ask /\ k.hold
      BY <2>4 DEF Permitted
    <3> HIDE DEF k
    <3>2. Permitted(n, k)
      BY <2>4, <3>1 DEF Permitted
    <3> QED
      BY <3>2 DEF k
  <2> QED
    BY <2>1, <2>2, <2>3, <2>5, TickEndsKeeps
<1>4. CASE \E what \in Kinds : WatchdogFinds(what)
  <2>1. HoldTypeOK'
    BY <1>0, <1>4, PublishTypes DEF WatchdogFinds, HoldTypeOK
  <2> QED
    BY <1>4, <2>1, OthersKeep DEF WatchdogFinds
<1>5. CASE \E what \in Answers : CheckFinds(what)
  <2>1. PICK what \in Answers : CheckFinds(what)
    BY <1>5
  <2>2. Told(what) \in Answers
    BY DEF Told, Answers
  <2>3. HoldTypeOK'
    BY ZenonT(40), <1>0, <2>1, <2>2, PublishTypes DEF CheckFinds, HoldTypeOK
  <2> QED
    BY <1>0, <2>1, <2>3, OthersKeep DEF CheckFinds, HoldTypeOK
<1>6. CASE PublishFills \/ PublishEnds \/ EnginePlaces
  <2>1. HoldTypeOK'
    <3>1. CASE PublishFills
      BY <1>0, <3>1 DEF PublishFills, HoldTypeOK
    <3>2. CASE PublishEnds
      BY <1>0, <3>2 DEF PublishEnds, HoldTypeOK, Idle
    <3>3. CASE EnginePlaces
      BY <1>0, <3>3, HoldAssumption DEF EnginePlaces, HoldTypeOK
    <3> QED
      BY <1>6, <3>1, <3>2, <3>3
  <2> QED
    BY <1>6, <2>1, OthersKeep DEF PublishFills, PublishEnds, EnginePlaces
<1>7. CASE CheckAnswers \/ CheckTimesOut
  <2>1. HoldTypeOK'
    BY <1>0, <1>7 DEF CheckAnswers, CheckTimesOut, HoldTypeOK, Answers
  <2> QED
    BY <1>0, <1>7, <2>1, OthersKeep DEF CheckAnswers, CheckTimesOut, HoldTypeOK
<1>8. CASE UNCHANGED holdVars
  <2>1. HoldTypeOK'
    BY <1>0, <1>8 DEF holdVars, HoldTypeOK
  <2> QED
    BY <1>8, <2>1, OthersKeep DEF holdVars
<1> QED
  BY <1>1, <1>2, <1>3, <1>4, <1>5, <1>6, <1>7, <1>8
     DEF HoldNext, Tick, Publishes

\* The inductive invariant of a goal and the checks of its pose.
THEOREM HoldInvariant == HoldSpec => []HoldIInv
  BY HoldInitIInv, HoldNextIInv, PTL DEF HoldSpec

\* The refinement, its check, the lost hold and what SLAM has published keep
\* their types, for any limits.
THEOREM HoldTypes == HoldSpec => []HoldTypeOK
<1>1. HoldIInv => HoldTypeOK
  BY DEF HoldIInv
<1> QED
  BY <1>1, HoldInvariant, PTL

\* _refine_on_disagreement: a check that forces its match or looks farther than
\* a driving one may finds the base halted until its answer is taken.
THEOREM ForcedChecksAreHalted == HoldSpec => []AppliesHalted
<1>1. HoldIInv => AppliesHalted
  BY DEF HoldIInv
<1> QED
  BY <1>1, HoldInvariant, PTL

\* _launch_loc_check, _take_loc_check_result: the goal asks for one check at a
\* time and leaves none behind.
THEOREM GoalAsksOneCheck == HoldSpec => []OneCheck
<1>1. HoldIInv => OneCheck
  BY DEF HoldIInv
<1> QED
  BY <1>1, HoldInvariant, PTL
=============================================================================

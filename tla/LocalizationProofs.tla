------------------------- MODULE LocalizationProofs -------------------------
(***************************************************************************)
(* Proofs about what places the robot on a map: who may move the pose      *)
(* (PoseWatch), and the matcher they all ask (LocalizeWorker), for any     *)
(* halls, callers and maps, and any bounds.                                *)
(***************************************************************************)
EXTENDS PoseWatch, LocalizeWorker, FiniteSetTheorems, SequenceTheorems, TLAPS

-----------------------------------------------------------------------------
(* Who places the robot: the inductive invariant.                          *)

\* A gate holds one vote or none, and a vote is a match.
GateStates == {Open} \cup {[hall |-> h, count |-> 1, matches |-> 1] : h \in Halls}
VotesAreMatches == gates \in [service : GateStates, engine : GateStates]

\* Only a refine, a command of the operator, or a cycle that is told to run
\* during navigation, is searched for while the base drives.
DrivesToRefine ==
    \A c \in Checks :
        Driving(c) => \/ check[c].kind \in {"refine", "manual"}
                      \/ check[c].kind = "auto" /\ DuringNavigation

\* A refine pass has a match to look around.
RefinesABest == startup.pc = "refine" => startup.best.hall \in Halls

\* The operator who sets a pose has a hall for it.
SeedsAHall == operator.pc = "place" => operator.hall \in Halls

WatchIInv ==
    /\ TypeOK
    /\ VotesAreMatches /\ DrivesToRefine /\ RefinesABest /\ SeedsAHall
    /\ StartupYields /\ CyclesNeedTwo

-----------------------------------------------------------------------------
(* The gate                                                                *)

LEMMA GatesAre == GateStates \subseteq Gate /\ Open \in GateStates
  BY WatchAssumption DEF GateStates, Gate, Open, Place, Confirms

\* A gate with a vote for the hall applies, so no gate counts past one.
LEMMA VotedIsGate ==
    ASSUME NEW gate \in GateStates, NEW from, NEW hall \in Halls, NEW forced, NEW new
    PROVE  Voted(gate, from, hall, forced, new) \in GateStates
  BY WatchAssumption DEF Voted, Applies, GateStates, Open, Confirms

\* A far pose that nothing forces is let through by the vote before it.
LEMMA VoteBefore ==
    ASSUME NEW gate \in GateStates, NEW from, NEW hall \in Halls, hall # from,
           Applies(gate, from, hall, FALSE)
    PROVE  gate.hall = hall /\ gate.matches = 1
  BY WatchAssumption DEF Applies, GateStates, Open, Confirms

Backings == [by : {"check", "search", "refine", "seed"}, matches : 0 .. Confirms]

\* The matches behind a jump that is let through are within the count, and two
\* when the vote is a match of its own.
LEMMA BacksNew ==
    ASSUME NEW who \in {"check", "search", "refine", "seed"}, NEW gate \in GateStates, NEW from,
           NEW hall \in Halls, NEW forced, backing \in Backings, CyclesNeedTwo,
           Backs(who, gate, from, hall, forced, TRUE)
    PROVE  backing' \in Backings /\ CyclesNeedTwo'
<1>1. CASE Applies(gate, from, hall, forced) /\ hall # from /\ ~forced
  <2>1. gate.hall = hall /\ gate.matches = 1
    BY <1>1, WatchAssumption DEF Applies, GateStates, Open, Confirms
  <2>2. backing' = [by |-> who, matches |-> 2]
    BY <1>1, <2>1 DEF Backs
  <2> QED
    BY <2>2 DEF Backings, CyclesNeedTwo, TwoMatchesAgree, Confirms
<1>2. CASE ~(Applies(gate, from, hall, forced) /\ hall # from /\ ~forced)
  BY <1>2 DEF Backs, CyclesNeedTwo, TwoMatchesAgree
<1> QED
  BY <1>1, <1>2

LEMMA BacksRefine ==
    ASSUME NEW gate \in GateStates, NEW from, NEW hall \in Halls, NEW new, backing \in Backings,
           CyclesNeedTwo, Backs("refine", gate, from, hall, FALSE, new)
    PROVE  backing' \in Backings /\ CyclesNeedTwo'
<1>1. CASE Applies(gate, from, hall, FALSE) /\ hall # from
  <2>1. gate.hall = hall /\ gate.matches = 1
    BY <1>1, VoteBefore
  <2>2. backing' = [by |-> "refine", matches |-> 1 + (IF new THEN 1 ELSE 0)]
    BY <1>1, <2>1 DEF Backs
  <2> QED
    BY <2>2 DEF Backings, CyclesNeedTwo, TwoMatchesAgree, Confirms
<1>2. CASE ~(Applies(gate, from, hall, FALSE) /\ hall # from)
  BY <1>2 DEF Backs, CyclesNeedTwo, TwoMatchesAgree
<1> QED
  BY <1>1, <1>2

-----------------------------------------------------------------------------
(* The steps                                                               *)

LEMMA NoLeadIs == NoLead \in [hall : Place, count : 0 .. 2, old : BOOLEAN]
  BY DEF NoLead, Place

LEMMA LeftSpent ==
    ASSUME TypeOK
    PROVE  /\ left.scans > 0 => [left EXCEPT !.scans = @ - 1] \in
                [searches : 0 .. MaxSearches, seeds : 0 .. MaxSeeds, goals : 0 .. MaxGoals, scans : 0 .. MaxScans]
           /\ left.searches > 0 => [left EXCEPT !.searches = @ - 1] \in
                [searches : 0 .. MaxSearches, seeds : 0 .. MaxSeeds, goals : 0 .. MaxGoals, scans : 0 .. MaxScans]
           /\ left.seeds > 0 => [left EXCEPT !.seeds = @ - 1] \in
                [searches : 0 .. MaxSearches, seeds : 0 .. MaxSeeds, goals : 0 .. MaxGoals, scans : 0 .. MaxScans]
           /\ left.goals > 0 => [left EXCEPT !.goals = @ - 1] \in
                [searches : 0 .. MaxSearches, seeds : 0 .. MaxSeeds, goals : 0 .. MaxGoals, scans : 0 .. MaxScans]
  BY WatchAssumption DEF TypeOK

LEMMA WatchInit == Init => WatchIInv
<1> SUFFICES ASSUME Init PROVE WatchIInv
  OBVIOUS
<1>1. TypeOK
  <2>1. at \in Halls /\ seeding \in BOOLEAN /\ soft = "none" /\ drive = "idle" /\ seeded = FALSE
    BY DEF Init
  <2>2. /\ tick \in [pc : {"idle", "match", "seed"}, moved : BOOLEAN]
        /\ lead \in [hall : Place, count : 0 .. 2, old : BOOLEAN]
    BY DEF Init, NoLead, Place
  <2>3. gates \in [service : Gate, engine : Gate]
    BY GatesAre DEF Init
  <2>4. check \in [Checks -> Cycle]
    BY DEF Init, Quiet, Cycle, Kinds, Place
  <2>5. startup \in [pc : {"off", "local", "full", "retry", "parked", "search", "refine", "move", "post",
                            "finish"},
                      best : Best, pass : 0 .. MaxPasses, tries : 0 .. Confirms]
    <3>1. 0 \in 0 .. MaxPasses /\ 0 \in 0 .. Confirms
      BY WatchAssumption DEF Confirms
    <3>2. startup = [NoSearch EXCEPT !.pc = "full"] \/ startup = [NoSearch EXCEPT !.pc = "local"]
      BY DEF Init
    <3>3. NoBest \in Best
      BY DEF NoBest, Best, Place
    <3> QED
      BY <3>1, <3>2, <3>3 DEF NoSearch
  <2>6. operator \in [pc : {"idle", "place", "seeded", "match", "move"}, hall : Place]
    BY DEF Init, Place
  <2>7. job \in [Movers -> Place]
    BY DEF Init, Place
  <2>8. left \in [searches : 0 .. MaxSearches, seeds : 0 .. MaxSeeds,
                  goals : 0 .. MaxGoals, scans : 0 .. MaxScans]
    BY WatchAssumption DEF Init
  <2>9. backing \in [by : {"check", "search", "refine", "seed"}, matches : 0 .. Confirms]
    BY DEF Init, Confirms
  <2> QED
    BY <2>1, <2>2, <2>3, <2>4, <2>5, <2>6, <2>7, <2>8, <2>9 DEF TypeOK
<1>2. VotesAreMatches
  BY GatesAre DEF Init, VotesAreMatches
<1>3. DrivesToRefine
  BY DEF Init, DrivesToRefine, Driving, Quiet
<1>4. StartupYields /\ CyclesNeedTwo /\ RefinesABest /\ SeedsAHall
  BY DEF Init, StartupYields, CyclesNeedTwo, TwoMatchesAgree, Confirms, RefinesABest, SeedsAHall, NoSearch
<1> QED
  BY <1>1, <1>2, <1>3, <1>4 DEF WatchIInv

LEMMA WatchTick == WatchIInv /\ TickNext => WatchIInv'
<1> SUFFICES ASSUME WatchIInv, TickNext PROVE WatchIInv'
  OBVIOUS
<1> USE DEF WatchIInv
<1>1. CASE TickBegins
  <2>1. TypeOK'
    BY <1>1, LeftSpent DEF TickBegins, TypeOK
  <2> QED
    BY <1>1, <2>1 DEF TickBegins, VotesAreMatches, DrivesToRefine, Driving, RefinesABest, SeedsAHall, StartupYields, CyclesNeedTwo,
       TwoMatchesAgree
<1>2. CASE TickDrops \/ TickHolds \/ SeedWeak \/ \E hall \in Halls : TickLeads(hall)
  <2>1. TypeOK'
    <3>1. CASE TickDrops \/ TickHolds \/ SeedWeak
      <4>1. /\ tick' \in [pc : {"idle", "match", "seed"}, moved : BOOLEAN]
            /\ lead' \in [hall : Place, count : 0 .. 2, old : BOOLEAN]
        <5>1. tick' = [pc |-> "idle", moved |-> FALSE]
          BY <3>1 DEF TickDrops, TickHolds, SeedWeak, TickDone
        <5>2. lead' = NoLead \/ lead' = lead
          BY <3>1 DEF TickDrops, TickHolds, SeedWeak
        <5> QED
          BY <5>1, <5>2, NoLeadIs DEF TypeOK
      <4> QED
        BY <3>1, <4>1 DEF TickDrops, TickHolds, SeedWeak, TickKeeps, TypeOK
    <3>2. ASSUME NEW hall \in Halls, TickLeads(hall) PROVE TypeOK'
      <4>1. tick' \in [pc : {"idle", "match", "seed"}, moved : BOOLEAN] /\ at' \in Halls
        BY <3>2 DEF TickLeads, TickDone, TypeOK
      <4>2. lead' \in [hall : Place, count : 0 .. 2, old : BOOLEAN]
        BY <3>2 DEF TickLeads, TypeOK, Place
      <4> QED
        BY <3>2, <4>1, <4>2 DEF TickLeads, TickKeeps, TypeOK
    <3> QED
      BY <1>2, <3>1, <3>2
  <2> QED
    BY <1>2, <2>1 DEF TickDrops, TickHolds, SeedWeak, TickLeads, TickKeeps, VotesAreMatches, DrivesToRefine,
       Driving, RefinesABest, SeedsAHall, StartupYields, CyclesNeedTwo, TwoMatchesAgree
<1>3. ASSUME NEW hall \in Halls, SeedFound(hall) PROVE WatchIInv'
  <2>1. VotesAreMatches'
    <3>1. gates.engine \in GateStates
      BY DEF VotesAreMatches
    <3>2. Voted(gates.engine, at, hall, FALSE, TRUE) \in GateStates
      BY <3>1, VotedIsGate
    <3> QED
      BY <1>3, <3>2 DEF SeedFound, VotesAreMatches
  <2>2. backing' \in Backings /\ CyclesNeedTwo'
    BY <1>3, BacksNew DEF SeedFound, VotesAreMatches, TypeOK, Backings
  <2>3. TypeOK'
    <3>1. gates' \in [service : Gate, engine : Gate]
      BY <2>1, GatesAre DEF VotesAreMatches
    <3>2. /\ at' \in Halls /\ seeding' \in BOOLEAN
          /\ tick' \in [pc : {"idle", "match", "seed"}, moved : BOOLEAN]
      BY <1>3 DEF SeedFound, TickDone, TypeOK
    <3>3. lead' \in [hall : Place, count : 0 .. 2, old : BOOLEAN]
      BY <1>3, NoLeadIs DEF SeedFound, TypeOK
    <3> QED
      BY <1>3, <2>2, <3>1, <3>2, <3>3 DEF SeedFound, TypeOK, Backings
  <2> QED
    BY <1>3, <2>1, <2>2, <2>3 DEF SeedFound, DrivesToRefine, Driving, RefinesABest, SeedsAHall, StartupYields
<1> QED
  BY <1>1, <1>2, <1>3 DEF TickNext

LEMMA PlacedTypes ==
    ASSUME NEW hall \in Halls, Placed(hall), TypeOK
    PROVE  /\ at' \in Halls /\ seeding' \in BOOLEAN
           /\ tick' \in [pc : {"idle", "match", "seed"}, moved : BOOLEAN]
           /\ lead' \in [hall : Place, count : 0 .. 2, old : BOOLEAN]
<1>1. (tick.pc = "match") \in BOOLEAN
  OBVIOUS
<1>2. tick' \in [pc : {"idle", "match", "seed"}, moved : BOOLEAN]
  BY <1>1 DEF Placed, TypeOK
<1> QED
  BY <1>2, NoLeadIs DEF Placed

LEMMA WatchMoves == ASSUME WatchIInv, NEW m \in Movers, Moves(m) PROVE WatchIInv'
<1> USE DEF WatchIInv
<1>1. job[m] \in Halls
  BY DEF Moves, TypeOK, Place
<1>2. TypeOK'
  <2>1. /\ at' \in Halls /\ seeding' \in BOOLEAN
        /\ tick' \in [pc : {"idle", "match", "seed"}, moved : BOOLEAN]
        /\ lead' \in [hall : Place, count : 0 .. 2, old : BOOLEAN]
    BY <1>1, PlacedTypes DEF Moves, TypeOK
  <2>2. job' \in [Movers -> Place]
    BY DEF Moves, TypeOK, Place
  <2> QED
    BY <2>1, <2>2 DEF Moves, TypeOK
<1> QED
  BY <1>2 DEF Moves, VotesAreMatches, DrivesToRefine, Driving, RefinesABest, SeedsAHall, StartupYields, CyclesNeedTwo, TwoMatchesAgree

-----------------------------------------------------------------------------
(* The relocalize cycles                                                   *)

\* A cycle that ends leaves a quiet one.
LEMMA CycleEnds ==
    ASSUME WatchIInv, NEW c \in Checks, CheckEnds(c)
    PROVE  check' \in [Checks -> Cycle] /\ DrivesToRefine'
<1>1. Quiet \in Cycle
  BY DEF Quiet, Cycle, Kinds, Place
<1>2. check' \in [Checks -> Cycle]
  BY <1>1 DEF CheckEnds, WatchIInv, TypeOK
<1>3. DrivesToRefine'
  BY DEF CheckEnds, WatchIInv, TypeOK, DrivesToRefine, Driving, Quiet
<1> QED
  BY <1>2, <1>3

\* A step of a cycle that keeps the rest of the invariant.
LEMMA CycleStep ==
    ASSUME WatchIInv, check' \in [Checks -> Cycle], DrivesToRefine', VotesAreMatches', CyclesNeedTwo',
           backing' \in Backings, job' \in [Movers -> Place], soft' \in {"none", "timing", "released"},
           left' \in [searches : 0 .. MaxSearches, seeds : 0 .. MaxSeeds,
                      goals : 0 .. MaxGoals, scans : 0 .. MaxScans],
           UNCHANGED <<at, seeding, tick, lead, drive, startup, operator, seeded>>
    PROVE  WatchIInv'
<1>1. gates' \in [service : Gate, engine : Gate]
  BY GatesAre DEF VotesAreMatches
<1> QED
  BY <1>1 DEF WatchIInv, TypeOK, Backings, StartupYields, RefinesABest, SeedsAHall

LEMMA GateOpens ==
    ASSUME WatchIInv, gates' = [gates EXCEPT !.service = Open] \/ gates' = gates
    PROVE  VotesAreMatches'
  BY GatesAre DEF WatchIInv, VotesAreMatches

LEMMA BackingKept ==
    ASSUME WatchIInv, backing' = backing
    PROVE  backing' \in Backings /\ CyclesNeedTwo'
  BY DEF WatchIInv, TypeOK, Backings, CyclesNeedTwo, TwoMatchesAgree

LEMMA WatchCheck == ASSUME WatchIInv, NEW c \in Checks, CheckNext(c) PROVE WatchIInv'
<1>1. ASSUME NEW kind \in Kinds, CheckBegins(c, kind) PROVE WatchIInv'
  <2> DEFINE begun == [pc |-> "match", from |-> at, kind |-> kind, base |-> drive]
  <2>1. begun \in Cycle
    BY DEF WatchIInv, TypeOK, Cycle, Place
  <2>2. check' \in [Checks -> Cycle]
    BY <1>1, <2>1 DEF CheckBegins, WatchIInv, TypeOK
  <2>3. begun.base = "moving" => \/ begun.kind \in {"refine", "manual"}
                                 \/ begun.kind = "auto" /\ DuringNavigation
    BY <1>1 DEF CheckBegins, Kinds
  <2>4. DrivesToRefine'
    BY <1>1, <2>3 DEF CheckBegins, WatchIInv, TypeOK, DrivesToRefine, Driving
  <2>5. VotesAreMatches' /\ CyclesNeedTwo' /\ backing' \in Backings
    BY <1>1, GateOpens, BackingKept DEF CheckBegins
  <2> QED
    BY <1>1, <2>2, <2>4, <2>5, LeftSpent, CycleStep DEF CheckBegins, WatchIInv, TypeOK
<1>2. CASE CheckWidens(c)
  <2>1. check' \in [Checks -> Cycle] /\ DrivesToRefine'
    BY <1>2 DEF CheckWidens, WatchIInv, TypeOK, Cycle, DrivesToRefine, Driving
  <2>2. VotesAreMatches' /\ CyclesNeedTwo' /\ backing' \in Backings
    BY <1>2, GateOpens, BackingKept DEF CheckWidens
  <2> QED
    BY <1>2, <2>1, <2>2, CycleStep DEF CheckWidens, WatchIInv, TypeOK
<1>3. CASE CheckAmbiguous(c) \/ CheckPrefersPose(c) \/ CheckFits(c) \/ CheckSettles(c)
           \/ \E large \in BOOLEAN : CheckWeak(c, large)
  <2>1. /\ CheckEnds(c) /\ job' = job /\ backing' = backing
        /\ gates' = [gates EXCEPT !.service = Open] \/ gates' = gates
        /\ soft' \in {"none", "timing", "released", soft}
    BY <1>3 DEF CheckAmbiguous, CheckPrefersPose, CheckFits, CheckSettles, CheckWeak
  <2>2. check' \in [Checks -> Cycle] /\ DrivesToRefine'
    BY <2>1, CycleEnds
  <2>3. VotesAreMatches' /\ CyclesNeedTwo' /\ backing' \in Backings
    BY <2>1, GateOpens, BackingKept
  <2> QED
    BY <2>1, <2>2, <2>3, CycleStep DEF CheckEnds, WatchIInv, TypeOK
<1>4. ASSUME NEW hall \in Halls, NEW good \in BOOLEAN, CheckApplies(c, hall, good) PROVE WatchIInv'
  <2> DEFINE from == check[c].from
             forced == Forced(c) \/ (check[c].kind = "recover" /\ good /\ hall # from)
  <2>1. CASE hall # from /\ Refused(c, good)
    <3>1. /\ CheckEnds(c) /\ job' = job /\ backing' = backing /\ soft' = "none"
          /\ gates' = [gates EXCEPT !.service = Open]
      BY <1>4, <2>1 DEF CheckApplies
    <3>2. check' \in [Checks -> Cycle] /\ DrivesToRefine'
      BY <3>1, CycleEnds
    <3>3. VotesAreMatches' /\ CyclesNeedTwo' /\ backing' \in Backings
      BY <3>1, GateOpens, BackingKept
    <3> QED
      BY <3>1, <3>2, <3>3, CycleStep DEF CheckEnds, WatchIInv, TypeOK
  <2>2. CASE ~(hall # from /\ Refused(c, good))
    <3>1. /\ soft' = "none"
          /\ gates' = [gates EXCEPT !.service = Voted(gates.service, from, hall, forced, TRUE)]
          /\ Backs("check", gates.service, from, hall, forced, TRUE)
          /\ IF Applies(gates.service, from, hall, forced)
             THEN /\ check' = [check EXCEPT ![c].pc = "move"]
                  /\ job' = [job EXCEPT ![c] = hall]
                  /\ UNCHANGED <<at, seeding, tick, lead, drive, startup, operator, left, seeded>>
             ELSE CheckEnds(c) /\ UNCHANGED job
      BY <1>4, <2>2 DEF CheckApplies, WatchIInv, TypeOK
    <3>2. gates.service \in GateStates /\ backing \in Backings /\ CyclesNeedTwo
      BY DEF WatchIInv, VotesAreMatches, TypeOK, Backings
    <3> HIDE DEF forced
    <3>3. VotesAreMatches'
      <4>1. Voted(gates.service, from, hall, forced, TRUE) \in GateStates
        BY <3>2, VotedIsGate
      <4> QED
        BY <3>1, <4>1 DEF WatchIInv, VotesAreMatches
    <3>4. backing' \in Backings /\ CyclesNeedTwo'
      BY <3>1, <3>2, BacksNew
    <3>5. check' \in [Checks -> Cycle] /\ DrivesToRefine'
      <4>1. CASE CheckEnds(c)
        BY <4>1, CycleEnds
      <4>2. CASE check' = [check EXCEPT ![c].pc = "move"]
        BY <4>2 DEF WatchIInv, TypeOK, Cycle, DrivesToRefine, Driving
      <4> QED
        BY <3>1, <4>1, <4>2
    <3>6. job' \in [Movers -> Place]
      BY <3>1 DEF WatchIInv, TypeOK, Place, Movers
    <3>7. UNCHANGED <<at, seeding, tick, lead, drive, startup, operator, left, seeded>>
      BY <3>1 DEF CheckEnds
    <3> QED
      BY <3>1, <3>3, <3>4, <3>5, <3>6, <3>7, CycleStep DEF WatchIInv, TypeOK
  <2> QED
    BY <2>1, <2>2
<1> QED
  BY <1>1, <1>2, <1>3, <1>4 DEF CheckNext

-----------------------------------------------------------------------------
(* The startup search                                                      *)

Stages == {"off", "local", "full", "retry", "parked", "search", "refine", "move", "post", "finish"}
Startups == [pc : Stages, best : Best, pass : 0 .. MaxPasses, tries : 0 .. Confirms]

LEMMA SearchesAre ==
    /\ NoSearch \in Startups
    /\ \A stage \in Stages : [NoSearch EXCEPT !.pc = stage] \in Startups
    /\ \A s \in Startups, stage \in Stages : [s EXCEPT !.pc = stage] \in Startups
    /\ \A s \in Startups, stage \in Stages : [s EXCEPT !.pc = stage, !.tries = 0] \in Startups
<1>1. 0 \in 0 .. MaxPasses /\ 0 \in 0 .. Confirms
  BY WatchAssumption DEF Confirms
<1>2. NoBest \in Best
  BY DEF NoBest, Best, Place
<1> QED
  BY <1>1, <1>2 DEF NoSearch, Startups, Stages

\* A step of a startup search that is under way, or that ends it.
LEMMA StartupStep ==
    ASSUME WatchIInv, StartupKeeps, startup' \in Startups, startup.pc # "off" \/ startup' = startup,
           RefinesABest', VotesAreMatches', CyclesNeedTwo', backing' \in Backings, job' \in [Movers -> Place],
           left' \in [searches : 0 .. MaxSearches, seeds : 0 .. MaxSeeds,
                      goals : 0 .. MaxGoals, scans : 0 .. MaxScans]
    PROVE  WatchIInv'
<1>1. gates' \in [service : Gate, engine : Gate]
  BY GatesAre DEF VotesAreMatches
<1>2. TypeOK'
  BY <1>1 DEF StartupKeeps, WatchIInv, TypeOK, Backings, Startups, Stages
<1>3. StartupYields' /\ DrivesToRefine' /\ SeedsAHall'
  BY DEF StartupKeeps, WatchIInv, StartupYields, DrivesToRefine, Driving, SeedsAHall
<1> QED
  BY <1>2, <1>3 DEF WatchIInv

\* A match put to the gate of the service.
LEMMA ServiceVotes ==
    ASSUME WatchIInv, NEW hall \in Halls, NEW new,
           gates' = [gates EXCEPT !.service = Voted(@, at, hall, FALSE, new)]
    PROVE  VotesAreMatches'
<1>1. gates.service \in GateStates
  BY DEF WatchIInv, VotesAreMatches
<1>2. Voted(gates.service, at, hall, FALSE, new) \in GateStates
  BY <1>1, VotedIsGate
<1> QED
  BY <1>2 DEF WatchIInv, VotesAreMatches

LEMMA ObservesKeeps ==
    ASSUME WatchIInv, NEW who \in {"search", "refine"}, NEW best \in Best, NEW otherwise \in Startups,
           best.hall \in Halls, who = "search" => ~best.seen, Observes(who, best, otherwise)
    PROVE  /\ VotesAreMatches' /\ CyclesNeedTwo' /\ backing' \in Backings
           /\ job' \in [Movers -> Place] /\ startup' \in Startups
           /\ startup' = otherwise \/ startup'.pc # "refine"
<1>1. CASE best.score = 0
  BY <1>1, GateOpens, BackingKept DEF Observes, WatchIInv, TypeOK
<1>2. CASE best.score # 0
  <2>1. VotesAreMatches'
    BY <1>2, ServiceVotes DEF Observes
  <2>2. gates.service \in GateStates /\ backing \in Backings /\ CyclesNeedTwo
    BY DEF WatchIInv, VotesAreMatches, TypeOK, Backings
  <2>3. Backs(who, gates.service, at, best.hall, FALSE, ~best.seen)
    BY <1>2 DEF Observes
  <2>4. backing' \in Backings /\ CyclesNeedTwo'
    <3>1. CASE who = "refine"
      BY <2>2, <2>3, <3>1, BacksRefine
    <3>2. CASE who = "search"
      <4>1. best.seen = FALSE
        BY <3>2 DEF Best
      <4>2. Backs(who, gates.service, at, best.hall, FALSE, TRUE)
        BY <2>3, <4>1 DEF Backs
      <4> QED
        BY <2>2, <4>2, BacksNew
    <3> QED
      BY <3>1, <3>2
  <2>6. startup' = otherwise \/ startup'.pc # "refine"
    BY <1>2 DEF Observes, NoSearch
  <2>5. job' \in [Movers -> Place] /\ startup' \in Startups
    BY <1>2, SearchesAre DEF Observes, WatchIInv, TypeOK, Place, Stages
  <2> QED
    BY <2>1, <2>4, <2>5, <2>6
<1> QED
  BY <1>1, <1>2

LEMMA StartupIs == WatchIInv => startup \in Startups /\ startup.pc \in Stages
  BY DEF WatchIInv, TypeOK, Startups, Stages

LEMMA WatchStartup == WatchIInv /\ StartupNext => WatchIInv'
<1> SUFFICES ASSUME WatchIInv, StartupNext PROVE WatchIInv'
  OBVIOUS
<1>0. startup \in Startups /\ startup.pc \in Stages
  BY StartupIs
<1>1. CASE StartupBegins
  <2>1. startup' \in Startups
    BY <1>0, <1>1, SearchesAre DEF StartupBegins, Stages
  <2>2. VotesAreMatches' /\ CyclesNeedTwo' /\ backing' \in Backings
    BY <1>1, GateOpens, BackingKept DEF StartupBegins
  <2>9. RefinesABest'
    BY <1>0, <1>1 DEF StartupBegins, WatchIInv, RefinesABest, NoSearch, Startups
  <2> QED
    BY <1>1, <2>9, <2>1, <2>2, LeftSpent, StartupStep DEF StartupBegins, Searches, WatchIInv, TypeOK
<1>2. CASE StartupGivesUp
  <2>1. VotesAreMatches' /\ CyclesNeedTwo' /\ backing' \in Backings
    BY <1>2, GateOpens, BackingKept DEF StartupGivesUp
  <2>9. RefinesABest'
    BY <1>0, <1>2 DEF StartupGivesUp, WatchIInv, RefinesABest, NoSearch, Startups
  <2> QED
    BY <1>2, <2>9, <2>1, SearchesAre, StartupStep DEF StartupGivesUp, WatchIInv, TypeOK
<1>3. CASE ParkedMisses
  <2>1. VotesAreMatches' /\ CyclesNeedTwo' /\ backing' \in Backings
    BY <1>3, GateOpens, BackingKept DEF ParkedMisses
  <2>2. startup' \in Startups
    BY <1>0, <1>3, SearchesAre DEF ParkedMisses, Stages
  <2>9. RefinesABest'
    BY <1>0, <1>3 DEF ParkedMisses, WatchIInv, RefinesABest, NoSearch, Startups
  <2> QED
    BY <1>3, <2>9, <2>1, <2>2, LeftSpent, StartupStep DEF ParkedMisses, Searches, WatchIInv, TypeOK
<1>4. CASE StartupSettles
  <2>1. VotesAreMatches' /\ CyclesNeedTwo' /\ backing' \in Backings
    BY <1>4, GateOpens, BackingKept DEF StartupSettles
  <2>2. startup' \in Startups /\ startup.pc # "off"
    BY <1>0, <1>4, SearchesAre DEF StartupSettles, Stages
  <2>3. left' \in [searches : 0 .. MaxSearches, seeds : 0 .. MaxSeeds,
                   goals : 0 .. MaxGoals, scans : 0 .. MaxScans]
    BY <1>4, LeftSpent DEF StartupSettles, Searches, WatchIInv, TypeOK
  <2>9. RefinesABest'
    BY <1>0, <1>4 DEF StartupSettles, WatchIInv, RefinesABest, NoSearch, Startups
  <2> QED
    BY <1>4, <2>9, <2>1, <2>2, <2>3, StartupStep DEF StartupSettles, WatchIInv, TypeOK
<1>5. ASSUME NEW hall \in Halls, ParkedFinds(hall) PROVE WatchIInv'
  <2>1. VotesAreMatches'
    BY <1>5, ServiceVotes DEF ParkedFinds
  <2>2. gates.service \in GateStates /\ backing \in Backings /\ CyclesNeedTwo
    BY DEF WatchIInv, VotesAreMatches, TypeOK, Backings
  <2>3. backing' \in Backings /\ CyclesNeedTwo'
    BY <1>5, <2>2, BacksNew DEF ParkedFinds
  <2>4. startup' \in Startups
    <3>1. [NoSearch EXCEPT !.pc = "finish"] \in Startups /\ [startup EXCEPT !.pc = "search", !.tries = 0] \in Startups
      BY <1>0, SearchesAre DEF Stages
    <3>2. startup.tries + 1 < Confirms => [startup EXCEPT !.tries = @ + 1] \in Startups
      <4> DEFINE n == startup.tries + 1
      <4>1. startup.tries \in 0 .. Confirms
        BY <1>0 DEF Startups
      <4>2. n < Confirms => n \in 0 .. Confirms
        BY <4>1 DEF Confirms
      <4> HIDE DEF n
      <4>3. n < Confirms => [startup EXCEPT !.tries = n] \in Startups
        BY <1>0, <4>2 DEF Startups
      <4> QED
        BY <1>0, <4>3 DEF n, Startups
    <3> QED
      BY <1>5, <3>1, <3>2 DEF ParkedFinds
  <2>5. job' \in [Movers -> Place]
    BY <1>5 DEF ParkedFinds, WatchIInv, TypeOK, Place
  <2>6. left' \in [searches : 0 .. MaxSearches, seeds : 0 .. MaxSeeds,
                   goals : 0 .. MaxGoals, scans : 0 .. MaxScans]
    BY <1>5, LeftSpent DEF ParkedFinds, Searches, WatchIInv, TypeOK
  <2>9. RefinesABest'
    BY <1>0, <1>5 DEF ParkedFinds, WatchIInv, RefinesABest, NoSearch, Startups
  <2> QED
    BY <1>5, <2>9, <2>1, <2>3, <2>4, <2>5, <2>6, StartupStep DEF ParkedFinds
<1>6. ASSUME NEW hall \in Halls, StartupPost(hall) PROVE WatchIInv'
  <2>1. VotesAreMatches' /\ CyclesNeedTwo' /\ backing' \in Backings
    BY <1>6, GateOpens, BackingKept DEF StartupPost
  <2>2. startup' \in Startups /\ job' \in [Movers -> Place]
    <3>1. startup' = [startup EXCEPT !.pc = "finish"] \/ startup' = NoSearch
      BY <1>6 DEF StartupPost
    <3>2. startup' \in Startups
      BY <1>0, <3>1, SearchesAre DEF Stages
    <3>3. job' \in [Movers -> Place]
      BY <1>6 DEF StartupPost, WatchIInv, TypeOK, Place
    <3> QED
      BY <3>2, <3>3
  <2>9. RefinesABest'
    BY <1>0, <1>6 DEF StartupPost, WatchIInv, RefinesABest, NoSearch, Startups
  <2> QED
    BY <1>6, <2>9, <2>1, <2>2, StartupStep DEF StartupPost, WatchIInv, TypeOK
<1>7. ASSUME NEW hall \in Halls, NEW score \in 0 .. 2, StartupFinds(hall, score) PROVE WatchIInv'
  <2> DEFINE first == [hall |-> hall, score |-> score, seen |-> FALSE]
             kept == [hall |-> hall, score |-> score, seen |-> score > 0]
             otherwise == IF MoreToDo(score, 0)
                          THEN [startup EXCEPT !.pc = "refine", !.pass = 1, !.best = kept]
                          ELSE [startup EXCEPT !.pc = "retry"]
  <2>1. first \in Best /\ kept \in Best /\ first.hall \in Halls /\ ~first.seen
    <3>1. (score > 0) \in BOOLEAN
      OBVIOUS
    <3> QED
      BY <3>1 DEF Best, Place
  <2>2. otherwise \in Startups
    <3> HIDE DEF kept
    <3>1. MoreToDo(score, 0) => 1 \in 0 .. MaxPasses
      BY WatchAssumption DEF MoreToDo
    <3> QED
      BY <1>0, <2>1, <3>1, SearchesAre DEF Startups, Stages
  <2>3. Observes("search", first, otherwise)
    BY <1>7 DEF StartupFinds
  <2>6. otherwise.pc = "refine" => otherwise.best.hall \in Halls
    BY <1>0 DEF Startups
  <2> HIDE DEF first, otherwise
  <2>4. /\ VotesAreMatches' /\ CyclesNeedTwo' /\ backing' \in Backings
        /\ job' \in [Movers -> Place] /\ startup' \in Startups
        /\ startup' = otherwise \/ startup'.pc # "refine"
    BY <2>1, <2>2, <2>3, ObservesKeeps
  <2>9. RefinesABest'
    BY <1>0, <2>4, <2>6 DEF RefinesABest
  <2> QED
    BY <1>7, <2>4, <2>9, StartupStep DEF StartupFinds, WatchIInv, TypeOK
<1>8. ASSUME NEW hall \in Halls, NEW score \in 0 .. 2, NEW better \in BOOLEAN,
             StartupRefines(hall, score, better)
      PROVE  WatchIInv'
  <2> DEFINE best == IF better THEN [hall |-> hall, score |-> score, seen |-> FALSE] ELSE startup.best
             scored == best.score > 0
             kept == [best EXCEPT !.seen = scored]
             n == startup.pass + 1
             otherwise == IF MoreToDo(best.score, startup.pass)
                          THEN [startup EXCEPT !.pass = n, !.best = kept]
                          ELSE [NoSearch EXCEPT !.pc = "retry"]
  <2>1. best \in Best /\ best.hall \in Halls
    BY <1>0, <1>8 DEF StartupRefines, Best, Place, Startups, WatchIInv, RefinesABest
  <2>2. Observes("refine", best, otherwise)
    BY <1>0, <1>8 DEF StartupRefines, Startups
  <2> HIDE DEF best
  <2>3. kept \in Best
    <3>1. scored \in BOOLEAN
      BY <2>1 DEF Best
    <3> HIDE DEF scored
    <3> QED
      BY <2>1, <3>1 DEF Best
  <2> HIDE DEF kept
  <2>4. MoreToDo(best.score, startup.pass) => n \in 0 .. MaxPasses
    <3>1. startup.pass \in 0 .. MaxPasses
      BY <1>0 DEF Startups
    <3> QED
      BY <3>1, WatchAssumption DEF MoreToDo
  <2> HIDE DEF n
  <2>5. otherwise \in Startups
    BY <1>0, <2>3, <2>4, SearchesAre DEF Startups, Stages
  <2>8. otherwise.pc = "refine" => otherwise.best.hall \in Halls
    <3>1. kept.hall = best.hall
      BY <2>1 DEF kept, Best
    <3> QED
      BY <1>0, <2>1, <3>1 DEF Startups, NoSearch
  <2> HIDE DEF otherwise
  <2>6. /\ VotesAreMatches' /\ CyclesNeedTwo' /\ backing' \in Backings
        /\ job' \in [Movers -> Place] /\ startup' \in Startups
        /\ startup' = otherwise \/ startup'.pc # "refine"
    BY <2>1, <2>2, <2>5, ObservesKeeps
  <2>9. RefinesABest'
    BY <2>6, <2>8 DEF RefinesABest
  <2>7. left' \in [searches : 0 .. MaxSearches, seeds : 0 .. MaxSeeds,
                   goals : 0 .. MaxGoals, scans : 0 .. MaxScans]
    BY <1>8, LeftSpent DEF StartupRefines, Searches, WatchIInv, TypeOK
  <2> QED
    BY <1>8, <2>6, <2>7, <2>9, StartupStep DEF StartupRefines
<1> QED
  BY <1>1, <1>2, <1>3, <1>4, <1>5, <1>6, <1>7, <1>8 DEF StartupNext

-----------------------------------------------------------------------------
(* The operator and the goals                                              *)

LEMMA WatchOperator == WatchIInv /\ OperatorNext => WatchIInv'
<1> SUFFICES ASSUME WatchIInv, OperatorNext PROVE WatchIInv'
  OBVIOUS
<1> DEFINE Ops == [pc : {"idle", "place", "seeded", "match", "move"}, hall : Place]
<1>0. TypeOK /\ operator \in Ops /\ operator.hall \in Place /\ None \in Place /\ Halls \subseteq Place
  BY DEF WatchIInv, TypeOK, Place
<1>1. ASSUME NEW hall \in Halls, SetPose(hall) PROVE WatchIInv'
  <2>1. operator' \in Ops
    BY <1>0, <1>1 DEF SetPose
  <2>2. TypeOK'
    BY <1>1, <2>1, <1>0, LeftSpent DEF SetPose, OperatorKeeps, TypeOK
  <2> QED
    BY <1>1, <2>2 DEF SetPose, OperatorKeeps, WatchIInv, VotesAreMatches, DrivesToRefine, Driving, RefinesABest, SeedsAHall,
       StartupYields, CyclesNeedTwo, TwoMatchesAgree
<1>2. CASE Seeds
  <2>1. operator' \in Ops
    BY <1>0, <1>2 DEF Seeds
  <2>2. /\ at' \in Halls /\ seeding' \in BOOLEAN
        /\ tick' \in [pc : {"idle", "match", "seed"}, moved : BOOLEAN]
        /\ lead' \in [hall : Place, count : 0 .. 2, old : BOOLEAN]
    BY <1>0, <1>2, PlacedTypes DEF Seeds, SeedsAHall, WatchIInv
  <2>3. TypeOK'
    BY <1>0, <1>2, <2>1, <2>2 DEF Seeds, OperatorKeeps, TypeOK
  <2> QED
    BY <1>2, <2>3 DEF Seeds, OperatorKeeps, WatchIInv, VotesAreMatches, DrivesToRefine, Driving, RefinesABest, SeedsAHall,
       StartupYields, CyclesNeedTwo, TwoMatchesAgree, SeedsAHall
<1>3. ASSUME NEW refine \in BOOLEAN, SeedTaken(refine) PROVE WatchIInv'
  <2>1. operator' \in Ops
    BY <1>0, <1>3 DEF SeedTaken
  <2>2. VotesAreMatches'
    BY <1>3, GateOpens DEF SeedTaken
  <2>3. gates' \in [service : Gate, engine : Gate]
    BY <2>2, GatesAre DEF VotesAreMatches
  <2>4. startup' \in Startups /\ startup'.pc = "off"
    BY <1>3, SearchesAre DEF SeedTaken, StartupCancelled, NoSearch
  <2>5. TypeOK'
    BY <1>0, <1>3, <2>1, <2>3, <2>4 DEF SeedTaken, OperatorKeeps, TypeOK, Startups, Stages
  <2> QED
    BY <1>3, <2>2, <2>4, <2>5 DEF SeedTaken, OperatorKeeps, WatchIInv, DrivesToRefine, Driving, RefinesABest, SeedsAHall,
       StartupYields, CyclesNeedTwo, TwoMatchesAgree
<1>4. ASSUME NEW hall \in Halls, OperatorRefines(hall) PROVE WatchIInv'
  <2>1. operator' \in Ops /\ job' \in [Movers -> Place]
    BY <1>0, <1>4 DEF OperatorRefines, TypeOK
  <2>2. TypeOK'
    BY <1>0, <1>4, <2>1 DEF OperatorRefines, OperatorKeeps, TypeOK
  <2> QED
    BY <1>4, <2>2 DEF OperatorRefines, OperatorKeeps, WatchIInv, VotesAreMatches, DrivesToRefine, Driving,
       RefinesABest, SeedsAHall, StartupYields, CyclesNeedTwo, TwoMatchesAgree
<1>5. CASE OperatorDone
  <2>1. operator' \in Ops
    BY <1>0, <1>5 DEF OperatorDone
  <2>2. TypeOK'
    BY <1>0, <1>5, <2>1 DEF OperatorDone, OperatorKeeps, TypeOK
  <2> QED
    BY <1>5, <2>2 DEF OperatorDone, OperatorKeeps, WatchIInv, VotesAreMatches, DrivesToRefine, Driving,
       RefinesABest, SeedsAHall, StartupYields, CyclesNeedTwo, TwoMatchesAgree
<1> QED
  BY <1>1, <1>2, <1>3, <1>4, <1>5 DEF OperatorNext

LEMMA WatchGoals ==
    ASSUME WatchIInv, GoalBegins \/ BaseStops \/ BaseMoves \/ GoalEnds
    PROVE  WatchIInv'
<1>1. startup' \in Startups /\ (startup' = startup \/ startup' = NoSearch)
  BY SearchesAre, StartupIs DEF GoalBegins, BaseStops, BaseMoves, GoalEnds, StartupCancelled
<1>2. left' \in [searches : 0 .. MaxSearches, seeds : 0 .. MaxSeeds,
                 goals : 0 .. MaxGoals, scans : 0 .. MaxScans]
  BY LeftSpent DEF GoalBegins, BaseStops, BaseMoves, GoalEnds, WatchIInv, TypeOK
<1>3. drive' \in {"idle", "moving", "stopped"} /\ DriveKeeps
  BY DEF GoalBegins, BaseStops, BaseMoves, GoalEnds
<1>4. TypeOK'
  BY <1>1, <1>2, <1>3 DEF DriveKeeps, WatchIInv, TypeOK, Startups, Stages
<1>5. StartupYields'
  <2>1. CASE GoalBegins
    BY <2>1 DEF GoalBegins, StartupCancelled, NoSearch, StartupYields
  <2>2. CASE BaseStops \/ BaseMoves \/ GoalEnds
    BY <2>2 DEF BaseStops, BaseMoves, GoalEnds, DriveKeeps, WatchIInv, StartupYields
  <2> QED
    BY <2>1, <2>2
<1> QED
  BY <1>1, <1>3, <1>4, <1>5 DEF DriveKeeps, WatchIInv, VotesAreMatches, DrivesToRefine, Driving, RefinesABest,
     SeedsAHall, NoSearch, CyclesNeedTwo, TwoMatchesAgree

LEMMA WatchStep == WatchIInv /\ [Next]_vars => WatchIInv'
<1> SUFFICES ASSUME WatchIInv, [Next]_vars PROVE WatchIInv'
  OBVIOUS
<1>1. CASE UNCHANGED vars
  BY <1>1 DEF vars, WatchIInv, TypeOK, VotesAreMatches, DrivesToRefine, Driving, RefinesABest, SeedsAHall,
     StartupYields, CyclesNeedTwo, TwoMatchesAgree
<1>2. CASE Next
  BY <1>2, WatchTick, WatchMoves, WatchCheck, WatchStartup, WatchOperator, WatchGoals DEF Next
<1> QED
  BY <1>1, <1>2

LEMMA WatchInductive == Spec => []WatchIInv
  BY WatchInit, WatchStep, PTL DEF Spec

(* What places the robot keeps its types, for any halls and any bounds.     *)
THEOREM WatchTypes == Spec => []TypeOK
<1>1. WatchIInv => TypeOK
  BY DEF WatchIInv
<1> QED
  BY <1>1, WatchInductive, PTL

(* StartupYields: once a pose set by hand was taken, or while a goal is     *)
(* active, the startup search is over, wherever it stood.                   *)
THEOREM StartupSearchYields == Spec => []StartupYields
<1>1. WatchIInv => StartupYields
  BY DEF WatchIInv
<1> QED
  BY <1>1, WatchInductive, PTL

(* CyclesNeedTwo: a large jump that nothing forces rests on two matches     *)
(* that agree, unless a refine pass of the startup search asked for it.     *)
THEOREM JumpsRestOnTwoMatches == Spec => []CyclesNeedTwo
<1>1. WatchIInv => CyclesNeedTwo
  BY DEF WatchIInv
<1> QED
  BY <1>1, WatchInductive, PTL

(* DrivingPoseStays: a search that began while the base drove leaves the    *)
(* robot in the hall it was thought to be in, or it is the watchdog's, told *)
(* to run during navigation, and rests on two matches that agree.           *)
THEOREM SearchWhileDrivingStays == Spec => DrivingPoseStays
<1> DEFINE Stays == \A c \in Checks :
                       /\ job[c] # job'[c] /\ job'[c] # None
                       /\ Driving(c) /\ job'[c] # check[c].from
                       => /\ check[c].kind = "auto" /\ DuringNavigation
                          /\ backing'.by = "check" /\ backing'.matches >= Confirms
<1>1. WatchIInv /\ [Next]_vars => [Stays]_vars
  <2> SUFFICES ASSUME WatchIInv, Next, NEW c \in Checks, job[c] # job'[c], job'[c] # None, Driving(c),
                      job'[c] # check[c].from
               PROVE  /\ check[c].kind = "auto" /\ DuringNavigation
                      /\ backing'.by = "check" /\ backing'.matches >= Confirms
    OBVIOUS
  <2>1. c \in Movers /\ c # "startup" /\ c # "operator" /\ job \in [Movers -> Place]
    BY DEF Checks, Movers, WatchIInv, TypeOK
  <2>2. ~TickNext
    BY DEF TickNext, TickBegins, TickDrops, TickHolds, SeedWeak, TickLeads, SeedFound, TickKeeps
  <2>3. \A m \in Movers : ~Moves(m)
    BY <2>1 DEF Moves
  <2>4. ~StartupNext
    <3>1. \A hall : job' # [job EXCEPT !["startup"] = hall]
      BY <2>1
    <3>2. job' # job
      OBVIOUS
    <3>3. ~StartupBegins /\ ~StartupGivesUp /\ ~ParkedMisses /\ ~StartupSettles
      BY <3>2 DEF StartupBegins, StartupGivesUp, ParkedMisses, StartupSettles
    <3>4. \A hall : ~ParkedFinds(hall) /\ ~StartupPost(hall)
      BY <3>1, <3>2 DEF ParkedFinds, StartupPost
    <3>5. \A who, best, otherwise : ~Observes(who, best, otherwise)
      BY <3>1, <3>2 DEF Observes
    <3>6. \A hall, score : ~StartupFinds(hall, score)
      BY <3>5 DEF StartupFinds
    <3>7. \A hall, score, better : ~StartupRefines(hall, score, better)
      BY <3>5 DEF StartupRefines
    <3> QED
      BY <3>3, <3>4, <3>6, <3>7 DEF StartupNext
  <2>5. ~OperatorNext
    BY <2>1 DEF OperatorNext, SetPose, OperatorRefines, Seeds, OperatorDone, SeedTaken
  <2>6. ~(GoalBegins \/ BaseStops \/ BaseMoves \/ GoalEnds)
    BY DEF GoalBegins, BaseStops, BaseMoves, GoalEnds, DriveKeeps
  <2>7. PICK d \in Checks : CheckNext(d)
    BY <2>2, <2>3, <2>4, <2>5, <2>6 DEF Next
  <2>8. PICK hall \in Halls, good \in BOOLEAN : CheckApplies(d, hall, good)
    BY <2>7 DEF CheckNext, CheckBegins, CheckWidens, CheckAmbiguous, CheckPrefersPose, CheckFits, CheckWeak,
       CheckSettles
  <2>9. d = c /\ job'[c] = hall /\ ~(hall # check[d].from /\ Refused(d, good))
    BY <2>1, <2>8 DEF CheckApplies
  <2>10. check[c].kind \notin {"refine", "manual"}
    <3>1. check[c].base = "moving"
      BY DEF Driving
    <3> QED
      BY <2>9, <3>1 DEF Refused
  <2>11. check[c].kind = "auto" /\ DuringNavigation
    BY <2>10 DEF WatchIInv, DrivesToRefine
  <2>12. /\ Applies(gates.service, check[c].from, hall, FALSE)
         /\ Backs("check", gates.service, check[c].from, hall, FALSE, TRUE)
    <3>1. (Forced(c) \/ (check[c].kind = "recover" /\ good /\ hall # check[c].from)) = FALSE
      BY <2>11 DEF Forced
    <3>2. LET forced == Forced(c) \/ (check[c].kind = "recover" /\ good /\ hall # check[c].from) IN
            /\ Applies(gates.service, check[c].from, hall, forced)
            /\ Backs("check", gates.service, check[c].from, hall, forced, TRUE)
      BY <2>8, <2>9 DEF CheckApplies
    <3> QED
      BY <3>1, <3>2
  <2>13. gates.service.hall = hall /\ gates.service.matches = 1
    BY <2>9, <2>12, VoteBefore DEF WatchIInv, VotesAreMatches
  <2>14. backing' = [by |-> "check", matches |-> 2]
    BY <2>9, <2>12, <2>13 DEF Backs
  <2> QED
    BY <2>11, <2>14 DEF Confirms
<1> QED
  BY <1>1, WatchInductive, PTL DEF Spec, DrivingPoseStays

-----------------------------------------------------------------------------
(* The matcher in its subprocess: the inductive invariant.                 *)

Named == {NoMap} \cup UNION {Maps[c] : c \in Callers}

\* The worker keeps every map under its own token.
Entries == {[token |-> Token(m), map |-> m] : m \in Named}
MatchJobs == [by : SUBSET Callers, map : Named, with : BOOLEAN]
PoolStates == [status : {"up", "broken", "shut"}, jobs : Seq(MatchJobs), held : Seq(Entries)]
CallStates ==
    [at : {"idle", "submit", "wait", "kill", "shut", "ensure"}, map : Named, pool : PoolIds \cup {0},
     try : {1, 2}, retry : BOOLEAN,
     answer : {"none", "found", "raised", "not cached", "broken", "cancelled"}, on : Named]

WorkerTypeOK ==
    /\ enabled \in BOOLEAN
    /\ pool \in PoolIds \cup {0}
    /\ pools \in [PoolIds -> PoolStates]
    /\ call \in [Callers -> CallStates]

\* Who is at a pool has one, and nobody has an answer that does not wait for it.
HoldsAPool ==
    \A c \in Callers :
        /\ call[c].at \in {"submit", "wait", "shut"} => call[c].pool \in PoolIds
        /\ call[c].at # "wait" => call[c].answer = "none"

\* The calls a job answers wait for it, at its pool, for its map.
JobsAreWaitedFor ==
    \A p \in PoolIds : \A i \in DOMAIN pools[p].jobs : \A c \in pools[p].jobs[i].by :
        /\ call[c].at = "wait" /\ call[c].answer = "none"
        /\ call[c].pool = p /\ call[c].map = pools[p].jobs[i].map

\* A call waits for one job.
OneJobACall ==
    \A p \in PoolIds : \A i, j \in DOMAIN pools[p].jobs :
        pools[p].jobs[i].by \cap pools[p].jobs[j].by # {} => i = j

WorkerIInv == WorkerTypeOK /\ HoldsAPool /\ JobsAreWaitedFor /\ OneJobACall /\ RightMap

-----------------------------------------------------------------------------
(* Sequences and pools                                                     *)

LEMMA HeadOfJobs ==
    ASSUME NEW S, NEW s \in Seq(S), s # <<>>
    PROVE  /\ 1 \in DOMAIN s /\ Head(s) = s[1] /\ Head(s) \in S /\ Tail(s) \in Seq(S)
           /\ \A i \in DOMAIN Tail(s) : i + 1 \in DOMAIN s /\ Tail(s)[i] = s[i + 1] /\ i \in Nat \ {0}
           /\ <<Head(s)>> \in Seq(S) /\ \A i \in DOMAIN <<Head(s)>> : i = 1 /\ <<Head(s)>>[i] = s[1]
  OBVIOUS

LEMMA KeepHolds ==
    ASSUME NEW held \in Seq(Entries), NEW m \in Named
    PROVE  Keep(held, m) \in Seq(Entries)
<1> DEFINE room == IF Len(held) >= CacheMax THEN Tail(held) ELSE held
           entry == [token |-> Token(m), map |-> m]
           replaced == [i \in DOMAIN room |-> IF room[i].token = Token(m) THEN entry ELSE room[i]]
<1>1. entry \in Entries
  BY DEF Entries
<1>2. room \in Seq(Entries)
  <2>1. Len(held) >= CacheMax => held # <<>>
    BY WorkerAssumption
  <2> QED
    BY <2>1
<1> HIDE DEF room, entry
<1>3. replaced \in Seq(Entries)
  <2>1. Len(room) \in Nat /\ DOMAIN room = 1 .. Len(room) /\ \A i \in DOMAIN room : room[i] \in Entries
    BY <1>2
  <2>2. replaced \in [1 .. Len(room) -> Entries]
    BY <1>1, <2>1
  <2> QED
    BY <2>1, <2>2, SeqDef
<1>4. Append(room, entry) \in Seq(Entries)
  BY <1>1, <1>2
<1> QED
  BY <1>3, <1>4 DEF Keep, room, entry

\* A map found by a token is the map of that token.
LEMMA MapOfToken ==
    ASSUME NEW held \in Seq(Entries), NEW m, HasToken(held, Token(m))
    PROVE  MapOf(held, Token(m)) = m
<1> DEFINE i == CHOOSE j \in DOMAIN held : held[j].token = Token(m)
<1>1. i \in DOMAIN held /\ held[i].token = Token(m)
  BY DEF HasToken
<1>2. held[i] \in Entries
  BY <1>1
<1> HIDE DEF i
<1>3. held[i].map = held[i].token
  BY <1>2 DEF Entries, Token
<1> QED
  BY <1>1, <1>3 DEF MapOf, Token, i

\* There are as many pools as callers: one is not held by the others.
LEMMA UnheldExists ==
    ASSUME NEW c \in Callers
    PROVE  Unheld(c) # {} /\ Unheld(c) \subseteq PoolIds /\ (CHOOSE p \in Unheld(c) : TRUE) \in Unheld(c)
<1>1. Unheld(c) # {}
  <2> SUFFICES ASSUME Unheld(c) = {} PROVE FALSE
    OBVIOUS
  <2> DEFINE Others == Callers \ {c}
             holder == [p \in PoolIds |-> CHOOSE d \in Others : call[d].pool = p]
             n == Cardinality(Callers)
  <2>1. n \in Nat /\ IsFiniteSet(Callers)
    BY WorkerAssumption, FS_CardinalityType
  <2>2. IsFiniteSet(Others) /\ Cardinality(Others) = n - 1
    BY <2>1, FS_RemoveElement
  <2>3. IsFiniteSet(PoolIds) /\ Cardinality(PoolIds) = n
    <3>1. n # 0
      BY <2>1, FS_EmptySet
    <3> HIDE DEF n
    <3>2. IsFiniteSet(1 .. n) /\ Cardinality(1 .. n) = IF 1 > n THEN 0 ELSE n - 1 + 1
      BY <2>1, FS_Interval
    <3> QED
      BY <2>1, <3>1, <3>2 DEF PoolIds, n
  <2>4. \A p \in PoolIds : \E d \in Others : call[d].pool = p
    BY DEF Unheld
  <2>5. \A p \in PoolIds : holder[p] \in Others /\ call[holder[p]].pool = p
    BY <2>4
  <2> HIDE DEF holder, n
  <2>6. holder \in [PoolIds -> Others]
    BY <2>5 DEF holder
  <2>7. Cardinality(Others) < Cardinality(PoolIds)
    BY <2>1, <2>2, <2>3
  <2> HIDE DEF Others
  <2>8. \E x, y \in PoolIds : x # y /\ holder[x] = holder[y]
    BY <2>2, <2>3, <2>6, <2>7, FS_PigeonHole
  <2> QED
    BY <2>5, <2>8
<1>2. Unheld(c) \subseteq PoolIds
  BY DEF Unheld
<1> QED
  BY <1>1, <1>2

LEMMA IdleIs == Idle \in CallStates /\ NoMap \in Named
  BY DEF Idle, CallStates, Named

LEMMA FreshIs ==
    \A status \in {"up", "broken", "shut"} : [Fresh EXCEPT !.status = status] \in PoolStates /\ Fresh \in PoolStates
  BY EmptySeq DEF Fresh, PoolStates

-----------------------------------------------------------------------------
(* What keeps the jobs and the calls in step                               *)

\* Of each pool the jobs stay or go, and who waits for one that stays does not
\* move.
LEMMA FewerJobs ==
    ASSUME WorkerIInv,
           \A p \in PoolIds : pools'[p].jobs = pools[p].jobs \/ pools'[p].jobs = <<>>,
           \A p \in PoolIds : \A i \in DOMAIN pools'[p].jobs : \A d \in pools'[p].jobs[i].by :
              call'[d] = call[d]
    PROVE  JobsAreWaitedFor' /\ OneJobACall'
  BY DEF WorkerIInv, JobsAreWaitedFor, OneJobACall

\* Nobody moves who waits without an answer.
LEMMA WaitersStay ==
    ASSUME WorkerIInv,
           \A p \in PoolIds : pools'[p].jobs = pools[p].jobs \/ pools'[p].jobs = <<>>,
           \A d \in Callers : call[d].at = "wait" /\ call[d].answer = "none" => call'[d] = call[d]
    PROVE  JobsAreWaitedFor' /\ OneJobACall'
<1>1. \A p \in PoolIds : \A i \in DOMAIN pools[p].jobs :
         pools[p].jobs[i].by \subseteq {d \in Callers : call[d].at = "wait" /\ call[d].answer = "none"}
  <2> SUFFICES ASSUME NEW p \in PoolIds, NEW i \in DOMAIN pools[p].jobs
               PROVE  pools[p].jobs[i].by \subseteq {d \in Callers : call[d].at = "wait" /\ call[d].answer = "none"}
    OBVIOUS
  <2>1. pools[p].jobs \in Seq(MatchJobs)
    BY DEF WorkerIInv, WorkerTypeOK, PoolStates
  <2>2. pools[p].jobs[i] \in MatchJobs
    BY <2>1
  <2> QED
    BY <2>2 DEF MatchJobs, WorkerIInv, JobsAreWaitedFor
<1> QED
  BY <1>1, FewerJobs

\* A caller that moves without an answer, and does not wait.
LEMMA CallMoves ==
    ASSUME WorkerIInv, NEW c \in Callers, NEW new \in CallStates, call' = [call EXCEPT ![c] = new],
           new.at \in {"submit", "shut"} => new.pool \in PoolIds, new.at # "wait", new.answer = "none"
    PROVE  call' \in [Callers -> CallStates] /\ HoldsAPool' /\ RightMap'
  BY DEF WorkerIInv, WorkerTypeOK, HoldsAPool, RightMap

\* A pool that is started, and the caller that goes on with it.
LEMMA WorkerEnsures ==
    ASSUME WorkerIInv, NEW c \in Callers, NEW going \in CallStates, call[c].at \in {"idle", "ensure"},
           going.at \in {"idle", "submit"}, going.at = "idle" => going = Idle, going.answer = "none",
           EnsurePool(c, going)
    PROVE  WorkerIInv'
<1> DEFINE up == CHOOSE p \in Unheld(c) : TRUE
<1>0. up \in Unheld(c) /\ up \in PoolIds
  BY UnheldExists
<1> HIDE DEF up
<1>1. CASE call' = Returns(c) /\ pools' = pools /\ enabled' \in BOOLEAN /\ pool' = pool
  <2>1. call' \in [Callers -> CallStates] /\ HoldsAPool' /\ RightMap'
    BY <1>1, IdleIs, CallMoves DEF Returns, Idle
  <2>2. JobsAreWaitedFor' /\ OneJobACall'
    BY <1>1, WaitersStay DEF Returns, WorkerIInv, WorkerTypeOK
  <2> QED
    BY <1>1, <2>1, <2>2 DEF WorkerIInv, WorkerTypeOK
<1>2. ASSUME NEW p \in PoolIds, call' = [call EXCEPT ![c] = With(p, going)], pool' = p,
             pools' = pools \/ pools' = [pools EXCEPT ![p] = Fresh], enabled' = enabled
      PROVE  WorkerIInv'
  <2>1. With(p, going) \in CallStates /\ With(p, going).at = going.at /\ With(p, going).answer = "none"
        /\ (going.at = "submit" => With(p, going).pool = p)
    BY <1>2 DEF With, CallStates
  <2>2. call' \in [Callers -> CallStates] /\ HoldsAPool' /\ RightMap'
    BY <1>2, <2>1, CallMoves
  <2>3. pools' \in [PoolIds -> PoolStates]
    BY <1>2, FreshIs DEF WorkerIInv, WorkerTypeOK
  <2>4. \A q \in PoolIds : pools'[q].jobs = pools[q].jobs \/ pools'[q].jobs = <<>>
    BY <1>2 DEF Fresh, WorkerIInv, WorkerTypeOK
  <2>5. \A d \in Callers : call[d].at = "wait" /\ call[d].answer = "none" => call'[d] = call[d]
    BY <1>2 DEF WorkerIInv, WorkerTypeOK
  <2>6. JobsAreWaitedFor' /\ OneJobACall'
    BY <2>4, <2>5, WaitersStay
  <2> QED
    BY <1>2, <2>2, <2>3, <2>6 DEF WorkerIInv, WorkerTypeOK
<1>3. CASE enabled /\ pool # 0 /\ call' = [call EXCEPT ![c] = With(pool, going)]
           /\ UNCHANGED <<enabled, pool, sent, pools>>
  BY <1>2, <1>3 DEF WorkerIInv, WorkerTypeOK
<1>4. CASE enabled /\ pool = 0 /\ pool' = up /\ pools' = [pools EXCEPT ![pool'] = Fresh]
           /\ call' = [call EXCEPT ![c] = With(pool', going)] /\ UNCHANGED enabled
  BY <1>0, <1>2, <1>4
<1> QED
  BY <1>1, <1>3, <1>4 DEF EnsurePool, up, WorkerIInv, WorkerTypeOK

LEMMA WorkerStarts ==
    ASSUME WorkerIInv, NEW c \in Callers, NEW m \in Maps[c], Start(c, m)
    PROVE  WorkerIInv'
<1>1. [Idle EXCEPT !.at = "submit", !.map = m] \in CallStates
  BY DEF Idle, CallStates, Named
<1> QED
  BY <1>1, WorkerEnsures DEF Start, Idle

LEMMA WorkerRetries ==
    ASSUME WorkerIInv, NEW c \in Callers, Retry(c)
    PROVE  WorkerIInv'
<1> DEFINE going == IF LastTry(c) THEN Idle ELSE [Idle EXCEPT !.at = "submit", !.map = call[c].map, !.try = 2]
<1>1. going \in CallStates /\ going.at \in {"idle", "submit"} /\ going.answer = "none"
      /\ (going.at = "idle" => going = Idle)
  BY DEF Idle, CallStates, Named, WorkerIInv, WorkerTypeOK
<1>2. EnsurePool(c, going) /\ call[c].at = "ensure"
  BY DEF Retry
<1> HIDE DEF going
<1> QED
  BY <1>1, <1>2, WorkerEnsures

\* A caller that moves while no job changes.
LEMMA WorkerMoves ==
    ASSUME WorkerIInv, NEW c \in Callers, NEW new \in CallStates, call' = [call EXCEPT ![c] = new],
           new.at \in {"submit", "shut"} => new.pool \in PoolIds, new.at # "wait", new.answer = "none",
           call[c].at # "wait" \/ call[c].answer # "none",
           enabled' = enabled, pool' \in PoolIds \cup {0}, pools' = pools
    PROVE  WorkerIInv'
<1>1. call' \in [Callers -> CallStates] /\ HoldsAPool' /\ RightMap'
  BY CallMoves
<1>2. JobsAreWaitedFor' /\ OneJobACall'
  BY WaitersStay DEF WorkerIInv, WorkerTypeOK
<1> QED
  BY <1>1, <1>2 DEF WorkerIInv, WorkerTypeOK

\* What is left of a call that fails.
LEMMA KilledIs ==
    ASSUME WorkerIInv, NEW c \in Callers, NEW retry \in BOOLEAN
    PROVE  [call[c] EXCEPT !.at = "kill", !.pool = 0, !.retry = retry, !.answer = "none", !.on = NoMap]
              \in CallStates
  BY IdleIs DEF WorkerIInv, WorkerTypeOK, CallStates

LEMMA WorkerKills ==
    ASSUME WorkerIInv, NEW c \in Callers, NEW retry \in BOOLEAN, Kills(c, retry),
           call[c].at # "wait" \/ call[c].answer # "none",
           enabled' = enabled, pool' = pool, pools' = pools
    PROVE  WorkerIInv'
<1> DEFINE new == [call[c] EXCEPT !.at = "kill", !.pool = 0, !.retry = retry, !.answer = "none", !.on = NoMap]
<1>1. new \in CallStates /\ new.at = "kill" /\ new.answer = "none"
  BY ZenonT(40), KilledIs DEF WorkerIInv, WorkerTypeOK, CallStates
<1>2. call' = [call EXCEPT ![c] = new]
  BY DEF Kills
<1> HIDE DEF new
<1> QED
  BY <1>1, <1>2, WorkerMoves DEF WorkerIInv, WorkerTypeOK

LEMMA WorkerCollects == ASSUME WorkerIInv, NEW c \in Callers, Collect(c) PROVE WorkerIInv'
<1>0. call \in [Callers -> CallStates] /\ call[c].at = "wait" /\ call[c].pool \in PoolIds
  BY DEF Collect, WorkerIInv, WorkerTypeOK, HoldsAPool
<1>1. CASE call[c].answer # "none" /\ call' = Returns(c)
  BY <1>1, IdleIs, WorkerMoves DEF Collect, Returns, Idle, WorkerIInv, WorkerTypeOK
<1>2. CASE call[c].answer = "not cached" /\ call' = [call EXCEPT ![c].at = "submit", ![c].try = 2, ![c].answer = "none"]
  <2> DEFINE new == [call[c] EXCEPT !.at = "submit", !.try = 2, !.answer = "none"]
  <2>1. new \in CallStates /\ new.at = "submit" /\ new.answer = "none" /\ new.pool = call[c].pool
    BY <1>0 DEF CallStates
  <2>2. call' = [call EXCEPT ![c] = new]
    BY <1>0, <1>2
  <2> HIDE DEF new
  <2> QED
    BY <1>0, <1>2, <2>1, <2>2, WorkerMoves DEF Collect, WorkerIInv, WorkerTypeOK
<1>3. ASSUME NEW retry \in BOOLEAN, Kills(c, retry), call[c].answer # "none" PROVE WorkerIInv'
  BY <1>3, WorkerKills DEF Collect
<1> QED
  BY <1>1, <1>2, <1>3 DEF Collect

LEMMA WorkerPoolKilled == ASSUME WorkerIInv, NEW c \in Callers, KillPool(c) PROVE WorkerIInv'
<1>0. call \in [Callers -> CallStates] /\ call[c].at = "kill" /\ call[c].answer = "none" /\ pool \in PoolIds \cup {0}
  BY DEF KillPool, WorkerIInv, WorkerTypeOK, HoldsAPool
<1>1. CASE call' = Returns(c)
  BY <1>0, <1>1, IdleIs, WorkerMoves DEF KillPool, Returns, Idle
<1>2. CASE call' = [call EXCEPT ![c].at = "ensure", ![c].pool = 0]
  <2> DEFINE new == [call[c] EXCEPT !.at = "ensure", !.pool = 0]
  <2>1. new \in CallStates /\ new.at = "ensure" /\ new.answer = "none"
    BY <1>0 DEF CallStates
  <2>2. call' = [call EXCEPT ![c] = new]
    BY <1>0, <1>2
  <2> HIDE DEF new
  <2> QED
    BY <1>0, <2>1, <2>2, WorkerMoves DEF KillPool
<1>3. CASE pool # 0 /\ call' = [call EXCEPT ![c].at = "shut", ![c].pool = pool]
  <2> DEFINE new == [call[c] EXCEPT !.at = "shut", !.pool = pool]
  <2>1. new \in CallStates /\ new.at = "shut" /\ new.answer = "none" /\ new.pool = pool
    BY <1>0 DEF CallStates
  <2>2. call' = [call EXCEPT ![c] = new]
    BY <1>0, <1>3
  <2> HIDE DEF new
  <2> QED
    BY <1>0, <1>3, <2>1, <2>2, WorkerMoves DEF KillPool
<1> QED
  BY <1>1, <1>2, <1>3 DEF KillPool, After

-----------------------------------------------------------------------------
(* Jobs                                                                    *)

LEMMA PoolIs ==
    ASSUME WorkerIInv, NEW p \in PoolIds
    PROVE  /\ pools[p] \in PoolStates /\ pools[p].jobs \in Seq(MatchJobs) /\ pools[p].held \in Seq(Entries)
           /\ \A i \in DOMAIN pools[p].jobs : pools[p].jobs[i] \in MatchJobs
           /\ \A i \in DOMAIN pools[p].jobs : pools[p].jobs[i].by \subseteq Callers
<1>1. pools[p] \in PoolStates /\ pools[p].jobs \in Seq(MatchJobs) /\ pools[p].held \in Seq(Entries)
  BY DEF WorkerIInv, WorkerTypeOK, PoolStates
<1>2. \A i \in DOMAIN pools[p].jobs : pools[p].jobs[i] \in MatchJobs
  BY <1>1
<1> QED
  BY <1>1, <1>2 DEF MatchJobs

\* Who waits for a job of a pool, waits at that pool, without an answer.
LEMMA WaitersAre ==
    ASSUME WorkerIInv, NEW p \in PoolIds, NEW c \in Waiters(pools[p].jobs)
    PROVE  c \in Callers /\ call[c].at = "wait" /\ call[c].answer = "none" /\ call[c].pool = p
  BY PoolIs DEF Waiters, WorkerIInv, JobsAreWaitedFor

\* Calls that get an answer, but no find.
LEMMA CallsAnswered ==
    ASSUME WorkerIInv, NEW W, NEW answers,
           \A c \in W : call[c].at = "wait" /\ answers[c] \in {"raised", "not cached", "broken", "cancelled"},
           call' = [c \in Callers |-> IF c \in W THEN [call[c] EXCEPT !.answer = answers[c]] ELSE call[c]]
    PROVE  call' \in [Callers -> CallStates] /\ HoldsAPool' /\ RightMap'
<1>0. call \in [Callers -> CallStates]
  BY DEF WorkerIInv, WorkerTypeOK
<1>1. \A c \in Callers : /\ call'[c] \in CallStates /\ call'[c].at = call[c].at /\ call'[c].pool = call[c].pool
                         /\ call'[c].on = call[c].on /\ call'[c].map = call[c].map
                         /\ call'[c].answer = IF c \in W THEN answers[c] ELSE call[c].answer
  <2> SUFFICES ASSUME NEW c \in Callers
               PROVE  /\ call'[c] \in CallStates /\ call'[c].at = call[c].at /\ call'[c].pool = call[c].pool
                      /\ call'[c].on = call[c].on /\ call'[c].map = call[c].map
                      /\ call'[c].answer = IF c \in W THEN answers[c] ELSE call[c].answer
    OBVIOUS
  <2>1. CASE c \in W
    <3> DEFINE r == call[c]
               a == answers[c]
    <3>1. call'[c] = [r EXCEPT !.answer = a] /\ r \in CallStates
      BY <1>0, <2>1
    <3>2. a \in {"none", "found", "raised", "not cached", "broken", "cancelled"}
      BY <2>1
    <3> HIDE DEF r, a
    <3>3. /\ call'[c] \in CallStates /\ call'[c].at = r.at /\ call'[c].pool = r.pool
          /\ call'[c].on = r.on /\ call'[c].map = r.map /\ call'[c].answer = a
      BY <3>1, <3>2 DEF CallStates
    <3> QED
      BY <2>1, <3>3 DEF r, a
  <2>2. CASE c \notin W
    BY <1>0, <2>2
  <2> QED
    BY <2>1, <2>2
<1>2. call' \in [Callers -> CallStates]
  BY <1>1
<1>3. HoldsAPool' /\ RightMap'
  <2> SUFFICES ASSUME NEW d \in Callers
               PROVE  /\ call'[d].at \in {"submit", "wait", "shut"} => call'[d].pool \in PoolIds
                      /\ call'[d].at # "wait" => call'[d].answer = "none"
                      /\ call'[d].answer = "found" => call'[d].on = call'[d].map
    BY DEF HoldsAPool, RightMap
  <2>1. CASE d \in W
    <3>1. call'[d].at = "wait" /\ call'[d].pool = call[d].pool /\ call'[d].answer = answers[d] /\ call[d].at = "wait"
      BY <1>1, <2>1
    <3>2. answers[d] \in {"raised", "not cached", "broken", "cancelled"}
      BY <2>1
    <3> QED
      BY <3>1, <3>2 DEF WorkerIInv, HoldsAPool
  <2>2. CASE d \notin W
    BY <1>1, <2>2 DEF WorkerIInv, HoldsAPool, RightMap
  <2> QED
    BY <2>1, <2>2
<1> QED
  BY <1>2, <1>3

LEMMA WorkerBreaks == ASSUME WorkerIInv, NEW p \in PoolIds, Breaks(p) PROVE WorkerIInv'
<1> DEFINE W == Waiters(pools[p].jobs)
<1>1. \A c \in W : c \in Callers /\ call[c].at = "wait" /\ call[c].answer = "none" /\ call[c].pool = p
  BY WaitersAre
<1> HIDE DEF W
<1> DEFINE answers == [d \in Callers |-> "broken"]
<1>8. \A c \in Callers : answers[c] = "broken"
  OBVIOUS
<1> HIDE DEF answers
<1>2. call' = [c \in Callers |-> IF c \in W THEN [call[c] EXCEPT !.answer = answers[c]] ELSE call[c]]
  BY <1>8 DEF Breaks, Answer, W
<1>3. call' \in [Callers -> CallStates] /\ HoldsAPool' /\ RightMap'
  <2>1. \A c \in W : call[c].at = "wait" /\ answers[c] \in {"raised", "not cached", "broken", "cancelled"}
    BY <1>1, <1>8
  <2> QED
    BY <1>2, <2>1, CallsAnswered, Zenon
<1>4. pools' \in [PoolIds -> PoolStates] /\ pools' = [pools EXCEPT ![p] = [Fresh EXCEPT !.status = "broken"]]
  BY FreshIs DEF Breaks, WorkerIInv, WorkerTypeOK
<1>5. pools'[p].jobs = <<>> /\ \A q \in PoolIds \ {p} : pools'[q].jobs = pools[q].jobs
  BY <1>4, EmptySeq DEF Fresh, WorkerIInv, WorkerTypeOK
<1>6. \A q \in PoolIds : \A i \in DOMAIN pools'[q].jobs : \A d \in pools'[q].jobs[i].by : call'[d] = call[d]
  <2> SUFFICES ASSUME NEW q \in PoolIds, NEW i \in DOMAIN pools'[q].jobs, NEW d \in pools'[q].jobs[i].by
               PROVE  call'[d] = call[d]
    OBVIOUS
  <2>1. q # p /\ d \in Callers /\ call[d].pool = q
    BY <1>5, PoolIs DEF WorkerIInv, JobsAreWaitedFor
  <2> QED
    BY <1>1, <1>2, <2>1
<1>7. JobsAreWaitedFor' /\ OneJobACall'
  BY <1>5, <1>6, FewerJobs
<1> QED
  BY <1>3, <1>4, <1>7 DEF Breaks, WorkerIInv, WorkerTypeOK

LEMMA WorkerShuts == ASSUME WorkerIInv, NEW c \in Callers, Shut(c) PROVE WorkerIInv'
<1> DEFINE p == call[c].pool
           W == Waiters(pools[p].jobs)
<1>0. p \in PoolIds /\ call \in [Callers -> CallStates] /\ call[c].at = "shut" /\ call[c].answer = "none"
  BY DEF Shut, WorkerIInv, WorkerTypeOK, HoldsAPool
<1>1. PICK status \in {"shut", "broken"}, answers \in [W -> {"broken", "cancelled"}] :
        /\ pools' = [pools EXCEPT ![p] = [Fresh EXCEPT !.status = status]]
        /\ call' = [d \in Callers |-> IF d \in W THEN [call[d] EXCEPT !.answer = answers[d]] ELSE After(c)[d]]
  BY DEF Shut, DeadAs
<1> HIDE DEF p
<1>2. \A d \in W : d \in Callers /\ call[d].at = "wait" /\ call[d].answer = "none" /\ call[d].pool = p
  BY <1>0, WaitersAre
<1> HIDE DEF W
<1>3. c \notin W
  BY <1>0, <1>2
<1>4. \A d \in Callers \ {c} : After(c)[d] = call[d]
  BY <1>0 DEF After, Returns
<1>5. /\ After(c)[c] \in CallStates /\ After(c)[c].at \in {"ensure", "idle"} /\ After(c)[c].answer = "none"
  <2>1. CASE call[c].retry
    <3>1. After(c)[c] = [call[c] EXCEPT !.at = "ensure", !.pool = 0]
      BY <1>0, <2>1 DEF After
    <3> QED
      BY ZenonT(40), <1>0, <3>1 DEF CallStates
  <2>2. CASE ~call[c].retry
    <3>1. After(c)[c] = Idle
      BY <1>0, <2>2 DEF After, Returns
    <3> QED
      BY <3>1, IdleIs DEF Idle
  <2> QED
    BY <2>1, <2>2
<1>6. \A d \in Callers :
        /\ call'[d] \in CallStates
        /\ d \in W => call'[d] = [call[d] EXCEPT !.answer = answers[d]]
        /\ d \notin W /\ d # c => call'[d] = call[d]
        /\ d = c => call'[d] = After(c)[c]
  <2> SUFFICES ASSUME NEW d \in Callers
               PROVE  /\ call'[d] \in CallStates
                      /\ d \in W => call'[d] = [call[d] EXCEPT !.answer = answers[d]]
                      /\ d \notin W /\ d # c => call'[d] = call[d]
                      /\ d = c => call'[d] = After(c)[c]
    OBVIOUS
  <2>1. CASE d \in W
    <3>1. call'[d] = [call[d] EXCEPT !.answer = answers[d]] /\ answers[d] \in {"broken", "cancelled"}
      BY <1>1, <2>1
    <3> QED
      BY <1>0, <1>3, <2>1, <3>1 DEF CallStates
  <2>2. CASE d = c
    BY <1>1, <1>3, <1>5, <2>2
  <2>3. CASE d \notin W /\ d # c
    BY <1>0, <1>1, <1>4, <2>3
  <2> QED
    BY <2>1, <2>2, <2>3
<1>7. call' \in [Callers -> CallStates]
  BY <1>1, <1>6
<1>8. HoldsAPool' /\ RightMap'
  <2> SUFFICES ASSUME NEW d \in Callers
               PROVE  /\ call'[d].at \in {"submit", "wait", "shut"} => call'[d].pool \in PoolIds
                      /\ call'[d].at # "wait" => call'[d].answer = "none"
                      /\ call'[d].answer = "found" => call'[d].on = call'[d].map
    BY DEF HoldsAPool, RightMap
  <2>1. CASE d \in W
    <3>1. call'[d] = [call[d] EXCEPT !.answer = answers[d]] /\ answers[d] \in {"broken", "cancelled"}
      BY <1>1, <1>6, <2>1
    <3>2. call[d] \in CallStates /\ call[d].at = "wait" /\ call[d].pool \in PoolIds
      BY <1>0, <1>2, <2>1 DEF WorkerIInv, HoldsAPool
    <3>3. call'[d].at = "wait" /\ call'[d].pool = call[d].pool /\ call'[d].answer = answers[d]
      BY <3>1, <3>2 DEF CallStates
    <3> QED
      BY <3>1, <3>2, <3>3
  <2>2. CASE d = c
    BY <1>5, <1>6, <2>2
  <2>3. CASE d \notin W /\ d # c
    BY <1>6, <2>3 DEF WorkerIInv, HoldsAPool, RightMap
  <2> QED
    BY <2>1, <2>2, <2>3
<1>9. pools' \in [PoolIds -> PoolStates]
  BY <1>0, <1>1, FreshIs DEF WorkerIInv, WorkerTypeOK
<1>10. pools'[p].jobs = <<>> /\ \A q \in PoolIds \ {p} : pools'[q].jobs = pools[q].jobs
  BY <1>0, <1>1, EmptySeq DEF Fresh, WorkerIInv, WorkerTypeOK
<1>11. \A q \in PoolIds : \A i \in DOMAIN pools'[q].jobs : \A d \in pools'[q].jobs[i].by : call'[d] = call[d]
  <2> SUFFICES ASSUME NEW q \in PoolIds, NEW i \in DOMAIN pools'[q].jobs, NEW d \in pools'[q].jobs[i].by
               PROVE  call'[d] = call[d]
    OBVIOUS
  <2>1. q # p /\ d \in Callers /\ call[d].pool = q /\ call[d].at = "wait"
    BY <1>10, PoolIs DEF WorkerIInv, JobsAreWaitedFor
  <2> QED
    BY <1>0, <1>2, <1>6, <2>1
<1>12. JobsAreWaitedFor' /\ OneJobACall'
  BY <1>10, <1>11, FewerJobs
<1> QED
  BY <1>7, <1>8, <1>9, <1>12 DEF Shut, WorkerIInv, WorkerTypeOK

LEMMA WorkerCalls == ASSUME WorkerIInv, NEW p \in PoolIds, WorkerCall(p) PROVE WorkerIInv'
<1> DEFINE task == Head(pools[p].jobs)
           held == IF task.with THEN Keep(pools[p].held, task.map) ELSE pools[p].held
<1>0. call \in [Callers -> CallStates] /\ pools \in [PoolIds -> PoolStates]
  BY DEF WorkerIInv, WorkerTypeOK
<1>1. /\ pools[p].jobs # <<>> /\ pools[p].jobs \in Seq(MatchJobs) /\ 1 \in DOMAIN pools[p].jobs
      /\ task = pools[p].jobs[1] /\ task \in MatchJobs
  BY PoolIs, HeadOfJobs DEF WorkerCall
<1>2. pools' = [pools EXCEPT ![p].jobs = Tail(pools[p].jobs), ![p].held = held]
  BY <1>0 DEF WorkerCall
<1>3. \/ \E answer \in {"found", "raised"} :
              /\ HasToken(held, Token(task.map))
              /\ call' = [c \in Callers |->
                            IF c \in task.by
                            THEN [call[c] EXCEPT !.answer = answer, !.on = MapOf(held, Token(task.map))]
                            ELSE call[c]]
      \/ call' = Answer(<<task>>, "not cached")
  BY DEF WorkerCall
<1>4. held \in Seq(Entries)
  BY <1>1, PoolIs, KeepHolds DEF MatchJobs
<1> HIDE DEF held
<1>5. \A c \in task.by : /\ c \in Callers /\ call[c].at = "wait" /\ call[c].answer = "none" /\ call[c].pool = p
                         /\ call[c].map = task.map
  BY <1>1, PoolIs DEF WorkerIInv, JobsAreWaitedFor
<1> HIDE DEF task
<1>6. task.map \in Named
  BY <1>1 DEF MatchJobs
<1>7. \A c \in Callers :
        /\ call'[c] \in CallStates /\ call'[c].at = call[c].at /\ call'[c].pool = call[c].pool
        /\ call'[c].map = call[c].map
        /\ c \notin task.by => call'[c] = call[c]
        /\ c \in task.by /\ call'[c].answer = "found" => call'[c].on = task.map
  <2>1. ASSUME NEW answer \in {"found", "raised"}, HasToken(held, Token(task.map)),
               call' = [c \in Callers |->
                            IF c \in task.by
                            THEN [call[c] EXCEPT !.answer = answer, !.on = MapOf(held, Token(task.map))]
                            ELSE call[c]],
               NEW c \in Callers
        PROVE  /\ call'[c] \in CallStates /\ call'[c].at = call[c].at /\ call'[c].pool = call[c].pool
               /\ call'[c].map = call[c].map
               /\ c \notin task.by => call'[c] = call[c]
               /\ c \in task.by /\ call'[c].answer = "found" => call'[c].on = task.map
    <3>1. MapOf(held, Token(task.map)) = task.map
      BY <1>4, <2>1, MapOfToken
    <3>2. CASE c \in task.by
      <4>1. call'[c] = [call[c] EXCEPT !.answer = answer, !.on = task.map]
        BY <2>1, <3>1, <3>2
      <4> DEFINE r == call[c]
      <4>2. r \in CallStates /\ call'[c] = [r EXCEPT !.answer = answer, !.on = task.map] /\ r.answer = "none"
        BY <1>0, <1>5, <3>2, <4>1
      <4> HIDE DEF r
      <4>3. /\ call'[c].at = r.at /\ call'[c].pool = r.pool /\ call'[c].map = r.map
            /\ call'[c].answer = answer /\ call'[c].on = task.map
        BY <4>2 DEF CallStates
      <4>4. call'[c] \in CallStates
        BY <1>6, <2>1, <4>2 DEF CallStates
      <4> QED
        BY <3>2, <4>3, <4>4 DEF r
    <3>3. CASE c \notin task.by
      BY <1>0, <2>1, <3>3
    <3> QED
      BY <3>2, <3>3
  <2>2. ASSUME call' = Answer(<<task>>, "not cached"), NEW c \in Callers
        PROVE  /\ call'[c] \in CallStates /\ call'[c].at = call[c].at /\ call'[c].pool = call[c].pool
               /\ call'[c].map = call[c].map
               /\ c \notin task.by => call'[c] = call[c]
               /\ c \in task.by /\ call'[c].answer = "found" => call'[c].on = task.map
    <3>1. c \in Waiters(<<task>>) <=> c \in task.by
      BY DEF Waiters
    <3>2. call'[c] = IF c \in task.by THEN [call[c] EXCEPT !.answer = "not cached"] ELSE call[c]
      BY <2>2, <3>1 DEF Answer
    <3> QED
      BY <1>0, <3>2 DEF CallStates
  <2> QED
    BY <1>3, <2>1, <2>2
<1>8. call' \in [Callers -> CallStates]
  <2>1. call' = [c \in Callers |-> call'[c]]
    BY <1>3 DEF Answer
  <2> QED
    BY <1>7, <2>1
<1>9. HoldsAPool' /\ RightMap'
  <2> SUFFICES ASSUME NEW d \in Callers
               PROVE  /\ call'[d].at \in {"submit", "wait", "shut"} => call'[d].pool \in PoolIds
                      /\ call'[d].at # "wait" => call'[d].answer = "none"
                      /\ call'[d].answer = "found" => call'[d].on = call'[d].map
    BY DEF HoldsAPool, RightMap
  <2> QED
    BY <1>5, <1>7 DEF WorkerIInv, HoldsAPool, RightMap
<1>10. pools' \in [PoolIds -> PoolStates]
  <2>1. Tail(pools[p].jobs) \in Seq(MatchJobs)
    BY <1>1
  <2> QED
    BY <1>0, <1>2, <1>4, <2>1 DEF PoolStates
<1>11. \A q \in PoolIds \ {p} : pools'[q].jobs = pools[q].jobs
  BY <1>0, <1>2
<1>12. pools'[p].jobs = Tail(pools[p].jobs)
  BY <1>0, <1>2 DEF PoolStates
<1>13. \A i \in DOMAIN pools'[p].jobs :
          /\ i \in Nat \ {0} /\ i + 1 \in DOMAIN pools[p].jobs /\ pools'[p].jobs[i] = pools[p].jobs[i + 1]
  BY <1>1, <1>12, HeadOfJobs
<1>14. \A q \in PoolIds : \A i \in DOMAIN pools'[q].jobs : \A d \in pools'[q].jobs[i].by :
          d \in Callers /\ d \notin task.by
  <2> SUFFICES ASSUME NEW q \in PoolIds, NEW i \in DOMAIN pools'[q].jobs, NEW d \in pools'[q].jobs[i].by
               PROVE  d \in Callers /\ d \notin task.by
    OBVIOUS
  <2>1. CASE q # p
    BY <1>5, <1>11, <2>1, PoolIs DEF WorkerIInv, JobsAreWaitedFor
  <2>2. CASE q = p
    <3>1. i + 1 \in DOMAIN pools[p].jobs /\ d \in pools[p].jobs[i + 1].by /\ i + 1 # 1
      BY <1>13, <2>2
    <3>2. d \notin pools[p].jobs[1].by
      BY <1>1, <3>1 DEF WorkerIInv, OneJobACall
    <3> QED
      BY <1>1, <3>1, <3>2, PoolIs
  <2> QED
    BY <2>1, <2>2
<1>15. JobsAreWaitedFor'
  <2> SUFFICES ASSUME NEW q \in PoolIds, NEW i \in DOMAIN pools'[q].jobs, NEW d \in pools'[q].jobs[i].by
               PROVE  /\ call'[d].at = "wait" /\ call'[d].answer = "none"
                      /\ call'[d].pool = q /\ call'[d].map = pools'[q].jobs[i].map
    BY DEF JobsAreWaitedFor
  <2>1. call'[d] = call[d]
    BY <1>7, <1>14
  <2>2. CASE q # p
    BY <1>11, <2>1, <2>2 DEF WorkerIInv, JobsAreWaitedFor
  <2>3. CASE q = p
    BY <1>13, <2>1, <2>3 DEF WorkerIInv, JobsAreWaitedFor
  <2> QED
    BY <2>2, <2>3
<1>16. OneJobACall'
  <2> SUFFICES ASSUME NEW q \in PoolIds, NEW i \in DOMAIN pools'[q].jobs, NEW j \in DOMAIN pools'[q].jobs,
                      pools'[q].jobs[i].by \cap pools'[q].jobs[j].by # {}
               PROVE  i = j
    BY DEF OneJobACall
  <2>1. CASE q # p
    BY <1>11, <2>1 DEF WorkerIInv, OneJobACall
  <2>2. CASE q = p
    <3>1. i + 1 = j + 1
      BY <1>13, <2>2 DEF WorkerIInv, OneJobACall
    <3> QED
      BY <1>13, <2>2, <3>1
  <2> QED
    BY <2>1, <2>2
<1> QED
  BY <1>8, <1>9, <1>10, <1>15, <1>16 DEF WorkerCall, WorkerIInv, WorkerTypeOK

\* A call that is submitted is a job of its pool.
LEMMA WorkerSubmits == ASSUME WorkerIInv, NEW c \in Callers, Submit(c) PROVE WorkerIInv'
<1> DEFINE p == call[c].pool
           task == [by |-> {c}, map |-> call[c].map, with |-> Token(call[c].map) \notin sent]
           old == pools[p].jobs
<1>0. /\ call \in [Callers -> CallStates] /\ pools \in [PoolIds -> PoolStates] /\ p \in PoolIds
      /\ call[c].at = "submit" /\ call[c].answer = "none" /\ call[c].map \in Named
  BY DEF Submit, WorkerIInv, WorkerTypeOK, HoldsAPool, CallStates
<1>1. CASE call' = Returns(c) /\ pools' = pools
  BY <1>0, <1>1, IdleIs, WorkerMoves DEF Submit, Returns, Idle, WorkerIInv, WorkerTypeOK
<1>2. ASSUME NEW retry \in BOOLEAN, Kills(c, retry), pools' = pools PROVE WorkerIInv'
  BY <1>0, <1>2, WorkerKills DEF Submit
<1>3. CASE /\ pools' = [pools EXCEPT ![p].jobs = Append(old, task)]
           /\ Goes(c, "wait")
  <2>1. task \in MatchJobs /\ task.by = {c} /\ task.map = call[c].map
    <3>1. (Token(call[c].map) \notin sent) \in BOOLEAN
      OBVIOUS
    <3> QED
      BY <1>0, <3>1 DEF MatchJobs
  <2>2. old \in Seq(MatchJobs)
    BY <1>0, PoolIs
  <2> HIDE DEF task
  <2>3. /\ Append(old, task) \in Seq(MatchJobs)
        /\ DOMAIN old = 1 .. Len(old) /\ DOMAIN Append(old, task) = 1 .. Len(old) + 1
        /\ \A i \in DOMAIN old : Append(old, task)[i] = old[i]
        /\ Append(old, task)[Len(old) + 1] = task /\ Len(old) \in Nat
    <3> HIDE DEF old
    <3>1. Append(old, task) \in Seq(MatchJobs) /\ Len(old) \in Nat /\ DOMAIN old = 1 .. Len(old)
      BY <2>1, <2>2
    <3>2. DOMAIN Append(old, task) = 1 .. Len(old) + 1
      BY <2>1, <2>2
    <3>3. \A i \in DOMAIN old : Append(old, task)[i] = old[i]
      BY <2>1, <2>2
    <3>4. Append(old, task)[Len(old) + 1] = task
      BY <2>1, <2>2
    <3> QED
      BY <3>1, <3>2, <3>3, <3>4
  <2>4. pools' \in [PoolIds -> PoolStates]
    BY <1>0, <1>3, <2>3 DEF PoolStates
  <2>5. pools'[p].jobs = Append(old, task) /\ \A q \in PoolIds \ {p} : pools'[q].jobs = pools[q].jobs
    BY <1>0, <1>3 DEF PoolStates
  <2>6. call' \in [Callers -> CallStates] /\ (\A d \in Callers \ {c} : call'[d] = call[d])
        /\ call'[c].at = "wait" /\ call'[c].answer = "none" /\ call'[c].pool = p /\ call'[c].map = call[c].map
    BY <1>0, <1>3 DEF Goes, CallStates
  <2>7. HoldsAPool' /\ RightMap'
    BY <1>0, <2>6 DEF WorkerIInv, HoldsAPool, RightMap
  <2>8. \A q \in PoolIds : \A i \in DOMAIN pools[q].jobs : \A d \in pools[q].jobs[i].by : d \in Callers \ {c}
    <3> SUFFICES ASSUME NEW q \in PoolIds, NEW i \in DOMAIN pools[q].jobs, NEW d \in pools[q].jobs[i].by
                 PROVE  d \in Callers \ {c}
      OBVIOUS
    <3> QED
      BY <1>0, PoolIs DEF WorkerIInv, JobsAreWaitedFor
  <2> HIDE DEF p
  <2>9. JobsAreWaitedFor'
    <3> SUFFICES ASSUME NEW q \in PoolIds, NEW i \in DOMAIN pools'[q].jobs, NEW d \in pools'[q].jobs[i].by
                 PROVE  /\ call'[d].at = "wait" /\ call'[d].answer = "none"
                        /\ call'[d].pool = q /\ call'[d].map = pools'[q].jobs[i].map
      BY DEF JobsAreWaitedFor
    <3>1. CASE q # p \/ i \in DOMAIN old
      <4>1. i \in DOMAIN pools[q].jobs /\ pools'[q].jobs[i] = pools[q].jobs[i]
        BY <2>3, <2>5, <3>1
      <4>2. d \in Callers \ {c} /\ call'[d] = call[d]
        BY <2>6, <2>8, <4>1
      <4> QED
        BY <4>1, <4>2 DEF WorkerIInv, JobsAreWaitedFor
    <3>2. CASE q = p /\ i \notin DOMAIN old
      <4>1. i = Len(old) + 1
        BY <2>3, <2>5, <3>2
      <4>2. pools'[q].jobs[i] = task
        BY <2>3, <2>5, <3>2, <4>1
      <4> QED
        BY <2>1, <2>6, <3>2, <4>2
    <3> QED
      BY <3>1, <3>2
  <2>10. OneJobACall'
    <3> SUFFICES ASSUME NEW q \in PoolIds, NEW i \in DOMAIN pools'[q].jobs, NEW j \in DOMAIN pools'[q].jobs,
                        NEW d \in pools'[q].jobs[i].by, d \in pools'[q].jobs[j].by
                 PROVE  i = j
      BY DEF OneJobACall
    <3>1. CASE q # p
      BY <2>5, <3>1 DEF WorkerIInv, OneJobACall
    <3>2. CASE q = p
      <4>1. \A k \in DOMAIN pools'[q].jobs : k \in DOMAIN old \/ k = Len(old) + 1
        BY SMTT(20), <2>3, <2>5, <3>2
      <4>2. \A k \in DOMAIN old : pools'[q].jobs[k] = old[k] /\ c \notin old[k].by
        BY <2>3, <2>5, <2>8, <3>2
      <4>3. pools'[q].jobs[Len(old) + 1].by = {c}
        BY <2>1, <2>3, <2>5, <3>2
      <4>4. CASE d = c
        BY <4>1, <4>2, <4>4
      <4>5. CASE d # c
        <5>1. i \in DOMAIN old /\ j \in DOMAIN old
          BY <4>1, <4>3, <4>5
        <5>2. d \in old[i].by \cap old[j].by
          BY <4>2, <5>1
        <5> QED
          BY <3>2, <5>1, <5>2 DEF WorkerIInv, OneJobACall
      <4> QED
        BY <4>4, <4>5
    <3> QED
      BY <3>1, <3>2
  <2> QED
    BY <2>4, <2>6, <2>7, <2>9, <2>10 DEF Submit, WorkerIInv, WorkerTypeOK
<1> QED
  BY <1>1, <1>2, <1>3 DEF Submit

\* A call that does not wait any longer leaves its job where it is.
LEMMA WorkerTimesOut == ASSUME WorkerIInv, NEW c \in Callers, TimesOut(c) PROVE WorkerIInv'
<1> DEFINE p == call[c].pool
           old == pools[p].jobs
           jobs == WithoutWaiter(old, c)
           new == [call[c] EXCEPT !.at = "kill", !.pool = 0, !.retry = FALSE, !.answer = "none", !.on = NoMap]
<1>0. /\ call \in [Callers -> CallStates] /\ pools \in [PoolIds -> PoolStates] /\ p \in PoolIds
      /\ call[c].at = "wait"
  BY DEF TimesOut, WorkerIInv, WorkerTypeOK, HoldsAPool
<1>1. new \in CallStates /\ new.at = "kill" /\ new.answer = "none"
  BY <1>0, KilledIs DEF CallStates
<1>2. call' = [call EXCEPT ![c] = new]
  BY DEF TimesOut, Kills
<1> HIDE DEF new
<1>3. call' \in [Callers -> CallStates] /\ HoldsAPool' /\ RightMap'
  BY <1>1, <1>2, CallMoves
<1>4. pools' = [pools EXCEPT ![p].jobs = jobs]
  BY <1>0 DEF TimesOut
<1>5. \A i \in DOMAIN old : old[i] \in MatchJobs
  BY <1>0, PoolIs
<1>6. /\ DOMAIN jobs = DOMAIN old
      /\ \A i \in DOMAIN old : /\ jobs[i] \in MatchJobs /\ jobs[i].map = old[i].map
                              /\ jobs[i].by = old[i].by \ {c}
  BY <1>5 DEF MatchJobs, WithoutWaiter
<1>7. jobs \in Seq(MatchJobs)
  <2>1. old \in Seq(MatchJobs)
    BY <1>0, PoolIs
  <2>2. Len(old) \in Nat /\ DOMAIN old = 1 .. Len(old)
    BY <2>1
  <2>3. jobs \in [1 .. Len(old) -> MatchJobs]
    BY <1>6, <2>2 DEF WithoutWaiter
  <2> HIDE DEF jobs, old
  <2> QED
    BY <2>2, <2>3, SeqDef
<1> HIDE DEF jobs
<1>8. pools' \in [PoolIds -> PoolStates]
  BY <1>0, <1>4, <1>7 DEF PoolStates
<1>9. pools'[p].jobs = jobs /\ \A q \in PoolIds \ {p} : pools'[q].jobs = pools[q].jobs
  BY <1>0, <1>4 DEF PoolStates
<1>10. \A q \in PoolIds : \A i \in DOMAIN pools'[q].jobs :
          /\ i \in DOMAIN pools[q].jobs /\ pools'[q].jobs[i].map = pools[q].jobs[i].map
          /\ pools'[q].jobs[i].by \subseteq pools[q].jobs[i].by \ {c}
  <2> SUFFICES ASSUME NEW q \in PoolIds, NEW i \in DOMAIN pools'[q].jobs
               PROVE  /\ i \in DOMAIN pools[q].jobs /\ pools'[q].jobs[i].map = pools[q].jobs[i].map
                      /\ pools'[q].jobs[i].by \subseteq pools[q].jobs[i].by \ {c}
    OBVIOUS
  <2>1. CASE q = p
    BY <1>6, <1>9, <2>1
  <2>2. CASE q # p
    BY <1>0, <1>9, <2>2 DEF WorkerIInv, JobsAreWaitedFor
  <2> QED
    BY <2>1, <2>2
<1>11. JobsAreWaitedFor'
  <2> SUFFICES ASSUME NEW q \in PoolIds, NEW i \in DOMAIN pools'[q].jobs, NEW d \in pools'[q].jobs[i].by
               PROVE  /\ call'[d].at = "wait" /\ call'[d].answer = "none"
                      /\ call'[d].pool = q /\ call'[d].map = pools'[q].jobs[i].map
    BY DEF JobsAreWaitedFor
  <2>1. i \in DOMAIN pools[q].jobs /\ d \in pools[q].jobs[i].by /\ d # c
    BY <1>10
  <2>2. d \in Callers /\ call'[d] = call[d]
    BY <1>0, <1>2, <2>1, PoolIs
  <2> QED
    BY <1>10, <2>1, <2>2 DEF WorkerIInv, JobsAreWaitedFor
<1>12. OneJobACall'
  <2> SUFFICES ASSUME NEW q \in PoolIds, NEW i \in DOMAIN pools'[q].jobs, NEW j \in DOMAIN pools'[q].jobs,
                      NEW d \in pools'[q].jobs[i].by, d \in pools'[q].jobs[j].by
               PROVE  i = j
    BY DEF OneJobACall
  <2>1. d \in pools[q].jobs[i].by \cap pools[q].jobs[j].by /\ i \in DOMAIN pools[q].jobs /\ j \in DOMAIN pools[q].jobs
    BY <1>10
  <2> QED
    BY <2>1 DEF WorkerIInv, OneJobACall
<1> QED
  BY <1>3, <1>8, <1>11, <1>12 DEF TimesOut, WorkerIInv, WorkerTypeOK

\* The pool is closed: the job under way ends, the others are cancelled.
LEMMA WorkerCloses == WorkerIInv /\ Close => WorkerIInv'
<1> SUFFICES ASSUME WorkerIInv, Close PROVE WorkerIInv'
  OBVIOUS
<1> DEFINE old == pools[pool].jobs
           jobs == IF Waiters(old) = {} THEN <<>> ELSE <<Head(old)>>
           status == IF pools[pool].status = "broken" THEN pools[pool].status ELSE "shut"
           W == IF old = <<>> THEN {} ELSE Waiters(Tail(old))
           answers == [d \in Callers |-> "cancelled"]
<1>0. call \in [Callers -> CallStates] /\ pools \in [PoolIds -> PoolStates] /\ pool \in PoolIds
  BY DEF Close, WorkerIInv, WorkerTypeOK
<1>1. old \in Seq(MatchJobs) /\ pools[pool] \in PoolStates
  BY <1>0, PoolIs
<1>2. pools' = [pools EXCEPT ![pool].status = status, ![pool].jobs = jobs]
  BY <1>0 DEF Close, PoolStates
<1>3. Waiters(old) # {} => old # <<>>
  BY DEF Waiters
<1>4. jobs \in Seq(MatchJobs) /\ status \in {"up", "broken", "shut"}
  BY <1>1, <1>3, HeadOfJobs, EmptySeq DEF PoolStates
<1>5. \A i \in DOMAIN jobs : i = 1 /\ 1 \in DOMAIN old /\ jobs[i] = old[1] /\ old # <<>>
  BY <1>1, <1>3, HeadOfJobs
<1>6. \A c \in W : \E i \in DOMAIN old : i # 1 /\ c \in old[i].by
  <2> SUFFICES ASSUME NEW c \in W PROVE \E i \in DOMAIN old : i # 1 /\ c \in old[i].by
    OBVIOUS
  <2>1. old # <<>> /\ c \in Waiters(Tail(old))
    OBVIOUS
  <2>2. PICK i \in DOMAIN Tail(old) : c \in Tail(old)[i].by
    BY <2>1 DEF Waiters
  <2>3. i + 1 \in DOMAIN old /\ Tail(old)[i] = old[i + 1] /\ i + 1 # 1
    BY <1>1, <2>1, HeadOfJobs
  <2> QED
    BY <2>2, <2>3
<1>7. \A c \in W : c \in Callers /\ call[c].at = "wait" /\ call[c].answer = "none" /\ call[c].pool = pool
                  /\ (1 \in DOMAIN old => c \notin old[1].by)
  <2> SUFFICES ASSUME NEW c \in W
               PROVE  c \in Callers /\ call[c].at = "wait" /\ call[c].answer = "none" /\ call[c].pool = pool
                      /\ (1 \in DOMAIN old => c \notin old[1].by)
    OBVIOUS
  <2>1. PICK i \in DOMAIN old : i # 1 /\ c \in old[i].by
    BY <1>6
  <2> QED
    BY <1>0, <2>1, PoolIs DEF WorkerIInv, JobsAreWaitedFor, OneJobACall
<1>8. call' = [c \in Callers |-> IF c \in W THEN [call[c] EXCEPT !.answer = answers[c]] ELSE call[c]]
  <2>1. CASE old = <<>>
    BY <1>0, <2>1 DEF Close
  <2>2. CASE old # <<>>
    BY <2>2 DEF Close, Answer
  <2> QED
    BY <2>1, <2>2
<1>9. \A c \in W : call[c].at = "wait" /\ answers[c] \in {"raised", "not cached", "broken", "cancelled"}
  BY <1>7
<1>10. pools' \in [PoolIds -> PoolStates]
  <2> HIDE DEF jobs, status
  <2> QED
    BY <1>0, <1>2, <1>4 DEF PoolStates
<1>11. pools'[pool].jobs = jobs /\ \A q \in PoolIds \ {pool} : pools'[q].jobs = pools[q].jobs
  <2> HIDE DEF jobs, status
  <2> QED
    BY <1>0, <1>2 DEF PoolStates
<1> HIDE DEF W, answers, jobs, status
<1>12. call' \in [Callers -> CallStates] /\ HoldsAPool' /\ RightMap'
  BY <1>8, <1>9, CallsAnswered, Zenon
<1>13. \A q \in PoolIds : \A i \in DOMAIN pools'[q].jobs :
          /\ i \in DOMAIN pools[q].jobs /\ pools'[q].jobs[i] = pools[q].jobs[i]
          /\ q = pool => i = 1
  BY <1>5, <1>11
<1>14. \A q \in PoolIds : \A i \in DOMAIN pools'[q].jobs : \A d \in pools'[q].jobs[i].by :
          d \in Callers /\ call'[d] = call[d]
  <2> SUFFICES ASSUME NEW q \in PoolIds, NEW i \in DOMAIN pools'[q].jobs, NEW d \in pools'[q].jobs[i].by
               PROVE  d \in Callers /\ call'[d] = call[d]
    OBVIOUS
  <2>1. i \in DOMAIN pools[q].jobs /\ d \in pools[q].jobs[i].by /\ (q = pool => i = 1)
    BY <1>13
  <2>2. d \in Callers /\ call[d].pool = q
    BY <2>1, PoolIs DEF WorkerIInv, JobsAreWaitedFor
  <2>3. d \notin W
    BY <1>7, <2>1, <2>2
  <2> QED
    BY <1>8, <2>2, <2>3
<1>15. JobsAreWaitedFor' /\ OneJobACall'
  BY <1>13, <1>14 DEF WorkerIInv, JobsAreWaitedFor, OneJobACall
<1> QED
  BY <1>10, <1>12, <1>15 DEF Close, WorkerIInv, WorkerTypeOK

LEMMA WorkerBegins == WorkerInit => WorkerIInv
<1> SUFFICES ASSUME WorkerInit PROVE WorkerIInv
  OBVIOUS
<1>1. [Fresh EXCEPT !.status = "shut"] \in PoolStates /\ [Fresh EXCEPT !.status = "shut"].jobs = <<>>
  BY FreshIs DEF Fresh
<1>2. WorkerTypeOK
  BY <1>1, IdleIs DEF WorkerInit, WorkerTypeOK
<1>3. \A p \in PoolIds : DOMAIN pools[p].jobs = {}
  <2> SUFFICES ASSUME NEW p \in PoolIds PROVE DOMAIN pools[p].jobs = {}
    OBVIOUS
  <2>1. pools[p] = [Fresh EXCEPT !.status = "shut"]
    BY DEF WorkerInit
  <2>2. pools[p].jobs = <<>>
    BY <1>1, <2>1
  <2> QED
    BY <2>2
<1> QED
  BY <1>2, <1>3 DEF WorkerInit, WorkerIInv, HoldsAPool, JobsAreWaitedFor, OneJobACall, RightMap, Idle

LEMMA WorkerSteps == WorkerIInv /\ [WorkerNext]_workerVars => WorkerIInv'
<1> SUFFICES ASSUME WorkerIInv, [WorkerNext]_workerVars PROVE WorkerIInv'
  OBVIOUS
<1>1. CASE UNCHANGED workerVars
  BY <1>1 DEF workerVars, WorkerIInv, WorkerTypeOK, HoldsAPool, JobsAreWaitedFor, OneJobACall, RightMap
<1>2. CASE WorkerNext
  BY <1>2, WorkerStarts, WorkerSubmits, WorkerCollects, WorkerTimesOut, WorkerPoolKilled, WorkerShuts,
     WorkerRetries, WorkerCalls, WorkerBreaks, WorkerCloses DEF WorkerNext, Steps
<1> QED
  BY <1>1, <1>2

LEMMA WorkerInductive == WorkerSpec => []WorkerIInv
  BY WorkerBegins, WorkerSteps, PTL DEF WorkerSpec

(* The pools, their jobs and their maps, and the calls keep their types,    *)
(* for any callers, any maps and any cache.                                 *)
THEOREM WorkerTypes == WorkerSpec => []WorkerTypeOK
<1>1. WorkerIInv => WorkerTypeOK
  BY DEF WorkerIInv
<1> QED
  BY <1>1, WorkerInductive, PTL

(* RightMap: what a call answers was matched on the map it was called with, *)
(* whoever killed whose pool meanwhile.                                     *)
THEOREM CallsAnswerForTheirMap == WorkerSpec => []RightMap
<1>1. WorkerIInv => RightMap
  BY DEF WorkerIInv
<1> QED
  BY <1>1, WorkerInductive, PTL
=============================================================================

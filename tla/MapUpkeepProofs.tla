-------------------------- MODULE MapUpkeepProofs --------------------------
(***************************************************************************)
(* Proofs about what corrects a map while it is made and what keeps it on  *)
(* disk: the checks for a corridor come back to (MappingRevisit), the      *)
(* healing of doubled walls (MapHealth), and the files, sessions and       *)
(* repairs of the maps (SlamMaps), for any maps, strokes, line of places,  *)
(* matcher and bounds.                                                     *)
(***************************************************************************)
EXTENDS MappingRevisit, MapHealth, SlamMaps, SequenceTheorems, TLAPS

-----------------------------------------------------------------------------
(* Poses *)

LEMMA PosesAre ==
    /\ Here \in Poses
    /\ \A p \in Poses : Flip(p) \in Poses
    /\ \A p, q \in Poses : [p EXCEPT !.turned = q.turned] \in Poses
    /\ \A p \in Poses, x \in Places : [p EXCEPT !.place = x] \in Poses
  BY RevisitAssumption DEF Here, Flip, Poses

LEMMA ChosenPose ==
    ASSUME NEW scan, NEW p \in Poses, NEW hint
    PROVE  ChooseYaw(scan, p, hint) \in Poses
<1>1. ChooseYaw(scan, p, hint) \in {p, Flip(p)}
  BY DEF ChooseYaw
<1> QED
  BY <1>1, PosesAre

LEMMA FoundAre ==
    /\ \A scan, hint : Found(scan, Poses, hint) \subseteq Poses
    /\ \A scan, p, radius, hint : Found(scan, Around(p, radius), hint) \subseteq Poses
<1>1. ASSUME NEW scan, NEW among, among \subseteq Poses, NEW hint
      PROVE  Found(scan, among, hint) \subseteq Poses
  BY <1>1, ChosenPose DEF Found
<1>2. \A p, radius : Around(p, radius) \subseteq Poses
  BY DEF Around
<1> QED
  BY <1>1, <1>2

LEMMA FitTyped ==
    ASSUME NEW scan \in Scans, NEW p \in Poses
    PROVE  /\ Fit[scan][p].score \in Scores
           /\ Aligned(Fit[scan][p]) \in BOOLEAN /\ MapGood(Fit[scan][p]) \in BOOLEAN
<1>1. Fit[scan][p] \in [score : Scores, rank : Int, rays : 0 .. NoRays]
  BY RevisitAssumption
<1> QED
  BY <1>1 DEF Aligned, MapGood

LEMMA RatesTyped ==
    ASSUME NEW rate \in ViewRates
    PROVE  rate \in Scores
  BY RevisitAssumption DEF Scores

\* A check that takes a pose found in the map has that pose's score and verdict.
LEMMA TakesTyped ==
    ASSUME NEW j \in RevisitJobs, j.scan \in Scans, NEW p \in Poses
    PROVE  /\ Takes(j, p) \in RevisitJobs
           /\ Takes(j, p).scan = j.scan /\ Takes(j, p).from = j.from
           /\ Takes(j, p).force = j.force /\ Takes(j, p).override = j.override
           /\ Takes(j, p).tier = j.tier /\ Takes(j, p).pc = j.pc
           /\ Takes(j, p).best = p
           /\ Takes(j, p).score = Fit[j.scan][p].score
           /\ Takes(j, p).good = MapGood(Fit[j.scan][p])
<1> DEFINE score == Fit[j.scan][p].score
           good == MapGood(Fit[j.scan][p])
<1>1. Takes(j, p) = [j EXCEPT !.best = p, !.score = score, !.good = good]
  BY DEF Takes
<1>2. score \in Scores /\ good \in BOOLEAN
  BY FitTyped
<1> HIDE DEF score, good
<1>3. /\ Takes(j, p) \in RevisitJobs
      /\ Takes(j, p).scan = j.scan /\ Takes(j, p).from = j.from
      /\ Takes(j, p).force = j.force /\ Takes(j, p).override = j.override
      /\ Takes(j, p).tier = j.tier /\ Takes(j, p).pc = j.pc
      /\ Takes(j, p).best = p /\ Takes(j, p).score = score /\ Takes(j, p).good = good
  BY <1>1, <1>2 DEF RevisitJobs
<1> QED
  BY <1>3 DEF score, good

-----------------------------------------------------------------------------
(* The inductive invariant of the checks *)

\* Nothing but a flip is forced, and it goes straight to the engine; any other
\* check has a scan; a refine of a stuck navigator passes no tier; the score of a
\* view is a hit-rate; and one past its verdict is vouched for at the pose it holds.
SoundCheck(c, j) ==
    /\ j.force => j.pc \in {"hand", "graph"}
    /\ j.pc # "idle" /\ ~j.force => j.scan \in Scans
    /\ c = "stuck" => j.pc \in {"idle", "local", "prior", "hand", "graph"}
    /\ j.tier = "keyframe" =>
          j.pc \in {"yaw", "verify", "hand", "graph"} /\ j.score \in ViewRates
    /\ j.pc \in {"verify", "hand", "graph"} /\ j.override # "yes" /\ ~j.force =>
          Vouched(c, j)

RevisitIInv ==
    /\ RevisitTypeOK
    /\ \A c \in Callers : SoundCheck(c, checks[c])

LEMMA NoCheckSound == NoCheck \in RevisitJobs /\ \A c \in Callers : SoundCheck(c, NoCheck)
  BY PosesAre DEF NoCheck, RevisitJobs, SoundCheck, Overrides, Scores

\* Who vouches for a pose looks at nothing else of the check.
LEMMA VouchedKept ==
    ASSUME NEW c, NEW j, NEW k, k.scan = j.scan, k.best = j.best, k.from = j.from,
           k.score = j.score, k.tier = j.tier, Vouched(c, j)
    PROVE  Vouched(c, k)
  BY DEF Vouched, Sane, MapVouches, ViewVouches, ClearWin

\* A caller whose check becomes another sound one.
LEMMA PutSound ==
    ASSUME RevisitIInv, NEW c \in Callers, NEW j \in RevisitJobs, SoundCheck(c, j), Puts(c, j)
    PROVE  checks' \in [Callers -> RevisitJobs] /\ \A d \in Callers : SoundCheck(d, checks'[d])
  BY DEF RevisitIInv, RevisitTypeOK, Puts

LEMMA EndSound ==
    ASSUME RevisitIInv, NEW c \in Callers, Ends(c)
    PROVE  checks' \in [Callers -> RevisitJobs] /\ \A d \in Callers : SoundCheck(d, checks'[d])
  BY PutSound, NoCheckSound DEF Ends

\* What a caller holds.
LEMMA Held ==
    ASSUME RevisitIInv, NEW c \in Callers
    PROVE  /\ checks[c] \in RevisitJobs /\ SoundCheck(c, checks[c])
           /\ checks[c].from \in Poses /\ checks[c].best \in Poses
           /\ checks[c].pc \notin {"idle", "hand", "graph"} => checks[c].scan \in Scans /\ ~checks[c].force
  BY DEF RevisitIInv, RevisitTypeOK, RevisitJobs, SoundCheck

LEMMA RevisitInitial == RevisitInit => RevisitIInv
  BY NoCheckSound, PosesAre, RevisitAssumption
  DEF RevisitInit, RevisitIInv, RevisitTypeOK

-----------------------------------------------------------------------------
(* One lemma per kind of step *)

LEMMA SpendsTyped ==
    ASSUME RevisitTypeOK, NEW what \in {"checks", "events"}, Spends(what),
           what = "checks" => spent.checks < MaxChecks,
           what = "events" => spent.events < MaxEvents
    PROVE  spent' \in [checks : 0 .. MaxChecks, events : 0 .. MaxEvents]
  BY RevisitAssumption DEF RevisitTypeOK, Spends

LEMMA BeginSteps ==
    ASSUME RevisitIInv,
           (\E c \in Callers : Begins(c)) \/ FlipsInPlace \/ StuckBegins
    PROVE  RevisitIInv'
<1> USE DEF RevisitIInv
<1>1. ASSUME NEW c \in Callers, Begins(c)
      PROVE  RevisitIInv'
  <2>1. PICK scan \in Scans, override \in Overrides, turn \in BOOLEAN :
          Puts(c, [NoCheck EXCEPT !.pc = "local", !.from = pose, !.scan = scan,
                                  !.override = override, !.turn = turn])
    BY <1>1 DEF Begins, Overrides
  <2> DEFINE k == [NoCheck EXCEPT !.pc = "local", !.from = pose, !.scan = scan,
                                  !.override = override, !.turn = turn]
  <2>2. k \in RevisitJobs /\ SoundCheck(c, k)
    BY <1>1, NoCheckSound DEF Begins, RevisitTypeOK, NoCheck, RevisitJobs, SoundCheck
  <2>3. spent' \in [checks : 0 .. MaxChecks, events : 0 .. MaxEvents]
    BY <1>1, SpendsTyped DEF Begins
  <2> HIDE DEF k
  <2> QED
    BY <1>1, <2>1, <2>2, <2>3, PutSound DEF Begins, RevisitTypeOK, k
<1>2. CASE FlipsInPlace
  <2> DEFINE k == [NoCheck EXCEPT !.pc = "hand", !.from = pose, !.best = Flip(pose),
                                  !.score = MinScore, !.force = TRUE]
  <2>a. MinScore \in Scores
    BY RevisitAssumption DEF Scores
  <2>1. k \in RevisitJobs /\ SoundCheck("command", k)
    BY <2>a, NoCheckSound, PosesAre DEF RevisitTypeOK, NoCheck, RevisitJobs, SoundCheck
  <2>2. spent' \in [checks : 0 .. MaxChecks, events : 0 .. MaxEvents]
    BY <1>2, SpendsTyped DEF FlipsInPlace
  <2>3. Puts("command", k) /\ "command" \in Callers
    BY <1>2 DEF FlipsInPlace, Callers
  <2> HIDE DEF k
  <2> QED
    BY <1>2, <2>1, <2>2, <2>3, PutSound DEF FlipsInPlace, RevisitTypeOK
<1>3. CASE StuckBegins
  <2>1. PICK scan \in Scans :
          Puts("stuck", [NoCheck EXCEPT !.pc = "local", !.from = pose, !.scan = scan])
    BY <1>3 DEF StuckBegins
  <2> DEFINE k == [NoCheck EXCEPT !.pc = "local", !.from = pose, !.scan = scan]
  <2>2. k \in RevisitJobs /\ SoundCheck("stuck", k)
    BY NoCheckSound DEF RevisitTypeOK, NoCheck, RevisitJobs, SoundCheck
  <2>3. spent' \in [checks : 0 .. MaxChecks, events : 0 .. MaxEvents]
    BY <1>3, SpendsTyped DEF StuckBegins
  <2>4. Puts("stuck", k) /\ "stuck" \in Callers
    BY <2>1 DEF Callers
  <2> HIDE DEF k
  <2> QED
    BY <1>3, <2>2, <2>3, <2>4, PutSound DEF StuckBegins, RevisitTypeOK
<1> QED
  BY <1>1, <1>2, <1>3

\* A tier keeps the scan and hands on to another tier or to the verdict.
Tiers == {"local", "wide", "whole", "keyframe", "yaw", "prior"}
HandsOn(c, j, k) ==
    /\ k \in RevisitJobs /\ k.scan = j.scan /\ k.force = j.force /\ k.pc \in Tiers
    /\ c = "stuck" => k.pc \in {"local", "prior"}
    /\ k.tier = "keyframe" => k.pc = "yaw" /\ k.score \in ViewRates

LEMMA HandsOnSound ==
    ASSUME RevisitIInv, NEW c \in Callers, checks[c].pc \in Tiers, NEW k,
           HandsOn(c, checks[c], k), Puts(c, k),
           UNCHANGED <<mapping, pose, pending, frames, library, spent>>
    PROVE  RevisitIInv'
<1>1. SoundCheck(c, k)
  BY Held DEF HandsOn, SoundCheck, Tiers
<1>2. checks' \in [Callers -> RevisitJobs] /\ \A d \in Callers : SoundCheck(d, checks'[d])
  BY <1>1, PutSound DEF HandsOn
<1> QED
  BY <1>2 DEF RevisitIInv, RevisitTypeOK

LEMMA MatchSteps ==
    ASSUME RevisitIInv, NEW c \in Callers,
           \/ MatchLocal(c) \/ MatchWide(c) \/ MatchWhole(c) \/ MatchKeyframe(c)
           \/ c = "stuck" /\ StuckMatches
    PROVE  RevisitIInv'
<1> DEFINE j == checks[c]
<1>1. /\ j.pc \in {"local", "wide", "whole", "keyframe"}
      /\ UNCHANGED <<mapping, pose, pending, frames, library, spent>>
  BY DEF MatchLocal, MatchWide, MatchWhole, MatchKeyframe, StuckMatches
<1>2. /\ j \in RevisitJobs /\ j.scan \in Scans /\ j.tier = "map" /\ j.pc \in Tiers
      /\ c = "stuck" => j.pc = "local"
  <2>1. j \in RevisitJobs /\ SoundCheck(c, j)
    BY Held
  <2> HIDE DEF j
  <2> QED
    BY <1>1, <2>1 DEF SoundCheck, RevisitJobs, Tiers
<1> SUFFICES ASSUME TRUE
             PROVE  \E k : HandsOn(c, j, k) /\ Puts(c, k)
  BY <1>1, <1>2, HandsOnSound
<1>3. CASE MatchLocal(c)
  <2> DEFINE next(m) == [m EXCEPT !.pc = IF m.good THEN "yaw" ELSE "wide"]
  <2>1. c # "stuck" /\ \E p \in Poses : Puts(c, next(Takes(j, p)))
    BY <1>3, FoundAre DEF MatchLocal
  <2> HIDE DEF j
  <2>2. ASSUME NEW p \in Poses
        PROVE  HandsOn(c, j, next(Takes(j, p)))
    BY <1>2, <2>1, TakesTyped DEF HandsOn, RevisitJobs, Tiers
  <2> QED
    BY <2>1, <2>2
<1>4. CASE MatchWide(c)
  <2> DEFINE better(p) == MapGood(Fit[j.scan][p]) \/ Fit[j.scan][p].score > j.score
             kept(p) == IF better(p) THEN Takes(j, p) ELSE j
             next(m) == [m EXCEPT !.pc = IF ~m.good /\ WholeMap THEN "whole" ELSE WhenBad(m)]
  <2>1. \E p \in Poses : Puts(c, next(kept(p)))
    BY <1>4, FoundAre DEF MatchWide
  <2>2. c # "stuck"
    BY <1>2, <1>4 DEF MatchWide
  <2> HIDE DEF j, better
  <2>3. ASSUME NEW p \in Poses
        PROVE  /\ kept(p) \in RevisitJobs /\ kept(p).scan = j.scan
               /\ kept(p).force = j.force /\ kept(p).tier = "map"
    BY <1>2, TakesTyped
  <2> HIDE DEF kept
  <2>4. ASSUME NEW p \in Poses
        PROVE  HandsOn(c, j, next(kept(p)))
    BY <2>2, <2>3 DEF HandsOn, RevisitJobs, Tiers, WhenBad
  <2> QED
    BY <2>1, <2>4
<1>5. CASE MatchWhole(c)
  <2> DEFINE high(p) == Fit[j.scan][p].score >= FullMapMinScore /\ Aligned(Fit[j.scan][p])
             kept(p) == IF high(p) THEN [Takes(j, p) EXCEPT !.good = TRUE] ELSE j
             next(m) == [m EXCEPT !.pc = WhenBad(m)]
  <2>1. \E p \in Poses : Puts(c, next(kept(p)))
    BY <1>5, FoundAre DEF MatchWhole
  <2>2. c # "stuck"
    BY <1>2, <1>5 DEF MatchWhole
  <2> HIDE DEF j, high
  <2>3. ASSUME NEW p \in Poses
        PROVE  /\ kept(p) \in RevisitJobs /\ kept(p).scan = j.scan
               /\ kept(p).force = j.force /\ kept(p).tier = "map"
    <3> DEFINE t == Takes(j, p)
    <3>1. t \in RevisitJobs /\ t.scan = j.scan /\ t.force = j.force /\ t.tier = "map"
      BY <1>2, TakesTyped
    <3> HIDE DEF t
    <3>2. LET k == [t EXCEPT !.good = TRUE]
          IN k \in RevisitJobs /\ k.scan = j.scan /\ k.force = j.force /\ k.tier = "map"
      BY <3>1 DEF RevisitJobs
    <3> QED
      BY <1>2, <3>2 DEF t
  <2> HIDE DEF kept
  <2>4. ASSUME NEW p \in Poses
        PROVE  HandsOn(c, j, next(kept(p)))
    BY <2>2, <2>3 DEF HandsOn, RevisitJobs, Tiers, WhenBad
  <2> QED
    BY <2>1, <2>4
<1>6. CASE MatchKeyframe(c)
  <2> DEFINE found(p, rate, fits) == [j EXCEPT !.pc = "yaw", !.tier = "keyframe", !.best = p,
                                               !.score = rate, !.good = fits]
             none == [j EXCEPT !.pc = "yaw"]
  <2>1. \/ \E p \in Poses, rate \in ViewRates : Puts(c, found(p, rate, Aligned(Fit[j.scan][p])))
        \/ Puts(c, none)
    BY <1>6, ChosenPose DEF MatchKeyframe
  <2>2. c # "stuck"
    BY <1>2, <1>6 DEF MatchKeyframe
  <2> HIDE DEF j
  <2>3. ASSUME NEW p \in Poses, NEW rate \in ViewRates, NEW fits \in BOOLEAN
        PROVE  HandsOn(c, j, found(p, rate, fits))
    BY <1>2, <2>2, RatesTyped DEF HandsOn, RevisitJobs, Tiers
  <2>4. HandsOn(c, j, none)
    BY <1>2, <2>2 DEF HandsOn, RevisitJobs, Tiers
  <2>5. \A p \in Poses : Aligned(Fit[j.scan][p]) \in BOOLEAN
    BY <1>2, FitTyped
  <2>6. \A p \in Poses, rate \in ViewRates :
           HandsOn(c, j, found(p, rate, Aligned(Fit[j.scan][p])))
    BY <2>3, <2>5
  <2> HIDE DEF found, none
  <2> QED
    BY <2>1, <2>4, <2>6
<1>7. CASE c = "stuck" /\ StuckMatches
  <2> DEFINE next(m) == [m EXCEPT !.pc = "prior"]
  <2>1. \E p \in Poses : Puts(c, next(Takes(j, p)))
    BY <1>7, FoundAre DEF StuckMatches
  <2> HIDE DEF j
  <2>2. ASSUME NEW p \in Poses
        PROVE  HandsOn(c, j, next(Takes(j, p)))
    BY <1>2, TakesTyped DEF HandsOn, RevisitJobs, Tiers
  <2> QED
    BY <2>1, <2>2
<1> QED
  BY <1>3, <1>4, <1>5, <1>6, <1>7

\* A caller that is past its verdict, at the pose j was vouched for.
Judged(c, j) ==
    /\ c # "stuck" /\ j \in RevisitJobs /\ j.scan \in Scans /\ ~j.force
    /\ j.tier = "keyframe" => j.score \in ViewRates
    /\ j.override # "yes" => Vouched(c, j)

LEMMA JudgedGoesOn ==
    ASSUME NEW c, NEW j, Judged(c, j), NEW pc \in {"verify", "hand"}
    PROVE  [j EXCEPT !.pc = pc] \in RevisitJobs /\ SoundCheck(c, [j EXCEPT !.pc = pc])
<1> DEFINE k == [j EXCEPT !.pc = pc]
<1>1. /\ k \in RevisitJobs /\ k.pc = pc /\ k.scan = j.scan /\ k.force = j.force
      /\ k.tier = j.tier /\ k.score = j.score /\ k.override = j.override
      /\ k.best = j.best /\ k.from = j.from
  BY DEF Judged, RevisitJobs
<1> HIDE DEF k
<1>2. j.override # "yes" => Vouched(c, k)
  BY <1>1, VouchedKept DEF Judged
<1>3. SoundCheck(c, k)
  BY <1>1, <1>2 DEF Judged, SoundCheck
<1> QED
  BY <1>1, <1>3 DEF k

\* What the gate does with a sound verdict leaves the invariant; the rest of the
\* state is typed.
LEMMA GatedSound ==
    ASSUME RevisitIInv, NEW c \in Callers, NEW j, Judged(c, j), Gated(c, j)
    PROVE  /\ checks' \in [Callers -> RevisitJobs] /\ \A d \in Callers : SoundCheck(d, checks'[d])
           /\ pending' \in {{}} \cup {{p} : p \in Poses}
<1> DEFINE k == [j EXCEPT !.pc = "hand"]
<1>1. k \in RevisitJobs /\ SoundCheck(c, k)
  BY JudgedGoesOn
<1>2. j.best \in Poses
  BY DEF Judged, RevisitJobs
<1> HIDE DEF k
<1>3. CASE pending' = {} /\ Puts(c, k)
  BY <1>1, <1>3, PutSound
<1>4. CASE pending' = {j.best} /\ Ends(c)
  BY <1>2, <1>4, EndSound
<1> QED
  BY <1>3, <1>4 DEF Gated, k

\* The facing that is chosen is judged as its tier judges.
LEMMA FacedSound ==
    ASSUME NEW j \in RevisitJobs, j.scan \in Scans,
           j.tier = "keyframe" => j.score \in ViewRates
    PROVE  /\ Faced(j) \in RevisitJobs
           /\ Faced(j).scan = j.scan /\ Faced(j).force = j.force
           /\ Faced(j).tier = "keyframe" => Faced(j).score \in ViewRates
           /\ Faced(j).good =>
                 IF Faced(j).tier = "map" THEN MapVouches(Faced(j)) ELSE ViewVouches(Faced(j))
<1> DEFINE p == Facing(j)
<1>1. j.best \in Poses /\ j.tier \in {"map", "keyframe"}
  BY DEF RevisitJobs
<1>2. p \in Poses
  BY <1>1, ChosenPose, PosesAre DEF Facing
<1>3. CASE j.tier = "map"
  <2>1. Faced(j) = Takes(j, p)
    BY <1>3 DEF Faced
  <2> HIDE DEF p
  <2>2. /\ Faced(j) \in RevisitJobs /\ Faced(j).tier = "map"
        /\ Faced(j).scan = j.scan /\ Faced(j).force = j.force /\ Faced(j).best = p
        /\ Faced(j).score = Fit[j.scan][p].score /\ Faced(j).good = MapGood(Fit[j.scan][p])
    BY <1>2, <1>3, <2>1, TakesTyped
  <2> QED
    BY <2>2 DEF MapVouches, MapGood
<1>4. CASE j.tier = "keyframe"
  <2> DEFINE fits == j.score >= KeyframeMinScore /\ Aligned(Fit[j.scan][p])
             k == [j EXCEPT !.best = p, !.good = fits]
  <2>1. Faced(j) = k
    BY <1>4 DEF Faced
  <2>2. fits \in BOOLEAN
    BY <1>2, FitTyped
  <2> HIDE DEF p, fits
  <2>3. /\ k \in RevisitJobs /\ k.tier = "keyframe" /\ k.scan = j.scan /\ k.force = j.force
        /\ k.best = p /\ k.score = j.score /\ k.good = fits
    BY <1>2, <1>4, <2>2 DEF RevisitJobs
  <2> HIDE DEF k
  <2> QED
    BY <1>4, <2>1, <2>3 DEF ViewVouches, fits
<1> QED
  BY <1>1, <1>3, <1>4

LEMMA DecideSteps ==
    ASSUME RevisitIInv, NEW c \in Callers, Decides(c)
    PROVE  RevisitIInv'
<1> DEFINE j == Faced(checks[c])
<1>1. /\ c # "stuck" /\ checks[c].scan \in Scans /\ ~checks[c].force
      /\ checks[c].tier = "keyframe" => checks[c].score \in ViewRates
  BY Held DEF Decides, SoundCheck
<1>2. /\ j \in RevisitJobs /\ j.scan \in Scans /\ ~j.force
      /\ j.tier = "keyframe" => j.score \in ViewRates
      /\ j.good => IF j.tier = "map" THEN MapVouches(j) ELSE ViewVouches(j)
  BY <1>1, Held, FacedSound
<1> HIDE DEF j
<1>3. j.from \in Poses /\ j.best \in Poses
  BY <1>2 DEF RevisitJobs
<1>4. Wanted(j) => Judged(c, j)
  BY <1>1, <1>2 DEF Wanted, Judged, Vouched
<1>5. /\ checks' \in [Callers -> RevisitJobs] /\ \A d \in Callers : SoundCheck(d, checks'[d])
      /\ pending' \in {{}} \cup {{p} : p \in Poses}
      /\ library' \subseteq Poses
  <2>1. CASE Ends(c) /\ UNCHANGED <<pending, library>>
    BY <2>1, EndSound DEF RevisitIInv, RevisitTypeOK
  <2>2. CASE Wanted(j) /\ Puts(c, [j EXCEPT !.pc = "verify"]) /\ UNCHANGED <<pending, library>>
    BY <1>4, <2>2, JudgedGoesOn, PutSound DEF RevisitIInv, RevisitTypeOK
  <2>3. CASE Wanted(j) /\ Gated(c, j) /\ UNCHANGED library
    BY <1>4, <2>3, GatedSound DEF RevisitIInv, RevisitTypeOK
  <2>4. CASE /\ pending' = {} /\ Ends(c)
             /\ library' = library \cup
                   (IF j.live /\ ~Drifted(j.best, j.from) THEN {j.from} ELSE {})
    BY <1>3, <2>4, EndSound DEF RevisitIInv, RevisitTypeOK
  <2> QED
    BY <2>1, <2>2, <2>3, <2>4 DEF Decides, j
<1> QED
  BY <1>5 DEF Decides, RevisitIInv, RevisitTypeOK

LEMMA VerifySteps ==
    ASSUME RevisitIInv, NEW c \in Callers, Verifies(c) \/ GivesUp(c)
    PROVE  RevisitIInv'
<1>1. CASE Verifies(c)
  <2>1. Judged(c, checks[c])
    BY <1>1, Held DEF Verifies, SoundCheck, Judged
  <2>2. /\ checks' \in [Callers -> RevisitJobs] /\ \A d \in Callers : SoundCheck(d, checks'[d])
        /\ pending' \in {{}} \cup {{p} : p \in Poses}
    <3>1. CASE Gated(c, checks[c])
      BY <2>1, <3>1, GatedSound
    <3>2. CASE Ends(c) /\ UNCHANGED pending
      BY <3>2, EndSound DEF RevisitIInv, RevisitTypeOK
    <3> QED
      BY <1>1, <3>1, <3>2 DEF Verifies
  <2> QED
    BY <1>1, <2>2 DEF Verifies, RevisitIInv, RevisitTypeOK
<1>2. CASE GivesUp(c)
  BY <1>2, EndSound DEF GivesUp, RevisitIInv, RevisitTypeOK
<1> QED
  BY <1>1, <1>2

LEMMA StuckDecideSteps ==
    ASSUME RevisitIInv, StuckDecides
    PROVE  RevisitIInv'
<1> DEFINE j == checks["stuck"]
           k == [j EXCEPT !.pc = "hand"]
<1>1. /\ "stuck" \in Callers
      /\ j \in RevisitJobs /\ j.scan \in Scans /\ ~j.force /\ j.tier = "map"
  <2>1. "stuck" \in Callers
    BY DEF Callers
  <2>2. j \in RevisitJobs /\ SoundCheck("stuck", j) /\ j.pc = "prior"
    BY <2>1, Held DEF StuckDecides
  <2> HIDE DEF j
  <2> QED
    BY <2>1, <2>2 DEF SoundCheck, RevisitJobs
<1> HIDE DEF j
<1>2. checks' \in [Callers -> RevisitJobs] /\ \A d \in Callers : SoundCheck(d, checks'[d])
  <2>1. CASE Ends("stuck")
    BY <1>1, <2>1, EndSound
  <2>2. CASE ClearWin(j) /\ Puts("stuck", k)
    <3>1. /\ k \in RevisitJobs /\ k.pc = "hand" /\ k.scan = j.scan /\ k.force = j.force
          /\ k.tier = j.tier /\ k.score = j.score /\ k.best = j.best /\ k.from = j.from
      BY <1>1 DEF RevisitJobs
    <3> HIDE DEF k
    <3>2. Vouched("stuck", j)
      BY <2>2 DEF Vouched
    <3>3. Vouched("stuck", k)
      BY <3>1, <3>2, VouchedKept
    <3>4. SoundCheck("stuck", k)
      BY <1>1, <3>1, <3>3 DEF SoundCheck
    <3> QED
      BY <1>1, <2>2, <3>1, <3>4, PutSound
  <2> QED
    BY <2>1, <2>2 DEF StuckDecides, j
<1> QED
  BY <1>2 DEF StuckDecides, RevisitIInv, RevisitTypeOK

LEMMA ReportSound ==
    ASSUME RevisitIInv, NEW c \in Callers, NEW applied, Reports(c, applied)
    PROVE  /\ checks' \in [Callers -> RevisitJobs] /\ \A d \in Callers : SoundCheck(d, checks'[d])
           /\ pending' \in {{}} \cup {{p} : p \in Poses}
           /\ library' \subseteq Poses
  BY EndSound, Held DEF Reports, RevisitIInv, RevisitTypeOK

LEMMA EngineSteps ==
    ASSUME RevisitIInv, NEW c \in Callers, Measures(c) \/ Lands(c)
    PROVE  RevisitIInv'
<1> DEFINE j == checks[c]
<1>1. j \in RevisitJobs /\ SoundCheck(c, j) /\ j.best \in Poses
  BY Held
<1> HIDE DEF j
<1>2. CASE \E applied : Reports(c, applied) /\ pose' \in {pose, j.best}
               /\ UNCHANGED <<mapping, frames, spent>>
  BY <1>1, <1>2, ReportSound DEF RevisitIInv, RevisitTypeOK
<1>3. CASE /\ j.pc = "hand"
           /\ \E plausible \in BOOLEAN :
                 Puts(c, [j EXCEPT !.pc = "graph", !.plausible = plausible])
           /\ UNCHANGED <<mapping, frames, spent, pose, pending, library>>
  <2>1. PICK plausible \in BOOLEAN :
            Puts(c, [j EXCEPT !.pc = "graph", !.plausible = plausible])
    BY <1>3
  <2> DEFINE k == [j EXCEPT !.pc = "graph", !.plausible = plausible]
  <2>2. /\ k \in RevisitJobs /\ k.pc = "graph" /\ k.scan = j.scan /\ k.force = j.force
        /\ k.tier = j.tier /\ k.score = j.score /\ k.best = j.best /\ k.from = j.from
        /\ k.override = j.override
    BY <1>1 DEF RevisitJobs
  <2> HIDE DEF k
  <2>3. Vouched(c, j) => Vouched(c, k)
    BY <2>2, VouchedKept
  <2>4. SoundCheck(c, k)
    BY <1>1, <1>3, <2>2, <2>3 DEF SoundCheck
  <2> QED
    BY <1>3, <2>1, <2>2, <2>4, PutSound DEF RevisitIInv, RevisitTypeOK, k
<1>4. CASE Measures(c)
  <2>1. (AllowedShift(Shift(j.best, pose), j.score) /\ ~Turned(j.best, pose)) \in BOOLEAN
    OBVIOUS
  <2> QED
    BY <1>2, <1>3, <1>4, <2>1 DEF Measures, j
<1>5. CASE Lands(c)
  BY <1>2, <1>5 DEF Lands, j
<1> QED
  BY <1>4, <1>5

LEMMA WorldSteps ==
    ASSUME RevisitIInv, RobotMoves \/ Pauses \/ Restarts
    PROVE  RevisitIInv'
<1>1. CASE RobotMoves
  BY <1>1, SpendsTyped, PosesAre DEF RobotMoves, RevisitIInv, RevisitTypeOK
<1>2. CASE Pauses
  BY <1>2 DEF Pauses, RevisitIInv, RevisitTypeOK, Poses
<1>3. CASE Restarts
  <2>1. ASSUME NEW c \in Callers
        PROVE  checks'[c] \in RevisitJobs /\ SoundCheck(c, checks'[c])
    <3>1. checks'[c] \in {NoCheck, [checks[c] EXCEPT !.live = FALSE]}
      BY <1>3 DEF Restarts
    <3> DEFINE j == checks[c]
               k == [j EXCEPT !.live = FALSE]
    <3>2. j \in RevisitJobs /\ SoundCheck(c, j)
      BY Held
    <3> HIDE DEF j
    <3>3. /\ k \in RevisitJobs /\ k.pc = j.pc /\ k.scan = j.scan /\ k.force = j.force
          /\ k.tier = j.tier /\ k.score = j.score /\ k.best = j.best /\ k.from = j.from
          /\ k.override = j.override
      BY <3>2 DEF RevisitJobs
    <3> HIDE DEF k
    <3>4. Vouched(c, j) => Vouched(c, k)
      BY <3>3, VouchedKept
    <3>5. SoundCheck(c, k)
      BY <3>2, <3>3, <3>4 DEF SoundCheck
    <3> QED
      BY <3>1, <3>3, <3>5, NoCheckSound DEF j, k
  <2>2. checks' \in [Callers -> RevisitJobs]
    BY <1>3, <2>1 DEF Restarts
  <2>3. spent' \in [checks : 0 .. MaxChecks, events : 0 .. MaxEvents]
    BY <1>3, SpendsTyped DEF Restarts, RevisitIInv
  <2> QED
    BY <1>3, <2>1, <2>2, <2>3, PosesAre DEF Restarts, RevisitIInv, RevisitTypeOK
<1> QED
  BY <1>1, <1>2, <1>3

LEMMA RevisitStep == RevisitIInv /\ [RevisitNext]_revisitVars => RevisitIInv'
<1> SUFFICES ASSUME RevisitIInv, [RevisitNext]_revisitVars
             PROVE  RevisitIInv'
  OBVIOUS
<1>1. CASE RevisitNext
  BY <1>1, BeginSteps, MatchSteps, DecideSteps, VerifySteps, StuckDecideSteps, EngineSteps,
     WorldSteps
  DEF RevisitNext, CheckStep, Callers
<1>2. CASE UNCHANGED revisitVars
  BY <1>2 DEF revisitVars, RevisitIInv, RevisitTypeOK
<1> QED
  BY <1>1, <1>2

(* The checks keep their types, whatever the map and the matcher. *)
THEOREM RevisitTypes == RevisitSpec => []RevisitTypeOK
<1>1. RevisitIInv => RevisitTypeOK
  BY DEF RevisitIInv
<1> QED
  BY <1>1, RevisitInitial, RevisitStep, PTL DEF RevisitSpec

(* A correction that nobody forced reaches the engine only where its own    *)
(* tier vouches for the place and the facing it gives, and within the shift  *)
(* its score allows, for any number of places, scans, stored views, bars and *)
(* checks under way and any matcher.                                         *)
(* (_mapping_revisit_cycle, _stuck_pose_refine)                              *)
THEOREM RevisitAppliesGood == RevisitSpec => []AppliedIsGood
<1>1. RevisitIInv => AppliedIsGood
  BY DEF RevisitIInv, AppliedIsGood, SoundCheck
<1> QED
  BY <1>1, RevisitInitial, RevisitStep, PTL DEF RevisitSpec

-----------------------------------------------------------------------------
(* The health of the map *)

\* How long n samples take.
Span(n) == (n - 1) * MinS

\* What the samples of a tracked spot prove: t.streak of them, MinS apart, lie
\* between the first sight of it and the last one counted, which is not after now.
Proven(t, now) ==
    /\ t.streak >= 1 /\ 1 <= t.counted /\ t.counted <= now
    /\ t.counted - trouble >= Span(t.streak)

\* Time: nobody is ahead of the clock, and what the worker acts on is proven.
SamplesHold ==
    /\ clock >= 1 /\ worker.now <= clock
    /\ worker.pc # "idle" => worker.now >= 1
    /\ track.on => Proven(track, clock)
    /\ track.on /\ worker.pc \in {"assess", "track"} => track.counted <= worker.now
    /\ worker.pc \in {"heal", "clear"} => Proven(worker.track, worker.now)
    /\ worker.pc = "clear" =>
          /\ worker.track.streak >= PersistN
          /\ disturbed \/ lastClear = 0 \/ worker.now - lastClear >= Cooldown

\* Identity: a baseline has one state, and a verdict is about the baseline whose
\* name it bears.
VerdictsHold ==
    /\ baseline.n <= objects /\ worker.base.n <= objects /\ judged.src <= objects
    /\ worker.base.n = baseline.n => worker.base = baseline
    /\ worker.base.n = 0 => worker.base = NoBase
    /\ baseline.n = 0 => baseline = NoBase
    /\ worker.pc = "assess" /\ worker.fresh => judged.src \in {0, worker.base.n}
    /\ judged.verdict = "torn" /\ judged.src # 0 /\ judged.src = baseline.n => baseline.torn

HealthIInv == HealthTypeOK /\ SamplesHold /\ VerdictsHold

LEMMA ProductMonotone ==
    ASSUME NEW a \in Int, NEW b \in Int, NEW m \in Nat, a >= b
    PROVE  a * m >= b * m
<1>1. (a - b) * m >= 0
  OBVIOUS
<1>2. (a - b) * m = a * m - b * m
  OBVIOUS
<1> QED
  BY <1>1, <1>2

LEMMA SpanTyped ==
    ASSUME NEW n \in Nat
    PROVE  Span(n) \in Int
  BY HealthAssumption DEF Span

LEMMA SpanOfOne == Span(1) = 0
  BY HealthAssumption DEF Span

LEMMA SpanOfNext ==
    ASSUME NEW n \in Nat
    PROVE  Span(n + 1) = Span(n) + MinS
<1>1. MinS \in Nat
  BY HealthAssumption
<1>2. (n + 1 - 1) * MinS = (n - 1) * MinS + MinS
  BY <1>1
<1> QED
  BY <1>2 DEF Span

LEMMA SpanMonotone ==
    ASSUME NEW n \in Nat, n >= PersistN
    PROVE  Span(n) >= Span(PersistN)
  BY HealthAssumption, ProductMonotone DEF Span

LEMMA HealthInitial == HealthInit => HealthIInv
<1> SUFFICES ASSUME HealthInit
             PROVE  HealthIInv
  OBVIOUS
<1>1. baseline \in Base /\ baseline.n \in {0, 1}
  <2>1. CASE baseline = NoBase
    BY <2>1 DEF Base, NoBase
  <2>2. CASE baseline \in [n : {1}, torn : BOOLEAN]
    BY <2>2 DEF Base
  <2> QED
    BY <2>1, <2>2 DEF HealthInit
<1>2. HealthTypeOK
  <2>1. track \in Track
    BY DEF HealthInit, NoTrack, Track
  <2>2. worker \in [pc : {"idle", "assess", "track", "heal", "clear", "publish"}, now : Nat,
                    base : Base, fresh : BOOLEAN, status : Statuses, spot : Spots \cup {0},
                    track : Track]
    BY DEF HealthInit, Resting, Base, NoBase, NoTrack, Track, Statuses
  <2>3. judged \in [src : Nat, verdict : {"none", "torn", "sound"}] /\ status \in Statuses
    BY DEF HealthInit, Statuses
  <2>4. {making, paintTrusted, disturbed} \subseteq BOOLEAN
    BY DEF HealthInit
  <2>5. {clock, healthAt, lastClear, objects, commands, trouble} \subseteq Nat
    BY DEF HealthInit
  <2> QED
    BY <1>1, <2>1, <2>2, <2>3, <2>4, <2>5 DEF HealthTypeOK
<1>3. SamplesHold
  <2>1. clock = 1 /\ worker.pc = "idle" /\ worker.now = 0 /\ ~track.on
    BY DEF HealthInit, NoTrack, Resting
  <2> QED
    BY <2>1 DEF SamplesHold
<1>4. VerdictsHold
  BY <1>1 DEF HealthInit, VerdictsHold, Base, NoBase, Resting
<1> QED
  BY <1>2, <1>3, <1>4 DEF HealthIInv

\* One more sample, MinS after the last.
LEMMA OneMoreProven ==
    ASSUME HealthTypeOK, NEW t \in Track, NEW now \in Nat, Proven(t, now),
           now - t.counted >= MinS
    PROVE  LET u == [t EXCEPT !.streak = t.streak + 1, !.counted = now]
           IN Proven(u, now) /\ u \in Track /\ u.on = t.on /\ u.spot = t.spot
<1>1. MinS \in Nat /\ trouble \in Nat /\ t.streak \in Nat /\ t.counted \in Nat
  BY HealthAssumption DEF HealthTypeOK, Track
<1>2. Span(t.streak + 1) = Span(t.streak) + MinS /\ Span(t.streak) \in Int
  BY <1>1, SpanOfNext, SpanTyped
<1> DEFINE n == t.streak + 1
           u == [t EXCEPT !.streak = n, !.counted = now]
<1>3. n \in Nat /\ n >= 1
  BY <1>1
<1> HIDE DEF n
<1>4. u.streak = n /\ u.counted = now /\ u \in Track /\ u.on = t.on /\ u.spot = t.spot
  BY <1>3 DEF Track
<1> HIDE DEF u
<1>5. Proven(u, now)
  BY <1>1, <1>2, <1>3, <1>4 DEF Proven, n
<1> QED
  BY <1>4, <1>5 DEF u, n

\* What the worker makes of a spot it sees is a track, and proven.
LEMMA SeenProven ==
    ASSUME HealthIInv, worker.pc = "track", making, Troubled(worker), Tracks
    PROVE  /\ track' \in Track /\ track'.on
           /\ Proven(track, worker.now)'
<1> DEFINE seen == Seen_(track, worker)
<1>1. track' = seen /\ track \in Track /\ worker.now \in Nat /\ worker.spot \in Spots \cup {0}
      /\ worker' = [worker EXCEPT !.track = seen, !.pc = IF seen.on THEN "heal" ELSE "publish"]
  BY DEF Tracks, HealthIInv, HealthTypeOK
<1>2. worker'.now = worker.now
  BY <1>1 DEF HealthIInv, HealthTypeOK
<1>3. trouble' = IF seen.on /\ track.on /\ track.spot = seen.spot THEN trouble ELSE worker.now
  BY DEF Tracks
<1>4. CASE track.on /\ track.spot = worker.spot /\ Counts(track, worker.now)
  <2>1. Proven(track, worker.now)
    BY <1>4 DEF HealthIInv, SamplesHold, Proven, Tracks
  <2>2. worker.now - track.counted >= MinS
    BY <1>1, <1>4, <2>1 DEF Counts, Proven, Track
  <2> DEFINE u == [track EXCEPT !.streak = track.streak + 1, !.counted = worker.now]
  <2>3. seen = u
    BY <1>1, <1>4 DEF Seen_, Track
  <2>4. u \in Track /\ u.on /\ u.spot = track.spot
    BY <1>1, <1>4, <2>1, <2>2, OneMoreProven DEF HealthIInv
  <2>5. Proven(u, worker.now)
    BY <1>1, <2>1, <2>2, OneMoreProven DEF HealthIInv
  <2>6. trouble' = trouble
    BY <1>3, <1>4, <2>3, <2>4
  <2> HIDE DEF u, seen
  <2>7. track' = u /\ worker'.now = worker.now
    BY <1>1, <1>2, <2>3
  <2> QED
    BY <2>4, <2>5, <2>6, <2>7 DEF Proven
<1>5. CASE track.on /\ track.spot = worker.spot /\ ~Counts(track, worker.now)
  <2>1. Proven(track, worker.now)
    BY <1>5 DEF HealthIInv, SamplesHold, Proven, Tracks
  <2>2. seen = track
    BY <1>1, <1>5 DEF Seen_, Track
  <2>3. trouble' = trouble
    BY <1>3, <1>5, <2>2
  <2> HIDE DEF seen
  <2> QED
    BY <1>1, <1>2, <1>5, <2>1, <2>2, <2>3 DEF Proven
<1>6. CASE ~(track.on /\ track.spot = worker.spot)
  <2> DEFINE u == [on |-> TRUE, spot |-> worker.spot, streak |-> 1, counted |-> worker.now]
  <2>1. seen = u
    BY <1>6 DEF Seen_
  <2>2. u \in Track /\ u.on /\ u.streak = 1 /\ u.counted = worker.now /\ u.spot = worker.spot
    BY <1>1 DEF Track
  <2>3. trouble' = worker.now
    BY <1>3, <1>6, <2>1, <2>2
  <2>4. worker.now >= 1
    BY DEF HealthIInv, SamplesHold
  <2>5. Span(1) = 0 /\ worker.now - worker.now = 0
    BY <1>1, SpanOfOne
  <2> HIDE DEF u, seen
  <2> QED
    BY <1>1, <1>2, <2>1, <2>2, <2>3, <2>4, <2>5 DEF Proven
<1> QED
  BY <1>4, <1>5, <1>6

HealthWorkers ==
    [pc : {"idle", "assess", "track", "heal", "clear", "publish"}, now : Nat,
     base : Base, fresh : BOOLEAN, status : Statuses, spot : Spots \cup {0}, track : Track]

LEMMA RestingTyped == Resting \in HealthWorkers /\ NoTrack \in Track /\ NoBase \in Base
<1>1. NoTrack \in Track /\ NoBase \in Base
  BY DEF NoTrack, Track, NoBase, Base
<1> QED
  BY <1>1 DEF Resting, HealthWorkers, Statuses

\* A baseline that did not exist before.
LEMMA NewBaseTyped ==
    ASSUME HealthTypeOK
    PROVE  /\ \A torn \in BOOLEAN : [n |-> objects + 1, torn |-> torn] \in Base
           /\ \A b \in [n : {objects + 1}, torn : BOOLEAN] : b \in Base /\ b.n = objects + 1
           /\ objects + 1 \in Nat
<1>1. objects + 1 \in Nat
  BY DEF HealthTypeOK
<1> DEFINE n == objects + 1
<1> HIDE DEF n
<1>2. n \in Nat
  BY <1>1 DEF n
<1>3. \A torn \in BOOLEAN : [n |-> n, torn |-> torn] \in Base
  BY <1>2 DEF Base
<1>4. \A b \in [n : {n}, torn : BOOLEAN] : b \in Base /\ b.n = n
  BY <1>2 DEF Base
<1> QED
  BY <1>1, <1>3, <1>4 DEF n

-----------------------------------------------------------------------------
(* The steps of the worker *)

LEMMA RefreshStep ==
    ASSUME HealthIInv, Refreshes \/ RefreshesIdle
    PROVE  HealthIInv'
<1>1. CASE Refreshes
  <2> DEFINE fresh == baseline.n # judged.src
             w == [Resting EXCEPT !.pc = "assess", !.now = clock, !.base = baseline,
                                  !.fresh = fresh]
  <2>1. /\ clock \in Nat /\ baseline \in Base /\ baseline.n \in Nat
        /\ judged \in [src : Nat, verdict : {"none", "torn", "sound"}]
        /\ objects \in Nat /\ fresh \in BOOLEAN
    BY DEF HealthIInv, HealthTypeOK, Base
  <2>2. worker' = w
    BY <1>1 DEF Refreshes
  <2> HIDE DEF fresh
  <2>3. /\ w \in HealthWorkers /\ w.pc = "assess" /\ w.now = clock /\ w.base = baseline
        /\ w.fresh = fresh
    BY <2>1, RestingTyped DEF HealthWorkers
  <2> HIDE DEF w
  <2>4. /\ judged' \in [src : Nat, verdict : {"none", "torn", "sound"}]
        /\ judged'.src = baseline.n
        /\ judged' = judged \/ judged'.verdict = "none"
    BY <1>1, <2>1 DEF Refreshes
  <2>5. HealthTypeOK'
    BY <1>1, <2>2, <2>3, <2>4 DEF HealthIInv, HealthTypeOK, HealthWorkers, Refreshes, sessionVars
  <2>6. SamplesHold'
    <3>1. track' = track /\ trouble' = trouble /\ clock' = clock /\ worker'.now = clock
          /\ worker'.pc = "assess"
      BY <1>1, <2>2, <2>3 DEF Refreshes
    <3>2. track.on => Proven(track, clock)
      BY DEF HealthIInv, SamplesHold
    <3>3. track.on => Proven(track, clock)' /\ track.counted <= clock
      BY <3>1, <3>2 DEF Proven
    <3> QED
      BY <2>1, <3>1, <3>3 DEF HealthIInv, SamplesHold
  <2>7. VerdictsHold'
    BY <1>1, <2>1, <2>2, <2>3, <2>4 DEF HealthIInv, VerdictsHold, Refreshes, sessionVars
  <2> QED
    BY <2>5, <2>6, <2>7 DEF HealthIInv
<1>2. CASE RefreshesIdle
  <2>1. HealthTypeOK'
    BY <1>2 DEF HealthIInv, HealthTypeOK, RefreshesIdle, sessionVars, ghosts, Statuses
  <2>2. SamplesHold' /\ VerdictsHold'
    BY <1>2 DEF HealthIInv, SamplesHold, VerdictsHold, RefreshesIdle, sessionVars, ghosts, Proven
  <2> QED
    BY <2>1, <2>2 DEF HealthIInv
<1> QED
  BY <1>1, <1>2

LEMMA AssessStep ==
    ASSUME HealthIInv, Assesses
    PROVE  HealthIInv'
<1>1. PICK s \in Statuses \ {"idle"}, p \in Spots \cup {0} :
          worker' = [worker EXCEPT !.pc = "track", !.status = s, !.spot = p]
  BY DEF Assesses
<1>2. /\ worker' \in HealthWorkers /\ worker'.pc = "track" /\ worker'.now = worker.now
      /\ worker'.base = worker.base /\ worker'.fresh = worker.fresh
  BY <1>1 DEF HealthIInv, HealthTypeOK, HealthWorkers
<1> DEFINE verdict == IF worker.base.torn THEN "torn" ELSE "sound"
<1>3. /\ judged' = IF worker.fresh /\ worker.base.n # 0 THEN [judged EXCEPT !.verdict = verdict]
                   ELSE judged
      /\ verdict \in {"torn", "sound"}
      /\ judged \in [src : Nat, verdict : {"none", "torn", "sound"}]
  BY DEF Assesses, HealthIInv, HealthTypeOK
<1>4. /\ judged' \in [src : Nat, verdict : {"none", "torn", "sound"}]
      /\ judged'.src = judged.src
      /\ judged' = judged \/ (worker.fresh /\ judged'.verdict = verdict)
  BY <1>3
<1>5. HealthTypeOK'
  BY <1>2, <1>4 DEF HealthIInv, HealthTypeOK, HealthWorkers, Assesses, sessionVars, ghosts
<1>6. SamplesHold'
  BY <1>2 DEF HealthIInv, SamplesHold, Assesses, sessionVars, ghosts, Proven
<1>7. VerdictsHold'
  <2>1. judged'.verdict = "torn" /\ judged.src # 0 /\ judged.src = baseline.n => baseline.torn
    <3> SUFFICES ASSUME judged'.verdict = "torn", judged.src # 0, judged.src = baseline.n
                 PROVE  baseline.torn
      OBVIOUS
    <3>1. CASE judged' = judged
      BY <3>1 DEF HealthIInv, VerdictsHold
    <3>2. CASE worker.fresh /\ verdict = "torn"
      <4>1. judged.src = worker.base.n
        BY <3>2 DEF HealthIInv, VerdictsHold, Assesses
      <4> QED
        BY <3>2, <4>1 DEF HealthIInv, VerdictsHold
    <3> QED
      BY <1>4, <3>1, <3>2
  <2> QED
    BY <1>2, <1>4, <2>1 DEF HealthIInv, VerdictsHold, Assesses, sessionVars, ghosts
<1> QED
  BY <1>5, <1>6, <1>7 DEF HealthIInv

LEMMA RestStep ==
    ASSUME HealthIInv, AssessFails \/ Publishes
    PROVE  HealthIInv'
<1>1. /\ worker' = Resting /\ Resting.pc = "idle" /\ Resting.now = 0 /\ Resting.base = NoBase
      /\ status' \in Statuses /\ healthAt' \in Nat
      /\ UNCHANGED <<clock, sessionVars, judged, track, lastClear, commands, ghosts>>
  BY DEF AssessFails, Publishes, Resting, HealthIInv, HealthTypeOK
<1>2. HealthTypeOK'
  BY <1>1, RestingTyped DEF HealthIInv, HealthTypeOK, HealthWorkers, sessionVars, ghosts
<1>3. SamplesHold'
  BY <1>1 DEF HealthIInv, HealthTypeOK, SamplesHold, ghosts, Proven
<1>4. VerdictsHold'
  BY <1>1 DEF HealthIInv, HealthTypeOK, VerdictsHold, sessionVars, ghosts, NoBase
<1> QED
  BY <1>2, <1>3, <1>4 DEF HealthIInv

LEMMA TrackStep ==
    ASSUME HealthIInv, Tracks
    PROVE  HealthIInv'
<1> DEFINE seen == track'
<1>1. /\ worker' = [worker EXCEPT !.track = seen, !.pc = IF seen.on THEN "heal" ELSE "publish"]
      /\ seen = IF making /\ Troubled(worker) THEN Seen_(track, worker) ELSE NoTrack
      /\ trouble' \in {trouble, worker.now}
  BY DEF Tracks
<1>2. /\ seen \in Track
      /\ seen.on => Proven(track, worker.now)'
  <2>1. CASE making /\ Troubled(worker)
    BY <2>1, SeenProven DEF Tracks
  <2>2. CASE ~(making /\ Troubled(worker))
    BY <1>1, <2>2, RestingTyped DEF NoTrack
  <2> QED
    BY <2>1, <2>2
<1>3. /\ worker' \in HealthWorkers /\ worker'.now = worker.now /\ worker'.base = worker.base
      /\ worker'.track = seen
      /\ worker'.pc = IF seen.on THEN "heal" ELSE "publish"
  BY <1>1, <1>2 DEF HealthIInv, HealthTypeOK, HealthWorkers
<1>4. HealthTypeOK'
  BY <1>1, <1>2, <1>3 DEF HealthIInv, HealthTypeOK, HealthWorkers, Tracks, sessionVars
<1>5. SamplesHold'
  BY <1>2, <1>3 DEF HealthIInv, HealthTypeOK, HealthWorkers, SamplesHold, Tracks, sessionVars, Proven, Track
<1>6. VerdictsHold'
  BY <1>3 DEF HealthIInv, VerdictsHold, Tracks, sessionVars
<1> QED
  BY <1>4, <1>5, <1>6 DEF HealthIInv

LEMMA HealStep ==
    ASSUME HealthIInv, Heals \/ LeavesIt
    PROVE  HealthIInv'
<1>1. /\ worker' \in HealthWorkers /\ worker'.now = worker.now /\ worker'.base = worker.base
      /\ worker'.track = worker.track
      /\ \/ worker'.pc = "clear" /\ worker.track.streak >= PersistN /\ Cooled
         \/ worker'.pc = "publish"
      /\ worker.pc = "heal"
      /\ UNCHANGED <<clock, sessionVars, judged, healthAt, status, track, lastClear, commands, ghosts>>
  BY DEF Heals, LeavesIt, HealthIInv, HealthTypeOK, HealthWorkers
<1>2. HealthTypeOK'
  BY <1>1 DEF HealthIInv, HealthTypeOK, HealthWorkers, sessionVars, ghosts
<1>3. SamplesHold'
  BY <1>1 DEF HealthIInv, SamplesHold, ghosts, Proven, Cooled
<1>4. VerdictsHold'
  BY <1>1 DEF HealthIInv, VerdictsHold, sessionVars
<1> QED
  BY <1>2, <1>3, <1>4 DEF HealthIInv

\* The drawing left by a clear is a new baseline that nobody has judged.
LEMMA ClearedHolds ==
    ASSUME HealthIInv, Cleared
    PROVE  /\ baseline' \in Base /\ baseline'.n = objects + 1 /\ objects' = objects + 1
           /\ objects' \in Nat /\ paintTrusted' = TRUE /\ healthAt' = 0
           /\ judged' \in [src : Nat, verdict : {"none", "torn", "sound"}]
           /\ judged'.src = 0 /\ judged'.verdict = "none"
           /\ track' \in Track /\ ~track'.on
<1>1. PICK torn \in BOOLEAN : baseline' = [n |-> objects + 1, torn |-> torn]
  BY DEF Cleared
<1>2. baseline' \in Base /\ objects + 1 \in Nat
  BY <1>1, NewBaseTyped DEF HealthIInv
<1> QED
  BY <1>1, <1>2, RestingTyped DEF Cleared, NoTrack

\* Nobody has judged a new baseline, and the worker does not hold it.
LEMMA NewBaseVerdicts ==
    ASSUME HealthIInv, baseline'.n \in {0, objects + 1}, baseline'.n = 0 => baseline' = NoBase,
           objects' = objects + 1, worker'.base = worker.base,
           worker'.pc = "assess" => worker' = worker,
           judged' = judged \/ (judged'.src = 0 /\ judged'.verdict = "none")
    PROVE  VerdictsHold'
<1>1. /\ objects \in Nat /\ worker.base.n \in Nat /\ judged.src \in Nat
      /\ worker.base.n <= objects /\ judged.src <= objects
  BY DEF HealthIInv, HealthTypeOK, VerdictsHold, Base
<1>2. baseline'.n <= objects' /\ worker'.base.n <= objects' /\ judged'.src <= objects'
  BY <1>1
<1>3. worker'.base.n = baseline'.n => worker'.base = baseline'
  BY <1>1 DEF HealthIInv, VerdictsHold
<1>4. judged'.src # 0 => judged'.src # baseline'.n
  BY <1>1
<1>5. worker'.pc = "assess" /\ worker'.fresh => judged'.src \in {0, worker'.base.n}
  BY DEF HealthIInv, VerdictsHold
<1> QED
  BY <1>2, <1>3, <1>4, <1>5 DEF HealthIInv, VerdictsHold

LEMMA ClearStep ==
    ASSUME HealthIInv, Clears
    PROVE  HealthIInv'
<1>1. /\ worker' \in HealthWorkers /\ worker'.pc = "publish" /\ worker'.now = worker.now
      /\ worker'.base = worker.base
  BY DEF Clears, HealthIInv, HealthTypeOK, HealthWorkers
<1>2. Cleared /\ lastClear' = worker.now /\ lastClear' \in Nat
  BY DEF Clears, HealthIInv, HealthTypeOK
<1>3. HealthTypeOK'
  <2>1. {making, paintTrusted, disturbed}' \subseteq BOOLEAN
    BY <1>2, ClearedHolds DEF Clears, ghosts, HealthIInv, HealthTypeOK
  <2>2. {clock, healthAt, lastClear, objects, commands, trouble}' \subseteq Nat
    BY <1>2, ClearedHolds DEF Clears, ghosts, HealthIInv, HealthTypeOK
  <2>3. status' = status
    BY DEF Clears
  <2> QED
    BY <1>1, <1>2, <2>1, <2>2, <2>3, ClearedHolds DEF HealthIInv, HealthTypeOK, HealthWorkers
<1>4. SamplesHold'
  BY <1>1, <1>2, ClearedHolds DEF HealthIInv, SamplesHold, Clears
<1>5. VerdictsHold'
  <2>1. baseline'.n \in {0, objects + 1} /\ baseline'.n # 0
    <3>1. objects + 1 # 0
      BY DEF HealthIInv, HealthTypeOK
    <3> QED
      BY <1>2, <3>1, ClearedHolds
  <2> QED
    BY <1>1, <1>2, <2>1, ClearedHolds, NewBaseVerdicts
<1> QED
  BY <1>3, <1>4, <1>5 DEF HealthIInv

-----------------------------------------------------------------------------
(* The commands, and time *)

LEMMA CommandStep ==
    ASSUME HealthIInv, Configures \/ ResetsMap \/ OperatorClears
    PROVE  HealthIInv'
<1>1. disturbed' = TRUE /\ commands' \in Nat /\ worker' = worker /\ clock' = clock
      /\ trouble' = trouble
  BY DEF Configures, ResetsMap, OperatorClears, Commands, HealthIInv, HealthTypeOK
<1>2. CASE Configures
  <2>1. /\ baseline' \in Base /\ baseline'.n \in {0, objects + 1}
        /\ baseline'.n = 0 => baseline' = NoBase
        /\ objects' = objects + 1 /\ objects' \in Nat
    <3>0. objects + 1 # 0
      BY DEF HealthIInv, HealthTypeOK
    <3>1. CASE baseline' = NoBase
      BY <1>2, <3>1, RestingTyped, NewBaseTyped DEF Configures, NoBase, HealthIInv
    <3>2. CASE baseline' \in [n : {objects + 1}, torn : BOOLEAN]
      BY <1>2, <3>0, <3>2, NewBaseTyped DEF Configures, HealthIInv
    <3> QED
      BY <1>2, <3>1, <3>2 DEF Configures
  <2>2. track' \in Track /\ ~track'.on
    BY <1>2, RestingTyped DEF Configures, NoTrack
  <2>3. HealthTypeOK'
    <3>1. {making, paintTrusted, disturbed}' \subseteq BOOLEAN
      BY <1>1, <1>2 DEF Configures, HealthIInv, HealthTypeOK
    <3>2. {clock, healthAt, lastClear, objects, commands, trouble}' \subseteq Nat
      BY <1>1, <1>2, <2>1 DEF Configures, HealthIInv, HealthTypeOK
    <3> QED
      BY <1>1, <1>2, <2>1, <2>2, <3>1, <3>2 DEF HealthIInv, HealthTypeOK, Configures
  <2>4. SamplesHold'
    BY <1>1, <1>2, <2>2 DEF HealthIInv, SamplesHold, Configures, Proven
  <2>5. VerdictsHold'
    BY <1>1, <1>2, <2>1, NewBaseVerdicts DEF Configures
  <2> QED
    BY <2>3, <2>4, <2>5 DEF HealthIInv
<1>3. CASE ResetsMap
  <2>1. HealthTypeOK'
    BY <1>1, <1>3, RestingTyped DEF HealthIInv, HealthTypeOK, ResetsMap
  <2>2. SamplesHold'
    BY <1>1, <1>3 DEF HealthIInv, SamplesHold, ResetsMap, Proven
  <2>3. VerdictsHold'
    BY <1>1, <1>3 DEF HealthIInv, HealthTypeOK, VerdictsHold, ResetsMap, NoBase
  <2> QED
    BY <2>1, <2>2, <2>3 DEF HealthIInv
<1>4. CASE OperatorClears
  <2>1. Cleared
    BY <1>4 DEF OperatorClears
  <2>2. HealthTypeOK'
    BY <1>1, <1>4, <2>1, ClearedHolds DEF HealthIInv, HealthTypeOK, OperatorClears
  <2>3. SamplesHold'
    BY <1>1, <1>4, <2>1, ClearedHolds DEF HealthIInv, SamplesHold, OperatorClears, Proven
  <2>4. VerdictsHold'
    <3>1. baseline'.n \in {0, objects + 1} /\ baseline'.n # 0
      <4>1. objects + 1 # 0
        BY DEF HealthIInv, HealthTypeOK
      <4> QED
        BY <2>1, <4>1, ClearedHolds
    <3> QED
      BY <1>1, <2>1, <3>1, ClearedHolds, NewBaseVerdicts
  <2> QED
    BY <2>2, <2>3, <2>4 DEF HealthIInv
<1> QED
  BY <1>2, <1>3, <1>4

LEMMA TimeStep ==
    ASSUME HealthIInv, TimePasses
    PROVE  HealthIInv'
<1>1. HealthTypeOK'
  BY DEF HealthIInv, HealthTypeOK, TimePasses, sessionVars, ghosts
<1>2. SamplesHold'
  BY DEF HealthIInv, HealthTypeOK, Track, SamplesHold, TimePasses, sessionVars, ghosts, Proven
<1>3. VerdictsHold'
  BY DEF HealthIInv, VerdictsHold, TimePasses, sessionVars
<1> QED
  BY <1>1, <1>2, <1>3 DEF HealthIInv

LEMMA HealthStep == HealthIInv /\ [HealthNext]_healthVars => HealthIInv'
<1> SUFFICES ASSUME HealthIInv, [HealthNext]_healthVars
             PROVE  HealthIInv'
  OBVIOUS
<1>1. CASE HealthNext
  BY <1>1, RefreshStep, AssessStep, RestStep, TrackStep, HealStep, ClearStep, CommandStep,
     TimeStep
  DEF HealthNext
<1>2. CASE UNCHANGED healthVars
  BY <1>2 DEF healthVars, HealthIInv, HealthTypeOK, SamplesHold, VerdictsHold, Proven
<1> QED
  BY <1>1, <1>2

(* The health check keeps its types. *)
THEOREM HealthTypes == HealthSpec => []HealthTypeOK
<1>1. HealthIInv => HealthTypeOK
  BY DEF HealthIInv
<1> QED
  BY <1>1, HealthInitial, HealthStep, PTL DEF HealthSpec

(* Walls are erased without being asked only where the samples of PersistN   *)
(* refreshes, MinS apart, saw them doubled, and not again before the cooldown*)
(* - however often commands let the worker look sooner, and for any spots.   *)
(* (_maybe_auto_heal_hotspot, refresh_map_health)                            *)
THEOREM HealthClearsAreEarned == HealthSpec => []ClearIsEarned
<1>1. HealthIInv => ClearIsEarned
  <2> SUFFICES ASSUME HealthIInv, worker.pc = "clear"
               PROVE  ClearIsEarned
    BY DEF ClearIsEarned
  <2>1. /\ worker.track.counted - trouble >= Span(worker.track.streak)
        /\ worker.track.counted <= worker.now
        /\ worker.track.streak >= PersistN
        /\ disturbed \/ lastClear = 0 \/ worker.now - lastClear >= Cooldown
    BY DEF HealthIInv, SamplesHold, Proven
  <2>2. /\ worker.track.streak \in Nat /\ worker.track.counted \in Nat /\ worker.now \in Nat
        /\ trouble \in Nat /\ PersistN \in Nat
    BY HealthAssumption DEF HealthIInv, HealthTypeOK, Track
  <2>3. /\ Span(worker.track.streak) >= Span(PersistN)
        /\ Span(worker.track.streak) \in Int /\ Span(PersistN) \in Int
    BY <2>1, <2>2, SpanMonotone, SpanTyped
  <2>4. worker.now - trouble >= Span(PersistN)
    BY <2>1, <2>2, <2>3
  <2> QED
    BY <2>1, <2>4 DEF ClearIsEarned, Span
<1> QED
  BY <1>1, HealthInitial, HealthStep, PTL DEF HealthSpec

(* Painting is restricted only on a map that was itself found torn: a verdict*)
(* that comes back from the scoring after the map has been cleared, reset or *)
(* switched is not taken for one about the map of now.                       *)
(* (_baseline_trusted_locked)                                                *)
THEOREM HealthDistrustIsEarned == HealthSpec => []DistrustIsEarned
<1>1. HealthIInv => DistrustIsEarned
  BY DEF HealthIInv, VerdictsHold, DistrustIsEarned, Trusted
<1> QED
  BY <1>1, HealthInitial, HealthStep, PTL DEF HealthSpec

-----------------------------------------------------------------------------

-----------------------------------------------------------------------------
(* The files of the maps: types.                                           *)

NoDir == Maps \cup {NoMap}
KeyFiles == [there : BOOLEAN, sha : Image_, base : SUBSET Strokes, scans : SUBSET Strokes, edits : Seq(Strokes)]
Backups == [there : BOOLEAN, image : Image_, geometry : BOOLEAN, keys : KeyFiles]
Dirs == [image : Image_, geometry : BOOLEAN, keys : KeyFiles, backup : Backups]
Engines == [mode : Modes, dir : NoDir, of : NoDir, grid : SUBSET Strokes, base : SUBSET Strokes,
            graph : SUBSET Strokes, edits : Seq(Strokes), saved : Nat, revision : Nat]
RepairSteps == {"none", "start", "check", "wait", "plan", "backup", "rename", "apply", "resolve", "render",
                "save", "saving"}
Repairs == [pc : RepairSteps, dir : NoDir, apply : {"auto", "force", "never"}, revision : Nat,
            copied : Backups, moved : BOOLEAN]
Ops == {"none", "start", "save", "undo", "edit", "repair", "clear"}
CallSteps == {"idle", "switch", "join", "load", "run", "saving", "job", "copy", "keys", "drop"}
MapCommands == [op : Ops, pc : CallSteps, map : NoDir, mode : Modes, arg : {"auto", "force", "never"},
             want : SUBSET Strokes, sound : BOOLEAN]
Saves == [pc : {"idle", "image", "keys", "end"}, dir : NoDir, old : Image_, grid : SUBSET Strokes,
          keys : KeyFiles, live : BOOLEAN, fresh : Seq(Strokes), mode : Modes]

FilesTypeOK ==
    /\ disk \in [Maps -> Dirs] /\ active \in Maps /\ mode \in Modes /\ up \in BOOLEAN
    /\ eng \in Engines
    /\ lock \in {"free"} \cup Savers /\ job \in {"free", "client", "repairer"} /\ cancel \in BOOLEAN
    /\ rep \in Repairs /\ call \in MapCommands /\ save \in [Savers -> Saves]
    /\ strokes \in Strokes /\ before \in [Maps -> SUBSET Strokes] /\ careless \in BOOLEAN

RepairShape ==
    /\ Alive => up /\ rep.dir \in Maps
    /\ job = "repairer" <=> rep.pc \in {"plan", "backup", "rename", "apply", "resolve", "render"}

CallShape ==
    /\ call.op = "none" => call = NoCall
    /\ call.op # "none" => call.map \in Maps /\ up
    /\ call.op = "start" => call.pc \in {"switch", "join", "load"}
    /\ call.op = "save" => call.pc \in {"run", "saving"}
    /\ call.op = "undo" => call.pc \in {"run", "job", "copy", "keys", "drop", "switch", "join", "load"}
    /\ call.op \in {"edit", "repair", "clear"} => call.pc = "run"
    /\ call.op = "undo" /\ call.pc \in {"copy", "keys", "drop"} <=> job = "client"

SaveShape ==
    /\ \A t \in Savers : save[t].pc = "image" <=> lock = t
    /\ save["client"].pc # "idle" => call.op = "save" /\ call.pc = "saving" /\ save["client"].dir = call.map
    /\ save["repairer"].pc # "idle" => rep.pc = "saving" /\ save["repairer"].dir = rep.dir

-----------------------------------------------------------------------------
LEMMA StrokesAre == MaxStrokes \in Nat /\ 1 \in Strokes /\ (\A s \in Strokes : s \in Nat) /\ Strokes # {}
  BY SlamMapsAssumption DEF Strokes

LEMMA NextStrokeIs ==
    ASSUME strokes \in Strokes PROVE NextStroke \in Strokes
  BY SlamMapsAssumption DEF Strokes, NextStroke

LEMMA RangeIs ==
    /\ Range(<<>>) = {}
    /\ \A s \in Seq(Strokes) : Range(s) \subseteq Strokes
    /\ \A s \in Seq(Strokes), x \in Strokes :
         Append(s, x) \in Seq(Strokes) /\ Range(Append(s, x)) = Range(s) \cup {x}
    /\ \A s, t \in Seq(Strokes) : s \o t \in Seq(Strokes) /\ Range(s \o t) = Range(s) \cup Range(t)
<1>1. Range(<<>>) = {}
  BY DEF Range
<1>2. \A s \in Seq(Strokes) : Range(s) \subseteq Strokes
  BY DEF Range
<1>3. \A s \in Seq(Strokes), x \in Strokes : Range(Append(s, x)) = Range(s) \cup {x}
  <2> SUFFICES ASSUME NEW s \in Seq(Strokes), NEW x \in Strokes PROVE Range(Append(s, x)) = Range(s) \cup {x}
    OBVIOUS
  <2>1. Len(Append(s, x)) = Len(s) + 1 /\ Append(s, x)[Len(s) + 1] = x /\ \A i \in 1 .. Len(s) : Append(s, x)[i] = s[i]
    OBVIOUS
  <2>2. DOMAIN Append(s, x) = 1 .. Len(s) + 1 /\ DOMAIN s = 1 .. Len(s) /\ Len(s) \in Nat
    OBVIOUS
  <2>3. \A i \in 1 .. Len(s) + 1 : i = Len(s) + 1 \/ i \in 1 .. Len(s)
    BY <2>2
  <2> QED
    BY <2>1, <2>2, <2>3 DEF Range
<1>4. \A s, t \in Seq(Strokes) : Range(s \o t) = Range(s) \cup Range(t)
  <2> SUFFICES ASSUME NEW s \in Seq(Strokes), NEW t \in Seq(Strokes) PROVE Range(s \o t) = Range(s) \cup Range(t)
    OBVIOUS
  <2>1. DOMAIN (s \o t) = 1 .. Len(s) + Len(t) /\ DOMAIN s = 1 .. Len(s) /\ DOMAIN t = 1 .. Len(t)
        /\ Len(s) \in Nat /\ Len(t) \in Nat
    OBVIOUS
  <2>2. \A i \in 1 .. Len(s) + Len(t) : (s \o t)[i] = IF i <= Len(s) THEN s[i] ELSE t[i - Len(s)]
    OBVIOUS
  <2>3. Range(s \o t) \subseteq Range(s) \cup Range(t)
    BY <2>1, <2>2 DEF Range
  <2>4. \A i \in 1 .. Len(s) : i \in 1 .. Len(s) + Len(t) /\ (s \o t)[i] = s[i]
    BY <2>1, <2>2
  <2>5. \A i \in 1 .. Len(t) : i + Len(s) \in 1 .. Len(s) + Len(t) /\ (s \o t)[i + Len(s)] = t[i]
    BY <2>1, <2>2
  <2>6. Range(s) \subseteq Range(s \o t)
    BY <2>1, <2>4 DEF Range
  <2>7. Range(t) \subseteq Range(s \o t)
    BY <2>1, <2>5 DEF Range
  <2> QED
    BY <2>3, <2>6, <2>7
<1> QED
  BY <1>1, <1>2, <1>3, <1>4

\* The edits after the first n.
LEMMA TailIs ==
    ASSUME NEW s \in Seq(Strokes), NEW n \in Nat
    PROVE  /\ SubSeq(s, n + 1, Len(s)) \in Seq(Strokes)
           /\ Range(SubSeq(s, n + 1, Len(s))) = {s[i] : i \in n + 1 .. Len(s)}
           /\ Range(SubSeq(s, n + 1, Len(s))) \subseteq Range(s)
           /\ n <= Len(s) => Len(SubSeq(s, n + 1, Len(s))) = Len(s) - n
<1> DEFINE t == SubSeq(s, n + 1, Len(s))
<1>1. Len(s) \in Nat /\ DOMAIN s = 1 .. Len(s) /\ n + 1 \in Int /\ Len(s) \in Int
  OBVIOUS
<1>2. \A i \in n + 1 .. Len(s) : s[i] \in Strokes
  BY <1>1
<1>3. /\ t \in Seq(Strokes)
      /\ Len(t) = IF n + 1 <= Len(s) THEN Len(s) - (n + 1) + 1 ELSE 0
      /\ \A i \in 1 .. Len(s) - (n + 1) + 1 : t[i] = s[n + 1 + i - 1]
  BY <1>1, <1>2, SubSeqProperties
<1> HIDE DEF t
<1>7. /\ n <= Len(s) => Len(t) = Len(s) - n
      /\ n > Len(s) => Len(t) = 0
  <2> DEFINE l == Len(s)
             k == Len(t)
  <2>1. l \in Nat /\ k = IF n + 1 <= l THEN l - (n + 1) + 1 ELSE 0
    BY <1>1, <1>3
  <2> HIDE DEF l, k
  <2>2. (n <= l => k = l - n) /\ (n > l => k = 0)
    BY <2>1
  <2> QED
    BY <2>2 DEF l, k
<1>4. DOMAIN t = 1 .. Len(t) /\ 1 .. Len(t) = 1 .. Len(s) - n /\ \A i \in 1 .. Len(s) - n : t[i] = s[n + i]
  <2>1. DOMAIN t = 1 .. Len(t)
    BY <1>3
  <2>2. 1 .. Len(t) = 1 .. Len(s) - n
    <3> DEFINE l == Len(s)
               k == Len(t)
    <3>1. l \in Nat /\ (n <= l => k = l - n) /\ (n > l => k = 0)
      BY <1>1, <1>7
    <3> HIDE DEF l, k
    <3>2. ASSUME n <= l PROVE 1 .. k = 1 .. l - n
      BY <3>1, <3>2
    <3>3. ASSUME n > l PROVE 1 .. k = 1 .. l - n
      <4>1. \A i \in Int : ~(1 <= i /\ i <= l - n)
        BY <3>1, <3>3
      <4> QED
        BY <3>1, <3>3, <4>1
    <3>4. 1 .. k = 1 .. l - n
      BY <3>1, <3>2, <3>3
    <3> QED
      BY <3>4 DEF l, k
  <2>3. \A i \in 1 .. Len(s) - n : n + 1 + i - 1 = n + i /\ i \in 1 .. Len(s) - (n + 1) + 1
    BY <1>1
  <2> QED
    BY <1>3, <2>1, <2>2, <2>3
<1>5. Range(t) = {s[i] : i \in n + 1 .. Len(s)}
  <2>1. \A i \in n + 1 .. Len(s) : i - n \in 1 .. Len(s) - n /\ i = n + (i - n)
    BY <1>1
  <2>2. \A i \in 1 .. Len(s) - n : n + i \in n + 1 .. Len(s)
    BY <1>1
  <2>3. {s[i] : i \in n + 1 .. Len(s)} \subseteq Range(t)
    <3> SUFFICES ASSUME NEW i \in n + 1 .. Len(s) PROVE s[i] \in Range(t)
      OBVIOUS
    <3>1. i - n \in DOMAIN t /\ t[i - n] = s[i]
      BY <1>4, <2>1
    <3> QED
      BY <3>1 DEF Range
  <2>4. Range(t) \subseteq {s[i] : i \in n + 1 .. Len(s)}
    <3> SUFFICES ASSUME NEW i \in 1 .. Len(s) - n PROVE t[i] \in {s[k] : k \in n + 1 .. Len(s)}
      BY <1>4 DEF Range
    <3> QED
      BY <1>4, <2>2
  <2> QED
    BY <2>3, <2>4
<1>6. {s[i] : i \in n + 1 .. Len(s)} \subseteq Range(s)
  <2>1. \A i \in n + 1 .. Len(s) : i \in DOMAIN s
    BY <1>1
  <2> QED
    BY <2>1 DEF Range
<1> QED
  BY <1>3, <1>5, <1>6, <1>7 DEF t

LEMMA TailOfAppend ==
    ASSUME NEW s \in Seq(Strokes), NEW x \in Strokes, NEW n \in Nat, n <= Len(s)
    PROVE  Range(SubSeq(Append(s, x), n + 1, Len(Append(s, x)))) = Range(SubSeq(s, n + 1, Len(s))) \cup {x}
<1>1. Append(s, x) \in Seq(Strokes) /\ Len(Append(s, x)) = Len(s) + 1 /\ Len(s) \in Nat
  OBVIOUS
<1>2. Append(s, x)[Len(s) + 1] = x /\ \A i \in n + 1 .. Len(s) : Append(s, x)[i] = s[i]
  OBVIOUS
<1>3. n + 1 .. Len(s) + 1 = (n + 1 .. Len(s)) \cup {Len(s) + 1}
  BY <1>1
<1> DEFINE a == Append(s, x)
<1>4. Range(SubSeq(a, n + 1, Len(a))) = {a[i] : i \in n + 1 .. Len(a)}
  BY <1>1, TailIs
<1>5. Range(SubSeq(s, n + 1, Len(s))) = {s[i] : i \in n + 1 .. Len(s)}
  BY TailIs
<1>6. a \in Seq(Strokes) /\ Len(a) = Len(s) + 1 /\ a[Len(s) + 1] = x /\ \A i \in n + 1 .. Len(s) : a[i] = s[i]
  BY <1>1, <1>2
<1> HIDE DEF a
<1>7. {a[i] : i \in n + 1 .. Len(a)} = {s[i] : i \in n + 1 .. Len(s)} \cup {x}
  BY <1>3, <1>6
<1> QED
  BY <1>4, <1>5, <1>7 DEF a

-----------------------------------------------------------------------------
(* What the operators on files and engines return.                         *)

LEMMA PicturesAre ==
    /\ NoImage \in Image_ /\ TornImage \in Image_ /\ \A g \in SUBSET Strokes : Image(g) \in Image_
    /\ NoKeys \in KeyFiles /\ NoBackup \in Backups /\ EmptyDir \in Dirs
<1>1. NoImage \in Image_ /\ TornImage \in Image_ /\ \A g \in SUBSET Strokes : Image(g) \in Image_
  BY DEF NoImage, TornImage, Image, Image_
<1>2. <<>> \in Seq(Strokes)
  OBVIOUS
<1>3. NoKeys \in KeyFiles
  BY <1>1, <1>2 DEF NoKeys, KeyFiles
<1>4. NoBackup \in Backups
  BY <1>1, <1>3 DEF NoBackup, Backups
<1> QED
  BY <1>1, <1>3, <1>4 DEF EmptyDir, Dirs

LEMMA KeysAre ==
    ASSUME NEW p \in Image_, NEW b \in SUBSET Strokes, NEW s \in SUBSET Strokes, NEW e \in Seq(Strokes)
    PROVE  Keys(p, b, s, e) \in KeyFiles
  BY DEF Keys, KeyFiles

LEMMA LoadIs ==
    ASSUME NEW d \in Dirs, NEW p \in Image_
    PROVE  LoadGraph(d, p) \in KeyFiles
  BY PicturesAre DEF LoadGraph, Dirs

LEMMA DirsAre ==
    ASSUME NEW d \in Dirs
    PROVE  /\ BeginImage(d) \in Dirs
           /\ \A g \in SUBSET Strokes : EndImage(d, g) \in Dirs
           /\ \A k \in KeyFiles : WriteKeys(d, k) \in Dirs
           /\ BeginDropBackup(d) \in Dirs /\ EndDropBackup(d) \in Dirs
           /\ Copied(d) \in Backups
           /\ \A c \in Backups : BackUp(d, c) \in Dirs
           /\ RestoreImage(d) \in Dirs /\ RestoreKeys(d) \in Dirs
<1>1. BeginImage(d) \in Dirs
  BY PicturesAre DEF BeginImage, Dirs
<1>2. \A g \in SUBSET Strokes : EndImage(d, g) \in Dirs
  BY PicturesAre DEF EndImage, Dirs
<1>3. \A k \in KeyFiles : WriteKeys(d, k) \in Dirs
  BY DEF WriteKeys, Dirs
<1>4. BeginDropBackup(d) \in Dirs
  <2> DEFINE b == IF d.backup.there THEN [d.backup EXCEPT !.image = NoImage, !.geometry = FALSE] ELSE d.backup
  <2>1. d.backup \in Backups
    BY DEF Dirs
  <2>2. b \in Backups
    BY <2>1, PicturesAre DEF Backups
  <2>3. BeginDropBackup(d) = [d EXCEPT !.backup = b]
    BY DEF BeginDropBackup
  <2> HIDE DEF b
  <2> QED
    BY <2>2, <2>3 DEF Dirs
<1>5. EndDropBackup(d) \in Dirs
  BY PicturesAre DEF EndDropBackup, Dirs
<1>6. Copied(d) \in Backups
  BY DEF Copied, Backups, Dirs
<1>7. \A c \in Backups : BackUp(d, c) \in Dirs
  BY DEF BackUp, Dirs
<1>8. RestoreImage(d) \in Dirs
  BY DEF RestoreImage, Dirs, Backups
<1>9. RestoreKeys(d) \in Dirs
  BY DEF RestoreKeys, Dirs, Backups
<1> QED
  BY <1>1, <1>2, <1>3, <1>4, <1>5, <1>6, <1>7, <1>8, <1>9

LEMMA ResetIs ==
    ASSUME NEW e \in Engines, NEW g \in SUBSET Strokes, NEW m \in Modes
    PROVE  /\ ResetGraph(e, g, m) \in Engines
           /\ ResetGraph(e, g, m).mode = e.mode /\ ResetGraph(e, g, m).dir = e.dir /\ ResetGraph(e, g, m).of = e.of
           /\ ResetGraph(e, g, m).grid = g /\ ResetGraph(e, g, m).graph = {} /\ ResetGraph(e, g, m).edits = <<>>
           /\ ResetGraph(e, g, m).saved = 0 /\ ResetGraph(e, g, m).revision = e.revision + 1
           /\ m = "mapping" => ResetGraph(e, g, m).base = g
           /\ m # "mapping" => ResetGraph(e, g, m).base = {}
<1> DEFINE b == IF m = "mapping" THEN g ELSE {}
<1>1. b \in SUBSET Strokes /\ e.revision + 1 \in Nat /\ <<>> \in Seq(Strokes) /\ 0 \in Nat
  BY DEF Engines
<1>2. ResetGraph(e, g, m) =
        [e EXCEPT !.grid = g, !.graph = {}, !.edits = <<>>, !.saved = 0, !.revision = e.revision + 1, !.base = b]
  BY DEF ResetGraph, Engines
<1> HIDE DEF b
<1>3. ResetGraph(e, g, m) \in Engines /\ ResetGraph(e, g, m).base = b
  BY <1>1, <1>2 DEF Engines
<1>4. /\ ResetGraph(e, g, m).mode = e.mode /\ ResetGraph(e, g, m).dir = e.dir /\ ResetGraph(e, g, m).of = e.of
      /\ ResetGraph(e, g, m).grid = g /\ ResetGraph(e, g, m).graph = {} /\ ResetGraph(e, g, m).edits = <<>>
      /\ ResetGraph(e, g, m).saved = 0 /\ ResetGraph(e, g, m).revision = e.revision + 1
  BY <1>1, <1>2 DEF Engines
<1> QED
  BY <1>3, <1>4 DEF b

LEMMA ResumeIs ==
    ASSUME NEW e \in Engines, NEW k \in KeyFiles
    PROVE  /\ ResumeKeyframes(e, k) \in Engines
           /\ ~k.there => ResumeKeyframes(e, k) = e
           /\ ResumeKeyframes(e, k).mode = e.mode /\ ResumeKeyframes(e, k).dir = e.dir
           /\ ResumeKeyframes(e, k).of = e.of /\ ResumeKeyframes(e, k).revision >= e.revision
           /\ k.there => /\ ResumeKeyframes(e, k).graph = k.scans /\ ResumeKeyframes(e, k).base = k.base
                         /\ ResumeKeyframes(e, k).edits = k.edits
                         /\ ResumeKeyframes(e, k).grid = e.grid \cup Range(k.edits)
<1> DEFINE g == e.grid \cup Range(k.edits)
           n == Len(k.edits)
<1>1. g \in SUBSET Strokes /\ n \in Nat /\ e.revision + 1 \in Nat /\ k.edits \in Seq(Strokes)
      /\ k.scans \in SUBSET Strokes /\ k.base \in SUBSET Strokes /\ e.revision \in Nat
  BY RangeIs DEF Engines, KeyFiles
<1>2. CASE ~k.there
  BY <1>1, <1>2 DEF ResumeKeyframes
<1>3. CASE k.there
  <2>1. ResumeKeyframes(e, k) =
          [e EXCEPT !.graph = k.scans, !.base = k.base, !.edits = k.edits, !.saved = n, !.grid = g,
                    !.revision = e.revision + 1]
    BY <1>3 DEF ResumeKeyframes
  <2> HIDE DEF g, n
  <2>2. ResumeKeyframes(e, k) \in Engines
    BY <1>1, <2>1 DEF Engines
  <2>3. /\ ResumeKeyframes(e, k).mode = e.mode /\ ResumeKeyframes(e, k).dir = e.dir
        /\ ResumeKeyframes(e, k).of = e.of /\ ResumeKeyframes(e, k).revision = e.revision + 1
        /\ ResumeKeyframes(e, k).graph = k.scans /\ ResumeKeyframes(e, k).base = k.base
        /\ ResumeKeyframes(e, k).edits = k.edits /\ ResumeKeyframes(e, k).grid = g
    BY <1>1, <2>1 DEF Engines
  <2> QED
    BY <1>1, <1>3, <2>2, <2>3 DEF g
<1> QED
  BY <1>2, <1>3

\* Keyframes that belong to the image they were saved with.
Fits(k) == k.there => k.sha = Image(Render(k))

LEMMA ConfiguredIs ==
    ASSUME NEW e \in Engines, NEW m \in Modes, NEW dir \in Maps, NEW d \in Dirs
    PROVE  LET c == Configured(e, m, dir, d) IN
           /\ c \in Engines /\ c.mode = m /\ c.dir = dir /\ c.of = dir /\ c.revision > e.revision
           /\ m = "localizing" =>
                c.graph = {} /\ c.edits = <<>> /\ c.saved = 0 /\ c.grid = IF Readable(d) THEN d.image.shows ELSE {}
           /\ m = "mapping" /\ Fits(d.keys) => c.grid = Drawn(c)
<1> DEFINE there == [e EXCEPT !.mode = m, !.dir = dir, !.of = dir]
           loaded == ResetGraph(there, d.image.shows, m)
           k == LoadGraph(d, d.image)
           c == Configured(e, m, dir, d)
<1>1. there \in Engines /\ there.mode = m /\ there.dir = dir /\ there.of = dir /\ there.revision = e.revision
  BY DEF Engines, NoDir
<1>2. d.image \in Image_ /\ d.image.shows \in SUBSET Strokes /\ k \in KeyFiles /\ {} \in SUBSET Strokes
  BY LoadIs DEF Dirs, Image_
<1>3. e.revision \in Nat
  BY DEF Engines
<1>4. c = IF Readable(d) THEN IF m = "mapping" THEN ResumeKeyframes(loaded, k) ELSE loaded
          ELSE ResetGraph(there, {}, m)
  BY DEF Configured
<1> HIDE DEF there, k, c
<1> DEFINE g == d.image.shows
<1>10. g \in SUBSET Strokes
  BY <1>2
<1> HIDE DEF g
<1>11. LET r == ResetGraph(there, g, m) IN
       /\ r \in Engines
       /\ r.mode = there.mode /\ r.dir = there.dir /\ r.of = there.of
       /\ r.grid = g /\ r.graph = {} /\ r.edits = <<>>
       /\ r.saved = 0 /\ r.revision = there.revision + 1
       /\ (m = "mapping" => r.base = g) /\ (m # "mapping" => r.base = {})
  <2>1. there \in Engines /\ g \in SUBSET Strokes /\ m \in Modes
    BY <1>1, <1>10
  <2> QED
    BY <2>1, ResetIs, Zenon
<1>12. LET r == ResetGraph(there, {}, m) IN
       /\ r \in Engines
       /\ r.mode = there.mode /\ r.dir = there.dir /\ r.of = there.of
       /\ r.grid = {} /\ r.graph = {} /\ r.edits = <<>>
       /\ r.saved = 0 /\ r.revision = there.revision + 1
       /\ (m = "mapping" => r.base = {}) /\ (m # "mapping" => r.base = {})
  <2>1. there \in Engines /\ {} \in SUBSET Strokes /\ m \in Modes
    BY <1>1
  <2> QED
    BY <2>1, ResetIs, Zenon
<1>5. /\ loaded \in Engines
      /\ loaded.mode = m /\ loaded.dir = dir /\ loaded.of = dir
      /\ loaded.grid = d.image.shows /\ loaded.graph = {} /\ loaded.edits = <<>> /\ loaded.saved = 0
      /\ loaded.revision = e.revision + 1
      /\ m = "mapping" => loaded.base = d.image.shows
  BY <1>1, <1>11 DEF g
<1> HIDE DEF loaded
<1>6. CASE ~Readable(d)
  <2>1. c = ResetGraph(there, {}, m)
    BY <1>4, <1>6
  <2>2. /\ c \in Engines /\ c.mode = m /\ c.dir = dir /\ c.of = dir /\ c.revision = e.revision + 1
        /\ c.grid = {} /\ c.graph = {} /\ c.edits = <<>> /\ c.saved = 0 /\ c.base = {}
    BY <1>1, <1>12, <2>1
  <2>3. c.grid = Drawn(c)
    BY <2>2, RangeIs DEF Drawn
  <2> QED
    BY <1>3, <1>6, <2>2, <2>3 DEF c
<1>7. CASE Readable(d) /\ m = "localizing"
  <2>1. c = loaded
    BY <1>4, <1>7
  <2> QED
    BY <1>3, <1>5, <1>7, <2>1 DEF c
<1>8. CASE Readable(d) /\ m = "mapping"
  <2>1. c = ResumeKeyframes(loaded, k)
    BY <1>4, <1>8
  <2>2. c \in Engines /\ c.mode = m /\ c.dir = dir /\ c.of = dir /\ c.revision > e.revision
    BY <1>2, <1>3, <1>5, <2>1, ResumeIs DEF Engines
  <2>3. CASE ~k.there
    <3>1. c = loaded
      BY <1>2, <1>5, <2>1, <2>3, ResumeIs
    <3>2. c.grid = Drawn(c)
      BY <1>5, <1>8, <3>1, RangeIs DEF Drawn
    <3> QED
      BY <1>8, <2>2, <3>2 DEF c
  <2>4. CASE k.there
    <3>1. /\ c.graph = k.scans /\ c.base = k.base /\ c.edits = k.edits
          /\ c.grid = d.image.shows \cup Range(k.edits)
      BY <1>2, <1>5, <2>1, <2>4, ResumeIs
    <3>2. d.keys.sha = d.image /\ k = d.keys
      BY <2>4 DEF k, LoadGraph, NoKeys
    <3>3. ASSUME Fits(d.keys) PROVE c.grid = Drawn(c)
      <4>1. d.image.shows = Render(k)
        BY <2>4, <3>2, <3>3 DEF Fits, Image
      <4> QED
        BY <3>1, <4>1 DEF Render, Drawn
    <3> QED
      BY <1>8, <2>2, <3>3 DEF c
  <2> QED
    BY <2>3, <2>4
<1>9. m = "localizing" \/ m = "mapping"
  BY DEF Modes
<1> QED
  BY <1>6, <1>7, <1>8, <1>9 DEF c

LEMMA HalfIs ==
    ASSUME NEW e \in Engines, NEW m \in Modes, NEW dir \in Maps
    PROVE  LET c == HalfConfigured(e, m, dir) IN
           /\ c \in Engines /\ c.mode = m /\ c.dir = dir
           /\ c.of = e.of /\ c.revision = e.revision /\ c.grid = e.grid /\ c.graph = e.graph /\ c.base = e.base
           /\ c.edits = e.edits /\ c.saved = e.saved
  BY DEF HalfConfigured, Engines, NoDir

-----------------------------------------------------------------------------
(* Types and shapes, action by action.                                     *)

FilesBase == FilesTypeOK /\ RepairShape /\ CallShape /\ SaveShape

LEMMA BlanksAre ==
    /\ NoRepair \in Repairs /\ NoRepair.pc = "none"
    /\ NoCall \in MapCommands /\ NoCall.op = "none" /\ NoCall.pc = "idle"
    /\ NoSave \in Saves /\ NoSave.pc = "idle"
    /\ FreshEngine \in Engines /\ FreshEngine.revision = 0
<1>1. NoRepair \in Repairs /\ NoRepair.pc = "none"
  BY PicturesAre DEF NoRepair, Repairs, RepairSteps, NoDir
<1>2. NoCall \in MapCommands /\ NoCall.op = "none" /\ NoCall.pc = "idle"
  BY DEF NoCall, MapCommands, Ops, CallSteps, NoDir, Modes
<1>3. <<>> \in Seq(Strokes)
  OBVIOUS
<1>4. NoSave \in Saves /\ NoSave.pc = "idle"
  BY <1>3, PicturesAre DEF NoSave, Saves, NoDir, Modes
<1>5. FreshEngine \in Engines /\ FreshEngine.revision = 0
  BY <1>3 DEF FreshEngine, Engines, NoDir, Modes
<1> QED
  BY <1>1, <1>2, <1>4, <1>5

LEMMA BootBase == ASSUME FilesBase, NEW md \in Modes, Boot(md) PROVE FilesBase'
<1>1. /\ FilesTypeOK /\ ~up /\ up' = TRUE /\ mode' = md
      /\ eng' = Configured(FreshEngine, md, active, disk[active])
      /\ UNCHANGED <<disk, active, lock, job, cancel, rep, call, save, strokes, before, careless>>
  BY DEF Boot, FilesBase, bounds
<1>2. eng' \in Engines
  BY <1>1, BlanksAre, ConfiguredIs DEF FilesTypeOK
<1>3. FilesTypeOK'
  BY <1>1, <1>2 DEF FilesTypeOK
<1> QED
  BY <1>1, <1>3 DEF FilesBase, RepairShape, CallShape, SaveShape, Alive

LEMMA CrashBase == ASSUME FilesBase, Crash PROVE FilesBase'
<1>1. /\ FilesTypeOK /\ up' = FALSE /\ eng' = FreshEngine /\ lock' = "free" /\ job' = "free" /\ cancel' = FALSE
      /\ rep' = NoRepair /\ call' = NoCall /\ save' = [t \in Savers |-> NoSave]
      /\ UNCHANGED <<disk, active, mode, strokes, before, careless>>
  BY DEF Crash, FilesBase
<1>2. save' \in [Savers -> Saves] /\ \A t \in Savers : save'[t].pc = "idle"
  BY <1>1, BlanksAre
<1>3. FilesTypeOK'
  BY <1>1, <1>2, BlanksAre DEF FilesTypeOK
<1>4. RepairShape' /\ CallShape'
  BY <1>1, BlanksAre DEF RepairShape, CallShape, Alive
<1>5. SaveShape'
  BY <1>1, <1>2 DEF SaveShape, Savers
<1> QED
  BY <1>3, <1>4, <1>5 DEF FilesBase

LEMMA ScanBase == ASSUME FilesBase, Scan PROVE FilesBase'
<1>1. /\ FilesTypeOK /\ strokes < MaxStrokes /\ strokes' = strokes + 1
      /\ eng' = [eng EXCEPT !.grid = @ \cup {strokes + 1}, !.graph = @ \cup {strokes + 1}]
      /\ UNCHANGED <<disk, active, mode, up, lock, job, cancel, rep, call, save, before, careless>>
  BY DEF Scan, FilesBase
<1>2. strokes + 1 \in Strokes
  BY <1>1, StrokesAre DEF FilesTypeOK, Strokes
<1>3. eng' \in Engines
  BY <1>1, <1>2 DEF FilesTypeOK, Engines
<1>4. FilesTypeOK'
  BY <1>1, <1>2, <1>3 DEF FilesTypeOK
<1> QED
  BY <1>1, <1>4 DEF FilesBase, RepairShape, CallShape, SaveShape, Alive

\* A command that was issued.
LEMMA IssuedBase ==
    ASSUME FilesBase, NEW c \in MapCommands, up, call = NoCall, call' = c,
           c = NoCall \/ /\ c.op \in {"start", "save", "undo", "edit", "repair", "clear"} /\ c.map \in Maps
                         /\ c.pc = IF c.op = "start" THEN "switch" ELSE "run",
           active' \in Maps, disk' \in [Maps -> Dirs], careless' \in BOOLEAN,
           UNCHANGED <<mode, up, eng, lock, job, cancel, rep, save, strokes, before>>
    PROVE  FilesBase'
<1>1. FilesTypeOK /\ RepairShape /\ CallShape /\ SaveShape
  BY DEF FilesBase
<1>2. FilesTypeOK'
  BY <1>1 DEF FilesTypeOK
<1>3. RepairShape'
  BY <1>1 DEF RepairShape, Alive
<1>4. CallShape'
  BY <1>1, BlanksAre DEF CallShape
<1>5. SaveShape'
  BY <1>1, BlanksAre DEF SaveShape
<1> QED
  BY <1>2, <1>3, <1>4, <1>5 DEF FilesBase

LEMMA ClientBase == ASSUME FilesBase, Client PROVE FilesBase'
<1>0. FilesTypeOK
  BY DEF FilesBase
<1>1. ASSUME NEW m \in Maps, NEW md \in Modes, Start(m, md) PROVE FilesBase'
  <2> DEFINE r == [NoCall EXCEPT !.op = "start", !.pc = "switch", !.map = m, !.mode = md]
             c == IF md = "localizing" /\ ~HasOccupancyMap(disk[m]) THEN NoCall ELSE r
  <2>1. /\ up /\ call = NoCall /\ call' = c /\ active' = m /\ careless' \in BOOLEAN
        /\ UNCHANGED <<disk, mode, up, eng, lock, job, cancel, rep, save, strokes, before>>
    BY <1>0, <1>1 DEF Start, Issue, FilesTypeOK
  <2>4. r \in MapCommands /\ r.op = "start" /\ r.map \in Maps /\ r.pc = "switch"
    BY BlanksAre DEF MapCommands, Ops, CallSteps, NoDir
  <2> HIDE DEF r
  <2>5. c = NoCall \/ c = r
    BY Zenon
  <2> HIDE DEF c
  <2>2. c \in MapCommands /\ (c = NoCall \/ (c.op = "start" /\ c.map \in Maps /\ c.pc = "switch"))
    BY <2>4, <2>5, BlanksAre
  <2>3. c = NoCall \/ /\ c.op \in {"start", "save", "undo", "edit", "repair", "clear"} /\ c.map \in Maps
                      /\ c.pc = IF c.op = "start" THEN "switch" ELSE "run"
    BY <2>2
  <2> QED
    BY <1>0, <2>1, <2>2, <2>3, IssuedBase DEF FilesTypeOK
<1>2. ASSUME NEW m \in Maps, SetActive(m) PROVE FilesBase'
  <2>1. /\ up /\ call = NoCall /\ call' = NoCall /\ active' = m /\ careless' \in BOOLEAN
        /\ UNCHANGED <<disk, mode, up, eng, lock, job, cancel, rep, save, strokes, before>>
    BY <1>0, <1>2 DEF SetActive, Issue, FilesTypeOK
  <2> QED
    BY <1>0, <2>1, BlanksAre, IssuedBase DEF FilesTypeOK
<1>3. ASSUME NEW m \in Maps, DeleteMap(m) PROVE FilesBase'
  <2>1. /\ up /\ call = NoCall /\ call' = NoCall /\ disk' = [disk EXCEPT ![m] = EmptyDir] /\ careless' \in BOOLEAN
        /\ UNCHANGED <<active, mode, up, eng, lock, job, cancel, rep, save, strokes, before>>
    BY <1>0, <1>3 DEF DeleteMap, Issue, FilesTypeOK
  <2>2. disk' \in [Maps -> Dirs]
    BY <1>0, <2>1, PicturesAre DEF FilesTypeOK
  <2> QED
    BY <1>0, <2>1, <2>2, BlanksAre, IssuedBase DEF FilesTypeOK
<1>4. ASSUME NEW op \in {"save", "undo", "edit", "repair"}, NEW arg \in {"auto", "force", "never"}, OnActive(op, arg)
      PROVE FilesBase'
  <2> DEFINE r == [NoCall EXCEPT !.op = op, !.pc = "run", !.map = active, !.arg = arg]
             c == IF op = "repair" /\ mode # "mapping" THEN NoCall ELSE r
  <2>1. /\ up /\ call = NoCall /\ call' = c /\ careless' \in BOOLEAN
        /\ UNCHANGED <<disk, active, mode, up, eng, lock, job, cancel, rep, save, strokes, before>>
    BY <1>0, <1>4 DEF OnActive, Issue, FilesTypeOK
  <2>4. r \in MapCommands /\ r.op = op /\ r.map \in Maps /\ r.pc = "run"
    BY <1>0, BlanksAre DEF MapCommands, Ops, CallSteps, NoDir, FilesTypeOK
  <2> HIDE DEF r
  <2>5. c = NoCall \/ c = r
    BY Zenon
  <2> HIDE DEF c
  <2>2. c \in MapCommands /\ (c = NoCall \/ (c.op = op /\ c.map \in Maps /\ c.pc = "run"))
    BY <2>4, <2>5, BlanksAre
  <2>3. c = NoCall \/ /\ c.op \in {"start", "save", "undo", "edit", "repair", "clear"} /\ c.map \in Maps
                      /\ c.pc = IF c.op = "start" THEN "switch" ELSE "run"
    BY <2>2
  <2> QED
    BY <1>0, <2>1, <2>2, <2>3, IssuedBase DEF FilesTypeOK
<1>5. ASSUME ClearMap PROVE FilesBase'
  <2> DEFINE c == [NoCall EXCEPT !.op = "clear", !.pc = "run", !.map = active]
  <2>1. /\ up /\ call = NoCall /\ call' = c /\ disk' = [disk EXCEPT ![active] = EmptiedDir(@)] /\ careless' \in BOOLEAN
        /\ UNCHANGED <<active, mode, up, eng, lock, job, cancel, rep, save, strokes, before>>
    BY <1>0, <1>5 DEF ClearMap, Issue, FilesTypeOK
  <2>2. disk' \in [Maps -> Dirs]
    BY <1>0, <2>1, PicturesAre DEF FilesTypeOK, EmptiedDir
  <2>3. c \in MapCommands /\ c.op = "clear" /\ c.map \in Maps /\ c.pc = "run"
    BY <1>0, BlanksAre DEF MapCommands, Ops, CallSteps, NoDir, FilesTypeOK
  <2> HIDE DEF c
  <2> QED
    BY <1>0, <2>1, <2>2, <2>3, IssuedBase DEF FilesTypeOK
<1> QED
  BY <1>1, <1>2, <1>3, <1>4, <1>5 DEF Client

\* A command's next step.
LEMMA CallMoves ==
    ASSUME NEW x \in CallSteps, call \in MapCommands
    PROVE  LET c == [call EXCEPT !.pc = x] IN
           /\ c \in MapCommands /\ c.pc = x /\ c.op = call.op /\ c.map = call.map /\ c.mode = call.mode
           /\ c.want = call.want /\ c.sound = call.sound /\ c.arg = call.arg
  BY DEF MapCommands

\* The command goes on or ends; nothing else that a shape speaks of changes.
LEMMA GoesOn ==
    ASSUME FilesBase, call.op # "none", call' \in MapCommands,
           \/ call' = NoCall
           \/ /\ call'.op = call.op /\ call'.map = call.map
              /\ call.op = "start" => call'.pc \in {"switch", "join", "load"}
              /\ call.op = "undo" => call'.pc \in {"run", "job", "switch", "join", "load"}
              /\ call.op \notin {"save", "edit", "repair", "clear"},
           save["client"].pc = "idle", call.pc \notin {"copy", "keys", "drop"},
           cancel' \in BOOLEAN, careless' \in BOOLEAN,
           UNCHANGED <<disk, active, mode, up, eng, lock, job, rep, save, strokes, before>>
    PROVE  FilesBase'
<1>1. FilesTypeOK /\ RepairShape /\ CallShape /\ SaveShape
  BY DEF FilesBase
<1>2. FilesTypeOK'
  BY <1>1 DEF FilesTypeOK
<1>3. RepairShape'
  BY <1>1 DEF RepairShape, Alive
<1>4. CallShape'
  BY <1>1, BlanksAre DEF CallShape
<1>5. SaveShape'
  BY <1>1 DEF SaveShape
<1> QED
  BY <1>2, <1>3, <1>4, <1>5 DEF FilesBase

LEMMA WaitsBase == ASSUME FilesBase, Switch \/ Joined \/ JoinTimeout \/ UndoBegins PROVE FilesBase'
<1>0. FilesTypeOK /\ CallShape /\ SaveShape
  BY DEF FilesBase
<1>1. ASSUME NEW x \in CallSteps, call.op \in {"start", "undo"}, call.pc \in {"switch", "join", "run"},
             call' = [call EXCEPT !.pc = x], x \in {"join", "load", "job"},
             call.op = "start" => x # "job", cancel' \in BOOLEAN, careless' \in BOOLEAN,
             UNCHANGED <<disk, active, mode, up, eng, lock, job, rep, save, strokes, before>>
      PROVE  FilesBase'
  <2>1. call' \in MapCommands /\ call'.pc = x /\ call'.op = call.op /\ call'.map = call.map
    <3>1. x \in CallSteps /\ call \in MapCommands
      BY <1>0 DEF FilesTypeOK
    <3> QED
      BY <1>1, <3>1, CallMoves, Zenon
  <2>2. save["client"].pc = "idle"
    BY <1>0, <1>1 DEF SaveShape
  <2> QED
    BY <1>1, <2>1, <2>2, GoesOn
<1>2. CASE Switch
  <2>1. call.pc = "switch" /\ call.op \in {"start", "undo"}
    BY <1>0, <1>2, BlanksAre DEF Switch, CallShape, FilesTypeOK, MapCommands, Ops
  <2>2. cancel' \in BOOLEAN
    BY <1>0, <1>2 DEF Switch, FilesTypeOK
  <2>3. "join" \in CallSteps /\ "load" \in CallSteps
    BY DEF CallSteps
  <2>4. call' = [call EXCEPT !.pc = "join"] \/ call' = [call EXCEPT !.pc = "load"]
    BY <1>2, Zenon DEF Switch
  <2> QED
    BY <1>0, <1>1, <1>2, <2>1, <2>2, <2>3, <2>4 DEF Switch, bounds, FilesTypeOK
<1>3. CASE Joined \/ JoinTimeout
  <2>1. call.pc = "join" /\ call.op \in {"start", "undo"}
    BY <1>0, <1>3, BlanksAre DEF Joined, JoinTimeout, CallShape, FilesTypeOK, MapCommands, Ops
  <2>2. cancel' \in BOOLEAN /\ careless' \in BOOLEAN
    BY <1>0, <1>3 DEF Joined, JoinTimeout, FilesTypeOK
  <2>3. "load" \in CallSteps
    BY DEF CallSteps
  <2> QED
    BY <1>0, <1>1, <1>3, <2>1, <2>2, <2>3 DEF Joined, JoinTimeout, bounds
<1>4. CASE UndoBegins
  <2>1. call.pc = "run" /\ call.op = "undo"
    BY <1>4 DEF UndoBegins, At
  <2>2. cancel' \in BOOLEAN /\ careless' \in BOOLEAN
    BY <1>0, <1>4 DEF UndoBegins, FilesTypeOK
  <2>3. "job" \in CallSteps
    BY DEF CallSteps
  <2>4. CASE disk[call.map].backup.there
    BY <1>0, <1>1, <1>4, <2>1, <2>2, <2>3, <2>4 DEF UndoBegins, bounds
  <2>5. CASE ~disk[call.map].backup.there
    <3>1. call' = NoCall /\ save["client"].pc = "idle"
      BY <1>0, <1>4, <2>1, <2>5 DEF UndoBegins, SaveShape
    <3> QED
      BY <1>4, <2>1, <2>2, <3>1, GoesOn, BlanksAre DEF UndoBegins, bounds
  <2> QED
    BY <2>4, <2>5
<1> QED
  BY <1>2, <1>3, <1>4

LEMMA MovedIs ==
    ASSUME rep \in Repairs
    PROVE  /\ Moved \in Repairs /\ Moved.pc = rep.pc /\ Moved.dir = rep.dir /\ Moved.apply = rep.apply
           /\ Moved.revision = rep.revision /\ Moved.copied = rep.copied /\ Moved.moved = Alive
<1> DEFINE b == rep.pc # "none"
<1>1. b \in BOOLEAN /\ Moved = [rep EXCEPT !.moved = b] /\ Alive = b
  BY DEF Moved, Alive
<1> HIDE DEF b
<1> QED
  BY <1>1 DEF Repairs

LEMMA LoadBase == ASSUME FilesBase, Load PROVE FilesBase'
<1>0. FilesTypeOK /\ RepairShape /\ CallShape /\ SaveShape
  BY DEF FilesBase
<1>1. /\ call.pc = "load" /\ call.op \in {"start", "undo"} /\ call.map \in Maps /\ up /\ call' = NoCall
      /\ save["client"].pc = "idle" /\ call.mode \in Modes
      /\ Configure(call.mode, call.map)
      /\ UNCHANGED <<disk, active, up, lock, job, cancel, save, strokes, before, careless>>
  BY <1>0, BlanksAre DEF Load, CallShape, SaveShape, FilesTypeOK, MapCommands, Ops, bounds
<1>2. mode' \in Modes
  BY <1>0, <1>1 DEF Load, FilesTypeOK
<1>3. eng' \in Engines /\ rep' \in Repairs /\ rep'.pc = rep.pc /\ rep'.dir = rep.dir
  <2>1. eng \in Engines /\ call.mode \in Modes /\ call.map \in Maps /\ disk[call.map] \in Dirs
    BY <1>0, <1>1 DEF FilesTypeOK
  <2>2. CASE ConfigureFails(call.mode, disk[call.map])
    <3>1. eng' = HalfConfigured(eng, call.mode, call.map) /\ rep' = rep
      BY <1>1, <2>2 DEF Configure
    <3>2. HalfConfigured(eng, call.mode, call.map) \in Engines
      BY <2>1, HalfIs, Zenon
    <3> QED
      BY <1>0, <3>1, <3>2 DEF FilesTypeOK
  <2>3. CASE ~ConfigureFails(call.mode, disk[call.map])
    <3>1. eng' = Configured(eng, call.mode, call.map, disk[call.map]) /\ rep' = Moved
      BY <1>1, <2>3 DEF Configure
    <3>2. Configured(eng, call.mode, call.map, disk[call.map]) \in Engines
      BY <2>1, ConfiguredIs, Zenon
    <3> QED
      BY <1>0, <3>1, <3>2, MovedIs DEF FilesTypeOK
  <2> QED
    BY <2>2, <2>3
<1>4. FilesTypeOK'
  BY <1>0, <1>1, <1>2, <1>3, BlanksAre DEF FilesTypeOK
<1>5. RepairShape'
  BY <1>0, <1>1, <1>3 DEF RepairShape, Alive
<1>6. CallShape'
  BY <1>0, <1>1, BlanksAre DEF CallShape
<1>7. SaveShape'
  BY <1>0, <1>1, <1>3 DEF SaveShape
<1> QED
  BY <1>4, <1>5, <1>6, <1>7 DEF FilesBase

LEMMA SaveMoves ==
    ASSUME FilesTypeOK, NEW t \in Savers, NEW s \in Saves, save' = [save EXCEPT ![t] = s]
    PROVE  /\ save' \in [Savers -> Saves] /\ save'[t] = s
           /\ \A o \in Savers : o # t => save'[o] = save[o]
  BY DEF FilesTypeOK

LEMMA DiskMoves ==
    ASSUME FilesTypeOK, NEW m \in Maps, NEW d \in Dirs, disk' = [disk EXCEPT ![m] = d]
    PROVE  /\ disk' \in [Maps -> Dirs] /\ disk'[m] = d
           /\ \A o \in Maps : o # m => disk'[o] = disk[o]
  BY DEF FilesTypeOK

\* What a save notes when it begins and what it takes with it under the lock.
LEMMA BeganIs ==
    ASSUME NEW m \in Maps, NEW d \in Dirs
    PROVE  LET s == [NoSave EXCEPT !.pc = "image", !.dir = m, !.old = d.image] IN
           s \in Saves /\ s.pc = "image" /\ s.dir = m /\ s.old = d.image
  BY BlanksAre DEF Saves, Dirs, NoDir

LEMMA PayloadIs ==
    ASSUME NEW e \in Engines, NEW s \in Saves
    PROVE  LET p == Payload(e, s) IN
           /\ p \in Saves /\ p.pc = "keys" /\ p.dir = s.dir /\ p.old = s.old
           /\ (p.live <=> e.graph # {}) /\ p.mode = e.mode /\ p.grid = e.grid
           /\ p.keys = Keys(Image(e.grid), e.base, e.graph, e.edits)
           /\ p.fresh = SubSeq(e.edits, e.saved + 1, Len(e.edits))
<1> DEFINE live == e.graph # {}
           keys == Keys(Image(e.grid), e.base, e.graph, e.edits)
           fresh == SubSeq(e.edits, e.saved + 1, Len(e.edits))
           p == [s EXCEPT !.pc = "keys", !.live = live, !.mode = e.mode, !.grid = e.grid, !.keys = keys,
                          !.fresh = fresh]
<1>1. Payload(e, s) = p
  BY DEF Payload
<1>2. e.edits \in Seq(Strokes) /\ e.saved \in Nat /\ e.grid \in SUBSET Strokes /\ e.base \in SUBSET Strokes
      /\ e.graph \in SUBSET Strokes /\ e.mode \in Modes
  BY DEF Engines
<1>3. fresh \in Seq(Strokes) /\ live \in BOOLEAN
  BY <1>2, TailIs
<1>4. keys \in KeyFiles
  BY <1>2, KeysAre, PicturesAre
<1> HIDE DEF live, keys, fresh
<1>5. /\ p \in Saves /\ p.pc = "keys" /\ p.dir = s.dir /\ p.old = s.old
      /\ p.live = live /\ p.mode = e.mode /\ p.grid = e.grid /\ p.keys = keys /\ p.fresh = fresh
  BY <1>2, <1>3, <1>4 DEF Saves
<1> HIDE DEF p
<1> QED
  BY <1>1, <1>5 DEF live, keys, fresh

LEMMA SaveBeginsBase == ASSUME FilesBase, SaveBegins PROVE FilesBase'
<1>0. FilesTypeOK /\ RepairShape /\ CallShape /\ SaveShape
  BY DEF FilesBase
<1>1. /\ call.op = "save" /\ call.pc = "run" /\ call.map \in Maps /\ lock = "free" /\ lock' = "client"
      /\ disk' = [disk EXCEPT ![call.map] = BeginImage(disk[call.map])]
      /\ save' = [save EXCEPT !["client"] = [NoSave EXCEPT !.pc = "image", !.dir = call.map,
                                                           !.old = disk[call.map].image]]
      /\ call' = [call EXCEPT !.pc = "saving"]
      /\ UNCHANGED <<active, mode, up, eng, job, cancel, rep, strokes, before, careless>>
  BY <1>0 DEF SaveBegins, At, BeginSave, bounds, CallShape, FilesTypeOK
<1>2. call' \in MapCommands /\ call'.pc = "saving" /\ call'.op = call.op /\ call'.map = call.map
  <2>1. "saving" \in CallSteps /\ call \in MapCommands
    BY <1>0 DEF FilesTypeOK, CallSteps
  <2> QED
    BY <1>1, <2>1, CallMoves, Zenon
<1>3. disk[call.map] \in Dirs /\ BeginImage(disk[call.map]) \in Dirs
  BY <1>0, <1>1, DirsAre DEF FilesTypeOK
<1>4. disk' \in [Maps -> Dirs]
  BY <1>0, <1>1, <1>3, DiskMoves
<1> DEFINE s == [NoSave EXCEPT !.pc = "image", !.dir = call.map, !.old = disk[call.map].image]
<1>5. s \in Saves /\ s.pc = "image" /\ s.dir = call.map
  BY <1>1, <1>3, BeganIs, Zenon
<1>9. save' = [save EXCEPT !["client"] = s]
  BY <1>1
<1> HIDE DEF s
<1>6. save' \in [Savers -> Saves] /\ save'["client"] = s /\ save'["repairer"] = save["repairer"]
  BY <1>0, <1>9, <1>5, SaveMoves DEF Savers
<1>7. FilesTypeOK'
  BY <1>0, <1>1, <1>2, <1>4, <1>6 DEF FilesTypeOK, Savers
<1>8. RepairShape' /\ CallShape'
  BY <1>0, <1>1, <1>2 DEF RepairShape, CallShape, Alive
<1>10. SaveShape'
  BY <1>0, <1>1, <1>2, <1>5, <1>6 DEF SaveShape, Savers
<1> QED
  BY <1>7, <1>8, <1>10 DEF FilesBase

LEMMA SaveImageBase == ASSUME FilesBase, NEW t \in Savers, SaveImage(t) PROVE FilesBase'
<1>0. FilesTypeOK /\ RepairShape /\ CallShape /\ SaveShape
  BY DEF FilesBase
<1>1. /\ save[t].pc = "image" /\ lock' = "free"
      /\ disk' = [disk EXCEPT ![save[t].dir] = EndImage(disk[save[t].dir], eng.grid)]
      /\ eng' = [eng EXCEPT !.dir = save[t].dir]
      /\ save' = [save EXCEPT ![t] = Payload(eng, save[t])]
      /\ UNCHANGED <<active, mode, up, job, cancel, rep, call, strokes, before, careless>>
  BY <1>0 DEF SaveImage, bounds, FilesTypeOK
<1>2. save[t].dir \in Maps /\ save[t] \in Saves /\ lock = t
  BY <1>0, <1>1 DEF SaveShape, CallShape, RepairShape, FilesTypeOK, Savers, Alive
<1>3. EndImage(disk[save[t].dir], eng.grid) \in Dirs
  BY <1>0, <1>2, DirsAre DEF FilesTypeOK, Engines
<1>4. disk' \in [Maps -> Dirs]
  BY <1>0, <1>1, <1>2, <1>3, DiskMoves
<1>5. eng' \in Engines
  BY <1>0, <1>1, <1>2 DEF FilesTypeOK, Engines, NoDir
<1>6. Payload(eng, save[t]) \in Saves /\ Payload(eng, save[t]).pc = "keys" /\ Payload(eng, save[t]).dir = save[t].dir
  <2>1. eng \in Engines /\ save[t] \in Saves
    BY <1>0, <1>2 DEF FilesTypeOK
  <2> QED
    BY <2>1, PayloadIs, Zenon
<1>7. /\ save' \in [Savers -> Saves] /\ save'[t].pc = "keys" /\ save'[t].dir = save[t].dir
      /\ \A o \in Savers : o # t => save'[o] = save[o]
  BY <1>0, <1>1, <1>6, SaveMoves
<1>8. FilesTypeOK'
  BY <1>0, <1>1, <1>4, <1>5, <1>7 DEF FilesTypeOK
<1>9. RepairShape' /\ CallShape'
  BY <1>0, <1>1 DEF RepairShape, CallShape, Alive
<1>10. SaveShape'
  BY <1>0, <1>1, <1>2, <1>7 DEF SaveShape, Savers
<1> QED
  BY <1>8, <1>9, <1>10 DEF FilesBase

LEMMA SaveKeysBase == ASSUME FilesBase, NEW t \in Savers, SaveKeys(t) PROVE FilesBase'
<1>0. FilesTypeOK /\ RepairShape /\ CallShape /\ SaveShape
  BY DEF FilesBase
<1> DEFINE s == save[t]
           kept == LoadGraph(disk[s.dir], s.old)
           rewritten == Keys(Image(s.grid), kept.base, kept.scans, kept.edits \o s.fresh)
<1>1. /\ s.pc = "keys" /\ save' = [save EXCEPT ![t] = [s EXCEPT !.pc = "end"]]
      /\ UNCHANGED <<active, mode, up, lock, job, cancel, rep, call, strokes, before, careless>>
  BY <1>0 DEF SaveKeys, bounds, FilesTypeOK
<1>2. \/ disk' = [disk EXCEPT ![s.dir] = WriteKeys(disk[s.dir], s.keys)]
         /\ eng' = [eng EXCEPT !.saved = Len(s.keys.edits)]
      \/ disk' = [disk EXCEPT ![s.dir] = WriteKeys(disk[s.dir], rewritten)]
         /\ eng' = [eng EXCEPT !.saved = eng.saved + Len(s.fresh)]
      \/ UNCHANGED <<disk, eng>>
  BY <1>0 DEF SaveKeys, FilesTypeOK, Engines
<1>3. s \in Saves /\ s.dir \in Maps
  BY <1>0, <1>1 DEF SaveShape, CallShape, RepairShape, FilesTypeOK, Savers, Alive
<1>4. disk[s.dir] \in Dirs /\ s.old \in Image_ /\ s.keys \in KeyFiles /\ s.fresh \in Seq(Strokes) /\ s.grid \in SUBSET Strokes
  BY <1>0, <1>3 DEF FilesTypeOK, Saves
<1>5. kept \in KeyFiles
  BY <1>4, LoadIs
<1>6. rewritten \in KeyFiles
  <2> HIDE DEF kept
  <2>1. Image(s.grid) \in Image_ /\ kept.base \in SUBSET Strokes /\ kept.scans \in SUBSET Strokes
        /\ kept.edits \o s.fresh \in Seq(Strokes)
    BY <1>4, <1>5, RangeIs, PicturesAre DEF KeyFiles
  <2> QED
    BY <2>1, KeysAre
<1>7. WriteKeys(disk[s.dir], s.keys) \in Dirs /\ WriteKeys(disk[s.dir], rewritten) \in Dirs
  <2> HIDE DEF rewritten
  <2> QED
    BY <1>4, <1>6, DirsAre
<1>8. disk' \in [Maps -> Dirs]
  <2> HIDE DEF rewritten
  <2> QED
    BY <1>0, <1>2, <1>3, <1>7 DEF FilesTypeOK
<1>9. eng' \in Engines
  <2> DEFINE a == Len(s.keys.edits)
             b == eng.saved + Len(s.fresh)
  <2>1. a \in Nat /\ b \in Nat
    BY <1>0, <1>4 DEF KeyFiles, FilesTypeOK, Engines
  <2>2. eng' = [eng EXCEPT !.saved = a] \/ eng' = [eng EXCEPT !.saved = b] \/ eng' = eng
    BY <1>2
  <2> HIDE DEF a, b
  <2> QED
    BY <1>0, <2>1, <2>2 DEF FilesTypeOK, Engines
<1>10. [s EXCEPT !.pc = "end"] \in Saves /\ [s EXCEPT !.pc = "end"].pc = "end" /\ [s EXCEPT !.pc = "end"].dir = s.dir
  BY <1>3 DEF Saves
<1>11. /\ save' \in [Savers -> Saves] /\ save'[t].pc = "end" /\ save'[t].dir = s.dir
       /\ \A o \in Savers : o # t => save'[o] = save[o]
  BY <1>0, <1>1, <1>10, SaveMoves
<1>12. FilesTypeOK'
  BY <1>0, <1>1, <1>8, <1>9, <1>11 DEF FilesTypeOK
<1>13. RepairShape' /\ CallShape'
  BY <1>0, <1>1 DEF RepairShape, CallShape, Alive
<1>14. SaveShape'
  BY <1>0, <1>1, <1>11 DEF SaveShape, Savers
<1> QED
  BY <1>12, <1>13, <1>14 DEF FilesBase

\* A repair that was asked for.
LEMMA StartIs ==
    ASSUME FilesBase, NEW m \in Maps, NEW a \in {"auto", "force", "never"}, StartRepair(m, a), up
    PROVE  /\ rep' \in Repairs
           /\ \/ rep' = rep
              \/ ~Alive /\ rep'.pc = "start" /\ rep'.dir = m /\ rep'.copied = NoBackup
<1>0. FilesTypeOK
  BY DEF FilesBase
<1> DEFINE r == [NoRepair EXCEPT !.pc = "start", !.dir = m, !.apply = a]
<1>1. r \in Repairs /\ r.pc = "start" /\ r.dir = m
  BY BlanksAre DEF Repairs, RepairSteps, NoDir
<1>3. r.copied = NoBackup
  BY BlanksAre DEF Repairs, NoRepair
<1>2. rep' = rep \/ (~Alive /\ rep' = r)
  BY DEF StartRepair
<1> HIDE DEF r
<1> QED
  BY <1>0, <1>1, <1>2, <1>3 DEF FilesTypeOK

LEMMA AskedBase == ASSUME FilesBase, SaveEnds \/ RepairMap PROVE FilesBase'
<1>0. FilesTypeOK /\ RepairShape /\ CallShape /\ SaveShape
  BY DEF FilesBase
<1>1. /\ call.op \in {"save", "repair"} /\ call.pc \in {"run", "saving"} /\ call.map \in Maps /\ up /\ call' = NoCall
      /\ call.arg \in {"auto", "force", "never"}
      /\ UNCHANGED <<disk, active, mode, up, eng, lock, job, cancel, strokes, before, careless>>
  BY <1>0 DEF SaveEnds, RepairMap, At, CallShape, bounds, FilesTypeOK, MapCommands
<1>2. /\ save' \in [Savers -> Saves] /\ save'["repairer"] = save["repairer"] /\ save'["client"].pc = "idle"
      /\ save["client"].pc \in {"end", "idle"}
  <2>1. CASE SaveEnds
    <3>1. save' = [save EXCEPT !["client"] = NoSave] /\ save["client"].pc = "end"
      BY <2>1 DEF SaveEnds
    <3> QED
      BY <1>0, <3>1, BlanksAre, SaveMoves DEF Savers
  <2>2. CASE RepairMap
    BY <1>0, <2>2 DEF RepairMap, At, SaveShape, FilesTypeOK
  <2> QED
    BY <2>1, <2>2
<1>3. rep' \in Repairs /\ (rep' = rep \/ (~Alive /\ rep'.pc = "start" /\ rep'.dir = call.map))
  <2>1. rep' = rep \/ (\E a \in {"auto", "force", "never"} : StartRepair(call.map, a))
    BY <1>1 DEF SaveEnds, RepairMap
  <2>2. CASE rep' = rep
    BY <1>0, <2>2 DEF FilesTypeOK
  <2>3. ASSUME NEW a \in {"auto", "force", "never"}, StartRepair(call.map, a)
        PROVE  rep' \in Repairs /\ (rep' = rep \/ (~Alive /\ rep'.pc = "start" /\ rep'.dir = call.map))
    BY <1>1, <2>3, StartIs
  <2> QED
    BY <2>1, <2>2, <2>3
<1>4. FilesTypeOK'
  BY <1>0, <1>1, <1>2, <1>3, BlanksAre DEF FilesTypeOK
<1>5. RepairShape'
  BY <1>0, <1>1, <1>3 DEF RepairShape, Alive
<1>6. CallShape'
  BY <1>0, <1>1, BlanksAre DEF CallShape
<1>7. SaveShape'
  BY <1>0, <1>1, <1>2, <1>3 DEF SaveShape, Savers, Alive
<1> QED
  BY <1>4, <1>5, <1>6, <1>7 DEF FilesBase

LEMMA UndoBase == ASSUME FilesBase, UndoTakesJob \/ UndoImage \/ UndoKeys \/ UndoDrops PROVE FilesBase'
<1>0. FilesTypeOK /\ RepairShape /\ CallShape /\ SaveShape
  BY DEF FilesBase
<1> DEFINE m == call.map
           d == disk[m]
<1>1. /\ call.op = "undo" /\ m \in Maps /\ d \in Dirs /\ save["client"].pc = "idle"
      /\ UNCHANGED <<active, mode, up, eng, lock, cancel, rep, save, strokes, before, careless>>
  BY <1>0 DEF UndoTakesJob, UndoImage, UndoKeys, UndoDrops, At, CallShape, SaveShape, bounds, FilesTypeOK
<1>2. call' \in MapCommands /\ call'.op = "undo" /\ call'.map = m
      /\ call'.pc \in {"copy", "keys", "drop", "switch"}
      /\ (call'.pc = "switch" => UndoDrops)
  <2>1. CASE UndoTakesJob
    <3> DEFINE w == before[m]
               g == Readable(d.backup)
    <3>1. call' = [call EXCEPT !.pc = "copy", !.want = w, !.sound = g]
      BY <2>1 DEF UndoTakesJob
    <3>2. w \in SUBSET Strokes /\ g \in BOOLEAN
      BY <1>0, <1>1 DEF FilesTypeOK, Readable, Dirs, Backups
    <3> HIDE DEF w, g
    <3> QED
      BY <1>0, <1>1, <3>1, <3>2 DEF FilesTypeOK, MapCommands, CallSteps
  <2>2. CASE UndoImage
    BY <1>0, <1>1, <2>2 DEF UndoImage, FilesTypeOK, MapCommands, CallSteps
  <2>3. CASE UndoKeys
    BY <1>0, <1>1, <2>3 DEF UndoKeys, FilesTypeOK, MapCommands, CallSteps
  <2>4. CASE UndoDrops
    <3>1. call' = [call EXCEPT !.pc = "switch", !.mode = eng.mode] /\ eng.mode \in Modes
      BY <1>0, <2>4 DEF UndoDrops, FilesTypeOK, Engines
    <3> QED
      BY <1>0, <1>1, <2>4, <3>1 DEF FilesTypeOK, MapCommands, CallSteps
  <2> QED
    BY <2>1, <2>2, <2>3, <2>4
<1>3. disk' \in [Maps -> Dirs]
  <2>1. BeginImage(d) \in Dirs /\ RestoreImage(d) \in Dirs /\ EndDropBackup(d) \in Dirs
        /\ BeginDropBackup(RestoreKeys(d)) \in Dirs
    BY <1>1, DirsAre
  <2>2. \E x \in Dirs : disk' = [disk EXCEPT ![m] = x]
    BY <2>1 DEF UndoTakesJob, UndoImage, UndoKeys, UndoDrops
  <2> QED
    BY <1>0, <1>1, <2>2, DiskMoves
<1>4. /\ job' \in {"free", "client", "repairer"}
      /\ (call'.pc \in {"copy", "keys", "drop"} <=> job' = "client")
      /\ (job' = "repairer" <=> job = "repairer")
  <2>1. CASE UndoTakesJob
    <3>1. call' = [call EXCEPT !.pc = "copy", !.want = before[m], !.sound = Readable(d.backup)] /\ job = "free" /\ job' = "client"
      BY <2>1 DEF UndoTakesJob
    <3>2. call'.pc = "copy"
      BY <1>0, <3>1, Zenon DEF FilesTypeOK, MapCommands
    <3> QED
      BY <3>1, <3>2
  <2>2. CASE UndoImage
    <3>1. call'.pc = "keys" /\ call.pc = "copy" /\ job' = job
      BY <1>0, <2>2 DEF UndoImage, At, FilesTypeOK, MapCommands
    <3> QED
      BY <1>0, <1>1, <3>1 DEF CallShape, FilesTypeOK
  <2>3. CASE UndoKeys
    <3>1. call'.pc = "drop" /\ call.pc = "keys" /\ job' = job
      BY <1>0, <2>3 DEF UndoKeys, At, FilesTypeOK, MapCommands
    <3> QED
      BY <1>0, <1>1, <3>1 DEF CallShape, FilesTypeOK
  <2>4. CASE UndoDrops
    <3>1. call'.pc = "switch" /\ call.pc = "drop" /\ job' = "free"
      BY <1>0, <2>4 DEF UndoDrops, At, FilesTypeOK, MapCommands
    <3> QED
      BY <1>0, <1>1, <3>1 DEF CallShape, FilesTypeOK
  <2> QED
    BY <2>1, <2>2, <2>3, <2>4
<1> HIDE DEF m, d
<1>5. FilesTypeOK'
  BY <1>0, <1>1, <1>2, <1>3, <1>4 DEF FilesTypeOK
<1>6. RepairShape'
  BY <1>0, <1>1, <1>4 DEF RepairShape, Alive
<1>7. CallShape'
  BY <1>0, <1>1, <1>2, <1>4, BlanksAre DEF CallShape
<1>8. SaveShape'
  BY <1>0, <1>1 DEF SaveShape
<1> QED
  BY <1>5, <1>6, <1>7, <1>8 DEF FilesBase

LEMMA ResetBase == ASSUME FilesBase, ResetMap PROVE FilesBase'
<1>0. FilesTypeOK /\ RepairShape /\ CallShape /\ SaveShape
  BY DEF FilesBase
<1>1. /\ call.op = "clear" /\ call.pc = "run" /\ cancel' = TRUE /\ mode' = "mapping" /\ rep' = Moved /\ call' = NoCall
      /\ eng' = ResetGraph(eng, {}, eng.mode) /\ save["client"].pc = "idle"
      /\ UNCHANGED <<disk, active, up, lock, job, save, strokes, before, careless>>
  BY <1>0 DEF ResetMap, At, bounds, SaveShape
<1>2. eng' \in Engines
  <2>1. eng \in Engines /\ eng.mode \in Modes /\ {} \in SUBSET Strokes
    BY <1>0 DEF FilesTypeOK, Engines
  <2>2. ResetGraph(eng, {}, eng.mode) \in Engines
    BY <2>1, ResetIs, Zenon
  <2> QED
    BY <1>1, <2>2
<1>3. rep' \in Repairs /\ rep'.pc = rep.pc /\ rep'.dir = rep.dir
  BY <1>0, <1>1, MovedIs DEF FilesTypeOK
<1>4. FilesTypeOK'
  BY <1>0, <1>1, <1>2, <1>3, BlanksAre DEF FilesTypeOK, Modes
<1>5. RepairShape'
  BY <1>0, <1>1, <1>3 DEF RepairShape, Alive
<1>6. CallShape'
  BY <1>0, <1>1, BlanksAre DEF CallShape
<1>7. SaveShape'
  BY <1>0, <1>1, <1>3 DEF SaveShape
<1> QED
  BY <1>4, <1>5, <1>6, <1>7 DEF FilesBase

LEMMA EditBase == ASSUME FilesBase, Edit PROVE FilesBase'
<1>0. FilesTypeOK /\ RepairShape /\ CallShape /\ SaveShape
  BY DEF FilesBase
<1>1. /\ call.op = "edit" /\ call.pc = "run" /\ call' = NoCall /\ save["client"].pc = "idle"
      /\ strokes' = NextStroke
      /\ UNCHANGED <<disk, active, mode, up, lock, job, cancel, rep, save, before, careless>>
  BY <1>0 DEF Edit, CallShape, SaveShape
<1>2. NextStroke \in Strokes
  BY <1>0, NextStrokeIs DEF FilesTypeOK
<1>3. eng' \in Engines
  <2> DEFINE g == eng.grid \cup {NextStroke}
             s == Append(eng.edits, NextStroke)
  <2>1. g \in SUBSET Strokes /\ s \in Seq(Strokes)
    BY <1>0, <1>2, RangeIs DEF FilesTypeOK, Engines
  <2>2. eng' = eng \/ eng' = [eng EXCEPT !.grid = g, !.edits = s]
    BY DEF Edit
  <2> HIDE DEF g, s
  <2> QED
    BY <1>0, <2>1, <2>2 DEF FilesTypeOK, Engines
<1>4. FilesTypeOK'
  BY <1>0, <1>1, <1>2, <1>3, BlanksAre DEF FilesTypeOK
<1>5. RepairShape'
  BY <1>0, <1>1 DEF RepairShape, Alive
<1>6. CallShape'
  BY <1>0, <1>1, BlanksAre DEF CallShape
<1>7. SaveShape'
  BY <1>0, <1>1 DEF SaveShape
<1> QED
  BY <1>4, <1>5, <1>6, <1>7 DEF FilesBase

\* The repair's next step.
LEMMA RepairMoves ==
    ASSUME NEW x \in RepairSteps, rep \in Repairs
    PROVE  LET r == [rep EXCEPT !.pc = x] IN
           /\ r \in Repairs /\ r.pc = x /\ r.dir = rep.dir /\ r.apply = rep.apply
           /\ r.revision = rep.revision /\ r.copied = rep.copied /\ r.moved = rep.moved
  BY DEF Repairs

JobSteps == {"plan", "backup", "rename", "apply", "resolve", "render"}

\* The repair goes on or ends, outside its save.
LEMMA RepairGoesOn ==
    ASSUME FilesBase, Alive, rep' \in Repairs, rep.pc # "saving",
           \/ rep' = NoRepair
           \/ /\ rep'.dir = rep.dir /\ rep'.pc # "none"
              /\ rep'.pc # "saving",
           \/ job' = job /\ (rep'.pc \in JobSteps <=> rep.pc \in JobSteps)
           \/ job = "free" /\ job' = "repairer" /\ rep'.pc \in JobSteps
           \/ job = "repairer" /\ job' = "free" /\ rep'.pc \notin JobSteps,
           cancel' \in BOOLEAN, eng' \in Engines, disk' \in [Maps -> Dirs], before' \in [Maps -> SUBSET Strokes],
           strokes' \in Strokes,
           UNCHANGED <<active, mode, up, lock, call, save, careless>>
    PROVE  FilesBase'
<1>1. FilesTypeOK /\ RepairShape /\ CallShape /\ SaveShape
  BY DEF FilesBase
<1>2. FilesTypeOK'
  BY <1>1 DEF FilesTypeOK
<1>3. RepairShape'
  BY <1>1, BlanksAre DEF RepairShape, Alive, JobSteps
<1>4. CallShape'
  BY <1>1 DEF CallShape
<1>5. save["repairer"].pc = "idle"
  BY <1>1 DEF SaveShape
<1>6. SaveShape'
  BY <1>1, <1>5 DEF SaveShape
<1> QED
  BY <1>2, <1>3, <1>4, <1>6 DEF FilesBase

LEMMA PlansBase ==
    ASSUME FilesBase, RepairClear \/ RepairCheck \/ RepairSnapshot \/ RepairPlan \/ RepairAbort \/ RepairResolve
    PROVE  FilesBase'
<1>0. FilesTypeOK /\ RepairShape /\ rep \in Repairs
  BY DEF FilesBase, FilesTypeOK
<1>1. UNCHANGED <<disk, active, mode, up, eng, lock, call, save, strokes, before, careless>>
  BY DEF RepairClear, RepairCheck, RepairSnapshot, RepairPlan, RepairAbort, RepairResolve, bounds
<1>2. Alive /\ rep.pc # "saving"
  BY DEF RepairClear, RepairCheck, RepairSnapshot, RepairPlan, RepairAbort, RepairResolve, Alive
<1>3. cancel' \in BOOLEAN
  BY <1>0 DEF RepairClear, RepairCheck, RepairSnapshot, RepairPlan, RepairAbort, RepairResolve, FilesTypeOK
<1>4. eng' \in Engines /\ disk' \in [Maps -> Dirs] /\ before' \in [Maps -> SUBSET Strokes] /\ strokes' \in Strokes
  BY <1>0, <1>1 DEF FilesTypeOK
<1>5. job = "repairer" <=> rep.pc \in JobSteps
  BY <1>0 DEF RepairShape, JobSteps
<1>6. /\ rep' \in Repairs
      /\ \/ rep' = NoRepair
         \/ rep'.dir = rep.dir /\ rep'.pc # "none" /\ rep'.pc # "saving"
      /\ \/ job' = job /\ (rep'.pc \in JobSteps <=> rep.pc \in JobSteps)
         \/ job = "free" /\ job' = "repairer" /\ rep'.pc \in JobSteps
         \/ job = "repairer" /\ job' = "free" /\ rep'.pc \notin JobSteps
  <2>1. CASE RepairClear
    BY <1>0, <2>1 DEF RepairClear, Repairs, RepairSteps, JobSteps
  <2>2. CASE RepairCheck
    <3>1. rep.pc = "wait" \/ rep' = NoRepair \/ rep' = [rep EXCEPT !.pc = "wait"]
      BY <2>2, Zenon DEF RepairCheck
    <3>2. rep.pc = "check" /\ job' = job
      BY <2>2 DEF RepairCheck
    <3>3. CASE rep' = NoRepair
      BY <3>2, <3>3, BlanksAre DEF JobSteps
    <3>4. CASE rep' = [rep EXCEPT !.pc = "wait"]
      BY <1>0, <3>2, <3>4 DEF Repairs, RepairSteps, JobSteps
    <3> QED
      BY <3>1, <3>2, <3>3, <3>4
  <2>3. CASE RepairSnapshot
    <3> DEFINE n == eng.revision
    <3>1. n \in Nat /\ rep' = [rep EXCEPT !.pc = "plan", !.revision = n, !.moved = FALSE]
      BY <1>0, <2>3 DEF RepairSnapshot, FilesTypeOK, Engines
    <3> HIDE DEF n
    <3> QED
      BY <1>0, <2>3, <3>1 DEF RepairSnapshot, Repairs, RepairSteps, JobSteps
  <2>4. CASE RepairPlan
    <3>1. CASE rep' = NoRepair /\ job' = "free"
      BY <1>5, <2>4, <3>1, BlanksAre DEF RepairPlan, JobSteps
    <3>2. CASE rep' = [rep EXCEPT !.pc = "backup"] /\ UNCHANGED job
      BY <1>0, <2>4, <3>2 DEF RepairPlan, Repairs, RepairSteps, JobSteps
    <3> QED
      BY <2>4, <3>1, <3>2 DEF RepairPlan
  <2>5. CASE RepairAbort
    BY <1>5, <2>5, BlanksAre DEF RepairAbort, JobSteps
  <2>6. CASE RepairResolve
    <3> DEFINE n == eng.revision
    <3>1. n \in Nat /\ rep' = [rep EXCEPT !.pc = "render", !.revision = n]
      BY <1>0, <2>6 DEF RepairResolve, FilesTypeOK, Engines
    <3> HIDE DEF n
    <3> QED
      BY <1>0, <2>6, <3>1 DEF RepairResolve, Repairs, RepairSteps, JobSteps
  <2> QED
    BY <2>1, <2>2, <2>3, <2>4, <2>5, <2>6
<1> QED
  BY <1>1, <1>2, <1>3, <1>4, <1>6, RepairGoesOn

LEMMA BacksUpBase == ASSUME FilesBase, RepairDropBackup \/ RepairBackUp PROVE FilesBase'
<1>0. FilesTypeOK /\ RepairShape /\ rep \in Repairs
  BY DEF FilesBase, FilesTypeOK
<1> DEFINE d == disk[rep.dir]
<1>1. /\ UNCHANGED <<active, mode, up, eng, lock, job, cancel, call, save, strokes, careless>>
      /\ Alive /\ rep.pc \in {"backup", "rename"}
  BY DEF RepairDropBackup, RepairBackUp, bounds, Alive
<1>2. rep.dir \in Maps /\ d \in Dirs /\ rep.copied \in Backups
  BY <1>0, <1>1 DEF RepairShape, FilesTypeOK, Repairs
<1>3. /\ Copied(d) \in Backups /\ BeginDropBackup(d) \in Dirs /\ BackUp(d, rep.copied) \in Dirs
      /\ d.image.shows \in SUBSET Strokes
  BY <1>2, DirsAre DEF Dirs, Image_
<1>4. before' \in [Maps -> SUBSET Strokes]
  BY <1>0, <1>2, <1>3 DEF RepairDropBackup, RepairBackUp, FilesTypeOK
<1>5. disk' \in [Maps -> Dirs]
  <2> HIDE DEF d
  <2>1. disk' = disk \/ (\E x \in Dirs : disk' = [disk EXCEPT ![rep.dir] = x])
    BY <1>3 DEF RepairDropBackup, RepairBackUp, d
  <2> QED
    BY <1>0, <1>2, <2>1, DiskMoves DEF FilesTypeOK
<1>6. rep' \in Repairs /\ rep'.dir = rep.dir /\ rep'.pc \in {"rename", "apply"}
  <2> DEFINE c == Copied(d)
  <2>1. \/ rep' = [rep EXCEPT !.pc = "rename", !.copied = c]
        \/ rep' = [rep EXCEPT !.pc = "apply"]
        \/ rep' = [rep EXCEPT !.pc = "apply", !.copied = NoBackup]
    BY Zenon DEF RepairDropBackup, RepairBackUp
  <2>2. c \in Backups
    BY <1>3
  <2> HIDE DEF c
  <2>3. ASSUME rep' = [rep EXCEPT !.pc = "rename", !.copied = c] PROVE rep' \in Repairs /\ rep'.dir = rep.dir /\ rep'.pc = "rename"
    BY <1>0, <2>2, <2>3 DEF Repairs, RepairSteps
  <2>4. ASSUME rep' = [rep EXCEPT !.pc = "apply"] PROVE rep' \in Repairs /\ rep'.dir = rep.dir /\ rep'.pc = "apply"
    BY <1>0, <2>4 DEF Repairs, RepairSteps
  <2>5. ASSUME rep' = [rep EXCEPT !.pc = "apply", !.copied = NoBackup] PROVE rep' \in Repairs /\ rep'.dir = rep.dir /\ rep'.pc = "apply"
    BY <1>0, <2>5, PicturesAre DEF Repairs, RepairSteps
  <2> QED
    BY <2>1, <2>3, <2>4, <2>5
<1> HIDE DEF d
<1>7. rep'.pc \in JobSteps <=> rep.pc \in JobSteps
  BY <1>1, <1>6 DEF JobSteps
<1> QED
  BY <1>0, <1>1, <1>4, <1>5, <1>6, <1>7, RepairGoesOn DEF FilesTypeOK

LEMMA AppliesBase == ASSUME FilesBase, RepairApply \/ RepairRender PROVE FilesBase'
<1>0. FilesTypeOK /\ RepairShape /\ rep \in Repairs /\ eng \in Engines
  BY DEF FilesBase, FilesTypeOK
<1>1. /\ UNCHANGED <<disk, active, mode, up, lock, cancel, call, save, before, careless>>
      /\ Alive /\ rep.pc \in {"apply", "render"}
  BY DEF RepairApply, RepairRender, bounds, Alive
<1>2. NextStroke \in Strokes
  BY <1>0, NextStrokeIs DEF FilesTypeOK
<1>3. strokes' \in Strokes
  BY <1>0, <1>2 DEF RepairApply, RepairRender, bounds, FilesTypeOK
<1>4. Drawn(eng) \in SUBSET Strokes
  BY <1>0, RangeIs DEF Drawn, Engines
<1>5. eng' \in Engines
  <2> DEFINE g == Drawn(eng)
             h == eng.graph \cup {NextStroke}
             n == eng.revision + 1
  <2>1. eng' = [eng EXCEPT !.grid = g, !.revision = n] \/ eng' = [eng EXCEPT !.graph = h]
    BY <1>0 DEF RepairApply, RepairRender, Engines
  <2>2. g \in SUBSET Strokes /\ h \in SUBSET Strokes /\ n \in Nat
    BY <1>0, <1>2, <1>4 DEF Engines
  <2> HIDE DEF g, h, n
  <2> QED
    BY <1>0, <2>1, <2>2 DEF Engines
<1>6. rep' \in Repairs /\ rep'.dir = rep.dir /\ rep'.pc \in {"resolve", "save"}
  BY <1>0 DEF RepairApply, RepairRender, Repairs, RepairSteps
<1>7. CASE RepairApply
  <2>1. rep'.pc \in JobSteps /\ rep.pc \in JobSteps /\ job' = job
    BY <1>0, <1>7 DEF RepairApply, Repairs, JobSteps
  <2> QED
    BY <1>0, <1>1, <1>3, <1>5, <1>6, <2>1, RepairGoesOn DEF FilesTypeOK
<1>8. CASE RepairRender
  <2>1. rep'.pc \notin JobSteps /\ job = "repairer" /\ job' = "free"
    BY <1>0, <1>8 DEF RepairRender, Repairs, JobSteps, RepairShape
  <2> QED
    BY <1>0, <1>1, <1>3, <1>5, <1>6, <2>1, RepairGoesOn DEF FilesTypeOK
<1> QED
  BY <1>7, <1>8

LEMMA RepairSaveBase == ASSUME FilesBase, RepairSave PROVE FilesBase'
<1>0. FilesTypeOK /\ RepairShape /\ CallShape /\ SaveShape
  BY DEF FilesBase
<1>1. /\ rep.pc = "save" /\ rep.dir \in Maps /\ lock = "free" /\ lock' = "repairer"
      /\ disk' = [disk EXCEPT ![rep.dir] = BeginImage(disk[rep.dir])]
      /\ save' = [save EXCEPT !["repairer"] = [NoSave EXCEPT !.pc = "image", !.dir = rep.dir,
                                                             !.old = disk[rep.dir].image]]
      /\ rep' = [rep EXCEPT !.pc = "saving"]
      /\ UNCHANGED <<active, mode, up, eng, job, cancel, call, strokes, before, careless>>
  BY <1>0 DEF RepairSave, BeginSave, bounds, RepairShape, FilesTypeOK, Alive
<1>2. rep' \in Repairs /\ rep'.pc = "saving" /\ rep'.dir = rep.dir
  BY <1>0, <1>1 DEF FilesTypeOK, Repairs, RepairSteps
<1>3. disk[rep.dir] \in Dirs /\ BeginImage(disk[rep.dir]) \in Dirs
  BY <1>0, <1>1, DirsAre DEF FilesTypeOK
<1>4. disk' \in [Maps -> Dirs]
  BY <1>0, <1>1, <1>3, DiskMoves
<1> DEFINE s == [NoSave EXCEPT !.pc = "image", !.dir = rep.dir, !.old = disk[rep.dir].image]
<1>5. s \in Saves /\ s.pc = "image" /\ s.dir = rep.dir
  BY <1>1, <1>3, BeganIs, Zenon
<1>9. save' = [save EXCEPT !["repairer"] = s]
  BY <1>1
<1> HIDE DEF s
<1>6. save' \in [Savers -> Saves] /\ save'["repairer"] = s /\ save'["client"] = save["client"]
  BY <1>0, <1>9, <1>5, SaveMoves DEF Savers
<1>7. FilesTypeOK'
  BY <1>0, <1>1, <1>2, <1>4, <1>6 DEF FilesTypeOK, Savers
<1>8. RepairShape' /\ CallShape'
  BY <1>0, <1>1, <1>2 DEF RepairShape, CallShape, Alive
<1>10. SaveShape'
  BY <1>0, <1>1, <1>2, <1>5, <1>6 DEF SaveShape, Savers
<1> QED
  BY <1>7, <1>8, <1>10 DEF FilesBase

LEMMA RepairSavedBase == ASSUME FilesBase, RepairSaved PROVE FilesBase'
<1>0. FilesTypeOK /\ RepairShape /\ CallShape /\ SaveShape
  BY DEF FilesBase
<1>1. /\ rep.pc = "saving" /\ rep' = NoRepair /\ save["repairer"].pc = "end"
      /\ save' = [save EXCEPT !["repairer"] = NoSave]
      /\ UNCHANGED <<disk, active, mode, up, eng, lock, job, cancel, call, strokes, before, careless>>
  BY DEF RepairSaved, bounds
<1>2. save' \in [Savers -> Saves] /\ save'["repairer"] = NoSave /\ save'["client"] = save["client"]
  BY <1>0, <1>1, BlanksAre, SaveMoves DEF Savers
<1>3. FilesTypeOK'
  BY <1>0, <1>1, <1>2, BlanksAre DEF FilesTypeOK
<1>4. RepairShape' /\ CallShape'
  BY <1>0, <1>1, BlanksAre DEF RepairShape, CallShape, Alive
<1>5. SaveShape'
  BY <1>0, <1>1, <1>2, BlanksAre DEF SaveShape, Savers
<1> QED
  BY <1>3, <1>4, <1>5 DEF FilesBase

LEMMA RestBase == ASSUME FilesBase, UNCHANGED vars PROVE FilesBase'
  BY DEF vars, FilesBase, FilesTypeOK, RepairShape, CallShape, SaveShape, Alive

LEMMA InitBase == ASSUME Init PROVE FilesBase
<1>0. First \in Maps /\ 1 \in Strokes /\ {1} \in SUBSET Strokes /\ {} \in SUBSET Strokes /\ <<>> \in Seq(Strokes)
  BY SlamMapsAssumption, StrokesAre
<1>1. WriteKeys(EmptyDir, Keys(Image({1}), {}, {1}, <<>>)) \in Dirs
  BY <1>0, PicturesAre, KeysAre, DirsAre
<1>2. EndImage(WriteKeys(EmptyDir, Keys(Image({1}), {}, {1}, <<>>)), {1}) \in Dirs
  BY <1>0, <1>1, DirsAre
<1>3. disk \in [Maps -> Dirs]
  BY <1>2, PicturesAre DEF Init
<1>4. FilesTypeOK
  BY <1>0, <1>3, BlanksAre DEF Init, FilesTypeOK, Modes, Savers
<1>5. RepairShape /\ CallShape
  BY BlanksAre DEF Init, RepairShape, CallShape, Alive
<1>6. SaveShape
  BY BlanksAre DEF Init, SaveShape, Savers
<1> QED
  BY <1>4, <1>5, <1>6 DEF FilesBase

LEMMA NextBase == ASSUME FilesBase, [Next]_vars PROVE FilesBase'
<1>1. ASSUME Worker PROVE FilesBase'
  <2>1. "client" \in Savers
    BY DEF Savers
  <2> QED
    BY <1>1, <2>1, WaitsBase, LoadBase, SaveBeginsBase, SaveImageBase, SaveKeysBase, AskedBase, UndoBase, ResetBase,
       EditBase DEF Worker
<1>2. ASSUME RepairThread PROVE FilesBase'
  <2>1. "repairer" \in Savers
    BY DEF Savers
  <2> QED
    BY <1>2, <2>1, PlansBase, BacksUpBase, AppliesBase, RepairSaveBase, RepairSavedBase, SaveImageBase, SaveKeysBase
    DEF RepairThread
<1> QED
  BY <1>1, <1>2, BootBase, CrashBase, ScanBase, ClientBase, RestBase DEF Next

THEOREM FilesTypes == Spec => []FilesBase
<1>1. Init => FilesBase
  BY InitBase
<1>2. FilesBase /\ [Next]_vars => FilesBase'
  BY NextBase
<1> QED
  BY <1>1, <1>2, PTL DEF Spec

-----------------------------------------------------------------------------
(* A repair stays in the session it looked at.                             *)

Looks == {"plan", "backup", "rename", "apply"}

\* Whatever began another session has raised the revision.
RepairInTime ==
    rep.pc \in Looks => /\ rep.revision <= eng.revision
                        /\ rep.moved => rep.revision < eng.revision

\* What a step does to the snapshot's age.
SnapshotKept ==
    \/ rep'.pc \notin Looks
    \/ /\ rep.pc \in Looks /\ rep'.revision = rep.revision
       /\ \/ rep'.moved = rep.moved /\ eng'.revision >= eng.revision
          \/ eng'.revision > eng.revision
    \/ rep'.revision = eng'.revision /\ ~rep'.moved

LEMMA LeftAlone ==
    ASSUME FilesBase, rep' = rep, eng'.revision >= eng.revision PROVE SnapshotKept
  BY DEF SnapshotKept

LEMMA Restarted ==
    ASSUME FilesBase, rep' = Moved, eng'.revision > eng.revision PROVE SnapshotKept
  BY MovedIs DEF SnapshotKept, FilesBase, FilesTypeOK

LEMMA SnapshotsKept == ASSUME FilesBase, [Next]_vars PROVE SnapshotKept
<1>0. FilesTypeOK /\ RepairShape /\ eng \in Engines /\ rep \in Repairs /\ eng.revision \in Nat
  BY DEF FilesBase, FilesTypeOK, Engines
<1>a. ASSUME NEW md \in Modes, Boot(md) PROVE SnapshotKept
  BY <1>0, <1>a DEF Boot, SnapshotKept, RepairShape, Alive, Looks
<1>b. ASSUME Crash PROVE SnapshotKept
  BY <1>b, BlanksAre DEF Crash, SnapshotKept, Looks
<1>c. ASSUME Scan PROVE SnapshotKept
  <2> DEFINE g == eng.grid \cup {strokes + 1}
             h == eng.graph \cup {strokes + 1}
  <2>1. eng' = [eng EXCEPT !.grid = g, !.graph = h] /\ rep' = rep
    BY <1>c DEF Scan
  <2> HIDE DEF g, h
  <2> QED
    BY <1>0, <2>1, LeftAlone DEF Engines
<1>d. ASSUME Client PROVE SnapshotKept
  <2>1. rep' = rep /\ eng' = eng
    BY <1>d DEF Client, Start, SetActive, DeleteMap, OnActive, ClearMap
  <2> QED
    BY <1>0, <2>1, LeftAlone
<1>e. ASSUME Switch \/ Joined \/ JoinTimeout \/ SaveBegins \/ UndoBegins \/ UndoTakesJob \/ UndoImage \/ UndoKeys \/ UndoDrops
      PROVE  SnapshotKept
  BY <1>0, <1>e, LeftAlone DEF Switch, Joined, JoinTimeout, SaveBegins, UndoBegins, UndoTakesJob, UndoImage,
     UndoKeys, UndoDrops
<1>f. ASSUME Load PROVE SnapshotKept
  <2>1. call.mode \in Modes /\ call.map \in Maps /\ disk[call.map] \in Dirs
    <3>1. call.op # "none" /\ call \in MapCommands
      BY <1>0, <1>f, BlanksAre DEF FilesBase, CallShape, Load, FilesTypeOK
    <3> QED
      BY <1>0, <3>1 DEF FilesBase, CallShape, FilesTypeOK, MapCommands
  <2>2. CASE ConfigureFails(call.mode, disk[call.map])
    <3>1. eng' = HalfConfigured(eng, call.mode, call.map) /\ rep' = rep
      BY <1>f, <2>2 DEF Load, Configure
    <3>2. HalfConfigured(eng, call.mode, call.map).revision = eng.revision
      BY <1>0, <2>1, HalfIs, Zenon
    <3> QED
      BY <1>0, <3>1, <3>2, LeftAlone
  <2>3. CASE ~ConfigureFails(call.mode, disk[call.map])
    <3>1. eng' = Configured(eng, call.mode, call.map, disk[call.map]) /\ rep' = Moved
      BY <1>f, <2>3 DEF Load, Configure
    <3>2. Configured(eng, call.mode, call.map, disk[call.map]).revision > eng.revision
      BY <1>0, <2>1, ConfiguredIs, Zenon
    <3> QED
      BY <3>1, <3>2, Restarted
  <2> QED
    BY <2>2, <2>3
<1>g. ASSUME NEW t \in Savers, SaveImage(t) \/ SaveKeys(t) PROVE SnapshotKept
  <2>1. \/ eng' = [eng EXCEPT !.dir = save[t].dir]
        \/ eng' = [eng EXCEPT !.saved = Len(save[t].keys.edits)]
        \/ eng' = [eng EXCEPT !.saved = eng.saved + Len(save[t].fresh)]
        \/ eng' = eng
    BY <1>0, <1>g DEF SaveImage, SaveKeys, Engines
  <2>2. eng'.revision = eng.revision
    BY <1>0, <2>1, Zenon DEF Engines
  <2> QED
    BY <1>0, <1>g, <2>2, LeftAlone DEF SaveImage, SaveKeys
<1>h. ASSUME SaveEnds \/ RepairMap PROVE SnapshotKept
  <2>1. eng' = eng /\ (rep' = rep \/ (\E m \in NoDir, a \in {"auto", "force", "never"} :
                                       rep' = [NoRepair EXCEPT !.pc = "start", !.dir = m, !.apply = a]))
    BY <1>0, <1>h DEF SaveEnds, RepairMap, StartRepair, FilesTypeOK, MapCommands
  <2>2. ASSUME NEW m \in NoDir, NEW a \in {"auto", "force", "never"}, rep' = [NoRepair EXCEPT !.pc = "start", !.dir = m, !.apply = a]
        PROVE  SnapshotKept
    <3>1. rep'.pc = "start"
      BY <2>2, BlanksAre DEF Repairs
    <3> QED
      BY <3>1 DEF SnapshotKept, Looks
  <2>3. ASSUME rep' = rep PROVE SnapshotKept
    BY <1>0, <2>1, <2>3, LeftAlone
  <2> QED
    BY <2>1, <2>2, <2>3
<1>i. ASSUME ResetMap PROVE SnapshotKept
  <2>1. eng \in Engines /\ eng.mode \in Modes /\ {} \in SUBSET Strokes
    BY <1>0 DEF Engines
  <2>4. LET r == ResetGraph(eng, {}, eng.mode) IN
        /\ r \in Engines
        /\ r.mode = eng.mode /\ r.dir = eng.dir /\ r.of = eng.of
        /\ r.grid = {} /\ r.graph = {} /\ r.edits = <<>>
        /\ r.saved = 0 /\ r.revision = eng.revision + 1
        /\ (eng.mode = "mapping" => r.base = {}) /\ (eng.mode # "mapping" => r.base = {})
    BY <2>1, ResetIs, Zenon
  <2>2. ResetGraph(eng, {}, eng.mode).revision = eng.revision + 1
    BY <2>4
  <2>3. eng' = ResetGraph(eng, {}, eng.mode) /\ rep' = Moved
    BY <1>i DEF ResetMap
  <2> QED
    BY <1>0, <2>2, <2>3, Restarted
<1>j. ASSUME Edit PROVE SnapshotKept
  <2> DEFINE g == eng.grid \cup {NextStroke}
             s == Append(eng.edits, NextStroke)
  <2>1. (eng' = eng \/ eng' = [eng EXCEPT !.grid = g, !.edits = s]) /\ rep' = rep
    BY <1>j DEF Edit
  <2> HIDE DEF g, s
  <2>2. eng'.revision = eng.revision
    BY <1>0, <2>1, Zenon DEF Engines
  <2> QED
    BY <1>0, <2>1, <2>2, LeftAlone
<1>k. ASSUME RepairClear \/ RepairCheck \/ RepairSnapshot \/ RepairPlan \/ RepairAbort \/ RepairResolve PROVE SnapshotKept
  <2>1. CASE RepairClear
    BY <1>0, <2>1 DEF RepairClear, Repairs, SnapshotKept, Looks
  <2>2. CASE RepairCheck
    <3>1. rep' = NoRepair \/ rep' = [rep EXCEPT !.pc = "wait"]
      BY <2>2, Zenon DEF RepairCheck
    <3>2. [rep EXCEPT !.pc = "wait"].pc = "wait"
      BY <1>0 DEF Repairs
    <3> QED
      BY <3>1, <3>2, BlanksAre DEF SnapshotKept, Looks
  <2>3. CASE RepairSnapshot
    <3> DEFINE n == eng.revision
    <3>1. n \in Nat /\ rep' = [rep EXCEPT !.pc = "plan", !.revision = n, !.moved = FALSE] /\ eng'.revision = n
      BY <1>0, <2>3 DEF RepairSnapshot
    <3> HIDE DEF n
    <3> QED
      BY <1>0, <3>1 DEF Repairs, SnapshotKept
  <2>4. CASE RepairPlan
    <3>1. rep' = NoRepair \/ rep' = [rep EXCEPT !.pc = "backup"]
      BY <2>4 DEF RepairPlan
    <3>2. [rep EXCEPT !.pc = "backup"].revision = rep.revision /\ [rep EXCEPT !.pc = "backup"].moved = rep.moved
      BY <1>0 DEF Repairs
    <3>3. rep.pc = "plan" /\ eng' = eng
      BY <2>4 DEF RepairPlan
    <3>4. CASE rep' = NoRepair
      BY <3>4, BlanksAre DEF SnapshotKept, Looks
    <3>5. CASE rep' = [rep EXCEPT !.pc = "backup"]
      BY <1>0, <3>2, <3>3, <3>5 DEF SnapshotKept, Looks
    <3> QED
      BY <3>1, <3>4, <3>5
  <2>5. CASE RepairAbort
    BY <2>5, BlanksAre DEF RepairAbort, SnapshotKept, Looks
  <2>6. CASE RepairResolve
    <3> DEFINE n == eng.revision
    <3>1. n \in Nat /\ rep' = [rep EXCEPT !.pc = "render", !.revision = n]
      BY <1>0, <2>6 DEF RepairResolve
    <3> HIDE DEF n
    <3> QED
      BY <1>0, <3>1 DEF Repairs, SnapshotKept, Looks
  <2> QED
    BY <1>k, <2>1, <2>2, <2>3, <2>4, <2>5, <2>6
<1>l. ASSUME RepairDropBackup PROVE SnapshotKept
  <2> DEFINE c == Copied(disk[rep.dir])
  <2>1. rep' = [rep EXCEPT !.pc = "rename", !.copied = c] \/ rep' = [rep EXCEPT !.pc = "apply"]
    BY <1>l, Zenon DEF RepairDropBackup
  <2> HIDE DEF c
  <2>2. rep'.revision = rep.revision /\ rep'.moved = rep.moved
    BY <1>0, <2>1 DEF Repairs
  <2> QED
    BY <1>0, <1>l, <2>2 DEF RepairDropBackup, SnapshotKept, Looks
<1>m. ASSUME RepairBackUp PROVE SnapshotKept
  BY <1>0, <1>m DEF RepairBackUp, SnapshotKept, Looks, Repairs
<1>n. ASSUME RepairApply \/ RepairRender \/ RepairSave \/ RepairSaved PROVE SnapshotKept
  <2>1. rep' = NoRepair \/ rep' = [rep EXCEPT !.pc = "resolve"] \/ rep' = [rep EXCEPT !.pc = "save"]
        \/ rep' = [rep EXCEPT !.pc = "saving"]
    BY <1>n DEF RepairApply, RepairRender, RepairSave, RepairSaved
  <2>2. rep'.pc \notin Looks
    BY <1>0, <2>1, BlanksAre DEF Repairs, Looks
  <2> QED
    BY <2>2 DEF SnapshotKept
<1>o. ASSUME UNCHANGED vars PROVE SnapshotKept
  BY <1>0, <1>o, LeftAlone DEF vars
<1> QED
  <2>1. "client" \in Savers /\ "repairer" \in Savers
    BY DEF Savers
  <2> QED
    BY <2>1, <1>a, <1>b, <1>c, <1>d, <1>e, <1>f, <1>g, <1>h, <1>i, <1>j, <1>k, <1>l, <1>m, <1>n, <1>o
    DEF Next, Worker, RepairThread

LEMMA RepairInTimeStep == ASSUME FilesBase, FilesBase', RepairInTime, SnapshotKept PROVE RepairInTime'
  BY DEF FilesBase, FilesTypeOK, Engines, Repairs, RepairInTime, SnapshotKept

\* Only RepairApply makes the plan's changes.
LEMMA AppliesInTime ==
    ASSUME FilesBase, RepairInTime, [Next]_vars, rep.pc = "apply", rep'.pc = "resolve"
    PROVE  ~rep.moved
<1>0. rep \in Repairs /\ eng \in Engines
  BY DEF FilesBase, FilesTypeOK
<1>1. eng.revision # rep.revision => ~RepairApply
  BY DEF RepairApply, Stale
<1>2. RepairApply
  <2>1. rep' # rep /\ rep' # NoRepair /\ rep' # Moved
    BY <1>0, MovedIs, BlanksAre
  <2>2. ~RepairAbort /\ ~RepairDropBackup /\ ~RepairBackUp /\ ~RepairResolve /\ ~RepairRender /\ ~RepairSave /\ ~RepairSaved
        /\ ~RepairClear /\ ~RepairCheck /\ ~RepairSnapshot /\ ~RepairPlan
    BY <2>1 DEF RepairAbort, RepairDropBackup, RepairBackUp, RepairResolve, RepairRender, RepairSave, RepairSaved,
       RepairClear, RepairCheck, RepairSnapshot, RepairPlan
  <2>3. \A t \in Savers : ~SaveImage(t) /\ ~SaveKeys(t)
    BY <2>1 DEF SaveImage, SaveKeys
  <2>4. ~Client /\ ~Scan /\ ~Crash /\ \A md \in Modes : ~Boot(md)
    BY <2>1 DEF Client, Start, SetActive, DeleteMap, OnActive, ClearMap, Scan, Crash, Boot
  <2>5. ~SaveEnds /\ ~RepairMap
    BY <2>1 DEF SaveEnds, RepairMap, StartRepair, Alive
  <2>6. ~Switch /\ ~Joined /\ ~JoinTimeout /\ ~Load /\ ~SaveBegins /\ ~UndoBegins /\ ~UndoTakesJob /\ ~UndoImage
        /\ ~UndoKeys /\ ~UndoDrops /\ ~ResetMap /\ ~Edit
    BY <2>1 DEF Switch, Joined, JoinTimeout, Load, Configure, SaveBegins, UndoBegins, UndoTakesJob, UndoImage,
       UndoKeys, UndoDrops, ResetMap, Edit
  <2>7. ~UNCHANGED vars
    BY <2>1 DEF vars
  <2> QED
    BY <2>2, <2>3, <2>4, <2>5, <2>6, <2>7 DEF Next, Worker, RepairThread, Savers
<1> QED
  BY <1>0, <1>1, <1>2 DEF RepairInTime, Looks, Engines, Repairs

\* A repair moves the keyframes of the session it looked at, however long it
\* took and whatever was loaded meanwhile.
THEOREM RepairsStay == Spec => RepairStaysInItsSession
<1>1. Init => FilesBase /\ RepairInTime
  <2>1. Init => RepairInTime
    BY BlanksAre DEF Init, RepairInTime, Looks
  <2> QED
    BY <2>1, InitBase
<1>2. FilesBase /\ RepairInTime /\ [Next]_vars => (FilesBase /\ RepairInTime)'
  BY NextBase, SnapshotsKept, RepairInTimeStep
<1>3. FilesBase /\ RepairInTime /\ [Next]_vars => [rep.pc = "apply" /\ rep'.pc = "resolve" => ~rep.moved]_vars
  BY AppliesInTime
<1> QED
  BY <1>1, <1>2, <1>3, PTL DEF Spec, RepairStaysInItsSession

-----------------------------------------------------------------------------
(* The drawing and what redraws it, while the client is careful.           *)

\* What is kept of a map, or of a backup.
SoundFiles(x) ==
    /\ x.image.is = "whole" => x.geometry
    /\ x.image.is = "torn" => ~x.geometry
    /\ Fits(x.keys)

DirsSound ==
    \A m \in Maps : /\ disk[m].image.is = "whole" => disk[m].geometry
                    /\ Fits(disk[m].keys) /\ SoundFiles(disk[m].backup)

Writing(m) ==
    \/ \E t \in Savers : save[t].pc = "image" /\ save[t].dir = m
    \/ call.op = "undo" /\ call.pc = "copy" /\ call.map = m

\* An image is torn while it is written, and after a crash.
TornIsActive == \A m \in Maps : Raises(disk[m]) => m = active /\ (up => Writing(m))

CallOnActive == call.op # "none" => call.map = active

RepairOnActive == Alive => rep.dir = active /\ call.op \notin {"save", "undo", "clear"}

\* A command loads a map beside a repair that will find nothing to apply.
LoadsAlone == call.pc = "load" /\ Alive => rep.pc \in {"wait", "plan"} /\ cancel /\ rep.apply # "force"

Redraws == rep.pc \in {"resolve", "render", "save", "saving"} => eng.mode = "mapping"

RenderInTime == rep.pc = "render" => rep.revision = eng.revision

\* Localizing was asked for where there was a map, and an undo keeps the mode.
Findable ==
    /\ call.op = "start" /\ call.mode = "localizing" => HasOccupancyMap(disk[call.map])
    /\ call.op = "undo" /\ call.pc \in {"switch", "join", "load"} => call.mode = eng.mode

BackupSound == SoundFiles(rep.copied)

MapsConsistent == eng.mode = "mapping" /\ rep.pc \notin {"resolve", "render"} => eng.grid = Drawn(eng)

\* While localizing, the grid shows the image that was loaded and the edits
\* that were not saved yet: what a save may add to the saved keyframes.
Unsaved == Range(SubSeq(eng.edits, eng.saved + 1, Len(eng.edits)))

Shows(m, image) == LoadGraph(disk[m], image).there => eng.grid = image.shows \cup Unsaved

Localizing == eng.mode = "localizing"

Unmapped == Localizing => eng.graph = {} /\ eng.saved <= Len(eng.edits) /\ Range(eng.edits) \subseteq eng.grid

ActiveShown ==
    Localizing /\ call.op \notin {"start", "clear"} /\ (call.op = "undo" => call.pc \in {"run", "job"})
        => Shows(active, disk[active].image)

LoadedShown ==
    Localizing /\ call.op # "clear" /\ (call.op = "undo" => call.pc \in {"run", "job"} \/ active # eng.dir)
    /\ eng.dir # NoMap
        => Shows(eng.dir, disk[eng.dir].image)

ImageExtends == Localizing /\ save["client"].pc = "image" => Shows(active, save["client"].old)

KeysExtend ==
    Localizing /\ save["client"].pc = "keys" =>
        /\ Shows(active, save["client"].old)
        /\ save["client"].grid = eng.grid
        /\ save["client"].fresh = SubSeq(eng.edits, eng.saved + 1, Len(eng.edits))
        /\ disk[active].image = Image(eng.grid) /\ eng.dir = active

ClearedAway == call.op = "clear" => eng.dir = active /\ ~disk[active].keys.there

SaveGood ==
    \A t \in Savers : save[t].pc = "keys" =>
        /\ save[t].live => Fits(save[t].keys)
        /\ save[t].mode = eng.mode
        /\ Localizing => t = "client" /\ ~save[t].live

OnFiles == DirsSound /\ TornIsActive
OnRepair == RepairOnActive /\ Redraws /\ RenderInTime /\ BackupSound /\ MapsConsistent
OnCall == CallOnActive /\ LoadsAlone /\ Findable /\ ClearedAway
OnGrid == Unmapped /\ ActiveShown /\ LoadedShown
OnSave == ImageExtends /\ KeysExtend /\ SaveGood
Sound == OnFiles /\ OnRepair /\ OnCall /\ OnGrid /\ OnSave

FilesIInv == FilesBase /\ (~careless => Sound)

LEMMA NotLoaded ==
    ASSUME NEW d \in Dirs, NEW p \in Image_, Fits(d.keys), p.is # "whole"
    PROVE  ~LoadGraph(d, p).there
<1>1. (LoadGraph(d, p) = d.keys /\ d.keys.sha = p) \/ LoadGraph(d, p) = NoKeys
  BY DEF LoadGraph
<1>2. ~NoKeys.there
  BY DEF NoKeys
<1>3. ASSUME d.keys.there, d.keys.sha = p PROVE FALSE
  BY <1>3 DEF Fits, Image
<1> QED
  BY <1>1, <1>2, <1>3

LEMMA LoadedIs ==
    ASSUME NEW d \in Dirs, NEW p \in Image_, LoadGraph(d, p).there
    PROVE  /\ LoadGraph(d, p) = d.keys /\ d.keys.there /\ d.keys.sha = p
           /\ Fits(d.keys) => p = Image(Render(d.keys)) /\ p.shows = Render(d.keys)
<1>1. LoadGraph(d, p) = d.keys /\ d.keys.sha = p
  BY DEF LoadGraph, NoKeys
<1> QED
  BY <1>1 DEF Fits, Image

LEMMA NoneLoaded ==
    ASSUME NEW d \in Dirs, NEW p \in Image_, ~d.keys.there PROVE ~LoadGraph(d, p).there
  BY DEF LoadGraph, NoKeys

LEMMA SameKeys ==
    ASSUME NEW d \in Dirs, NEW c \in Dirs, d.keys = c.keys, NEW p \in Image_
    PROVE  LoadGraph(d, p) = LoadGraph(c, p)
  BY DEF LoadGraph

\* What the changes of a directory leave of it.
LEMMA DirFields ==
    ASSUME NEW d \in Dirs
    PROVE  /\ BeginImage(d).image = TornImage /\ BeginImage(d).geometry = d.geometry
           /\ BeginImage(d).keys = d.keys /\ BeginImage(d).backup = d.backup
           /\ \A g \in SUBSET Strokes : /\ EndImage(d, g).image = Image(g) /\ EndImage(d, g).geometry
                                        /\ EndImage(d, g).keys = d.keys /\ EndImage(d, g).backup = d.backup
           /\ \A k \in KeyFiles : /\ WriteKeys(d, k).image = d.image /\ WriteKeys(d, k).geometry = d.geometry
                                  /\ WriteKeys(d, k).keys = k /\ WriteKeys(d, k).backup = d.backup
           /\ \A c \in Backups : /\ BackUp(d, c).image = d.image /\ BackUp(d, c).geometry = d.geometry
                                 /\ BackUp(d, c).keys = d.keys /\ BackUp(d, c).backup = c
           /\ RestoreImage(d).image = d.backup.image /\ RestoreImage(d).geometry = d.backup.geometry
           /\ RestoreImage(d).keys = d.keys /\ RestoreImage(d).backup = d.backup
           /\ RestoreKeys(d).image = d.image /\ RestoreKeys(d).geometry = d.geometry
           /\ RestoreKeys(d).keys = d.backup.keys /\ RestoreKeys(d).backup = d.backup
           /\ EndDropBackup(d).image = d.image /\ EndDropBackup(d).geometry = d.geometry
           /\ EndDropBackup(d).keys = d.keys /\ EndDropBackup(d).backup = NoBackup
<1>1. /\ BeginImage(d).image = TornImage /\ BeginImage(d).geometry = d.geometry
      /\ BeginImage(d).keys = d.keys /\ BeginImage(d).backup = d.backup
  BY DEF BeginImage, Dirs
<1>2. \A g \in SUBSET Strokes : /\ EndImage(d, g).image = Image(g) /\ EndImage(d, g).geometry
                                /\ EndImage(d, g).keys = d.keys /\ EndImage(d, g).backup = d.backup
  BY DEF EndImage, Dirs
<1>3. \A k \in KeyFiles : /\ WriteKeys(d, k).image = d.image /\ WriteKeys(d, k).geometry = d.geometry
                          /\ WriteKeys(d, k).keys = k /\ WriteKeys(d, k).backup = d.backup
  BY DEF WriteKeys, Dirs
<1>4. \A c \in Backups : /\ BackUp(d, c).image = d.image /\ BackUp(d, c).geometry = d.geometry
                         /\ BackUp(d, c).keys = d.keys /\ BackUp(d, c).backup = c
  BY DEF BackUp, Dirs
<1>5. /\ RestoreImage(d).image = d.backup.image /\ RestoreImage(d).geometry = d.backup.geometry
      /\ RestoreImage(d).keys = d.keys /\ RestoreImage(d).backup = d.backup
  BY DEF RestoreImage, Dirs
<1>6. /\ RestoreKeys(d).image = d.image /\ RestoreKeys(d).geometry = d.geometry
      /\ RestoreKeys(d).keys = d.backup.keys /\ RestoreKeys(d).backup = d.backup
  BY DEF RestoreKeys, Dirs
<1>7. /\ EndDropBackup(d).image = d.image /\ EndDropBackup(d).geometry = d.geometry
      /\ EndDropBackup(d).keys = d.keys /\ EndDropBackup(d).backup = NoBackup
  BY DEF EndDropBackup, Dirs
<1> QED
  BY <1>1, <1>2, <1>3, <1>4, <1>5, <1>6, <1>7

LEMMA DropFields ==
    ASSUME NEW d \in Dirs
    PROVE  /\ BeginDropBackup(d).image = d.image /\ BeginDropBackup(d).geometry = d.geometry
           /\ BeginDropBackup(d).keys = d.keys
           /\ Fits(d.backup.keys) => (SoundFiles(BeginDropBackup(d).backup) \/ BeginDropBackup(d).backup = d.backup)
<1> DEFINE c == [d.backup EXCEPT !.image = NoImage, !.geometry = FALSE]
           b == IF d.backup.there THEN c ELSE d.backup
<1>1. BeginDropBackup(d) = [d EXCEPT !.backup = b]
  BY DEF BeginDropBackup
<1>2. c.image = NoImage /\ ~c.geometry /\ c.keys = d.backup.keys
  BY DEF Dirs, Backups
<1> HIDE DEF c
<1>3. ASSUME Fits(d.backup.keys) PROVE SoundFiles(c)
  BY <1>2, <1>3 DEF SoundFiles, NoImage
<1>4. b = c \/ b = d.backup
  OBVIOUS
<1> HIDE DEF b
<1>5. BeginDropBackup(d).image = d.image /\ BeginDropBackup(d).geometry = d.geometry
      /\ BeginDropBackup(d).keys = d.keys /\ BeginDropBackup(d).backup = b
  BY <1>1 DEF Dirs
<1> QED
  BY <1>3, <1>4, <1>5

LEMMA BlankFiles ==
    /\ SoundFiles(NoBackup) /\ SoundFiles(EmptyDir) /\ SoundFiles(EmptyDir.backup)
    /\ EmptyDir.backup = NoBackup /\ ~EmptyDir.keys.there /\ EmptyDir.image.is = "none" /\ ~Raises(EmptyDir)
    /\ TornImage.is = "torn" /\ \A g : Image(g).is = "whole" /\ Image(g).shows = g
  BY DEF SoundFiles, NoBackup, EmptyDir, NoKeys, NoImage, TornImage, Image, Fits, Raises

-----------------------------------------------------------------------------
(* What does not change stays sound.                                       *)

LEMMA FilesKept ==
    ASSUME OnFiles, UNCHANGED <<disk, active, up, save>>,
           call.op = "undo" /\ call.pc = "copy" => call'.op = "undo" /\ call'.pc = "copy" /\ call'.map = call.map
    PROVE  OnFiles'
<1>1. DirsSound'
  BY DEF OnFiles, DirsSound
<1>2. TornIsActive'
  BY DEF OnFiles, TornIsActive, Writing
<1> QED
  BY <1>1, <1>2 DEF OnFiles

LEMMA RepairKept ==
    ASSUME OnRepair, UNCHANGED <<rep, active, eng>>,
           call'.op \in {"none", "start", call.op}
    PROVE  OnRepair'
<1>1. RepairOnActive'
  BY DEF OnRepair, RepairOnActive, Alive
<1>2. Redraws' /\ RenderInTime' /\ BackupSound'
  BY DEF OnRepair, Redraws, RenderInTime, BackupSound
<1>3. MapsConsistent'
  BY DEF OnRepair, MapsConsistent
<1> QED
  BY <1>1, <1>2, <1>3 DEF OnRepair

LEMMA SaveKept ==
    ASSUME OnSave, UNCHANGED <<disk, active, eng, save>> PROVE OnSave'
<1>1. Unsaved' = Unsaved /\ Localizing' = Localizing
  BY DEF Unsaved, Localizing
<1>2. \A m, p : Shows(m, p)' <=> Shows(m, p)
  BY <1>1 DEF Shows
<1>3. ImageExtends' /\ KeysExtend'
  BY <1>1, <1>2 DEF OnSave, ImageExtends, KeysExtend
<1>4. SaveGood'
  BY <1>1 DEF OnSave, SaveGood
<1> QED
  BY <1>3, <1>4 DEF OnSave

LEMMA GridKept ==
    ASSUME OnGrid, UNCHANGED <<disk, active, eng>>,
           \/ call'.op \in {"start", "clear"} /\ call.op \in {"none", "start", "clear"}
           \/ /\ call.op \notin {"start", "clear"}
              /\ call.op = "undo" => call.pc \in {"run", "job"}
           \/ /\ call'.op = call.op
              /\ call.op = "undo" => call.pc \notin {"run", "job"} /\ call'.pc \notin {"run", "job"},
           call.op = "clear" => call'.op = "clear",
           call.op = "start" => call'.op = "start"
    PROVE  OnGrid'
<1>1. Unsaved' = Unsaved /\ Localizing' = Localizing
  BY DEF Unsaved, Localizing
<1>2. \A m, p : Shows(m, p)' <=> Shows(m, p)
  BY <1>1 DEF Shows
<1>3. Unmapped'
  BY <1>1 DEF OnGrid, Unmapped
<1>4. ActiveShown'
  BY <1>1, <1>2 DEF OnGrid, ActiveShown
<1>5. LoadedShown'
  BY <1>1, <1>2 DEF OnGrid, LoadedShown
<1> QED
  BY <1>3, <1>4, <1>5 DEF OnGrid

LEMMA CallKept ==
    ASSUME OnCall, UNCHANGED <<disk, active, eng, call>>,
           call.pc = "load" /\ rep'.pc # "none" =>
             /\ rep.pc # "none" /\ cancel' = cancel
             /\ rep.pc \in {"wait", "plan"} /\ cancel /\ rep.apply # "force"
                  => rep'.pc \in {"wait", "plan"} /\ rep'.apply = rep.apply
    PROVE  OnCall'
<1>1. CallOnActive' /\ Findable' /\ ClearedAway'
  BY DEF OnCall, CallOnActive, Findable, ClearedAway
<1>2. LoadsAlone'
  BY DEF OnCall, LoadsAlone, Alive
<1> QED
  BY <1>1, <1>2 DEF OnCall

LEMMA WaitsSound ==
    ASSUME FilesBase, Sound, ~careless', Switch \/ Joined \/ JoinTimeout \/ UndoBegins
    PROVE  Sound'
<1>0. FilesTypeOK /\ CallShape /\ SaveShape /\ RepairShape
  BY DEF FilesBase
<1>1. UNCHANGED <<disk, active, up, eng, rep, save>>
  BY DEF Switch, Joined, JoinTimeout, UndoBegins
<1>2. \/ /\ call'.op = call.op /\ call'.map = call.map /\ call'.mode = call.mode
         /\ call.op \in {"start", "undo"}
         /\ \/ call.pc \in {"switch", "join"} /\ call'.pc \in {"join", "load"}
            \/ call.pc = "run" /\ call'.pc = "job" /\ call.op = "undo"
      \/ call' = NoCall /\ call.op = "undo" /\ call.pc = "run"
  <2>1. ASSUME NEW x \in {"join", "load", "job"}, call' = [call EXCEPT !.pc = x]
        PROVE  call'.pc = x /\ call'.op = call.op /\ call'.map = call.map /\ call'.mode = call.mode
    BY <1>0, <2>1 DEF FilesTypeOK, MapCommands
  <2>2. call.pc \in {"switch", "join"} => call.op \in {"start", "undo"}
    BY <1>0, BlanksAre DEF CallShape, FilesTypeOK, MapCommands, Ops
  <2>3. CASE Switch
    <3>1. call.pc = "switch" /\ (call' = [call EXCEPT !.pc = "join"] \/ call' = [call EXCEPT !.pc = "load"])
      BY <2>3, Zenon DEF Switch
    <3>2. CASE call' = [call EXCEPT !.pc = "join"]
      BY <2>1, <2>2, <3>1, <3>2
    <3>3. CASE call' = [call EXCEPT !.pc = "load"]
      BY <2>1, <2>2, <3>1, <3>3
    <3> QED
      BY <3>1, <3>2, <3>3
  <2>4. CASE Joined \/ JoinTimeout
    <3>1. call.pc = "join" /\ call' = [call EXCEPT !.pc = "load"]
      BY <2>4 DEF Joined, JoinTimeout
    <3> QED
      BY <2>1, <2>2, <3>1
  <2>5. CASE UndoBegins
    <3>1. call.op = "undo" /\ call.pc = "run" /\ (call' = [call EXCEPT !.pc = "job"] \/ call' = NoCall)
      BY <2>5, Zenon DEF UndoBegins, At
    <3>2. CASE call' = [call EXCEPT !.pc = "job"]
      BY <2>1, <3>1, <3>2
    <3>3. CASE call' = NoCall
      BY <3>1, <3>3
    <3> QED
      BY <3>1, <3>2, <3>3
  <2> QED
    BY <2>3, <2>4, <2>5
<1>3. call'.pc = "load" /\ Alive => rep.pc \in {"wait", "plan"} /\ cancel' /\ rep.apply # "force"
  <2>1. ASSUME call'.pc = "load", Alive, Switch PROVE FALSE
    <3>1. call.pc = "switch" /\ call.op # "none" /\ call.map = active /\ rep.dir = active
      BY <1>0, <2>1, BlanksAre DEF Switch, CallShape, Sound, OnCall, CallOnActive, OnRepair, RepairOnActive
    <3>2. call' = [call EXCEPT !.pc = "join"]
      BY <2>1, <3>1 DEF Switch
    <3> QED
      BY <1>0, <2>1, <3>2 DEF FilesTypeOK, MapCommands
  <2>2. ASSUME Alive, JoinTimeout PROVE rep.pc \in {"wait", "plan"} /\ cancel' /\ rep.apply # "force"
    BY <2>2 DEF JoinTimeout
  <2>3. ASSUME Alive, Joined PROVE FALSE
    BY <2>3 DEF Joined
  <2>4. ASSUME UndoBegins PROVE call'.pc # "load"
    BY <1>0, <2>4, BlanksAre DEF UndoBegins, FilesTypeOK, MapCommands
  <2> QED
    BY <2>1, <2>2, <2>3, <2>4
<1>4. OnFiles'
  BY <1>1, <1>2, FilesKept DEF Sound
<1>5. OnRepair'
  BY <1>1, <1>2, BlanksAre, RepairKept DEF Sound
<1>6. OnSave'
  BY <1>1, SaveKept DEF Sound
<1>7. OnGrid'
  BY <1>1, <1>2, BlanksAre, GridKept DEF Sound
<1>8. OnCall'
  <2>1. CallOnActive' /\ Findable' /\ ClearedAway'
    BY <1>1, <1>2, BlanksAre DEF Sound, OnCall, CallOnActive, Findable, ClearedAway
  <2>2. LoadsAlone'
    BY <1>1, <1>3 DEF LoadsAlone, Alive
  <2> QED
    BY <2>1, <2>2 DEF OnCall
<1> QED
  BY <1>4, <1>5, <1>6, <1>7, <1>8 DEF Sound

\* Between commands nothing but the repair writes, in the active map.
LEMMA NobodyElseWrites ==
    ASSUME FilesBase, Sound, call = NoCall, NEW m \in Maps, Raises(disk[m])
    PROVE  up => Alive /\ rep.dir = m /\ m = active
<1>0. CallShape /\ SaveShape /\ RepairShape
  BY DEF FilesBase
<1>1. save["client"].pc # "image" /\ call.op # "undo"
  BY <1>0, BlanksAre DEF SaveShape
<1>2. m = active /\ (up => Writing(m))
  BY DEF Sound, OnFiles, TornIsActive
<1>3. up => save["repairer"].pc = "image" /\ save["repairer"].dir = m
  BY <1>1, <1>2 DEF Writing, Savers
<1> QED
  BY <1>0, <1>2, <1>3 DEF SaveShape, Alive

\* Saves are not disturbed by a change of the active map between commands.
LEMMA SaveKeptIdle ==
    ASSUME OnSave, save["client"].pc \in {"idle", "end"}, UNCHANGED <<save>>, eng'.mode = eng.mode PROVE OnSave'
  BY DEF OnSave, ImageExtends, KeysExtend, SaveGood, Localizing

\* A command that was issued, with the same files.
LEMMA IssuedSound ==
    ASSUME FilesBase, Sound, NEW m \in Maps, NEW c \in MapCommands,
           up, call = NoCall, call' = c, active' = m,
           UNCHANGED <<disk, up, eng, rep, save, cancel>>,
           Alive => rep.dir = m /\ c.op \notin {"save", "undo", "clear"},
           c.op # "clear", c.pc # "load",
           c.op # "none" => c.map = m,
           c.op = "undo" => c.pc = "run",
           c.op = "start" /\ c.mode = "localizing" => HasOccupancyMap(disk[m]),
           c.op # "start" => m = active \/ m = eng.dir \/ ~HasOccupancyMap(disk[m])
    PROVE  Sound'
<1>0. FilesTypeOK /\ CallShape /\ SaveShape /\ RepairShape
  BY DEF FilesBase
<1>1. OnFiles'
  <2>1. DirsSound'
    BY DEF Sound, OnFiles, DirsSound
  <2>2. TornIsActive'
    <3> SUFFICES ASSUME NEW n \in Maps, Raises(disk[n]) PROVE n = m /\ Writing(n)'
      BY DEF TornIsActive
    <3>1. Alive /\ rep.dir = n /\ n = active
      BY NobodyElseWrites
    <3>2. Writing(n) /\ call.op # "undo"
      BY BlanksAre DEF Sound, OnFiles, TornIsActive
    <3>3. Writing(n)'
      BY <3>2 DEF Writing
    <3> QED
      BY <3>1, <3>3
  <2> QED
    BY <2>1, <2>2 DEF OnFiles
<1>2. OnRepair'
  <2>1. RepairOnActive'
    BY DEF RepairOnActive, Alive
  <2>2. Redraws' /\ RenderInTime' /\ BackupSound'
    BY DEF Sound, OnRepair, Redraws, RenderInTime, BackupSound
  <2>3. MapsConsistent'
    BY DEF Sound, OnRepair, MapsConsistent
  <2> QED
    BY <2>1, <2>2, <2>3 DEF OnRepair
<1>3. OnCall'
  BY DEF OnCall, CallOnActive, LoadsAlone, Findable, ClearedAway
<1>4. OnSave'
  BY <1>0, SaveKeptIdle, BlanksAre DEF SaveShape, Sound
<1>5. OnGrid'
  <2>1. Unsaved' = Unsaved /\ Localizing' = Localizing
    BY DEF Unsaved, Localizing
  <2>2. \A n, p : Shows(n, p)' <=> Shows(n, p)
    BY <2>1 DEF Shows
  <2>3. Unmapped'
    BY <2>1 DEF Sound, OnGrid, Unmapped
  <2>4. LoadedShown'
    BY <2>1, <2>2, BlanksAre DEF Sound, OnGrid, LoadedShown
  <2>5. ActiveShown'
    <3> SUFFICES ASSUME Localizing, c.op # "start" PROVE Shows(m, disk[m].image)
      BY <2>1, <2>2 DEF ActiveShown
    <3>1. disk[m] \in Dirs /\ disk[m].image \in Image_ /\ Fits(disk[m].keys)
          /\ (disk[m].image.is = "whole" => disk[m].geometry)
      BY <1>0 DEF FilesTypeOK, Dirs, Sound, OnFiles, DirsSound
    <3>2. CASE m = active
      BY <3>2, BlanksAre DEF Sound, OnGrid, ActiveShown
    <3>3. CASE m = eng.dir
      BY <3>3, BlanksAre, SlamMapsAssumption DEF Sound, OnGrid, LoadedShown
    <3>4. CASE ~HasOccupancyMap(disk[m])
      <4>1. disk[m].image.is # "whole"
        BY <3>1, <3>4 DEF HasOccupancyMap
      <4> QED
        BY <3>1, <4>1, NotLoaded DEF Shows
    <3> QED
      BY <3>2, <3>3, <3>4
  <2> QED
    BY <2>3, <2>4, <2>5 DEF OnGrid
<1> QED
  BY <1>1, <1>2, <1>3, <1>4, <1>5 DEF Sound

\* A directory was emptied between commands, with no repair about.
LEMMA EmptiedSound ==
    ASSUME FilesBase, Sound, NEW m \in Maps, NEW c \in MapCommands, ~Alive,
           up, call = NoCall, call' = c, disk' = [disk EXCEPT ![m] = EmptyDir],
           UNCHANGED <<active, up, eng, rep, save, cancel>>,
           \/ c = NoCall /\ m # active
           \/ c.op = "clear" /\ c.pc = "run" /\ c.map = active /\ m = active /\ active = eng.dir
    PROVE  Sound'
<1>0. FilesTypeOK /\ CallShape /\ SaveShape /\ RepairShape
  BY DEF FilesBase
<1>1. disk'[m] = EmptyDir /\ \A n \in Maps : n # m => disk'[n] = disk[n]
  BY <1>0, PicturesAre, DiskMoves
<1>2. OnFiles'
  <2>1. DirsSound'
    BY <1>1, BlankFiles DEF DirsSound, Sound, OnFiles, SoundFiles
  <2>2. \A n \in Maps : ~Raises(disk'[n])
    BY <1>1, BlankFiles, NobodyElseWrites
  <2>3. TornIsActive'
    BY <2>2 DEF TornIsActive
  <2> QED
    BY <2>1, <2>3 DEF OnFiles
<1>3. OnRepair'
  <2>1. RepairOnActive'
    BY DEF RepairOnActive, Alive
  <2>2. Redraws' /\ RenderInTime' /\ BackupSound'
    BY DEF Sound, OnRepair, Redraws, RenderInTime, BackupSound
  <2>3. MapsConsistent'
    BY DEF Sound, OnRepair, MapsConsistent
  <2> QED
    BY <2>1, <2>2, <2>3 DEF OnRepair
<1>4. OnCall'
  BY <1>1, BlankFiles, BlanksAre DEF OnCall, CallOnActive, LoadsAlone, Findable, ClearedAway
<1>5. OnSave'
  BY <1>0, SaveKeptIdle, BlanksAre DEF SaveShape, Sound
<1>6. OnGrid'
  <2>1. Unsaved' = Unsaved /\ Localizing' = Localizing
    BY DEF Unsaved, Localizing
  <2>2. Unmapped'
    BY <2>1 DEF Sound, OnGrid, Unmapped
  <2>3. \A n \in Maps, p \in Image_ : Shows(n, p) => Shows(n, p)'
    BY <1>1, <2>1, PicturesAre, BlankFiles, NoneLoaded DEF Shows
  <2>4. ActiveShown'
    <3> SUFFICES ASSUME Localizing, c = NoCall, m # active PROVE Shows(active, disk[active].image)'
      BY <2>1, BlanksAre DEF ActiveShown
    <3>1. Shows(active, disk[active].image) /\ disk[active].image \in Image_ /\ active \in Maps
      BY <1>0, BlanksAre DEF Sound, OnGrid, ActiveShown, FilesTypeOK, Dirs
    <3>2. disk'[active] = disk[active]
      BY <1>1, <3>1
    <3> QED
      BY <2>1, <3>1, <3>2 DEF Shows
  <2>5. LoadedShown'
    <3> SUFFICES ASSUME Localizing, c = NoCall, eng.dir # NoMap PROVE Shows(eng.dir, disk[eng.dir].image)'
      BY <2>1, BlanksAre DEF LoadedShown
    <3>1. Shows(eng.dir, disk[eng.dir].image) /\ disk[eng.dir].image \in Image_ /\ eng.dir \in Maps
      BY <1>0, BlanksAre DEF Sound, OnGrid, LoadedShown, FilesTypeOK, Dirs, Engines, NoDir
    <3>2. CASE eng.dir # m
      <4>1. disk'[eng.dir] = disk[eng.dir]
        BY <1>1, <3>1, <3>2
      <4> QED
        BY <2>1, <3>1, <4>1 DEF Shows
    <3>3. CASE eng.dir = m
      <4>1. disk'[eng.dir] = EmptyDir /\ EmptyDir \in Dirs /\ EmptyDir.image \in Image_
        BY <1>1, <3>3, PicturesAre DEF Dirs
      <4>2. ~LoadGraph(EmptyDir, EmptyDir.image).there
        BY <4>1, BlankFiles, NoneLoaded
      <4> QED
        BY <4>1, <4>2 DEF Shows
    <3> QED
      BY <3>2, <3>3
  <2> QED
    BY <2>2, <2>4, <2>5 DEF OnGrid
<1> QED
  BY <1>2, <1>3, <1>4, <1>5, <1>6 DEF Sound

LEMMA ClientSound == ASSUME FilesBase, Sound, ~careless', Client PROVE Sound'
<1>0. FilesTypeOK /\ active \in Maps
  BY DEF FilesBase, FilesTypeOK
<1>1. ASSUME NEW m \in Maps, NEW md \in Modes, Start(m, md) PROVE Sound'
  <2> DEFINE r == [NoCall EXCEPT !.op = "start", !.pc = "switch", !.map = m, !.mode = md]
             g == md = "localizing" /\ ~HasOccupancyMap(disk[m])
             c == IF g THEN NoCall ELSE r
  <2>1. /\ up /\ call = NoCall /\ call' = c /\ active' = m /\ (Alive => rep.dir = m)
        /\ UNCHANGED <<disk, up, eng, rep, save, cancel>>
    BY <1>0, <1>1 DEF Start, Issue
  <2>2. r \in MapCommands /\ r.op = "start" /\ r.map = m /\ r.pc = "switch" /\ r.mode = md
    BY BlanksAre DEF MapCommands, Ops, CallSteps, NoDir
  <2>3. g => ~HasOccupancyMap(disk[m])
    OBVIOUS
  <2>4. ~g /\ md = "localizing" => HasOccupancyMap(disk[m])
    OBVIOUS
  <2> HIDE DEF r, g
  <2>5. CASE g
    <3>1. c = NoCall
      BY <2>5
    <3> HIDE DEF c
    <3> QED
      BY <2>1, <2>3, <2>5, <3>1, BlanksAre, IssuedSound
  <2>6. CASE ~g
    <3>1. c = r
      BY <2>6
    <3> HIDE DEF c
    <3> QED
      BY <2>1, <2>2, <2>4, <2>6, <3>1, IssuedSound
  <2> QED
    BY <2>5, <2>6
<1>2. ASSUME NEW m \in Maps, SetActive(m) PROVE Sound'
  <2>1. /\ up /\ call = NoCall /\ call' = NoCall /\ active' = m /\ ~Alive /\ m = eng.dir
        /\ UNCHANGED <<disk, up, eng, rep, save, cancel>>
    BY <1>0, <1>2 DEF SetActive, Issue
  <2> QED
    BY <2>1, BlanksAre, IssuedSound
<1>3. ASSUME NEW m \in Maps, DeleteMap(m) PROVE Sound'
  <2>1. /\ up /\ call = NoCall /\ call' = NoCall /\ disk' = [disk EXCEPT ![m] = EmptyDir] /\ ~Alive /\ m # active
        /\ UNCHANGED <<active, up, eng, rep, save, cancel>>
    BY <1>0, <1>3 DEF DeleteMap, Issue
  <2> QED
    BY <2>1, BlanksAre, EmptiedSound
<1>4. ASSUME NEW op \in {"save", "undo", "edit", "repair"}, NEW arg \in {"auto", "force", "never"}, OnActive(op, arg)
      PROVE Sound'
  <2> DEFINE r == [NoCall EXCEPT !.op = op, !.pc = "run", !.map = active, !.arg = arg]
             c == IF op = "repair" /\ mode # "mapping" THEN NoCall ELSE r
  <2>1. /\ up /\ call = NoCall /\ call' = c /\ (Alive => op \notin {"save", "undo"})
        /\ UNCHANGED <<disk, active, up, eng, rep, save, cancel>>
    BY <1>0, <1>4 DEF OnActive, Issue
  <2>2. r \in MapCommands /\ r.op = op /\ r.map = active /\ r.pc = "run"
    BY <1>0, BlanksAre DEF MapCommands, Ops, CallSteps, NoDir, FilesTypeOK
  <2>3. Alive => rep.dir = active
    BY DEF Sound, OnRepair, RepairOnActive
  <2> HIDE DEF r
  <2>5. c = NoCall \/ c = r
    BY Zenon
  <2> HIDE DEF c
  <2>6. CASE c = NoCall
    BY <1>0, <2>1, <2>3, <2>6, BlanksAre, IssuedSound
  <2>7. CASE c = r
    BY <1>0, <2>1, <2>2, <2>3, <2>7, IssuedSound
  <2> QED
    BY <2>5, <2>6, <2>7
<1>5. ASSUME ClearMap PROVE Sound'
  <2> DEFINE c == [NoCall EXCEPT !.op = "clear", !.pc = "run", !.map = active]
  <2>1. /\ up /\ call = NoCall /\ call' = c /\ disk' = [disk EXCEPT ![active] = EmptyDir] /\ ~Alive /\ active = eng.dir
        /\ UNCHANGED <<active, up, eng, rep, save, cancel>>
    BY <1>0, <1>5 DEF ClearMap, Issue, EmptiedDir
  <2>2. c \in MapCommands /\ c.op = "clear" /\ c.map = active /\ c.pc = "run"
    BY <1>0, BlanksAre DEF MapCommands, Ops, CallSteps, NoDir, FilesTypeOK
  <2> HIDE DEF c
  <2> QED
    BY <1>0, <2>1, <2>2, EmptiedSound
<1> QED
  BY <1>1, <1>2, <1>3, <1>4, <1>5 DEF Client

\* While a command loads, nobody writes, and a repair has not begun to apply.
LEMMA LoadAlone ==
    ASSUME FilesBase, Sound, call.pc = "load"
    PROVE  /\ call.op \in {"start", "undo"} /\ call.map = active /\ active \in Maps /\ call.mode \in Modes /\ up
           /\ \A t \in Savers : save[t].pc = "idle"
           /\ rep.pc \in {"none", "wait", "plan"}
           /\ \A m \in Maps : ~Raises(disk[m])
<1>0. FilesTypeOK /\ CallShape /\ SaveShape /\ RepairShape
  BY DEF FilesBase
<1>1. call.op \in {"start", "undo"}
  BY <1>0, BlanksAre DEF CallShape, FilesTypeOK, MapCommands, Ops
<1>2. call.map = active /\ active \in Maps /\ call.mode \in Modes /\ up
  BY <1>0, <1>1 DEF Sound, OnCall, CallOnActive, FilesTypeOK, CallShape, MapCommands
<1>3. rep.pc \in {"none", "wait", "plan"}
  BY DEF Sound, OnCall, LoadsAlone, Alive
<1>4. \A t \in Savers : save[t].pc = "idle"
  BY <1>0, <1>1, <1>3 DEF SaveShape, Savers
<1>5. \A m \in Maps : ~Raises(disk[m])
  BY <1>2, <1>4 DEF Sound, OnFiles, TornIsActive, Writing
<1> QED
  BY <1>1, <1>2, <1>3, <1>4, <1>5

\* The engine that a map was loaded into: it shows what a render would, or what
\* the image and the edits make.
LEMMA LoadShows ==
    ASSUME FilesBase, NEW m \in Maps, NEW e \in Engines, NEW md \in Modes,
           Fits(disk[m].keys),
           eng' = Configured(e, md, m, disk[m]), UNCHANGED disk
    PROVE  /\ eng'.mode = md /\ eng'.dir = m
           /\ eng'.mode = "mapping" => eng'.grid = Drawn(eng')
           /\ Unmapped'
           /\ Localizing' /\ Readable(disk[m]) => Shows(m, disk[m].image)'
<1>0. disk[m] \in Dirs
  BY DEF FilesBase, FilesTypeOK
<1>1. /\ eng' \in Engines /\ eng'.mode = md /\ eng'.dir = m
      /\ md = "localizing" =>
           eng'.graph = {} /\ eng'.edits = <<>> /\ eng'.saved = 0
           /\ eng'.grid = IF Readable(disk[m]) THEN disk[m].image.shows ELSE {}
      /\ md = "mapping" => eng'.grid = Drawn(eng')
  BY <1>0, ConfiguredIs
<1>2. <<>> \in Seq(Strokes) /\ Len(<<>>) = 0 /\ Range(<<>>) = {}
  BY RangeIs
<1>3. Range(SubSeq(<<>>, 0 + 1, Len(<<>>))) \subseteq {}
  BY <1>2, TailIs
<1>4. ASSUME md = "localizing" PROVE Unsaved' = {}
  BY <1>1, <1>3, <1>4 DEF Unsaved
<1>5. Unmapped'
  BY <1>1, <1>2 DEF Unmapped, Localizing
<1>6. Localizing' /\ Readable(disk[m]) => Shows(m, disk[m].image)'
  BY <1>1, <1>4 DEF Shows, Localizing
<1> QED
  BY <1>1, <1>5, <1>6

LEMMA LoadSound == ASSUME FilesBase, Sound, ~careless', Load PROVE Sound'
<1>0. FilesTypeOK /\ CallShape /\ SaveShape /\ RepairShape /\ eng \in Engines /\ active \in Maps /\ disk[active] \in Dirs
      /\ rep \in Repairs
  BY DEF FilesBase, FilesTypeOK
<1>1. /\ call.op \in {"start", "undo"} /\ call.map = active /\ call.mode \in Modes /\ up
      /\ \A t \in Savers : save[t].pc = "idle"
      /\ rep.pc \in {"none", "wait", "plan"}
      /\ \A m \in Maps : ~Raises(disk[m])
  BY LoadAlone DEF Load
<1>2. call' = NoCall /\ UNCHANGED <<disk, active, up, cancel, save>>
  BY DEF Load
<1>3. rep'.pc = rep.pc /\ rep'.dir = rep.dir /\ rep'.copied = rep.copied
  <2>1. rep' = rep \/ rep' = Moved
    BY DEF Load, Configure
  <2> QED
    BY <1>0, <2>1, MovedIs
<1>4. Fits(disk[active].keys) /\ (disk[active].image.is = "whole" => disk[active].geometry)
  BY <1>0 DEF Sound, OnFiles, DirsSound
<1>5. ~Raises(disk[active])
  BY <1>0, <1>1
<1>6. /\ eng'.dir = active
      /\ eng'.mode = "mapping" => eng'.grid = Drawn(eng')
      /\ Unmapped'
      /\ Localizing' => Shows(active, disk[active].image)'
  <2>1. CASE ~ConfigureFails(call.mode, disk[active])
    <3>1. eng' = Configured(eng, call.mode, active, disk[active])
      BY <1>1, <2>1 DEF Load, Configure
    <3>2. call.mode = "localizing" => Readable(disk[active])
      BY <2>1 DEF ConfigureFails
    <3>3. /\ eng'.mode = call.mode /\ eng'.dir = active
          /\ eng'.mode = "mapping" => eng'.grid = Drawn(eng')
          /\ Unmapped'
          /\ Localizing' /\ Readable(disk[active]) => Shows(active, disk[active].image)'
      BY <1>0, <1>1, <1>2, <1>4, <3>1, LoadShows
    <3> QED
      BY <3>2, <3>3 DEF Localizing
  <2>2. CASE ConfigureFails(call.mode, disk[active])
    <3>1. eng' = HalfConfigured(eng, call.mode, active)
      BY <1>1, <2>2 DEF Load, Configure
    <3>2. /\ eng'.mode = call.mode /\ eng'.dir = active /\ eng'.grid = eng.grid /\ eng'.graph = eng.graph
          /\ eng'.edits = eng.edits /\ eng'.saved = eng.saved
      <4>1. eng \in Engines /\ call.mode \in Modes /\ active \in Maps
        BY <1>0, <1>1
      <4>2. LET c == HalfConfigured(eng, call.mode, active) IN
            /\ c \in Engines /\ c.mode = call.mode /\ c.dir = active
            /\ c.of = eng.of /\ c.revision = eng.revision /\ c.grid = eng.grid /\ c.graph = eng.graph /\ c.base = eng.base
            /\ c.edits = eng.edits /\ c.saved = eng.saved
        BY <4>1, HalfIs, Zenon
      <4> QED
        BY <3>1, <4>2
    <3>3. call.mode = "localizing" /\ ~Readable(disk[active])
      BY <1>5, <2>2 DEF ConfigureFails
    <3>4. disk[active].image.is # "whole"
      BY <1>4, <3>3 DEF Readable
    <3>5. call.op = "undo"
      <4>1. call.op = "start" => HasOccupancyMap(disk[active])
        BY <1>1, <3>3 DEF Sound, OnCall, Findable
      <4>2. disk[active].image.is \in {"none", "torn", "whole"}
        BY <1>0 DEF Dirs, Image_
      <4> QED
        BY <1>1, <1>5, <3>4, <4>1, <4>2 DEF HasOccupancyMap, Raises
    <3>6. eng.mode = "localizing"
      BY <3>3, <3>5 DEF Sound, OnCall, Findable, Load
    <3>7. Unmapped'
      BY <3>2, <3>6 DEF Sound, OnGrid, Unmapped, Localizing
    <3>8. Shows(active, disk[active].image)'
      <4>1. disk[active].image \in Image_
        BY <1>0 DEF Dirs
      <4>2. ~LoadGraph(disk[active], disk[active].image).there
        BY <1>0, <1>4, <3>4, <4>1, NotLoaded
      <4> QED
        BY <1>2, <4>2 DEF Shows
    <3>9. eng'.mode # "mapping"
      BY <3>2, <3>3
    <3> QED
      BY <3>2, <3>7, <3>8, <3>9
  <2> QED
    BY <2>1, <2>2
<1>7. OnFiles'
  <2>1. call.pc # "copy"
    BY DEF Load
  <2> QED
    BY <1>2, <2>1, FilesKept DEF Sound
<1>8. OnRepair'
  <2>1. RepairOnActive'
    BY <1>2, <1>3, BlanksAre DEF Sound, OnRepair, RepairOnActive, Alive
  <2>2. Redraws' /\ RenderInTime'
    BY <1>1, <1>3 DEF Redraws, RenderInTime
  <2>3. BackupSound'
    BY <1>3 DEF Sound, OnRepair, BackupSound
  <2>4. MapsConsistent'
    BY <1>6 DEF MapsConsistent
  <2> QED
    BY <2>1, <2>2, <2>3, <2>4 DEF OnRepair
<1>9. OnCall'
  BY <1>2, BlanksAre DEF OnCall, CallOnActive, LoadsAlone, Findable, ClearedAway
<1>10. OnGrid'
  BY <1>2, <1>6 DEF OnGrid, ActiveShown, LoadedShown
<1>11. OnSave'
  BY <1>1, <1>2 DEF OnSave, ImageExtends, KeysExtend, SaveGood, Savers
<1> QED
  BY <1>7, <1>8, <1>9, <1>10, <1>11 DEF Sound

LEMMA SaveBeginsSound == ASSUME FilesBase, Sound, ~careless', SaveBegins PROVE Sound'
<1>0. FilesTypeOK /\ CallShape /\ SaveShape /\ RepairShape
  BY DEF FilesBase
<1>1. /\ call.op = "save" /\ call.pc = "run" /\ call.map = active /\ active \in Maps
      /\ disk' = [disk EXCEPT ![active] = BeginImage(disk[active])]
      /\ save' = [save EXCEPT !["client"] = [NoSave EXCEPT !.pc = "image", !.dir = active,
                                                           !.old = disk[active].image]]
      /\ call' = [call EXCEPT !.pc = "saving"]
      /\ UNCHANGED <<active, up, eng, rep, cancel>>
  BY <1>0 DEF SaveBegins, At, BeginSave, Sound, OnCall, CallOnActive, FilesTypeOK
<1>2. call'.pc = "saving" /\ call'.op = "save" /\ call'.map = active
  BY <1>0, <1>1 DEF FilesTypeOK, MapCommands, CallSteps
<1> DEFINE d == disk[active]
           b == BeginImage(d)
           s == [NoSave EXCEPT !.pc = "image", !.dir = active, !.old = d.image]
<1>3. d \in Dirs /\ b \in Dirs /\ b.image = TornImage /\ b.geometry = d.geometry /\ b.keys = d.keys /\ b.backup = d.backup
  BY <1>0, <1>1, DirsAre, DirFields DEF FilesTypeOK
<1>4. s \in Saves /\ s.pc = "image" /\ s.dir = active /\ s.old = d.image
  BY <1>1, <1>3, BeganIs, Zenon
<1>5. disk' = [disk EXCEPT ![active] = b] /\ save' = [save EXCEPT !["client"] = s]
  BY <1>1
<1>6. d.image \in Image_ /\ TornImage \in Image_ /\ Fits(d.keys)
  BY <1>1, <1>3, PicturesAre DEF Dirs, Sound, OnFiles, DirsSound
<1>7. d = disk[active]
  OBVIOUS
<1> HIDE DEF d, b, s
<1>8. disk'[active] = b /\ \A n \in Maps : n # active => disk'[n] = disk[n]
  BY <1>0, <1>1, <1>3, <1>5, DiskMoves
<1>9. save'["client"] = s /\ save'["repairer"] = save["repairer"]
  BY <1>0, <1>4, <1>5, SaveMoves DEF Savers
<1>10. OnFiles'
  <2>1. DirsSound'
    BY <1>3, <1>7, <1>8, BlankFiles DEF DirsSound, Sound, OnFiles
  <2>4. "client" \in Savers /\ save'["client"].pc = "image" /\ save'["client"].dir = active /\ active' = active
    BY <1>1, <1>4, <1>9 DEF Savers
  <2>2. Writing(active)'
    BY <2>4, Zenon DEF Writing
  <2>3. TornIsActive'
    BY <1>1, <1>8, <2>2 DEF Sound, OnFiles, TornIsActive, Writing, Savers
  <2> QED
    BY <2>1, <2>3 DEF OnFiles
<1>11. OnRepair'
  BY <1>1, <1>2, RepairKept DEF Sound
<1>12. OnCall'
  BY <1>1, <1>2 DEF OnCall, CallOnActive, LoadsAlone, Findable, ClearedAway
<1>13. Unsaved' = Unsaved /\ Localizing' = Localizing
  BY <1>1 DEF Unsaved, Localizing
<1>14. OnGrid'
  <2>1. Unmapped'
    BY <1>1, <1>13 DEF Sound, OnGrid, Unmapped
  <2>2. ~LoadGraph(b, b.image).there
    BY <1>3, <1>6, NotLoaded, BlankFiles
  <2>3. Shows(active, disk[active].image)'
    BY <1>1, <1>8, <2>2 DEF Shows
  <2>4. ActiveShown'
    BY <2>3 DEF ActiveShown
  <2>5. LoadedShown'
    <3> SUFFICES ASSUME Localizing, eng.dir # NoMap, eng.dir # active PROVE Shows(eng.dir, disk[eng.dir].image)'
      BY <1>1, <1>13, <2>3 DEF LoadedShown
    <3>1. Shows(eng.dir, disk[eng.dir].image) /\ eng.dir \in Maps
      BY <1>0, <1>1 DEF Sound, OnGrid, LoadedShown, FilesTypeOK, Engines, NoDir
    <3>2. disk'[eng.dir] = disk[eng.dir]
      BY <1>8, <3>1
    <3> QED
      BY <1>1, <1>13, <3>1, <3>2 DEF Shows
  <2> QED
    BY <2>1, <2>4, <2>5 DEF OnGrid
<1>15. OnSave'
  <2>1. ASSUME Localizing PROVE LoadGraph(disk'[active], d.image).there => eng'.grid = d.image.shows \cup Unsaved'
    <3>1. Shows(active, d.image)
      BY <1>1, <1>7, <2>1 DEF Sound, OnGrid, ActiveShown
    <3>2. LoadGraph(b, d.image) = LoadGraph(d, d.image)
      BY <1>3, <1>6, SameKeys
    <3> QED
      BY <1>1, <1>7, <1>8, <1>13, <3>1, <3>2 DEF Shows
  <2>2. ImageExtends'
    BY <1>1, <1>4, <1>9, <1>13, <2>1 DEF ImageExtends, Shows
  <2>3. KeysExtend'
    BY <1>4, <1>9 DEF KeysExtend
  <2>4. SaveGood'
    BY <1>1, <1>4, <1>9, <1>13 DEF SaveGood, Sound, OnSave, Savers
  <2> QED
    BY <2>2, <2>3, <2>4 DEF OnSave
<1> QED
  BY <1>10, <1>11, <1>12, <1>14, <1>15 DEF Sound

\* One save at a time, of the active map.
LEMMA SavesAlone ==
    ASSUME FilesBase, Sound, NEW t \in Savers, save[t].pc # "idle"
    PROVE  /\ save[t].dir = active /\ active \in Maps /\ up
           /\ \A o \in Savers : o # t => save[o].pc = "idle"
           /\ t = "client" => call.op = "save" /\ call.pc = "saving" /\ ~Alive
           /\ t = "repairer" => rep.pc = "saving" /\ eng.mode = "mapping" /\ call.op \notin {"save", "undo", "clear"}
           /\ rep.pc \in {"none", "saving"}
<1>0. FilesTypeOK /\ CallShape /\ SaveShape /\ RepairShape
  BY DEF FilesBase
<1>1. CASE t = "client"
  <2>1. call.op = "save" /\ call.pc = "saving" /\ save[t].dir = call.map
    BY <1>0, <1>1 DEF SaveShape
  <2>2. ~Alive /\ call.map = active
    BY <2>1 DEF Sound, OnRepair, RepairOnActive, OnCall, CallOnActive
  <2>3. save["repairer"].pc = "idle"
    BY <1>0, <2>2 DEF SaveShape, Alive
  <2> QED
    BY <1>0, <1>1, <2>1, <2>2, <2>3 DEF Savers, CallShape, FilesTypeOK, Alive
<1>2. CASE t = "repairer"
  <2>1. rep.pc = "saving" /\ save[t].dir = rep.dir
    BY <1>0, <1>2 DEF SaveShape
  <2>2. rep.dir = active /\ call.op \notin {"save", "undo", "clear"} /\ eng.mode = "mapping"
    BY <2>1 DEF Sound, OnRepair, RepairOnActive, Redraws, Alive
  <2>3. save["client"].pc = "idle"
    BY <1>0, <2>2 DEF SaveShape
  <2> QED
    BY <1>0, <1>2, <2>1, <2>2, <2>3 DEF Savers, RepairShape, FilesTypeOK, Alive
<1> QED
  BY <1>1, <1>2 DEF Savers

LEMMA SaveImageSound == ASSUME FilesBase, Sound, ~careless', NEW t \in Savers, SaveImage(t) PROVE Sound'
<1>0. FilesTypeOK /\ CallShape /\ SaveShape /\ RepairShape /\ eng \in Engines
  BY DEF FilesBase, FilesTypeOK
<1>1. /\ save[t].dir = active /\ active \in Maps
      /\ \A o \in Savers : o # t => save[o].pc = "idle"
      /\ t = "client" => call.op = "save" /\ call.pc = "saving" /\ ~Alive
      /\ t = "repairer" => rep.pc = "saving" /\ eng.mode = "mapping" /\ call.op \notin {"save", "undo", "clear"}
      /\ rep.pc \in {"none", "saving"}
  BY SavesAlone DEF SaveImage
<1>2. /\ save[t].pc = "image"
      /\ disk' = [disk EXCEPT ![active] = EndImage(disk[active], eng.grid)]
      /\ eng' = [eng EXCEPT !.dir = active]
      /\ save' = [save EXCEPT ![t] = Payload(eng, save[t])]
      /\ UNCHANGED <<active, up, rep, call, cancel>>
  BY <1>0, <1>1 DEF SaveImage, FilesTypeOK
<1> DEFINE d == disk[active]
           b == EndImage(d, eng.grid)
           p == Payload(eng, save[t])
<1>3. /\ eng'.dir = active /\ eng'.mode = eng.mode /\ eng'.grid = eng.grid /\ eng'.base = eng.base
      /\ eng'.graph = eng.graph /\ eng'.edits = eng.edits /\ eng'.saved = eng.saved /\ eng'.revision = eng.revision
  BY <1>0, <1>1, <1>2 DEF Engines, NoDir
<1>4. eng.grid \in SUBSET Strokes /\ save[t] \in Saves /\ d \in Dirs /\ eng.edits \in Seq(Strokes) /\ eng.saved \in Nat
  BY <1>0, <1>1 DEF FilesTypeOK, Engines
<1>5. b \in Dirs /\ b.image = Image(eng.grid) /\ b.geometry /\ b.keys = d.keys /\ b.backup = d.backup
  BY <1>4, DirsAre, DirFields
<1>6. /\ p \in Saves /\ p.pc = "keys" /\ p.dir = save[t].dir /\ p.old = save[t].old
      /\ (p.live <=> eng.graph # {}) /\ p.mode = eng.mode /\ p.grid = eng.grid
      /\ p.keys = Keys(Image(eng.grid), eng.base, eng.graph, eng.edits)
      /\ p.fresh = SubSeq(eng.edits, eng.saved + 1, Len(eng.edits))
  <2>1. eng \in Engines /\ save[t] \in Saves
    BY <1>0, <1>4
  <2> QED
    BY <2>1, PayloadIs, Zenon
<1>7. disk' = [disk EXCEPT ![active] = b] /\ save' = [save EXCEPT ![t] = p] /\ d = disk[active]
  BY <1>2
<1>8. Image(eng.grid) \in Image_ /\ Image(eng.grid).is = "whole" /\ Image(eng.grid).shows = eng.grid /\ Fits(d.keys)
  BY <1>1, <1>4, PicturesAre, BlankFiles DEF Sound, OnFiles, DirsSound
<1> HIDE DEF d, b, p
<1>9. disk'[active] = b /\ \A n \in Maps : n # active => disk'[n] = disk[n]
  BY <1>0, <1>1, <1>5, <1>7, DiskMoves
<1>10. save'[t] = p /\ \A o \in Savers : o # t => save'[o] = save[o]
  BY <1>0, <1>6, <1>7, SaveMoves
<1>11. OnFiles'
  <2>1. DirsSound'
    BY <1>5, <1>7, <1>9 DEF DirsSound, Sound, OnFiles
  <2>2. \A n \in Maps : ~Raises(disk'[n])
    BY <1>1, <1>5, <1>8, <1>9 DEF Sound, OnFiles, TornIsActive, Raises
  <2>3. TornIsActive'
    BY <2>2 DEF TornIsActive
  <2> QED
    BY <2>1, <2>3 DEF OnFiles
<1>12. OnRepair'
  <2>1. RepairOnActive' /\ Redraws' /\ RenderInTime' /\ BackupSound'
    BY <1>2, <1>3 DEF Sound, OnRepair, RepairOnActive, Redraws, RenderInTime, BackupSound, Alive
  <2>2. MapsConsistent'
    BY <1>2, <1>3 DEF Sound, OnRepair, MapsConsistent, Drawn
  <2> QED
    BY <2>1, <2>2 DEF OnRepair
<1>13. OnCall'
  <2>1. CallOnActive'
    BY <1>2 DEF Sound, OnCall, CallOnActive
  <2>2. LoadsAlone'
    BY <1>2 DEF Sound, OnCall, LoadsAlone, Alive
  <2>3. HasOccupancyMap(disk'[active])
    BY <1>5, <1>8, <1>9 DEF HasOccupancyMap
  <2>4. call.op # "none" => call.map = active
    BY DEF Sound, OnCall, CallOnActive
  <2>5. Findable'
    BY <1>2, <1>3, <2>3, <2>4 DEF Sound, OnCall, Findable
  <2>6. call.op # "clear"
    BY <1>1 DEF Savers
  <2>7. ClearedAway'
    BY <1>2, <2>6 DEF ClearedAway
  <2> QED
    BY <2>1, <2>2, <2>5, <2>7 DEF OnCall
<1>14. Unsaved' = Unsaved /\ Localizing' = Localizing
  BY <1>3 DEF Unsaved, Localizing
<1>15. Localizing => /\ Unsaved \subseteq eng.grid
                     /\ eng.graph = {} /\ t = "client"
  BY <1>1, <1>4, TailIs DEF Sound, OnGrid, Unmapped, Localizing, Unsaved, Savers
<1>16. OnGrid'
  <2>1. Unmapped'
    BY <1>3, <1>14 DEF Sound, OnGrid, Unmapped
  <2>2. ASSUME Localizing PROVE Shows(active, disk[active].image)'
    BY <1>2, <1>3, <1>5, <1>8, <1>9, <1>14, <1>15, <2>2 DEF Shows
  <2>3. ActiveShown' /\ LoadedShown'
    BY <1>2, <1>3, <1>14, <2>2 DEF ActiveShown, LoadedShown
  <2> QED
    BY <2>1, <2>3 DEF OnGrid
<1>17. OnSave'
  <2>1. ImageExtends'
    BY <1>1, <1>6, <1>10 DEF ImageExtends, Savers
  <2>2. KeysExtend'
    <3> SUFFICES ASSUME Localizing PROVE
            /\ LoadGraph(disk'[active], p.old).there => eng'.grid = p.old.shows \cup Unsaved'
            /\ p.grid = eng'.grid
            /\ p.fresh = SubSeq(eng'.edits, eng'.saved + 1, Len(eng'.edits))
            /\ disk'[active].image = Image(eng'.grid) /\ eng'.dir = active
      BY <1>2, <1>10, <1>14, <1>15 DEF KeysExtend, Shows
    <3>1. Shows(active, save[t].old)
      BY <1>2, <1>15 DEF Sound, OnSave, ImageExtends
    <3>2. save[t].old \in Image_
      BY <1>4 DEF Saves
    <3>3. LoadGraph(disk'[active], save[t].old) = LoadGraph(disk[active], save[t].old)
      BY <1>4, <1>5, <1>7, <1>9, <3>2, SameKeys
    <3> QED
      BY <1>3, <1>5, <1>6, <1>9, <1>14, <3>1, <3>3 DEF Shows
  <2>3. SaveGood'
    <3> SUFFICES ASSUME NEW o \in Savers, save'[o].pc = "keys"
                 PROVE  /\ save'[o].live => Fits(save'[o].keys)
                        /\ save'[o].mode = eng'.mode
                        /\ Localizing' => o = "client" /\ ~save'[o].live
      BY DEF SaveGood
    <3>1. o = t
      BY <1>1, <1>10
    <3>2. ASSUME p.live PROVE Fits(p.keys)
      <4>1. eng.mode = "mapping"
        <5>1. eng.mode \in Modes
          BY <1>0 DEF Engines
        <5> QED
          BY <1>6, <1>15, <3>2, <5>1 DEF Localizing, Modes
      <4>2. eng.grid = Drawn(eng)
        BY <1>1, <4>1 DEF Sound, OnRepair, MapsConsistent
      <4>3. Render(p.keys) = Drawn(eng) /\ p.keys.sha = Image(eng.grid)
        BY <1>6 DEF Render, Drawn, Keys
      <4> QED
        BY <4>2, <4>3 DEF Fits
    <3> QED
      BY <1>3, <1>6, <1>10, <1>14, <1>15, <3>1, <3>2
  <2> QED
    BY <2>1, <2>2, <2>3 DEF OnSave
<1> QED
  BY <1>11, <1>12, <1>13, <1>16, <1>17 DEF Sound

LEMMA SaveKeysSound == ASSUME FilesBase, Sound, ~careless', NEW t \in Savers, SaveKeys(t) PROVE Sound'
<1>0. FilesTypeOK /\ CallShape /\ SaveShape /\ RepairShape /\ eng \in Engines
  BY DEF FilesBase, FilesTypeOK
<1>1. /\ save[t].dir = active /\ active \in Maps
      /\ \A o \in Savers : o # t => save[o].pc = "idle"
      /\ t = "client" => call.op = "save" /\ call.pc = "saving" /\ ~Alive
      /\ t = "repairer" => rep.pc = "saving" /\ eng.mode = "mapping" /\ call.op \notin {"save", "undo", "clear"}
      /\ rep.pc \in {"none", "saving"}
  BY SavesAlone DEF SaveKeys
<1> DEFINE s == save[t]
           d == disk[active]
           kept == LoadGraph(d, s.old)
           rewritten == Keys(Image(s.grid), kept.base, kept.scans, kept.edits \o s.fresh)
<1>2. /\ s.pc = "keys" /\ save' = [save EXCEPT ![t] = [s EXCEPT !.pc = "end"]]
      /\ UNCHANGED <<active, up, rep, call, cancel>>
      /\ \/ /\ s.live /\ disk' = [disk EXCEPT ![active] = WriteKeys(d, s.keys)]
            /\ eng' = [eng EXCEPT !.saved = Len(s.keys.edits)]
         \/ /\ ~s.live /\ s.mode = "localizing" /\ kept.there
            /\ disk' = [disk EXCEPT ![active] = WriteKeys(d, rewritten)]
            /\ eng' = [eng EXCEPT !.saved = eng.saved + Len(s.fresh)]
         \/ UNCHANGED <<disk, eng>>
  BY <1>0, <1>1 DEF SaveKeys, FilesTypeOK, Engines
<1>3. s \in Saves /\ d \in Dirs /\ s.old \in Image_ /\ s.keys \in KeyFiles /\ s.fresh \in Seq(Strokes)
      /\ s.grid \in SUBSET Strokes /\ eng.edits \in Seq(Strokes) /\ eng.saved \in Nat
  BY <1>0, <1>1 DEF FilesTypeOK, Saves, Engines
<1>4. /\ s.live => Fits(s.keys) /\ ~Localizing
      /\ s.mode = eng.mode
      /\ Localizing => t = "client"
  BY <1>2 DEF Sound, OnSave, SaveGood
<1>5. kept \in KeyFiles
  BY <1>3, LoadIs
<1>6. rewritten \in KeyFiles
  <2> HIDE DEF kept
  <2>1. Image(s.grid) \in Image_ /\ kept.base \in SUBSET Strokes /\ kept.scans \in SUBSET Strokes
        /\ kept.edits \o s.fresh \in Seq(Strokes)
    BY <1>3, <1>5, RangeIs, PicturesAre DEF KeyFiles
  <2> QED
    BY <2>1, KeysAre
<1>7. [s EXCEPT !.pc = "end"] \in Saves /\ [s EXCEPT !.pc = "end"].pc = "end"
  BY <1>3 DEF Saves
<1>8. save'[t].pc = "end" /\ \A o \in Savers : o # t => save'[o] = save[o]
  BY <1>0, <1>2, <1>7, SaveMoves
<1>9. Fits(d.keys) /\ (d.image.is = "whole" => d.geometry) /\ SoundFiles(d.backup)
  BY <1>1 DEF Sound, OnFiles, DirsSound
\* The keyframes that are written belong to the image that was written.
<1>10. ASSUME Localizing, kept.there
       PROVE  /\ Fits(rewritten) /\ rewritten.sha = Image(eng.grid) /\ d.image = Image(eng.grid)
              /\ Len(s.fresh) = Len(eng.edits) - eng.saved /\ eng.saved <= Len(eng.edits)
  <2>1. /\ Shows(active, s.old) /\ s.grid = eng.grid /\ d.image = Image(eng.grid)
        /\ s.fresh = SubSeq(eng.edits, eng.saved + 1, Len(eng.edits))
    BY <1>2, <1>4, <1>10 DEF Sound, OnSave, KeysExtend
  <2>2. eng.grid = s.old.shows \cup Unsaved
    BY <1>10, <2>1 DEF Shows
  <2>3. kept = d.keys /\ s.old.shows = Render(kept)
    BY <1>3, <1>9, <1>10, LoadedIs
  <2>4. Range(s.fresh) = Unsaved
    BY <2>1 DEF Unsaved
  <2> HIDE DEF kept, s
  <2>5. Range(kept.edits \o s.fresh) = Range(kept.edits) \cup Range(s.fresh)
    BY <1>3, <1>5, RangeIs DEF KeyFiles
  <2>6. Render(rewritten) = Render(kept) \cup Range(s.fresh)
    BY <2>5 DEF Render, Keys
  <2>7. rewritten.sha = Image(eng.grid)
    BY <2>1 DEF Keys
  <2>8. eng.saved <= Len(eng.edits)
    BY <1>10 DEF Sound, OnGrid, Unmapped
  <2>9. Len(s.fresh) = Len(eng.edits) - eng.saved
    BY <1>3, <2>1, <2>8, TailIs
  <2> QED
    BY <2>1, <2>2, <2>3, <2>4, <2>6, <2>7, <2>8, <2>9 DEF Fits
<1>11. /\ \/ /\ s.live /\ disk' = [disk EXCEPT ![active] = WriteKeys(d, s.keys)]
             /\ eng' = [eng EXCEPT !.saved = Len(s.keys.edits)] /\ Fits(s.keys) /\ ~Localizing
          \/ /\ Localizing /\ kept.there
             /\ disk' = [disk EXCEPT ![active] = WriteKeys(d, rewritten)]
             /\ eng' = [eng EXCEPT !.saved = eng.saved + Len(s.fresh)] /\ Fits(rewritten)
          \/ UNCHANGED <<disk, eng>>
  <2> HIDE DEF kept, s, rewritten, d
  <2>1. CASE ~s.live /\ s.mode = "localizing" /\ kept.there
            /\ disk' = [disk EXCEPT ![active] = WriteKeys(d, rewritten)]
            /\ eng' = [eng EXCEPT !.saved = eng.saved + Len(s.fresh)]
    <3>1. Localizing
      BY <1>4, <2>1 DEF Localizing
    <3> QED
      BY <1>10, <2>1, <3>1
  <2>2. CASE s.live /\ disk' = [disk EXCEPT ![active] = WriteKeys(d, s.keys)]
            /\ eng' = [eng EXCEPT !.saved = Len(s.keys.edits)]
    BY <1>4, <2>2
  <2> QED
    BY <1>2, <2>1, <2>2
\* What of a directory and of the engine stays.
<1>12. /\ eng'.dir = eng.dir /\ eng'.mode = eng.mode /\ eng'.grid = eng.grid /\ eng'.base = eng.base
       /\ eng'.graph = eng.graph /\ eng'.edits = eng.edits /\ eng'.revision = eng.revision
  <2> DEFINE n == Len(s.keys.edits)
             k == eng.saved + Len(s.fresh)
  <2>1. eng' = [eng EXCEPT !.saved = n] \/ eng' = [eng EXCEPT !.saved = k] \/ eng' = eng
    BY <1>11
  <2> HIDE DEF n, k
  <2> QED
    BY <1>0, <2>1 DEF Engines
<1>13. /\ \A m \in Maps : /\ disk'[m].image = disk[m].image /\ disk'[m].geometry = disk[m].geometry
                          /\ disk'[m].backup = disk[m].backup /\ Fits(disk'[m].keys)
                          /\ m # active => disk'[m] = disk[m]
  <2> DEFINE b1 == WriteKeys(d, s.keys)
             b2 == WriteKeys(d, rewritten)
  <2>1. /\ b1 \in Dirs /\ b1.image = d.image /\ b1.geometry = d.geometry /\ b1.keys = s.keys /\ b1.backup = d.backup
    BY <1>3, DirsAre, DirFields
  <2>2. /\ b2 \in Dirs /\ b2.image = d.image /\ b2.geometry = d.geometry /\ b2.keys = rewritten /\ b2.backup = d.backup
    <3> HIDE DEF rewritten, d
    <3> QED
      BY <1>3, <1>6, DirsAre, DirFields
  <2>3. \A m \in Maps : Fits(disk[m].keys)
    BY DEF Sound, OnFiles, DirsSound
  <2>4. d = disk[active]
    OBVIOUS
  <2>5. \/ disk' = [disk EXCEPT ![active] = b1] /\ Fits(s.keys)
        \/ disk' = [disk EXCEPT ![active] = b2] /\ Fits(rewritten)
        \/ disk' = disk
    BY <1>11
  <2> HIDE DEF b1, b2, rewritten, s, d
  <2>6. CASE disk' = [disk EXCEPT ![active] = b1] /\ Fits(s.keys)
    <3>1. disk'[active] = b1 /\ \A m \in Maps : m # active => disk'[m] = disk[m]
      BY <1>0, <1>1, <2>1, <2>6, DiskMoves
    <3> QED
      BY <2>1, <2>3, <2>4, <2>6, <3>1
  <2>7. CASE disk' = [disk EXCEPT ![active] = b2] /\ Fits(rewritten)
    <3>1. disk'[active] = b2 /\ \A m \in Maps : m # active => disk'[m] = disk[m]
      BY <1>0, <1>1, <2>2, <2>7, DiskMoves
    <3> QED
      BY <2>2, <2>3, <2>4, <2>7, <3>1
  <2>8. CASE disk' = disk
    BY <2>3, <2>8
  <2> QED
    BY <2>5, <2>6, <2>7, <2>8
<1>14. OnFiles'
  <2>1. DirsSound'
    BY <1>13 DEF Sound, OnFiles, DirsSound
  <2>2. \A m : Writing(m) => Writing(m)'
    BY <1>2, <1>8 DEF Writing
  <2>3. TornIsActive'
    BY <1>2, <1>13, <2>2 DEF Sound, OnFiles, TornIsActive, Raises
  <2> QED
    BY <2>1, <2>3 DEF OnFiles
<1>15. OnRepair'
  <2>1. RepairOnActive' /\ Redraws' /\ RenderInTime' /\ BackupSound'
    BY <1>2, <1>12 DEF Sound, OnRepair, RepairOnActive, Redraws, RenderInTime, BackupSound, Alive
  <2>2. MapsConsistent'
    BY <1>2, <1>12 DEF Sound, OnRepair, MapsConsistent, Drawn
  <2> QED
    BY <2>1, <2>2 DEF OnRepair
<1>16. OnCall'
  <2>1. CallOnActive'
    BY <1>2 DEF Sound, OnCall, CallOnActive
  <2>2. LoadsAlone'
    BY <1>2 DEF Sound, OnCall, LoadsAlone, Alive
  <2>4. call.op # "none" => call.map \in Maps
    BY <1>0 DEF CallShape
  <2>5. Findable'
    BY <1>2, <1>12, <1>13, <2>4 DEF Sound, OnCall, Findable, HasOccupancyMap
  <2>6. call.op # "clear"
    BY <1>1 DEF Savers
  <2>7. ClearedAway'
    BY <1>2, <2>6 DEF ClearedAway
  <2> QED
    BY <2>1, <2>2, <2>5, <2>7 DEF OnCall
<1>17. OnGrid'
  <2>1. CASE ~Localizing
    BY <1>12, <2>1 DEF OnGrid, Unmapped, ActiveShown, LoadedShown, Localizing
  <2>2. CASE Localizing /\ UNCHANGED <<disk, eng>>
    BY <1>2, <2>2, GridKept DEF Sound
  <2>3. CASE /\ Localizing /\ kept.there
             /\ disk' = [disk EXCEPT ![active] = WriteKeys(d, rewritten)]
             /\ eng' = [eng EXCEPT !.saved = eng.saved + Len(s.fresh)]
    <3>1. Len(s.fresh) = Len(eng.edits) - eng.saved /\ eng.saved <= Len(eng.edits) /\ d.image = Image(eng.grid)
      BY <1>10, <2>3
    <3>2. eng'.saved = Len(eng.edits)
      <4> DEFINE l == Len(eng.edits)
                 k == Len(s.fresh)
      <4>1. l \in Nat /\ k = l - eng.saved
        BY <1>3, <3>1
      <4> HIDE DEF l, k
      <4>2. eng.saved + k = l
        BY <1>3, <4>1
      <4>3. eng'.saved = eng.saved + k
        BY <1>0, <2>3 DEF Engines, k
      <4> QED
        BY <4>2, <4>3 DEF l
    <3>3. Unsaved' \subseteq eng.grid
      <4>1. Unsaved' \subseteq Range(eng.edits)
        <5>1. eng'.saved \in Nat /\ eng'.edits = eng.edits
          BY <1>3, <1>12, <3>2
        <5> QED
          BY <1>3, <5>1, TailIs DEF Unsaved
      <4> QED
        BY <2>3, <4>1 DEF Sound, OnGrid, Unmapped
    <3>4. Unmapped'
      <4>1. Len(eng.edits) \in Nat
        BY <1>3
      <4> QED
        BY <1>12, <2>3, <3>2, <4>1 DEF Sound, OnGrid, Unmapped, Localizing
    <3>5. Image(eng.grid).shows = eng.grid
      BY BlankFiles
    <3>6. Shows(active, disk[active].image)'
      BY <1>1, <1>2, <1>12, <1>13, <3>1, <3>3, <3>5 DEF Shows
    <3>7. ActiveShown'
      BY <3>6 DEF ActiveShown
    <3>8. LoadedShown'
      <4>1. eng.dir = active
        BY <1>2, <1>4, <2>3 DEF Sound, OnSave, KeysExtend
      <4> QED
        BY <1>2, <1>12, <3>6, <4>1 DEF LoadedShown
    <3> QED
      BY <3>4, <3>7, <3>8 DEF OnGrid
  <2> QED
    BY <1>11, <2>1, <2>2, <2>3
<1>18. OnSave'
  <2>1. ImageExtends' /\ KeysExtend'
    BY <1>1, <1>8 DEF ImageExtends, KeysExtend, Savers
  <2>2. SaveGood'
    BY <1>1, <1>8 DEF SaveGood
  <2> QED
    BY <2>1, <2>2 DEF OnSave
<1> QED
  BY <1>14, <1>15, <1>16, <1>17, <1>18 DEF Sound

LEMMA AskedSound == ASSUME FilesBase, Sound, ~careless', SaveEnds \/ RepairMap PROVE Sound'
<1>0. FilesTypeOK /\ CallShape /\ SaveShape /\ RepairShape
  BY DEF FilesBase
<1>1. /\ call.op \in {"save", "repair"} /\ call.pc \in {"run", "saving"} /\ call.map = active /\ active \in Maps /\ up
      /\ call.arg \in {"auto", "force", "never"} /\ call' = NoCall
      /\ UNCHANGED <<disk, active, up, eng, cancel>>
  BY <1>0 DEF SaveEnds, RepairMap, At, CallShape, FilesTypeOK, MapCommands, Sound, OnCall, CallOnActive
<1>2. save["client"].pc \in {"idle", "end"} /\ save'["client"].pc = "idle" /\ save'["repairer"] = save["repairer"]
  <2>1. CASE SaveEnds
    <3>1. save' = [save EXCEPT !["client"] = NoSave] /\ save["client"].pc = "end"
      BY <2>1 DEF SaveEnds
    <3> QED
      BY <1>0, <3>1, BlanksAre, SaveMoves DEF Savers
  <2>2. CASE RepairMap
    BY <1>0, <2>2 DEF RepairMap, At, SaveShape, FilesTypeOK
  <2> QED
    BY <2>1, <2>2
<1>3. rep' = rep \/ (~Alive /\ rep'.pc = "start" /\ rep'.dir = active /\ rep'.copied = NoBackup)
  <2>1. rep' = rep \/ (\E a \in {"auto", "force", "never"} : StartRepair(active, a))
    BY <1>1 DEF SaveEnds, RepairMap
  <2>3. ASSUME NEW a \in {"auto", "force", "never"}, StartRepair(active, a)
        PROVE  rep' = rep \/ (~Alive /\ rep'.pc = "start" /\ rep'.dir = active /\ rep'.copied = NoBackup)
    BY <1>1, <2>3, StartIs
  <2> QED
    BY <2>1, <2>3
<1>4. OnFiles'
  <2>1. \A m : Writing(m) => Writing(m)'
    BY <1>1, <1>2 DEF Writing, Savers
  <2> QED
    BY <1>1, <2>1 DEF Sound, OnFiles, DirsSound, TornIsActive
<1>5. OnRepair'
  <2>1. RepairOnActive'
    BY <1>1, <1>3, BlanksAre DEF Sound, OnRepair, RepairOnActive, Alive
  <2>2. Redraws' /\ RenderInTime'
    BY <1>1, <1>3 DEF Sound, OnRepair, Redraws, RenderInTime
  <2>3. BackupSound'
    BY <1>3, BlankFiles DEF Sound, OnRepair, BackupSound
  <2>4. MapsConsistent'
    BY <1>1, <1>3 DEF Sound, OnRepair, MapsConsistent, Alive
  <2> QED
    BY <2>1, <2>2, <2>3, <2>4 DEF OnRepair
<1>6. OnCall'
  BY <1>1, BlanksAre DEF OnCall, CallOnActive, LoadsAlone, Findable, ClearedAway
<1>7. OnGrid'
  BY <1>1, BlanksAre, GridKept DEF Sound
<1>8. OnSave'
  <2>1. ImageExtends' /\ KeysExtend'
    BY <1>2 DEF ImageExtends, KeysExtend
  <2>2. SaveGood'
    BY <1>1, <1>2 DEF SaveGood, Sound, OnSave, Savers, Localizing
  <2> QED
    BY <2>1, <2>2 DEF OnSave
<1> QED
  BY <1>4, <1>5, <1>6, <1>7, <1>8 DEF Sound

\* A step of an undo that rewrites the active map's files.
LEMMA UndoneSound ==
    ASSUME FilesBase, Sound, call.op = "undo", NEW d \in Dirs, disk' = [disk EXCEPT ![active] = d],
           d.image.is = "whole" => d.geometry, Fits(d.keys), SoundFiles(d.backup),
           Raises(d) => call'.pc = "copy",
           call.pc \in {"job", "copy", "keys", "drop"}, call'.op = "undo", call'.map = active,
           call'.pc \in {"copy", "keys", "drop", "switch"}, call'.pc = "switch" => call'.mode = eng.mode,
           UNCHANGED <<active, up, eng, rep, save>>
    PROVE  Sound'
<1>0. FilesTypeOK /\ CallShape /\ SaveShape /\ RepairShape /\ active \in Maps
  BY DEF FilesBase, FilesTypeOK
<1>1. ~Alive /\ \A t \in Savers : save[t].pc = "idle"
  BY <1>0 DEF Sound, OnRepair, RepairOnActive, SaveShape, Savers, Alive
<1>2. disk'[active] = d /\ \A n \in Maps : n # active => disk'[n] = disk[n]
  BY <1>0, DiskMoves
<1>3. OnFiles'
  <2>1. DirsSound'
    BY <1>2 DEF Sound, OnFiles, DirsSound
  <2>2. TornIsActive'
    BY <1>2 DEF Sound, OnFiles, TornIsActive, Writing
  <2> QED
    BY <2>1, <2>2 DEF OnFiles
<1>4. OnRepair'
  <2>1. RepairOnActive' /\ Redraws' /\ RenderInTime' /\ BackupSound'
    BY <1>1 DEF Sound, OnRepair, RepairOnActive, Redraws, RenderInTime, BackupSound, Alive
  <2>2. MapsConsistent'
    BY DEF Sound, OnRepair, MapsConsistent
  <2> QED
    BY <2>1, <2>2 DEF OnRepair
<1>5. OnCall'
  BY DEF OnCall, CallOnActive, LoadsAlone, Findable, ClearedAway
<1>6. OnSave'
  BY <1>1, SaveKeptIdle DEF Sound, Savers
<1>7. OnGrid'
  <2>1. Unsaved' = Unsaved /\ Localizing' = Localizing
    BY DEF Unsaved, Localizing
  <2>2. Unmapped'
    BY <2>1 DEF Sound, OnGrid, Unmapped
  <2>3. ActiveShown'
    BY DEF ActiveShown
  <2>4. LoadedShown'
    <3> SUFFICES ASSUME Localizing, active # eng.dir, eng.dir # NoMap PROVE Shows(eng.dir, disk[eng.dir].image)'
      BY <2>1 DEF LoadedShown
    <3>1. Shows(eng.dir, disk[eng.dir].image) /\ eng.dir \in Maps
      BY <1>0 DEF Sound, OnGrid, LoadedShown, FilesTypeOK, Engines, NoDir
    <3>2. disk'[eng.dir] = disk[eng.dir]
      BY <1>2, <3>1
    <3> QED
      BY <2>1, <3>1, <3>2 DEF Shows
  <2> QED
    BY <2>2, <2>3, <2>4 DEF OnGrid
<1> QED
  BY <1>3, <1>4, <1>5, <1>6, <1>7 DEF Sound

LEMMA UndoSound ==
    ASSUME FilesBase, Sound, ~careless', UndoTakesJob \/ UndoImage \/ UndoKeys \/ UndoDrops
    PROVE  Sound'
<1>0. FilesTypeOK /\ call \in MapCommands /\ active \in Maps /\ eng.mode \in Modes
  BY DEF FilesBase, FilesTypeOK, Engines
<1> DEFINE d == disk[active]
<1>1. /\ call.op = "undo" /\ call.map = active /\ d \in Dirs
      /\ UNCHANGED <<active, up, eng, rep, save>>
  BY <1>0 DEF UndoTakesJob, UndoImage, UndoKeys, UndoDrops, At, Sound, OnCall, CallOnActive, FilesTypeOK
<1>2. /\ d.image.is = "whole" => d.geometry
      /\ Fits(d.keys) /\ SoundFiles(d.backup)
  BY <1>0 DEF Sound, OnFiles, DirsSound
<1>3. Raises(d) => call.pc = "copy"
  <2>1. \A t \in Savers : save[t].pc = "idle"
    BY <1>1 DEF FilesBase, Sound, OnRepair, RepairOnActive, SaveShape, Savers, Alive
  <2>2. up
    BY <1>1 DEF FilesBase, CallShape
  <2> QED
    BY <1>0, <2>1, <2>2 DEF Sound, OnFiles, TornIsActive, Writing
<1> DEFINE b == BeginImage(d)
           r == RestoreImage(d)
           k == RestoreKeys(d)
           x == BeginDropBackup(k)
           e == EndDropBackup(d)
<1>4. b \in Dirs /\ r \in Dirs /\ k \in Dirs /\ x \in Dirs /\ e \in Dirs
  BY <1>1, DirsAre
<1>5. /\ b.image = TornImage /\ b.keys = d.keys /\ b.backup = d.backup
      /\ r.image = d.backup.image /\ r.geometry = d.backup.geometry /\ r.keys = d.keys /\ r.backup = d.backup
      /\ k.image = d.image /\ k.geometry = d.geometry /\ k.keys = d.backup.keys /\ k.backup = d.backup
      /\ e.image = d.image /\ e.geometry = d.geometry /\ e.keys = d.keys /\ e.backup = NoBackup
  BY <1>1, DirFields
<1>6. x.image = k.image /\ x.geometry = k.geometry /\ x.keys = k.keys
      /\ (Fits(k.backup.keys) => (SoundFiles(x.backup) \/ x.backup = k.backup))
  BY <1>4, DropFields
<1>7. ASSUME UndoTakesJob PROVE Sound'
  <2> DEFINE w == before[active]
             g == Readable(d.backup)
  <2>1. disk' = [disk EXCEPT ![active] = b] /\ call' = [call EXCEPT !.pc = "copy", !.want = w, !.sound = g] /\ call.pc = "job"
    BY <1>1, <1>7 DEF UndoTakesJob, At
  <2> HIDE DEF w, g
  <2>2. call'.pc = "copy" /\ call'.op = "undo" /\ call'.map = active
    BY <1>0, <1>1, <2>1, Zenon DEF MapCommands
  <2> HIDE DEF b, d
  <2>3. b.image.is # "whole"
    BY <1>5, BlankFiles
  <2> QED
    BY <1>1, <1>2, <1>4, <1>5, <2>1, <2>2, <2>3, UndoneSound
<1>8. ASSUME UndoImage PROVE Sound'
  <2>1. disk' = [disk EXCEPT ![active] = r] /\ call' = [call EXCEPT !.pc = "keys"] /\ call.pc = "copy"
    BY <1>1, <1>8 DEF UndoImage, At
  <2>2. call'.pc = "keys" /\ call'.op = "undo" /\ call'.map = active
    BY <1>0, <1>1, <2>1, Zenon DEF MapCommands
  <2> HIDE DEF r, d
  <2>3. (r.image.is = "whole" => r.geometry) /\ ~Raises(r)
    BY <1>2, <1>5 DEF SoundFiles, Raises
  <2> QED
    BY <1>1, <1>2, <1>4, <1>5, <2>1, <2>2, <2>3, UndoneSound
<1>9. ASSUME UndoKeys PROVE Sound'
  <2>1. disk' = [disk EXCEPT ![active] = x] /\ call' = [call EXCEPT !.pc = "drop"] /\ call.pc = "keys"
    BY <1>1, <1>9 DEF UndoKeys, At
  <2>2. call'.pc = "drop" /\ call'.op = "undo" /\ call'.map = active
    BY <1>0, <1>1, <2>1, Zenon DEF MapCommands
  <2> HIDE DEF x, k, d
  <2>3. /\ x.image.is = "whole" => x.geometry
        /\ ~Raises(x) /\ Fits(x.keys) /\ SoundFiles(x.backup)
    BY <1>2, <1>3, <1>5, <1>6, <2>1 DEF SoundFiles, Raises
  <2> QED
    BY <1>1, <1>4, <2>1, <2>2, <2>3, UndoneSound
<1>10. ASSUME UndoDrops PROVE Sound'
  <2>1. disk' = [disk EXCEPT ![active] = e] /\ call' = [call EXCEPT !.pc = "switch", !.mode = eng.mode] /\ call.pc = "drop"
    BY <1>1, <1>10 DEF UndoDrops, At
  <2>2. call'.pc = "switch" /\ call'.op = "undo" /\ call'.map = active /\ call'.mode = eng.mode
    BY <1>0, <1>1, <2>1, Zenon DEF MapCommands
  <2> HIDE DEF e, d
  <2>3. /\ e.image.is = "whole" => e.geometry
        /\ ~Raises(e) /\ Fits(e.keys) /\ SoundFiles(e.backup)
    BY <1>2, <1>3, <1>5, <2>1, BlankFiles DEF Raises
  <2> QED
    BY <1>1, <1>4, <2>1, <2>2, <2>3, UndoneSound
<1> QED
  BY <1>7, <1>8, <1>9, <1>10

LEMMA ResetSound == ASSUME FilesBase, Sound, ~careless', ResetMap PROVE Sound'
<1>0. FilesTypeOK /\ CallShape /\ SaveShape /\ RepairShape /\ active \in Maps /\ disk[active] \in Dirs
  BY DEF FilesBase, FilesTypeOK
<1>1. /\ call.op = "clear" /\ rep' = Moved /\ call' = NoCall
      /\ eng' = ResetGraph(eng, {}, eng.mode)
      /\ UNCHANGED <<disk, active, up, save>>
  BY DEF ResetMap, At
<1>2. ~Alive /\ \A t \in Savers : save[t].pc = "idle"
  BY <1>0, <1>1 DEF Sound, OnRepair, RepairOnActive, SaveShape, Savers, Alive
<1>3. rep'.pc = "none" /\ rep'.copied = rep.copied
  BY <1>0, <1>1, <1>2, MovedIs DEF FilesTypeOK, Alive
<1>4. /\ eng'.mode = eng.mode /\ eng'.dir = eng.dir /\ eng'.grid = {} /\ eng'.graph = {} /\ eng'.edits = <<>>
      /\ eng'.saved = 0 /\ eng'.base = {}
  <2>1. eng \in Engines /\ eng.mode \in Modes /\ {} \in SUBSET Strokes
    BY <1>0 DEF FilesTypeOK, Engines
  <2>2. LET r == ResetGraph(eng, {}, eng.mode) IN
        /\ r \in Engines
        /\ r.mode = eng.mode /\ r.dir = eng.dir /\ r.of = eng.of
        /\ r.grid = {} /\ r.graph = {} /\ r.edits = <<>>
        /\ r.saved = 0 /\ r.revision = eng.revision + 1
        /\ (eng.mode = "mapping" => r.base = {}) /\ (eng.mode # "mapping" => r.base = {})
    BY <2>1, ResetIs, Zenon
  <2> QED
    BY <1>1, <2>2
<1>5. eng.dir = active /\ ~disk[active].keys.there
  BY <1>1 DEF Sound, OnCall, ClearedAway
<1>6. OnFiles'
  BY <1>1, FilesKept DEF Sound
<1>7. OnRepair'
  <2>1. RepairOnActive' /\ Redraws' /\ RenderInTime'
    BY <1>3 DEF RepairOnActive, Redraws, RenderInTime, Alive
  <2>2. BackupSound'
    BY <1>3 DEF Sound, OnRepair, BackupSound
  <2>3. MapsConsistent'
    BY <1>4, RangeIs DEF MapsConsistent, Drawn
  <2> QED
    BY <2>1, <2>2, <2>3 DEF OnRepair
<1>8. OnCall'
  BY <1>1, BlanksAre DEF OnCall, CallOnActive, LoadsAlone, Findable, ClearedAway
<1>9. OnGrid'
  <2>1. Unmapped'
    BY <1>4, RangeIs DEF Unmapped
  <2>2. disk[active].image \in Image_
    BY <1>0 DEF Dirs
  <2>3. Shows(active, disk[active].image)'
    BY <1>0, <1>1, <1>5, <2>2, NoneLoaded DEF Shows
  <2> QED
    BY <1>1, <1>4, <1>5, <2>1, <2>3 DEF OnGrid, ActiveShown, LoadedShown
<1>10. OnSave'
  BY <1>1, <1>2, <1>4, SaveKeptIdle DEF Sound, Savers
<1> QED
  BY <1>6, <1>7, <1>8, <1>9, <1>10 DEF Sound

LEMMA EditSound == ASSUME FilesBase, Sound, ~careless', Edit PROVE Sound'
<1>0. FilesTypeOK /\ CallShape /\ SaveShape /\ RepairShape /\ eng \in Engines /\ NextStroke \in Strokes
  BY NextStrokeIs DEF FilesBase, FilesTypeOK
<1>1. /\ call.op = "edit" /\ call' = NoCall /\ UNCHANGED <<disk, active, up, rep, save>>
      /\ save["client"].pc = "idle"
  BY <1>0 DEF Edit, SaveShape
<1> DEFINE g == eng.grid \cup {NextStroke}
           l == Append(eng.edits, NextStroke)
<1>2. eng.edits \in Seq(Strokes) /\ eng.grid \in SUBSET Strokes /\ eng.saved \in Nat
  BY <1>0 DEF Engines
<1>3. g \in SUBSET Strokes /\ l \in Seq(Strokes) /\ Range(l) = Range(eng.edits) \cup {NextStroke} /\ Len(l) = Len(eng.edits) + 1
  BY <1>0, <1>2, RangeIs
<1>4. eng' = eng \/ eng' = [eng EXCEPT !.grid = g, !.edits = l]
  BY DEF Edit
<1>5. eng.saved <= Len(eng.edits) =>
        Range(SubSeq(l, eng.saved + 1, Len(l))) = Range(SubSeq(eng.edits, eng.saved + 1, Len(eng.edits))) \cup {NextStroke}
  BY <1>0, <1>2, TailOfAppend
<1> HIDE DEF g, l
<1>6. eng'.mode = eng.mode /\ eng'.dir = eng.dir /\ eng'.graph = eng.graph /\ eng'.base = eng.base
      /\ eng'.saved = eng.saved /\ eng'.revision = eng.revision
  BY <1>0, <1>4, Zenon DEF Engines
<1>7. \/ eng'.grid = eng.grid /\ eng'.edits = eng.edits
      \/ eng'.grid = g /\ eng'.edits = l
  BY <1>0, <1>4 DEF Engines
<1>8. OnFiles'
  BY <1>1, FilesKept DEF Sound
<1>9. OnRepair'
  <2>1. RepairOnActive' /\ Redraws' /\ RenderInTime' /\ BackupSound'
    BY <1>1, <1>6, BlanksAre DEF Sound, OnRepair, RepairOnActive, Redraws, RenderInTime, BackupSound, Alive
  <2>2. MapsConsistent'
    BY <1>1, <1>3, <1>6, <1>7 DEF Sound, OnRepair, MapsConsistent, Drawn, g
  <2> QED
    BY <2>1, <2>2 DEF OnRepair
<1>10. OnCall'
  BY <1>1, BlanksAre DEF OnCall, CallOnActive, LoadsAlone, Findable, ClearedAway
<1>11. OnSave'
  BY <1>1, <1>6, SaveKeptIdle DEF Sound
<1>12. OnGrid'
  <2>1. CASE ~Localizing
    BY <1>6, <2>1 DEF OnGrid, Unmapped, ActiveShown, LoadedShown, Localizing
  <2>2. CASE Localizing /\ eng'.grid = eng.grid /\ eng'.edits = eng.edits
    <3>1. Unsaved' = Unsaved
      BY <1>6, <2>2 DEF Unsaved
    <3>2. \A m, p : Shows(m, p)' <=> Shows(m, p)
      BY <1>1, <2>2, <3>1 DEF Shows
    <3> QED
      BY <1>1, <1>6, <2>2, <3>2, BlanksAre DEF Sound, OnGrid, Unmapped, ActiveShown, LoadedShown, Localizing
  <2>3. CASE Localizing /\ eng'.grid = g /\ eng'.edits = l
    <3>0. eng.saved <= Len(eng.edits) /\ eng.graph = {} /\ Range(eng.edits) \subseteq eng.grid
      BY <2>3 DEF Sound, OnGrid, Unmapped
    <3>1. Unsaved' = Unsaved \cup {NextStroke}
      BY <1>5, <1>6, <2>3, <3>0 DEF Unsaved
    <3>2. Shows(active, disk[active].image) /\ (eng.dir # NoMap => Shows(eng.dir, disk[eng.dir].image))
      BY <1>1, <2>3 DEF Sound, OnGrid, ActiveShown, LoadedShown
    <3>3. Shows(active, disk[active].image)' /\ (eng.dir # NoMap => Shows(eng.dir, disk[eng.dir].image)')
      BY <1>1, <1>6, <2>3, <3>1, <3>2 DEF Shows, g
    <3>4. Unmapped'
      <4> DEFINE n == Len(eng.edits)
      <4>1. n \in Nat /\ Len(l) = n + 1
        BY <1>2, <1>3
      <4>2. eng.saved <= n
        BY <3>0
      <4> HIDE DEF n
      <4>3. eng.saved <= n + 1
        BY <1>2, <4>1, <4>2
      <4> QED
        BY <1>3, <1>6, <2>3, <3>0, <4>1, <4>3 DEF Unmapped, g
    <3> QED
      BY <1>1, <1>6, <2>3, <3>3, <3>4 DEF OnGrid, ActiveShown, LoadedShown
  <2> QED
    BY <1>7, <2>1, <2>2, <2>3
<1> QED
  BY <1>8, <1>9, <1>10, <1>11, <1>12 DEF Sound

\* The repair goes on or ends without touching the engine, an image or keyframes.
LEMMA RepairMovesSound ==
    ASSUME FilesBase, Sound, Alive, UNCHANGED <<active, up, eng, call, save>>,
           disk' \in [Maps -> Dirs],
           \A m \in Maps : /\ disk'[m].image = disk[m].image /\ disk'[m].geometry = disk[m].geometry
                           /\ disk'[m].keys = disk[m].keys /\ SoundFiles(disk'[m].backup),
           \/ rep'.pc = "none"
           \/ rep'.dir = rep.dir /\ rep'.apply = rep.apply,
           SoundFiles(rep'.copied),
           rep'.pc \in {"resolve", "render", "save", "saving"} => eng.mode = "mapping",
           rep'.pc = "render" => rep'.revision = eng.revision,
           rep.pc \in {"resolve", "render"} => rep'.pc \in {"resolve", "render"},
           rep.pc \in {"wait", "plan"} =>
             \/ rep'.pc = "none"
             \/ cancel' = cancel /\ (cancel /\ rep.apply # "force" => rep'.pc \in {"wait", "plan"})
    PROVE  Sound'
<1>0. FilesTypeOK /\ active \in Maps
  BY DEF FilesBase, FilesTypeOK
<1>1. OnFiles'
  <2>1. DirsSound'
    BY DEF Sound, OnFiles, DirsSound
  <2>2. \A m : Writing(m)' <=> Writing(m)
    BY DEF Writing
  <2>3. TornIsActive'
    BY <2>2 DEF Sound, OnFiles, TornIsActive, Raises
  <2> QED
    BY <2>1, <2>3 DEF OnFiles
<1>2. OnRepair'
  <2>1. RepairOnActive'
    BY DEF Sound, OnRepair, RepairOnActive, Alive
  <2>2. Redraws' /\ RenderInTime' /\ BackupSound'
    BY DEF Redraws, RenderInTime, BackupSound
  <2>3. MapsConsistent'
    BY DEF Sound, OnRepair, MapsConsistent
  <2> QED
    BY <2>1, <2>2, <2>3 DEF OnRepair
<1>3. OnCall'
  <2>1. CallOnActive'
    BY DEF Sound, OnCall, CallOnActive
  <2>2. call.op # "none" => call.map = active
    BY DEF Sound, OnCall, CallOnActive
  <2>3. Findable'
    BY <1>0, <2>2 DEF Sound, OnCall, Findable, HasOccupancyMap
  <2>4. ClearedAway'
    BY <1>0 DEF Sound, OnCall, ClearedAway
  <2>5. LoadsAlone'
    BY DEF Sound, OnCall, LoadsAlone, Alive
  <2> QED
    BY <2>1, <2>3, <2>4, <2>5 DEF OnCall
<1>4. Unsaved' = Unsaved /\ Localizing' = Localizing
  BY DEF Unsaved, Localizing
<1>5. \A m \in Maps, p \in Image_ : Shows(m, p) => Shows(m, p)'
  <2> SUFFICES ASSUME NEW m \in Maps, NEW p \in Image_ PROVE LoadGraph(disk'[m], p) = LoadGraph(disk[m], p)
    BY <1>4 DEF Shows
  <2>1. disk[m] \in Dirs /\ disk'[m] \in Dirs
    BY <1>0 DEF FilesTypeOK
  <2> QED
    BY <2>1, SameKeys
<1>6. \A m \in Maps : disk[m].image \in Image_
  BY <1>0 DEF FilesTypeOK, Dirs
<1>7. OnGrid'
  <2>1. Unmapped'
    BY <1>4 DEF Sound, OnGrid, Unmapped
  <2>2. Shows(active, disk[active].image) => Shows(active, disk[active].image)'
    BY <1>0, <1>5, <1>6 DEF Shows
  <2>3. ActiveShown'
    BY <1>4, <2>2 DEF Sound, OnGrid, ActiveShown
  <2>4. eng.dir # NoMap => eng.dir \in Maps
    BY <1>0 DEF FilesTypeOK, Engines, NoDir
  <2>5. eng.dir # NoMap => (Shows(eng.dir, disk[eng.dir].image) => Shows(eng.dir, disk[eng.dir].image)')
    BY <1>5, <1>6, <2>4 DEF Shows
  <2>6. LoadedShown'
    BY <1>4, <2>5 DEF Sound, OnGrid, LoadedShown
  <2> QED
    BY <2>1, <2>3, <2>6 DEF OnGrid
<1>8. OnSave'
  <2>1. save["client"].old \in Image_
    BY <1>0 DEF FilesTypeOK, Saves, Savers
  <2>2. Shows(active, save["client"].old) => Shows(active, save["client"].old)'
    BY <1>0, <1>5, <2>1 DEF Shows
  <2>3. ImageExtends'
    BY <1>4, <2>2 DEF Sound, OnSave, ImageExtends
  <2>4. KeysExtend'
    BY <1>0, <1>4, <2>2 DEF Sound, OnSave, KeysExtend
  <2>5. SaveGood'
    BY <1>4 DEF Sound, OnSave, SaveGood
  <2> QED
    BY <2>3, <2>4, <2>5 DEF OnSave
<1> QED
  BY <1>1, <1>2, <1>3, <1>7, <1>8 DEF Sound

LEMMA PlansSound ==
    ASSUME FilesBase, Sound, RepairClear \/ RepairCheck \/ RepairSnapshot \/ RepairPlan \/ RepairAbort \/ RepairResolve
    PROVE  Sound'
<1>0. FilesTypeOK /\ rep \in Repairs /\ disk \in [Maps -> Dirs]
  BY DEF FilesBase, FilesTypeOK
<1>1. UNCHANGED <<disk, active, up, eng, call, save>> /\ Alive
  BY DEF RepairClear, RepairCheck, RepairSnapshot, RepairPlan, RepairAbort, RepairResolve, Alive
<1>2. SoundFiles(rep.copied) /\ SoundFiles(NoRepair.copied) /\ NoRepair.pc = "none"
  BY BlankFiles DEF Sound, OnRepair, BackupSound, NoRepair
<1>3. /\ disk' \in [Maps -> Dirs]
      /\ \A m \in Maps : /\ disk'[m].image = disk[m].image /\ disk'[m].geometry = disk[m].geometry
                         /\ disk'[m].keys = disk[m].keys /\ SoundFiles(disk'[m].backup)
  BY <1>0, <1>1 DEF Sound, OnFiles, DirsSound
<1>4. ASSUME rep' = NoRepair, rep.pc # "resolve" PROVE Sound'
  <2>1. rep.pc # "render"
    BY <1>4 DEF RepairClear, RepairCheck, RepairSnapshot, RepairPlan, RepairAbort, RepairResolve, Sound, OnRepair,
       RenderInTime, Repairs
  <2>2. rep'.pc = "none" /\ SoundFiles(rep'.copied)
    BY <1>2, <1>4
  <2> QED
    BY <1>1, <1>3, <1>4, <2>1, <2>2, RepairMovesSound
<1>5. ASSUME NEW x \in RepairSteps, rep' = [rep EXCEPT !.pc = x], x \in {"check", "wait", "backup"},
             rep.pc \in {"start", "check", "plan"},
             x = "backup" => cancel' = cancel /\ MayApply(rep.apply, cancel), rep.pc = "plan" => x = "backup"
      PROVE  Sound'
  <2>1. rep'.pc = x /\ rep'.dir = rep.dir /\ rep'.apply = rep.apply /\ rep'.copied = rep.copied
    BY <1>0, <1>5 DEF Repairs
  <2>2. rep.pc \in {"wait", "plan"} => cancel' = cancel /\ ~(cancel /\ rep.apply # "force")
    BY <1>5 DEF MayApply
  <2> QED
    BY <1>1, <1>2, <1>3, <1>5, <2>1, <2>2, RepairMovesSound
<1>6. CASE RepairClear
  BY <1>5, <1>6 DEF RepairClear, RepairSteps
<1>7. CASE RepairCheck
  <2>1. rep.pc = "check" /\ (rep' = NoRepair \/ rep' = [rep EXCEPT !.pc = "wait"])
    BY <1>7, Zenon DEF RepairCheck
  <2> QED
    BY <1>4, <1>5, <2>1 DEF RepairSteps
<1>8. CASE RepairSnapshot
  <2> DEFINE n == eng.revision
  <2>1. n \in Nat /\ rep' = [rep EXCEPT !.pc = "plan", !.revision = n, !.moved = FALSE] /\ rep.pc = "wait" /\ cancel' = cancel
    BY <1>0, <1>8 DEF RepairSnapshot, FilesTypeOK, Engines
  <2> HIDE DEF n
  <2>2. rep'.pc = "plan" /\ rep'.dir = rep.dir /\ rep'.apply = rep.apply /\ rep'.copied = rep.copied
    BY <1>0, <2>1 DEF Repairs
  <2> QED
    BY <1>1, <1>2, <1>3, <2>1, <2>2, RepairMovesSound
<1>9. CASE RepairPlan
  <2>1. CASE rep' = NoRepair
    BY <1>4, <1>9, <2>1 DEF RepairPlan
  <2>2. CASE MayApply(rep.apply, cancel) /\ rep' = [rep EXCEPT !.pc = "backup"]
    BY <1>5, <1>9, <2>2 DEF RepairPlan, RepairSteps
  <2> QED
    BY <1>9, <2>1, <2>2 DEF RepairPlan
<1>10. CASE RepairAbort
  BY <1>4, <1>10 DEF RepairAbort
<1>11. CASE RepairResolve
  <2> DEFINE n == eng.revision
  <2>1. n \in Nat /\ rep' = [rep EXCEPT !.pc = "render", !.revision = n] /\ rep.pc = "resolve"
    BY <1>0, <1>11 DEF RepairResolve, FilesTypeOK, Engines
  <2>4. n = eng.revision
    OBVIOUS
  <2> HIDE DEF n
  <2>2. rep'.pc = "render" /\ rep'.dir = rep.dir /\ rep'.apply = rep.apply /\ rep'.copied = rep.copied /\ rep'.revision = n
    BY <1>0, <2>1 DEF Repairs
  <2>3. eng.mode = "mapping"
    BY <2>1 DEF Sound, OnRepair, Redraws
  <2> QED
    BY <1>1, <1>2, <1>3, <2>1, <2>2, <2>3, <2>4, RepairMovesSound
<1> QED
  BY <1>6, <1>7, <1>8, <1>9, <1>10, <1>11

LEMMA BacksUpSound == ASSUME FilesBase, Sound, RepairDropBackup \/ RepairBackUp PROVE Sound'
<1>0. FilesTypeOK /\ rep \in Repairs /\ SaveShape /\ CallShape
  BY DEF FilesBase, FilesTypeOK
<1> DEFINE d == disk[active]
           c == Copied(d)
           x == BeginDropBackup(d)
           y == BackUp(d, rep.copied)
<1>1. /\ UNCHANGED <<active, up, eng, call, save>> /\ Alive /\ rep.dir = active /\ active \in Maps
      /\ rep.pc \in {"backup", "rename"} /\ d \in Dirs
  BY <1>0 DEF RepairDropBackup, RepairBackUp, Alive, Sound, OnRepair, RepairOnActive, FilesTypeOK
<1>2. SoundFiles(rep.copied) /\ rep.copied \in Backups /\ SoundFiles(NoBackup)
  BY <1>0, BlankFiles DEF Sound, OnRepair, BackupSound, Repairs
<1>3. /\ d.image.is = "whole" => d.geometry
      /\ Fits(d.keys) /\ SoundFiles(d.backup)
  BY <1>1 DEF Sound, OnFiles, DirsSound
<1>4. x \in Dirs /\ y \in Dirs /\ c \in Backups
  BY <1>1, <1>2, DirsAre
<1>5. x.image = d.image /\ x.geometry = d.geometry /\ x.keys = d.keys /\ SoundFiles(x.backup)
  BY <1>1, <1>3, DropFields DEF SoundFiles
<1>6. y.image = d.image /\ y.geometry = d.geometry /\ y.keys = d.keys /\ y.backup = rep.copied
  BY <1>1, <1>2, DirFields
<1>7. ASSUME rep.pc = "backup" PROVE ~Raises(d)
  <2>1. call.op \notin {"save", "undo"} /\ up
    BY <1>1 DEF Sound, OnRepair, RepairOnActive, FilesBase, RepairShape
  <2>2. \A t \in Savers : save[t].pc = "idle"
    BY <1>0, <1>7, <2>1 DEF SaveShape, Savers
  <2> QED
    BY <1>1, <2>1, <2>2 DEF Sound, OnFiles, TornIsActive, Writing
<1>8. ASSUME rep.pc = "backup" PROVE SoundFiles(c)
  <2>1. c.image = d.image /\ c.geometry = d.geometry /\ c.keys = d.keys
    BY DEF Copied
  <2> QED
    BY <1>3, <1>7, <1>8, <2>1 DEF SoundFiles, Raises
<1>9. \/ disk' = disk
      \/ disk' = [disk EXCEPT ![active] = x]
      \/ disk' = [disk EXCEPT ![active] = y]
  BY <1>1 DEF RepairDropBackup, RepairBackUp
<1>13. d = disk[active]
  OBVIOUS
<1>10. /\ disk' \in [Maps -> Dirs]
       /\ \A m \in Maps : /\ disk'[m].image = disk[m].image /\ disk'[m].geometry = disk[m].geometry
                          /\ disk'[m].keys = disk[m].keys /\ SoundFiles(disk'[m].backup)
  <2> HIDE DEF d, c, x, y
  <2>1. \A m \in Maps : SoundFiles(disk[m].backup)
    BY DEF Sound, OnFiles, DirsSound
  <2>2. CASE disk' = disk
    BY <1>0, <2>1, <2>2 DEF FilesTypeOK
  <2>3. CASE disk' = [disk EXCEPT ![active] = x]
    <3>1. disk' \in [Maps -> Dirs] /\ disk'[active] = x /\ \A n \in Maps : n # active => disk'[n] = disk[n]
      BY <1>0, <1>1, <1>4, <2>3, DiskMoves
    <3> QED
      BY <1>5, <1>13, <2>1, <3>1
  <2>4. CASE disk' = [disk EXCEPT ![active] = y]
    <3>1. disk' \in [Maps -> Dirs] /\ disk'[active] = y /\ \A n \in Maps : n # active => disk'[n] = disk[n]
      BY <1>0, <1>1, <1>4, <2>4, DiskMoves
    <3> QED
      BY <1>2, <1>6, <1>13, <2>1, <3>1
  <2> QED
    BY <1>9, <2>2, <2>3, <2>4
<1>11. rep'.pc \in {"rename", "apply"} /\ rep'.dir = rep.dir /\ rep'.apply = rep.apply /\ SoundFiles(rep'.copied)
  <2>1. \/ rep' = [rep EXCEPT !.pc = "rename", !.copied = c] /\ rep.pc = "backup"
        \/ rep' = [rep EXCEPT !.pc = "apply"]
        \/ rep' = [rep EXCEPT !.pc = "apply", !.copied = NoBackup]
    BY <1>1, Zenon DEF RepairDropBackup, RepairBackUp
  <2> HIDE DEF d, c
  <2>2. CASE rep' = [rep EXCEPT !.pc = "rename", !.copied = c] /\ rep.pc = "backup"
    <3>1. rep'.pc = "rename" /\ rep'.dir = rep.dir /\ rep'.apply = rep.apply /\ rep'.copied = c
      BY <1>0, <2>2 DEF Repairs
    <3> QED
      BY <1>8, <2>2, <3>1
  <2>3. CASE rep' = [rep EXCEPT !.pc = "apply"]
    <3>1. rep'.pc = "apply" /\ rep'.dir = rep.dir /\ rep'.apply = rep.apply /\ rep'.copied = rep.copied
      BY <1>0, <2>3 DEF Repairs
    <3> QED
      BY <1>2, <3>1
  <2>4. CASE rep' = [rep EXCEPT !.pc = "apply", !.copied = NoBackup]
    <3>1. rep'.pc = "apply" /\ rep'.dir = rep.dir /\ rep'.apply = rep.apply /\ rep'.copied = NoBackup
      BY <1>0, <2>4 DEF Repairs
    <3> QED
      BY <1>2, <3>1
  <2> QED
    BY <2>1, <2>2, <2>3, <2>4
<1> HIDE DEF d, c, x, y
<1> QED
  BY <1>1, <1>10, <1>11, RepairMovesSound

LEMMA AppliesSound == ASSUME FilesBase, Sound, RepairApply \/ RepairRender PROVE Sound'
<1>0. FilesTypeOK /\ rep \in Repairs /\ eng \in Engines /\ SaveShape
  BY DEF FilesBase, FilesTypeOK
<1>1. /\ UNCHANGED <<disk, active, up, call, save>> /\ Alive /\ rep.pc \in {"apply", "render"} /\ eng.mode = "mapping"
  BY DEF RepairApply, RepairRender, Stale, Alive, Sound, OnRepair, Redraws
<1>2. call.op \notin {"save", "undo", "clear"} /\ call.pc # "load" /\ save["client"].pc = "idle"
  BY <1>0, <1>1 DEF Sound, OnRepair, RepairOnActive, OnCall, LoadsAlone, SaveShape
<1>3. rep'.pc \in {"resolve", "save"} /\ rep'.dir = rep.dir /\ rep'.copied = rep.copied
  BY <1>0 DEF RepairApply, RepairRender, Repairs
<1>4. /\ eng'.mode = eng.mode /\ eng'.dir = eng.dir
      /\ rep'.pc = "save" => eng'.grid = Drawn(eng')
  <2>1. CASE RepairApply
    <3> DEFINE h == eng.graph \cup {NextStroke}
    <3>1. eng' = [eng EXCEPT !.graph = h]
      BY <2>1 DEF RepairApply
    <3> HIDE DEF h
    <3>2. rep'.pc = "resolve"
      BY <1>0, <2>1 DEF RepairApply, Repairs
    <3> QED
      BY <1>0, <3>1, <3>2 DEF Engines
  <2>2. CASE RepairRender
    <3> DEFINE g == Drawn(eng)
               n == eng.revision + 1
    <3>1. eng' = [eng EXCEPT !.grid = g, !.revision = n]
      BY <1>0, <2>2 DEF RepairRender, Engines
    <3>2. g = Drawn(eng)
      OBVIOUS
    <3> HIDE DEF g, n
    <3>3. eng'.mode = eng.mode /\ eng'.dir = eng.dir /\ eng'.grid = g /\ eng'.base = eng.base /\ eng'.graph = eng.graph
          /\ eng'.edits = eng.edits
      BY <1>0, <3>1 DEF Engines
    <3> QED
      BY <3>2, <3>3 DEF Drawn
  <2> QED
    BY <2>1, <2>2
<1>5. OnFiles'
  BY <1>1, FilesKept DEF Sound
<1>6. OnRepair'
  <2>1. RepairOnActive' /\ Redraws' /\ RenderInTime' /\ BackupSound'
    BY <1>1, <1>3, <1>4 DEF Sound, OnRepair, RepairOnActive, Redraws, RenderInTime, BackupSound, Alive
  <2>2. MapsConsistent'
    BY <1>3, <1>4 DEF MapsConsistent
  <2> QED
    BY <2>1, <2>2 DEF OnRepair
<1>7. OnCall'
  BY <1>1, <1>2 DEF Sound, OnCall, CallOnActive, LoadsAlone, Findable, ClearedAway
<1>8. OnGrid'
  BY <1>1, <1>4 DEF OnGrid, Unmapped, ActiveShown, LoadedShown, Localizing
<1>9. OnSave'
  BY <1>1, <1>2, <1>4, SaveKeptIdle DEF Sound
<1> QED
  BY <1>5, <1>6, <1>7, <1>8, <1>9 DEF Sound

LEMMA RepairSaveSound == ASSUME FilesBase, Sound, RepairSave PROVE Sound'
<1>0. FilesTypeOK /\ SaveShape /\ rep \in Repairs /\ eng \in Engines
  BY DEF FilesBase, FilesTypeOK
<1>1. /\ rep.pc = "save" /\ rep.dir = active /\ active \in Maps /\ eng.mode = "mapping" /\ Alive
      /\ disk' = [disk EXCEPT ![active] = BeginImage(disk[active])]
      /\ save' = [save EXCEPT !["repairer"] = [NoSave EXCEPT !.pc = "image", !.dir = active,
                                                             !.old = disk[active].image]]
      /\ rep' = [rep EXCEPT !.pc = "saving"]
      /\ UNCHANGED <<active, up, eng, call, cancel>>
  BY <1>0 DEF RepairSave, BeginSave, Sound, OnRepair, RepairOnActive, Redraws, Alive, FilesTypeOK
<1>2. rep'.pc = "saving" /\ rep'.dir = rep.dir /\ rep'.copied = rep.copied
  BY <1>0, <1>1 DEF Repairs
<1>3. call.op \notin {"save", "undo", "clear"} /\ call.pc # "load" /\ save["client"].pc = "idle"
      /\ (call.op # "none" => call.map = active)
  BY <1>0, <1>1 DEF Sound, OnRepair, RepairOnActive, OnCall, LoadsAlone, SaveShape, CallOnActive
<1> DEFINE d == disk[active]
           b == BeginImage(d)
           s == [NoSave EXCEPT !.pc = "image", !.dir = active, !.old = d.image]
<1>4. d \in Dirs /\ b \in Dirs /\ b.image = TornImage /\ b.geometry = d.geometry /\ b.keys = d.keys /\ b.backup = d.backup
  BY <1>0, <1>1, DirsAre, DirFields DEF FilesTypeOK
<1>5. s \in Saves /\ s.pc = "image" /\ s.dir = active
  BY <1>1, <1>4, BeganIs, Zenon
<1>6. disk' = [disk EXCEPT ![active] = b] /\ save' = [save EXCEPT !["repairer"] = s] /\ d = disk[active]
  BY <1>1
<1> HIDE DEF d, b, s
<1>7. disk'[active] = b /\ \A n \in Maps : n # active => disk'[n] = disk[n]
  BY <1>0, <1>1, <1>4, <1>6, DiskMoves
<1>8. save'["repairer"] = s /\ save'["client"] = save["client"]
  BY <1>0, <1>5, <1>6, SaveMoves DEF Savers
<1>9. OnFiles'
  <2>1. DirsSound'
    BY <1>4, <1>6, <1>7, BlankFiles DEF DirsSound, Sound, OnFiles
  <2>2. "repairer" \in Savers /\ save'["repairer"].pc = "image" /\ save'["repairer"].dir = active /\ active' = active
    BY <1>1, <1>5, <1>8 DEF Savers
  <2>3. Writing(active)'
    BY <2>2, Zenon DEF Writing
  <2>4. TornIsActive'
    BY <1>1, <1>7, <2>3 DEF Sound, OnFiles, TornIsActive
  <2> QED
    BY <2>1, <2>4 DEF OnFiles
<1>10. OnRepair'
  <2>1. RepairOnActive' /\ Redraws' /\ RenderInTime' /\ BackupSound'
    BY <1>1, <1>2 DEF Sound, OnRepair, RepairOnActive, Redraws, RenderInTime, BackupSound, Alive
  <2>2. MapsConsistent'
    BY <1>1 DEF Sound, OnRepair, MapsConsistent
  <2> QED
    BY <2>1, <2>2 DEF OnRepair
<1>11. OnCall'
  <2>1. d.image.is # "none" /\ d.geometry => HasOccupancyMap(b)
    BY <1>4, BlankFiles DEF HasOccupancyMap
  <2>2. HasOccupancyMap(d) => HasOccupancyMap(b)
    BY <2>1 DEF HasOccupancyMap
  <2>3. Findable'
    BY <1>1, <1>3, <1>6, <1>7, <2>2 DEF Sound, OnCall, Findable
  <2> QED
    BY <1>1, <1>3, <2>3 DEF Sound, OnCall, CallOnActive, LoadsAlone, ClearedAway
<1>12. OnGrid'
  BY <1>1 DEF OnGrid, Unmapped, ActiveShown, LoadedShown, Localizing
<1>13. OnSave'
  BY <1>1, <1>3, <1>5, <1>8 DEF OnSave, ImageExtends, KeysExtend, SaveGood, Savers, Localizing
<1> QED
  BY <1>9, <1>10, <1>11, <1>12, <1>13 DEF Sound

LEMMA RepairSavedSound == ASSUME FilesBase, Sound, RepairSaved PROVE Sound'
<1>0. FilesTypeOK /\ SaveShape
  BY DEF FilesBase
<1>1. /\ rep.pc = "saving" /\ rep' = NoRepair /\ Alive
      /\ save' = [save EXCEPT !["repairer"] = NoSave]
      /\ UNCHANGED <<disk, active, up, eng, call, cancel>> /\ save["repairer"].pc = "end"
  BY DEF RepairSaved, Alive
<1>2. save'["repairer"] = NoSave /\ save'["client"] = save["client"]
  BY <1>0, <1>1, BlanksAre, SaveMoves DEF Savers
<1>3. rep'.pc = "none" /\ SoundFiles(rep'.copied)
  BY <1>1, BlankFiles DEF NoRepair
<1>4. OnFiles'
  <2>1. \A m : Writing(m) => Writing(m)'
    BY <1>1, <1>2 DEF Writing, Savers
  <2> QED
    BY <1>1, <2>1 DEF Sound, OnFiles, DirsSound, TornIsActive
<1>5. OnRepair'
  <2>1. RepairOnActive' /\ Redraws' /\ RenderInTime' /\ BackupSound'
    BY <1>3 DEF RepairOnActive, Redraws, RenderInTime, BackupSound, Alive
  <2>2. MapsConsistent'
    BY <1>1 DEF Sound, OnRepair, MapsConsistent
  <2> QED
    BY <2>1, <2>2 DEF OnRepair
<1>6. OnCall'
  BY <1>1, <1>3 DEF Sound, OnCall, CallOnActive, LoadsAlone, Findable, ClearedAway, Alive
<1>7. OnGrid'
  <2>1. eng.mode = "mapping"
    BY <1>1 DEF Sound, OnRepair, Redraws
  <2> QED
    BY <1>1, <2>1 DEF OnGrid, Unmapped, ActiveShown, LoadedShown, Localizing
<1>8. OnSave'
  <2>1. eng.mode = "mapping"
    BY <1>1 DEF Sound, OnRepair, Redraws
  <2> QED
    BY <1>1, <1>2, <2>1, BlanksAre DEF Sound, OnSave, ImageExtends, KeysExtend, SaveGood, Savers, Localizing
<1> QED
  BY <1>4, <1>5, <1>6, <1>7, <1>8 DEF Sound

LEMMA BootSound == ASSUME FilesBase, Sound, NEW md \in Modes, Boot(md) PROVE Sound'
<1>0. FilesTypeOK /\ CallShape /\ SaveShape /\ RepairShape /\ active \in Maps /\ disk[active] \in Dirs
  BY DEF FilesBase, FilesTypeOK
<1>1. /\ ~up /\ ~ConfigureFails(md, disk[active]) /\ eng' = Configured(FreshEngine, md, active, disk[active])
      /\ UNCHANGED <<disk, active, cancel, rep, call, save>>
  BY DEF Boot
<1>2. call.op = "none" /\ rep.pc = "none" /\ \A t \in Savers : save[t].pc = "idle"
  BY <1>0, <1>1 DEF CallShape, RepairShape, SaveShape, Savers, Alive
<1>3. call.pc = "idle"
  BY <1>0, <1>2, BlanksAre DEF CallShape
<1>4. Fits(disk[active].keys)
  BY <1>0 DEF Sound, OnFiles, DirsSound
<1>5. ~Raises(disk[active]) /\ (md = "localizing" => Readable(disk[active]))
  BY <1>1 DEF ConfigureFails
<1>6. /\ eng'.mode = md /\ eng'.dir = active
      /\ eng'.mode = "mapping" => eng'.grid = Drawn(eng')
      /\ Unmapped'
      /\ Localizing' /\ Readable(disk[active]) => Shows(active, disk[active].image)'
  BY <1>0, <1>1, <1>4, BlanksAre, LoadShows
<1>7. OnFiles'
  <2>1. \A m \in Maps : ~Raises(disk[m])
    BY <1>5 DEF Sound, OnFiles, TornIsActive
  <2> QED
    BY <1>1, <2>1 DEF Sound, OnFiles, DirsSound, TornIsActive
<1>8. OnRepair'
  <2>1. RepairOnActive' /\ Redraws' /\ RenderInTime' /\ BackupSound'
    BY <1>1, <1>2 DEF Sound, OnRepair, RepairOnActive, Redraws, RenderInTime, BackupSound, Alive
  <2>2. MapsConsistent'
    BY <1>6 DEF MapsConsistent
  <2> QED
    BY <2>1, <2>2 DEF OnRepair
<1>9. OnCall'
  BY <1>1, <1>2, <1>3 DEF OnCall, CallOnActive, LoadsAlone, Findable, ClearedAway
<1>10. OnGrid'
  BY <1>1, <1>5, <1>6 DEF OnGrid, ActiveShown, LoadedShown, Localizing
<1>11. OnSave'
  BY <1>1, <1>2 DEF OnSave, ImageExtends, KeysExtend, SaveGood, Savers
<1> QED
  BY <1>7, <1>8, <1>9, <1>10, <1>11 DEF Sound

LEMMA CrashSound == ASSUME FilesBase, Sound, Crash PROVE Sound'
<1>1. /\ up' = FALSE /\ eng' = FreshEngine /\ rep' = NoRepair /\ call' = NoCall
      /\ save' = [t \in Savers |-> NoSave] /\ UNCHANGED <<disk, active>>
  BY DEF Crash
<1>2. \A t \in Savers : save'[t].pc = "idle"
  BY <1>1, BlanksAre
<1>3. eng'.mode = "mapping" /\ eng'.grid = {} /\ eng'.base = {} /\ eng'.graph = {} /\ eng'.edits = <<>>
  BY <1>1 DEF FreshEngine
<1>4. SoundFiles(rep'.copied) /\ rep'.pc = "none"
  BY <1>1, BlankFiles DEF NoRepair
<1>5. OnFiles'
  BY <1>1 DEF Sound, OnFiles, DirsSound, TornIsActive
<1>6. OnRepair'
  <2>1. RepairOnActive' /\ Redraws' /\ RenderInTime' /\ BackupSound'
    BY <1>4 DEF RepairOnActive, Redraws, RenderInTime, BackupSound, Alive
  <2>2. MapsConsistent'
    BY <1>3, RangeIs DEF MapsConsistent, Drawn
  <2> QED
    BY <2>1, <2>2 DEF OnRepair
<1>7. OnCall'
  BY <1>1, BlanksAre DEF OnCall, CallOnActive, LoadsAlone, Findable, ClearedAway
<1>8. OnGrid'
  BY <1>3 DEF OnGrid, Unmapped, ActiveShown, LoadedShown, Localizing
<1>9. OnSave'
  BY <1>2 DEF OnSave, ImageExtends, KeysExtend, SaveGood, Savers
<1> QED
  BY <1>5, <1>6, <1>7, <1>8, <1>9 DEF Sound

LEMMA ScanSound == ASSUME FilesBase, Sound, Scan PROVE Sound'
<1>0. FilesTypeOK /\ eng \in Engines /\ SaveShape
  BY DEF FilesBase, FilesTypeOK
<1> DEFINE n == strokes + 1
           g == eng.grid \cup {n}
           h == eng.graph \cup {n}
<1>1. /\ eng' = [eng EXCEPT !.grid = g, !.graph = h] /\ eng.mode = "mapping"
      /\ UNCHANGED <<disk, active, up, rep, call, save, cancel>>
  BY DEF Scan
<1> HIDE DEF g, h, n
<1>2. /\ eng'.mode = eng.mode /\ eng'.dir = eng.dir /\ eng'.grid = g /\ eng'.graph = h /\ eng'.base = eng.base
      /\ eng'.edits = eng.edits /\ eng'.saved = eng.saved /\ eng'.revision = eng.revision
  BY <1>0, <1>1 DEF Engines
<1>3. OnFiles'
  BY <1>1, FilesKept DEF Sound
<1>4. OnRepair'
  <2>1. RepairOnActive' /\ Redraws' /\ RenderInTime' /\ BackupSound'
    BY <1>1, <1>2 DEF Sound, OnRepair, RepairOnActive, Redraws, RenderInTime, BackupSound, Alive
  <2>2. MapsConsistent'
    BY <1>1, <1>2 DEF Sound, OnRepair, MapsConsistent, Drawn, g, h
  <2> QED
    BY <2>1, <2>2 DEF OnRepair
<1>5. OnCall'
  BY <1>1, <1>2 DEF Sound, OnCall, CallOnActive, LoadsAlone, Findable, ClearedAway, Alive
<1>6. OnGrid'
  BY <1>1, <1>2 DEF OnGrid, Unmapped, ActiveShown, LoadedShown, Localizing
<1>7. OnSave'
  BY <1>1, <1>2 DEF Sound, OnSave, ImageExtends, KeysExtend, SaveGood, Localizing
<1> QED
  BY <1>3, <1>4, <1>5, <1>6, <1>7 DEF Sound

LEMMA RestSound == ASSUME FilesBase, Sound, UNCHANGED vars PROVE Sound'
<1>1. UNCHANGED <<disk, active, up, eng, rep, call, save, cancel>>
  BY DEF vars
<1>2. OnFiles'
  BY <1>1, FilesKept DEF Sound
<1>3. OnRepair'
  BY <1>1, RepairKept DEF Sound
<1>4. OnCall'
  BY <1>1 DEF Sound, OnCall, CallOnActive, LoadsAlone, Findable, ClearedAway, Alive
<1>5. Unsaved' = Unsaved /\ Localizing' = Localizing
  BY <1>1 DEF Unsaved, Localizing
<1>6. OnGrid'
  BY <1>1, <1>5 DEF Sound, OnGrid, Unmapped, ActiveShown, LoadedShown, Shows
<1>7. OnSave'
  BY <1>1, SaveKept DEF Sound
<1> QED
  BY <1>2, <1>3, <1>4, <1>6, <1>7 DEF Sound

\* Carelessness stays.
LEMMA CarelessStays == ASSUME FilesBase, [Next]_vars, careless PROVE careless'
<1>1. careless \in BOOLEAN
  BY DEF FilesBase, FilesTypeOK
<1>2. ASSUME Client PROVE careless'
  BY <1>2 DEF Client, Start, SetActive, DeleteMap, OnActive, ClearMap
<1>3. ASSUME Worker PROVE careless'
  BY <1>3 DEF Worker, Switch, Joined, JoinTimeout, Load, SaveBegins, SaveImage, SaveKeys, SaveEnds, RepairMap,
     UndoBegins, UndoTakesJob, UndoImage, UndoKeys, UndoDrops, ResetMap, Edit
<1>4. ASSUME RepairThread PROVE careless'
  BY <1>4 DEF RepairThread, RepairClear, RepairCheck, RepairSnapshot, RepairPlan, RepairDropBackup, RepairBackUp,
     RepairAbort, RepairApply, RepairResolve, RepairRender, RepairSave, RepairSaved, SaveImage, SaveKeys
<1>5. ASSUME \/ \E md \in Modes : Boot(md)
             \/ Crash \/ Scan \/ UNCHANGED vars
      PROVE  careless'
  BY <1>5 DEF Boot, Crash, Scan, vars
<1> QED
  BY <1>2, <1>3, <1>4, <1>5 DEF Next

LEMMA NextSound == ASSUME FilesBase, Sound, [Next]_vars, ~careless' PROVE Sound'
<1>1. ASSUME Worker PROVE Sound'
  <2>1. "client" \in Savers
    BY DEF Savers
  <2> QED
    BY <1>1, <2>1, WaitsSound, LoadSound, SaveBeginsSound, SaveImageSound, SaveKeysSound, AskedSound, UndoSound,
       ResetSound, EditSound DEF Worker
<1>2. ASSUME RepairThread PROVE Sound'
  <2>1. "repairer" \in Savers
    BY DEF Savers
  <2> QED
    BY <1>2, <2>1, PlansSound, BacksUpSound, AppliesSound, RepairSaveSound, RepairSavedSound, SaveImageSound,
       SaveKeysSound DEF RepairThread
<1> QED
  BY <1>1, <1>2, BootSound, CrashSound, ScanSound, ClientSound, RestSound DEF Next

LEMMA InitSound == ASSUME Init PROVE Sound
<1>1. /\ ~up /\ eng = FreshEngine /\ rep = NoRepair /\ call = NoCall
      /\ save = [t \in Savers |-> NoSave]
  BY DEF Init
<1>2. \A t \in Savers : save[t].pc = "idle"
  BY <1>1, BlanksAre
<1>3. eng.mode = "mapping" /\ eng.grid = {} /\ eng.base = {} /\ eng.graph = {} /\ eng.edits = <<>>
  BY <1>1 DEF FreshEngine
<1>4. SoundFiles(rep.copied) /\ rep.pc = "none"
  BY <1>1, BlankFiles DEF NoRepair
<1>5. OnFiles
  <2> DEFINE k == Keys(Image({1}), {}, {1}, <<>>)
             a == WriteKeys(EmptyDir, k)
             d == EndImage(a, {1})
  <2>1. {1} \in SUBSET Strokes /\ {} \in SUBSET Strokes /\ <<>> \in Seq(Strokes)
    BY StrokesAre
  <2>2. k \in KeyFiles
    BY <2>1, PicturesAre, KeysAre
  <2>3. Fits(k)
    BY RangeIs DEF Fits, Keys, Render
  <2> HIDE DEF k
  <2>4. a \in Dirs /\ a.image = NoImage /\ a.keys = k /\ a.backup = NoBackup
    <3>1. EmptyDir \in Dirs
      BY PicturesAre
    <3>2. EmptyDir.image = NoImage /\ EmptyDir.backup = NoBackup
      BY DEF EmptyDir
    <3>3. a \in Dirs
      BY <2>2, <3>1, DirsAre
    <3>4. a.image = EmptyDir.image /\ a.keys = k /\ a.backup = EmptyDir.backup
      BY <2>2, <3>1, DirFields
    <3> QED
      BY <3>2, <3>3, <3>4
  <2> HIDE DEF a
  <2>5. d.image = Image({1}) /\ d.geometry /\ d.keys = k /\ d.backup = NoBackup
    BY <2>1, <2>4, DirFields
  <2> HIDE DEF d
  <2>6. disk = [m \in Maps |-> IF m = First THEN d ELSE EmptyDir]
    BY DEF Init, d, a, k
  <2>7. ~Raises(d)
    BY <2>5, BlankFiles DEF Raises
  <2>8. \A m \in Maps : disk[m] = d \/ disk[m] = EmptyDir
    BY <2>6
  <2>9. DirsSound
    BY <2>3, <2>5, <2>8, BlankFiles DEF DirsSound, SoundFiles
  <2>10. TornIsActive
    BY <2>7, <2>8, BlankFiles DEF TornIsActive
  <2> QED
    BY <2>9, <2>10 DEF OnFiles
<1>6. OnRepair
  <2>1. RepairOnActive /\ Redraws /\ RenderInTime /\ BackupSound
    BY <1>4 DEF RepairOnActive, Redraws, RenderInTime, BackupSound, Alive
  <2>2. MapsConsistent
    BY <1>3, RangeIs DEF MapsConsistent, Drawn
  <2> QED
    BY <2>1, <2>2 DEF OnRepair
<1>7. OnCall
  BY <1>1, BlanksAre DEF OnCall, CallOnActive, LoadsAlone, Findable, ClearedAway
<1>8. OnGrid
  BY <1>3 DEF OnGrid, Unmapped, ActiveShown, LoadedShown, Localizing
<1>9. OnSave
  BY <1>2 DEF OnSave, ImageExtends, KeysExtend, SaveGood, Savers
<1> QED
  BY <1>5, <1>6, <1>7, <1>8, <1>9 DEF Sound

\* With a client that keeps out of a repair's way, what a render of the live
\* keyframes would draw is what the grid shows, across saves, crashes, resumes,
\* undos and repairs.
THEOREM GraphsRedrawGrids == Spec => []GraphRedrawsGrid
<1>1. Init => FilesIInv
  BY InitBase, InitSound DEF FilesIInv
<1>2. FilesIInv /\ [Next]_vars => FilesIInv'
  <2> SUFFICES ASSUME FilesIInv, [Next]_vars PROVE FilesIInv'
    OBVIOUS
  <2>1. FilesBase'
    BY NextBase DEF FilesIInv
  <2>2. ASSUME ~careless' PROVE Sound'
    BY <2>2, CarelessStays, NextSound DEF FilesIInv
  <2> QED
    BY <2>1, <2>2 DEF FilesIInv
<1>3. FilesIInv => GraphRedrawsGrid
  BY DEF FilesIInv, Sound, OnRepair, MapsConsistent, GraphRedrawsGrid
<1> QED
  BY <1>1, <1>2, <1>3, PTL DEF Spec

=============================================================================

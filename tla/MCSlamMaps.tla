---------------------------- MODULE MCSlamMaps ----------------------------
(* Two components that share no state, side by side: in each behaviour only *)
(* one of them moves.  Two maps on disk and the commands upon them; and a   *)
(* map that is being made, with a few checks of a corridor whose far end no *)
(* local search reaches.                                                    *)
EXTENDS SlamMaps, MappingRevisit

CONSTANTS A, B

VARIABLE side       \* "files" or "revisit"

TwoMaps == {A, B}

Spot(place, turned) == [place |-> place, turned |-> turned]
MCPlaces == {0, 1, 3}
MCScans == {"either way", "one way", "weak"}
Looks(score, rank, rays) == [score |-> score, rank |-> rank, rays |-> rays]
Off == Looks(NoScore, -1000, NoRays)        \* off the map
Poor == Looks(10, 5, 150)

\* "either way": the far end fits in both facings, a near tie that only the hint
\* breaks, and where the robot was thought to be is off the map.  "one way": next
\* door ranks the same in both facings, one of them below the bar.  "weak":
\* nothing reaches the bar, a step away is a clear win, and the rays fit.
MCFit == [s \in MCScans |-> [p \in Poses |->
    CASE s = "either way" ->
           (CASE p = Spot(3, FALSE) -> Looks(80, 70, 20) [] p = Spot(3, TRUE) -> Looks(74, 68, 30)
              [] p = Spot(1, FALSE) -> Looks(40, 30, 120) [] p = Spot(0, FALSE) -> Off
              [] OTHER -> Poor)
      [] s = "one way" ->
           (CASE p = Spot(1, FALSE) -> Looks(85, 60, 75) [] p = Spot(1, TRUE) -> Looks(50, 58, 60)
              [] OTHER -> Poor)
      [] s = "weak" ->
           (CASE p = Spot(1, FALSE) -> Looks(45, 30, 70) [] p = Spot(0, FALSE) -> Looks(25, 20, 60)
              [] p = Spot(1, TRUE) -> Looks(12, 5, NoRays) [] p = Spot(3, TRUE) -> Off
              [] OTHER -> Poor)]]

MCViewRates == {50, 58, 90}

allVars == <<side, vars, revisitVars>>

FileMoves(act) == side = "files" /\ act /\ UNCHANGED <<side, revisitVars>>
CheckMoves(act) == side = "revisit" /\ act /\ UNCHANGED <<side, vars>>
MCInit == Init /\ RevisitInit /\ side \in {"files", "revisit"}
MCNext == FileMoves(Next) \/ CheckMoves(RevisitNext)
MCSpec ==
    /\ MCInit /\ [][MCNext]_allVars
    /\ WF_allVars(FileMoves(Worker)) /\ WF_allVars(FileMoves(RepairThread))
===========================================================================

---------------------------- MODULE EscapeMachine ----------------------------
(***************************************************************************)
(* EscapeMachine (src/src/nav/control/escape.py): the reverse or turn that *)
(* frees a blocked nose.  The machine is a record, its two entry points    *)
(* tick_pre and tick_post are operators from the machine and what a tick   *)
(* senses to a result.  Distance is counted in what one control tick can   *)
(* cover; geometry is a set of Boolean readings.  A footprint guard is     *)
(* present, as in every navigator: the branches for the narrow_reverse of  *)
(* the follower, which only runs without one, are left out.                *)
(***************************************************************************)
EXTENDS Integers

CONSTANT Budget     \* backup_dist_m: how far one escape may reverse

ASSUME EscapeAssumption == Budget \in Nat \ {0}

Triggers == {"narrow_reverse_done", "blocked_nose_unstick", "undrivable_nose"}

\* backed is how far behind start the base is, negative ahead of it; cooling is
\* now < cooldown_until.
Machines ==
    [mode : {"idle", "reverse", "turn"}, trigger : Triggers \cup {"none"},
     backed : -Budget .. Budget, cooling : BOOLEAN]

NewMachine == [mode |-> "idle", trigger |-> "none", backed |-> 0, cooling |-> FALSE]

\* reset and clear_episode: an escape in flight is dropped, a cooldown is not.
ClearEpisode(m) == [NewMachine EXCEPT !.cooling = m.cooling]

\* The base moves backwards by step while an escape is under way.
Displaced(m, step) ==
    [m EXCEPT !.backed =
        IF m.mode # "idle" /\ @ + step \in -Budget .. Budget THEN @ + step ELSE @]

Enter(m, mode, trigger) ==
    [m EXCEPT !.mode = mode, !.trigger = trigger, !.backed = 0]

\* What tick_pre and tick_post return; "none" for None.
Result(m, cmd, label, trigger) ==
    [machine |-> m, cmd |-> cmd, label |-> label, replan |-> trigger]

Nothing(m) == Result(m, "none", "none", "none")

\* The motion is over: cooldown, a zero twist and a request to replan.
Finish(m) ==
    Result([NewMachine EXCEPT !.cooling = TRUE], "zero", "planning", m.trigger)

ContinueReverse(m, s) ==
    IF m.backed \in {Budget, -Budget} \/ ~s.geo.rearStill
      THEN Finish(m)
      ELSE Result(m, "rev", "reverse", "none")

ContinueTurn(m, s) ==
    IF s.geo.turned THEN Finish(m) ELSE Result(m, "turn", "turn", "none")

\* bumper_wants_reverse and reverse_clear.
BumperReverse(s) == ~s.nose /\ s.spinBlocked /\ s.cmd \in {"zero", "done"} /\ s.geo.rear

\* blocked_nose_unstick: what a blocked nose does once a replan has failed.
Unstick(s) ==
    IF s.nose \/ s.fails = 0 THEN "hold"
    ELSE IF s.headingOpen THEN "turn"
    ELSE IF s.geo.rear THEN "reverse"
    ELSE IF s.geo.spinClear THEN "turn"
    ELSE "hold"

\* The part of tick_pre that runs while the policy waits: reverse or turn if
\* the nose is stuck, adopt a straight reverse of the follower, else keep a
\* pure yaw and zero the translation.
Wait(m, s) ==
    LET still == s.cmd \in {"zero", "done", "fwd"} /\ s.scan /\ s.geo.view
        choice == IF still THEN Unstick(s) ELSE "hold"
    IN  IF \/ still /\ s.spinBlocked /\ s.geo.rear
           \/ choice = "reverse"
           \/ s.cmd = "rev" /\ s.geo.straight
          THEN Result(Enter(m, "reverse", "blocked_nose_unstick"), "rev", "reverse", "none")
        ELSE IF choice = "turn"
          THEN Result(Enter(m, "turn", "blocked_nose_unstick"), "turn", "turn", "none")
        ELSE Result(m, IF s.cmd = "turn" THEN "turn" ELSE "zero", "wait", "none")

\* tick_pre, before the footprint guard's veto.
TickPre(m, s) ==
    IF s.held THEN Nothing(m)
    ELSE IF m.mode = "reverse" THEN ContinueReverse(m, s)
    ELSE IF m.mode = "turn"
      THEN IF s.cmd = "rev" /\ s.geo.straight /\ ~s.nose
             THEN ContinueReverse(Enter(m, "reverse", "blocked_nose_unstick"), s)
             ELSE ContinueTurn(m, s)
    ELSE IF m.cooling THEN Nothing(m)
    ELSE IF BumperReverse(s)
      THEN Result(Enter(m, "reverse", "narrow_reverse_done"), "rev", "reverse", "none")
    ELSE IF s.waiting THEN Wait(m, s)
    ELSE Nothing(m)

\* undrivable_nose: the base would drop the only forward command there is.
Undrivable(s) ==
    IF s.nose \/ s.waiting \/ s.geo.reaches THEN "none"
    ELSE IF s.geo.spinClear /\ s.geo.bearing THEN "turn"
    ELSE IF s.geo.rear THEN "reverse"
    ELSE IF s.geo.spinClear THEN "turn"
    ELSE "none"

\* A nose that is clear drops an escape undrivable_nose began.
DropUndrivable(m, s) ==
    IF s.nose /\ m.trigger = "undrivable_nose" THEN ClearEpisode(m) ELSE m

\* The rest of tick_post, when it neither holds nor cools.
PostActive(m, s) ==
    IF m.mode # "idle" /\ m.trigger = "undrivable_nose"
      THEN IF m.mode = "reverse" THEN ContinueReverse(m, s) ELSE ContinueTurn(m, s)
    ELSE IF m.mode # "idle" THEN Nothing(m)
    ELSE CASE Undrivable(s) = "turn" ->
                Result(Enter(m, "turn", "undrivable_nose"), "turn", "turn", "none")
           [] Undrivable(s) = "reverse" ->
                ContinueReverse(Enter(m, "reverse", "undrivable_nose"), s)
           [] OTHER -> Nothing(m)

\* tick_post, after the veto.
TickPost(m, s) ==
    IF s.held \/ s.corridor \/ m.cooling
      THEN Nothing(DropUndrivable(m, s))
      ELSE PostActive(m, s)
=============================================================================

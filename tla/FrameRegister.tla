--------------------------- MODULE FrameRegister ---------------------------
(***************************************************************************)
(* What a shared-memory ring promises its reader: a read that succeeds     *)
(* returns a whole frame, and one at least as new as every frame that was  *)
(* complete when the read began.  Frames are numbered in the order their   *)
(* writes begin; a write that fails leaves a gap.                          *)
(***************************************************************************)
EXTENDS Naturals

None == 0

VARIABLES
    frames,     \* frames completely written
    newest,     \* the newest of them, or None
    reading,    \* a read is going on
    floor,      \* newest when it began
    got         \* the frame the last successful read returned, or None

vars == <<frames, newest, reading, floor, got>>

Init ==
    /\ frames = {}
    /\ newest = None
    /\ reading = FALSE
    /\ floor = None
    /\ got = None

Publish ==
    /\ newest' \in Nat
    /\ newest' > newest
    /\ frames' = frames \cup {newest'}
    /\ UNCHANGED <<reading, floor, got>>

BeginRead ==
    /\ ~reading
    /\ reading' = TRUE
    /\ floor' = newest
    /\ UNCHANGED <<frames, newest, got>>

Return ==
    /\ reading
    /\ reading' = FALSE
    /\ got' \in frames
    /\ got' >= floor
    /\ UNCHANGED <<frames, newest, floor>>

\* No frame seen, or torn on every try.
GiveUp ==
    /\ reading
    /\ reading' = FALSE
    /\ UNCHANGED <<frames, newest, floor, got>>

Next == Publish \/ BeginRead \/ Return \/ GiveUp

Spec == Init /\ [][Next]_vars
=============================================================================

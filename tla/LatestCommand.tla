--------------------------- MODULE LatestCommand ---------------------------
(***************************************************************************)
(* What the drive path promises the navigator: commands are numbered in    *)
(* the order the control thread accepted them, and the base only ever      *)
(* moves forward in that order.  Commands may be dropped (a newer one      *)
(* replaces an older one that was still waiting), never reordered.         *)
(***************************************************************************)
EXTENDS Naturals

VARIABLES
    issued,     \* number of the newest command accepted
    applied     \* number of the command the base is executing

vars == <<issued, applied>>

Init == issued = 0 /\ applied = 0

Issue == issued' = issued + 1 /\ UNCHANGED applied

Apply == applied' \in applied .. issued /\ UNCHANGED issued

Next == Issue \/ Apply

Spec == Init /\ [][Next]_vars
=============================================================================

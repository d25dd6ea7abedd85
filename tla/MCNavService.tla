---------------------------- MODULE MCNavService ----------------------------
(* Two poses; the saved route visits both.                                   *)
EXTENDS NavService

CONSTANTS a, b

MCTargets == {a, b}
MCRoute == <<a, b>>
MCAsked == {a}

\* A loop in the background; one pass that is waited for, from the nearest leg.
MCStarts == {[at |-> 1, loop |-> TRUE, wait |-> FALSE, nearest |-> FALSE],
             [at |-> 2, loop |-> FALSE, wait |-> TRUE, nearest |-> TRUE]}
=============================================================================

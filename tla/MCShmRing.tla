----------------------------- MODULE MCShmRing -----------------------------
(* Two components that share no state, side by side: in each behaviour only *)
(* one of them moves.  A ring whose frames have two words, a payload and    *)
(* its header; and the engine's thread that maps objects and asks cameras.  *)
EXTENDS ShmRing, ScanFeed, TLC

CONSTANTS body, stamp

VARIABLE side       \* "ring" or "feed"

MCWords == {body, stamp}
allVars == <<side, vars, feedVars>>

RingMoves(A) == side = "ring" /\ A /\ UNCHANGED <<side, feedVars>>
FeedMoves(A) == side = "feed" /\ A /\ UNCHANGED <<side, vars>>
MCInit ==
    /\ Init /\ FeedInit
    /\ \/ side = "ring" /\ feed = "required"
       \/ side = "feed"
MCNext == RingMoves(Next) \/ FeedMoves(FeedNext)
MCSpec ==
    /\ MCInit /\ [][MCNext]_allVars
    /\ WF_allVars(FeedMoves(WritesFrame(Another))) /\ WF_allVars(FeedMoves(Creates))
    /\ SF_allVars(FeedMoves(Answers(Another))) /\ WF_allVars(FeedMoves(Engine))
=============================================================================

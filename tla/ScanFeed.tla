------------------------------ MODULE ScanFeed ------------------------------
(***************************************************************************)
(* How a revolution of the lidar reaches a tick of the SLAM engine.  The   *)
(* lidar's driver writes each revolution into a shared-memory object that  *)
(* it unlinks and creates anew when it restarts; the engine's thread maps  *)
(* that object (src/src/shm/lidar.py) and, when it has no frame to offer,  *)
(* asks the camera by RPC, with one call in flight that is abandoned when  *)
(* it is stuck (src/src/slam_builtin/io_sensors.py).  What it gets twice   *)
(* must not be matched twice (get_scan, _tick of engine.py).               *)
(*                                                                         *)
(* One lidar.  A revolution is told by its content; contents nobody holds  *)
(* are used again.  Time passes in steps of the engine's period, which is  *)
(* longer than the shortest time between two fetches.  A torn read counts  *)
(* as no frame: both are tried once more on a new mapping.                 *)
(***************************************************************************)
EXTENDS Naturals, FiniteSets

CONSTANTS
    Sources,        \* the ways the lidar may be read: "shm", "required", "rpc"
    ScanAge,        \* how old a scan the engine takes (scan_age, 0.75 s)
    FrameAge,       \* how old a frame in shared memory may be (scan_max_age_s, 2 s)
    Stuck           \* _LIDAR_RPC_STUCK_S

ASSUME FeedAssumption ==
    /\ Sources \subseteq {"shm", "required", "rpc"}
    /\ ScanAge \in Nat /\ FrameAge \in Nat /\ Stuck \in Nat

VARIABLES
    feed,     \* how this lidar is configured
    up,         \* the lidar turns and its driver answers
    rev,        \* the revolution it offered last
    link,       \* the object the name leads to, 0 when it is unlinked
    mem,        \* of each object: its last frame, and how long ago it was written
    map,        \* the client's slot: the object it maps, the identity it noted
    read,       \* the engine's thread: where it is, and its attempt in try_read
    fut,        \* the RPC in flight, for how long, and its answer
    cache,      \* _scan_cache: its content, how long ago it was first seen
    gap,        \* _scan_had_gap
    silent      \* since the engine took its last scan the lidar stopped, restarted or was late

feedVars == <<feed, up, rev, link, mem, map, read, fut, cache, gap, silent>>

-----------------------------------------------------------------------------
None == 0
NoFrame == [rev |-> None, age |-> 0]
NoCall == [at |-> "none", age |-> 0, rev |-> None]
Rest == [at |-> "rest", try |-> 1]
Objects == 1 .. 3
Revs == 1 .. 6
Horizon == 1 + CHOOSE n \in {ScanAge, FrameAge, Stuck} : \A m \in {ScanAge, FrameAge, Stuck} : m <= n

Older(n) == IF n < Horizon THEN n + 1 ELSE n

\* Objects and contents that can still be met.
Held == {map.on, map.id, link} \ {None}
Contents == {mem[o].rev : o \in Objects} \cup {fut.rev, cache.rev, rev}

\* The frames of an object nobody maps or can open are gone.
Reachable(m, mapped, linked) == [o \in Objects |-> IF o \in {mapped, linked} THEN m[o] ELSE NoFrame]

FeedTypeOK ==
    /\ feed \in Sources
    /\ up \in BOOLEAN /\ gap \in BOOLEAN /\ silent \in BOOLEAN
    /\ rev \in Revs
    /\ link \in Objects \cup {None}
    /\ mem \in [Objects -> [rev : Revs \cup {None}, age : Nat]]
    /\ map \in [on : Objects \cup {None}, id : Objects \cup {None}]
    /\ read \in [at : {"rest", "check", "stat", "read", "none", "wait"}, try : {1, 2}]
    /\ fut \in [at : {"none", "open", "done", "lost"}, age : Nat, rev : Revs \cup {None}]
    /\ cache \in [rev : Revs \cup {None}, age : Nat]

FeedInit ==
    /\ feed \in Sources
    /\ up = TRUE /\ rev = 1
    /\ link = None /\ mem = [o \in Objects |-> NoFrame]
    /\ map = [on |-> None, id |-> None]
    /\ read = Rest
    /\ fut = NoCall
    /\ cache = NoFrame /\ gap = FALSE /\ silent = FALSE

-----------------------------------------------------------------------------
(* The lidar and its driver.                                               *)

client == <<map, read, cache, gap>>
world == <<feed, up, rev, link>>
driver == <<world, mem>>

\* A revolution is published (Writer.write), the next one or the last again.
Another == CHOOSE r \in Revs : r \notin Contents

WritesFrame(r) ==
    /\ feed # "rpc" /\ up /\ link # None
    /\ rev' = r /\ mem' = [mem EXCEPT ![link] = [rev |-> r, age |-> 0]]
    /\ UNCHANGED <<feed, up, link, fut, client, silent>>

\* A driver that starts unlinks what its predecessor left (_try_unlink) ...
Unlinks ==
    /\ feed # "rpc" /\ up /\ link # None
    /\ link' = None /\ silent' = TRUE
    /\ mem' = Reachable(mem, map.on, None)
    /\ UNCHANGED <<feed, up, rev, fut, client>>

\* ... and creates an object of its own, without a frame.
Creates ==
    /\ feed # "rpc" /\ up /\ link = None
    /\ link' = CHOOSE o \in Objects : o \notin Held
    /\ mem' = [mem EXCEPT ![link'] = NoFrame]
    /\ UNCHANGED <<feed, up, rev, fut, client, silent>>

\* The lidar stops or its driver hangs: no frames, and calls stay open.  Back
\* again, a driver may offer its last revolution first.
Stops == up /\ up' = FALSE /\ silent' = TRUE /\ UNCHANGED <<feed, rev, link, mem, fut, client>>
Returns == ~up /\ up' = TRUE /\ UNCHANGED <<feed, rev, link, mem, fut, client, silent>>

\* A call is answered; by a driver that is down with a failure, or never.
Answers(r) ==
    /\ fut.at = "open" /\ up
    /\ rev' = r /\ fut' = [fut EXCEPT !.at = "done", !.rev = r]
    /\ UNCHANGED <<feed, up, link, mem, client, silent>>

Fails ==
    /\ fut.at = "open" /\ ~up
    /\ fut' = [fut EXCEPT !.at = "done"]
    /\ UNCHANGED <<driver, client, silent>>

Hangs ==
    /\ fut.at = "open" /\ ~up
    /\ fut' = [fut EXCEPT !.at = "lost"]
    /\ UNCHANGED <<driver, client, silent>>

-----------------------------------------------------------------------------
(* ShmPointCloudClient.try_read: two attempts.                             *)

At(place) == read' = [read EXCEPT !.at = place]
Done == read' = [at |-> "none", try |-> 1]

\* The mapping is dropped and the next attempt opens the name again; after the
\* second there is none.
Invalidate ==
    /\ map' = [on |-> None, id |-> None]
    /\ mem' = Reachable(mem, None, link)
KeepMap == UNCHANGED <<map, mem>>
NextAttempt == IF read.try = 1 THEN read' = [at |-> "check", try |-> 2] ELSE Done

\* _mapping_stale
MappingStale ==
    /\ map.on # None
    /\ map.id # None
    /\ link # map.id

\* A slot without a reader opens the object; one whose object was replaced is
\* dropped, which takes an attempt.
ChecksMapping ==
    /\ read.at = "check"
    /\ \/ /\ map.on = None /\ link = None
          /\ Done /\ KeepMap
       \/ /\ map.on = None /\ link # None
          /\ map' = [map EXCEPT !.on = link] /\ UNCHANGED mem
          /\ At("stat")
       \/ /\ map.on # None /\ MappingStale
          /\ Invalidate /\ NextAttempt
       \/ /\ map.on # None /\ ~MappingStale
          /\ At("read") /\ KeepMap
    /\ UNCHANGED <<world, fut, cache, gap, silent>>

\* The identity is that of the object the name leads to by now.
Stats ==
    /\ read.at = "stat"
    /\ map' = [map EXCEPT !.id = link]
    /\ At("read")
    /\ UNCHANGED <<driver, fut, cache, gap, silent>>

Frame == mem[map.on]

\* A frame that is too old, or none, may mean that the mapping is.
Distrusted == Frame.rev = None \/ Frame.age > FrameAge

-----------------------------------------------------------------------------
(* BuiltinSensors.get_scan.                                                *)

\* No scan: only a finished miss is a dropout, not a call in flight.
MissesAlways(waits) == gap' = TRUE
Misses(waits) == gap' = (gap \/ ~waits)

\* The driver has not offered anything since it started.
Starting == feed # "rpc" /\ (link = None \/ mem[link].rev = None)

\* A scan: the revolution that is known keeps its object while it is fresh; an
\* old one is new again only after a dropout, and otherwise no scan at all.
Merges(r) ==
    LET same == cache.rev = r
        old == cache.age > ScanAge
    IN \/ /\ same /\ old /\ ~gap
          /\ UNCHANGED <<cache, gap, silent>>
       \/ /\ same /\ ~old
          /\ gap' = FALSE /\ UNCHANGED <<cache, silent>>
       \/ /\ ~same \/ (old /\ gap)
          /\ cache' = [rev |-> r, age |-> 0]
          /\ gap' = FALSE /\ silent' = (~up \/ Starting)

\* What the tick gets; a scan the engine has not seen is matched.
Ends(r, waits) ==
    /\ read' = Rest
    /\ IF r = None THEN Misses(waits) /\ UNCHANGED <<cache, silent>> ELSE Merges(r)

\* A period of the engine goes by, and it asks for a scan.  A driver that is up
\* publishes often enough for the frames to be taken.
Begins ==
    /\ read.at = "rest"
    /\ feed # "rpc" /\ up /\ link # None => mem[link].age < FrameAge
    /\ read' = [at |-> IF feed = "rpc" THEN "none" ELSE "check", try |-> 1]
    /\ mem' = [o \in Objects |-> [mem[o] EXCEPT !.age = Older(@)]]
    /\ fut' = [fut EXCEPT !.age = IF fut.at = "none" THEN 0 ELSE Older(@)]
    /\ cache' = [cache EXCEPT !.age = Older(@)]
    /\ UNCHANGED <<feed, up, rev, link, map, gap, silent>>

\* A frame ends the read; a mapping that is not trusted is dropped at the first
\* attempt and asked no more at the second.
Reads ==
    /\ read.at = "read"
    /\ \/ /\ Frame.rev # None /\ Frame.age <= FrameAge
          /\ Ends(Frame.rev, FALSE) /\ KeepMap
       \/ /\ ~(Frame.rev # None /\ Frame.age <= FrameAge)
          /\ NextAttempt
          /\ IF Distrusted /\ read.try = 1 THEN Invalidate ELSE KeepMap
          /\ UNCHANGED <<cache, gap, silent>>
    /\ UNCHANGED <<world, fut>>

Required ==
    /\ read.at = "none" /\ feed = "required"
    /\ Ends(None, FALSE)
    /\ UNCHANGED <<driver, fut, map>>

\* _poll_lidar_grpc: a call that is done is collected, one that is stuck is
\* abandoned; then a new one is sent and waited for, briefly.
AbandonsNever == FALSE
Abandons == fut.age > Stuck

Polls ==
    /\ read.at = "none" /\ feed # "required"
    /\ \/ /\ fut.at = "done"
          /\ fut' = NoCall
          /\ Ends(fut.rev, FALSE)
       \/ /\ fut.at \in {"open", "lost"} /\ ~Abandons
          /\ Ends(None, TRUE) /\ UNCHANGED fut
       \/ /\ fut.at = "none" \/ (fut.at \in {"open", "lost"} /\ Abandons)
          /\ fut' = [NoCall EXCEPT !.at = "open"]
          /\ At("wait")
          /\ UNCHANGED <<cache, gap, silent>>
    /\ UNCHANGED <<driver, map>>

AwaitsAnswer ==
    /\ read.at = "wait"
    /\ \/ fut.at = "done" /\ fut' = NoCall /\ Ends(fut.rev, FALSE)
       \/ fut.at # "done" /\ Ends(None, TRUE) /\ UNCHANGED fut
    /\ UNCHANGED <<driver, map>>

Engine == Begins \/ ChecksMapping \/ Stats \/ Reads \/ Required \/ Polls \/ AwaitsAnswer

FeedNext ==
    \/ \E r \in {rev, Another} : WritesFrame(r) \/ Answers(r)
    \/ Unlinks \/ Creates \/ Stops \/ Returns \/ Fails \/ Hangs
    \/ Engine
FeedFairness ==
    /\ WF_feedVars(WritesFrame(Another)) /\ WF_feedVars(Creates)
    /\ SF_feedVars(Answers(Another)) /\ WF_feedVars(Engine)

FeedSpec == FeedInit /\ [][FeedNext]_feedVars /\ FeedFairness

-----------------------------------------------------------------------------
(* No revolution is matched twice while the lidar goes on turning, however *)
(* long an answer takes (get_scan: "the caller can skip a scan it already  *)
(* consumed").                                                             *)
MatchedOnce == [][cache'.rev = cache.rev /\ cache'.age < cache.age => silent]_feedVars

(* Once the lidar is back its revolutions are matched again, whatever call *)
(* was left open and whatever object the engine's thread had mapped.       *)
FeedResumes ==
    <>[](up /\ (feed = "rpc" \/ link # None)) => []<><<cache'.age = 0 /\ cache.age > 0>>_feedVars
=============================================================================

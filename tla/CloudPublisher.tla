--------------------------- MODULE CloudPublisher ---------------------------
(***************************************************************************)
(* The shm-pointcloud camera (src/src/models/shm_pointcloud.py) copies the *)
(* clouds of another camera into a ring of shared memory: by a thread at a *)
(* fixed rate, or on request when the rate is zero.  Reconfiguring and     *)
(* closing run on the module's loop, as the requests do, and stop the      *)
(* thread with an event and a join that may time out: the camera the       *)
(* thread waits for need not answer.  A cloud is the camera it came from;  *)
(* each configuration opens a writer of its own.                           *)
(***************************************************************************)
EXTENDS Naturals

CONSTANTS
    Cameras,        \* that can be the source
    Nobody,         \* no camera, no cloud
    MaxConfigs      \* bound: configurations and closings

ASSUME CloudAssumption == Nobody \notin Cameras /\ MaxConfigs \in Nat

Writers == 1 .. MaxConfigs      \* in the order they are opened
Idle_ == [pc |-> "off", source |-> Nobody, shm |-> 0]

VARIABLES
    loop,       \* what the module's loop is at: the configuration it brings about
    source,     \* _source
    shm,        \* _shm: a writer, or 0
    stop,       \* _stop
    hz,         \* _produce_hz is positive
    latest,     \* _latest
    writers,    \* each writer: open, the camera it was opened for, the cloud it holds
    publish,    \* _publish_once_async, of the thread and of a request
    configs     \* bound: configurations begun

cloudVars == <<loop, source, shm, stop, hz, latest, writers, publish, configs>>

Publishers == {"thread", "request"}
Camera_ == Cameras \cup {Nobody}

CloudTypeOK ==
    /\ loop \in [pc : {"free", "join", "open"}, source : Camera_, hz : BOOLEAN, closing : BOOLEAN]
    /\ source \in Camera_ /\ latest \in Camera_
    /\ shm \in Writers \cup {0} /\ configs \in 0 .. MaxConfigs
    /\ {stop, hz} \subseteq BOOLEAN
    /\ writers \in [Writers -> [open : BOOLEAN, for : Camera_, holds : Camera_]]
    /\ publish \in [Publishers ->
          [pc : {"off", "wait", "begin", "ask", "check", "write", "keep"}, source : Camera_,
           shm : Writers \cup {0}]]

Free == [pc |-> "free", source |-> Nobody, hz |-> FALSE, closing |-> FALSE]

CloudInit ==
    /\ loop = Free
    /\ source = Nobody /\ latest = Nobody /\ shm = 0
    /\ stop = FALSE /\ hz = TRUE
    /\ writers = [w \in Writers |-> [open |-> FALSE, for |-> Nobody, holds |-> Nobody]]
    /\ publish = [p \in Publishers |-> Idle_]
    /\ configs = 0

Alive == publish["thread"].pc # "off"
Turn(p, pc) == publish' = [publish EXCEPT ![p].pc = pc]

-----------------------------------------------------------------------------
\* Reconfiguring and closing

\* close_sync up to the join, which blocks the loop.
Closes(c) ==
    /\ loop.pc = "free" /\ publish["request"].pc \in {"off", "ask"}
    /\ configs < MaxConfigs
    /\ configs' = configs + 1
    /\ stop' = TRUE /\ source' = Nobody
    /\ loop' = c
    /\ UNCHANGED <<shm, hz, latest, writers, publish>>

Reconfigures ==
    \E c \in Camera_, rate \in BOOLEAN :
        Closes([pc |-> "join", source |-> c, hz |-> rate, closing |-> FALSE])

CloseCalled == Closes([pc |-> "join", source |-> Nobody, hz |-> FALSE, closing |-> TRUE])

\* The thread has ended, or there was none: the writer goes.
Joined ==
    /\ loop.pc = "join" /\ ~Alive
    /\ shm' = 0
    /\ writers' = IF shm = 0 THEN writers ELSE [writers EXCEPT ![shm].open = FALSE]
    /\ loop' = IF loop.closing THEN Free ELSE [loop EXCEPT !.pc = "open"]
    /\ UNCHANGED <<source, stop, hz, latest, publish, configs>>

\* The join timed out: close_sync returns early and the writer stays.
JoinTimesOut ==
    /\ loop.pc = "join" /\ Alive
    /\ loop' = IF loop.closing THEN Free ELSE [loop EXCEPT !.pc = "open"]
    /\ UNCHANGED <<source, shm, stop, hz, latest, writers, publish, configs>>

\* The rest of reconfigure.  It raises when the camera is missing, and, with
\* the camera already taken, when the thread lives.
Opens ==
    /\ loop.pc = "open"
    /\ hz' = loop.hz
    /\ loop' = Free
    /\ source' = loop.source
    /\ IF loop.source = Nobody \/ Alive
       THEN UNCHANGED <<stop, shm, writers, publish>>
       ELSE /\ stop' = FALSE
            /\ shm' = configs
            /\ writers' = [writers EXCEPT ![configs] =
                              [open |-> TRUE, for |-> loop.source, holds |-> Nobody]]
            /\ publish' = [publish EXCEPT !["thread"].pc = IF loop.hz THEN "begin" ELSE "off"]
    /\ UNCHANGED <<latest, configs>>

-----------------------------------------------------------------------------
\* One publication.  A request gives way to the loop only while it asks.

OnLoop(p) == p = "request" => loop.pc = "free"
Over(p) == publish' = [publish EXCEPT ![p] =
                          IF p = "thread" THEN [Idle_ EXCEPT !.pc = "wait"] ELSE Idle_]

\* get_point_cloud publishes by itself only while it has no cloud and no rate.
Requested ==
    /\ loop.pc = "free" /\ publish["request"].pc = "off"
    /\ latest = Nobody /\ ~hz
    /\ Turn("request", "begin")
    /\ UNCHANGED <<loop, source, shm, stop, hz, latest, writers, configs>>

Asks(p) ==
    /\ OnLoop(p) /\ publish[p].pc = "begin"
    /\ IF stop \/ source = Nobody \/ shm = 0
       THEN Over(p)
       ELSE publish' = [publish EXCEPT ![p] = [pc |-> "ask", source |-> source, shm |-> shm]]
    /\ UNCHANGED <<loop, source, shm, stop, hz, latest, writers, configs>>

\* The camera answers, or fails, or sends nothing.
Answered(p) ==
    /\ OnLoop(p) /\ publish[p].pc = "ask"
    /\ \/ ~stop /\ Turn(p, "check")
       \/ Over(p)
    /\ UNCHANGED <<loop, source, shm, stop, hz, latest, writers, configs>>

\* Mutant: asks only whether it is stopped.
MayWriteUnlessStopped(p) == ~stop

\* The check under _write_lock: not stopped, and still the same writer.
MayWrite(p) == ~stop /\ publish[p].shm = shm

Checks(p) ==
    /\ OnLoop(p) /\ publish[p].pc = "check"
    /\ IF MayWrite(p) THEN Turn(p, "write") ELSE Over(p)
    /\ UNCHANGED <<loop, source, shm, stop, hz, latest, writers, configs>>

\* close_sync does not take that lock: the thread may have been told to stop.
Writes(p) ==
    /\ OnLoop(p) /\ publish[p].pc = "write"
    /\ writers' = [writers EXCEPT ![publish[p].shm].holds = publish[p].source]
    /\ Turn(p, "keep")
    /\ UNCHANGED <<loop, source, shm, stop, hz, latest, configs>>

Remembers(p) ==
    /\ OnLoop(p) /\ publish[p].pc = "keep"
    /\ latest' = publish[p].source
    /\ Over(p)
    /\ UNCHANGED <<loop, source, shm, stop, hz, writers, configs>>

\* The thread waits its period, or ends when it is told to stop.
Waits ==
    /\ publish["thread"].pc = "wait"
    /\ Turn("thread", IF stop THEN "off" ELSE "begin")
    /\ UNCHANGED <<loop, source, shm, stop, hz, latest, writers, configs>>

CloudNext ==
    \/ Reconfigures \/ CloseCalled \/ Joined \/ JoinTimesOut \/ Opens
    \/ Requested \/ Waits
    \/ \E p \in Publishers : Asks(p) \/ Answered(p) \/ Checks(p) \/ Writes(p) \/ Remembers(p)

CloudSpec == CloudInit /\ [][CloudNext]_cloudVars

-----------------------------------------------------------------------------
(* A cloud is written only into a ring that is open, and only the clouds of *)
(* the camera the ring was opened for, although the camera may answer after *)
(* the component was reconfigured for another one, or closed.               *)
(* (_publish_once_async, close_sync)                                        *)
RingIsOwn ==
    [][\A w \in Writers :
          writers'[w].holds # writers[w].holds /\ writers'[w].holds # Nobody
          => writers[w].open /\ writers'[w].holds = writers[w].for]_cloudVars
=============================================================================

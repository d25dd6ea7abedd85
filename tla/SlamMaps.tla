------------------------------ MODULE SlamMaps ------------------------------
(***************************************************************************)
(* The maps of the SLAM service: which directory is loaded, what the live  *)
(* grid and the keyframe graph show, saving, background repair, undo and   *)
(* restart (src/src/slam_builtin/engine.py, models/slam.py).               *)
(*                                                                         *)
(* Concurrent are a client, whose commands run one after the other, each   *)
(* in a worker thread; the repair thread; the tick thread that paints      *)
(* scans; and a crash of the process.  "lock" is the engine's _lock where  *)
(* it is held across file writes, "job" is _graph_job.                     *)
(*                                                                         *)
(* A stroke is one change of the drawing: a scan with its keyframe, an     *)
(* edit by hand, or the corrections of a repair.                           *)
(***************************************************************************)
EXTENDS Naturals, Sequences, FiniteSets, MapFiles

CONSTANTS
    Maps,           \* names of map directories
    First,          \* the map that exists at first
    NoMap,          \* no map
    MinNodes,       \* _REPAIR_MIN_NODES
    MaxStrokes,     \* bound: changes of a drawing
    MaxCalls,       \* bound: commands of the client
    MaxHasty,       \* bound: commands of a client that was careless
    MaxCrashes      \* bound: crashes of the process

ASSUME SlamMapsAssumption ==
    /\ NoMap \notin Maps
    /\ First \in Maps
    /\ MinNodes \in Nat /\ MaxStrokes \in Nat \ {0} /\ MaxCalls \in Nat
    /\ MaxHasty \in Nat /\ MaxCrashes \in Nat

VARIABLES
    disk,       \* the map directories
    active,     \* active_map of state.json
    mode,       \* the service's cfg.mode
    up,         \* the process runs
    eng,        \* the engine: what is loaded and drawn
    lock,       \* who holds _lock while it writes files
    job,        \* who holds _graph_job
    cancel,     \* the event _repair_cancel
    rep,        \* the repair thread
    call,       \* the command under way and its worker thread
    save,       \* for the client and the repair thread: save_map under way
    strokes,    \* strokes made so far
    calls,      \* commands so far
    crashes,    \* crashes so far
    before,     \* per map, the drawing on disk when a repair was let through (ghost)
    careless    \* the client got in the way of a repair or of the active map (ghost)

bounds == <<strokes, calls, crashes>>
vars == <<disk, active, mode, up, eng, lock, job, cancel, rep, call, save,
          strokes, calls, crashes, before, careless>>

Savers == {"client", "repairer"}
Strokes == 1 .. MaxStrokes
Modes == {"mapping", "localizing"}

\* dir is _map_dir; of is the map whose files the grid was loaded from or
\* begun for, which the code does not record.
FreshEngine ==
    [mode |-> "mapping", dir |-> NoMap, of |-> NoMap, grid |-> {}, base |-> {},
     graph |-> {}, edits |-> <<>>, saved |-> 0, revision |-> 0]

NoRepair == [pc |-> "none", dir |-> NoMap, apply |-> "auto", revision |-> 0, copied |-> NoBackup,
             moved |-> FALSE]

Alive == rep.pc # "none"

\* Another session has begun since the repair took its snapshot (ghost).
Moved == [rep EXCEPT !.moved = Alive]

NoCall == [op |-> "none", pc |-> "idle", map |-> NoMap, mode |-> "mapping", arg |-> "auto",
           want |-> {}, sound |-> FALSE]

NoSave == [pc |-> "idle", dir |-> NoMap, old |-> NoImage, grid |-> {}, keys |-> NoKeys,
           live |-> FALSE, fresh |-> <<>>, mode |-> "mapping"]

\* One map was saved earlier, with one stroke; the others are empty.
Init ==
    /\ active = First
    /\ disk = [m \in Maps |->
                 IF m = First
                 THEN EndImage(WriteKeys(EmptyDir, Keys(Image({1}), {}, {1}, <<>>)), {1})
                 ELSE EmptyDir]
    /\ mode = "mapping"
    /\ up = FALSE
    /\ eng = FreshEngine
    /\ lock = "free"
    /\ job = "free"
    /\ cancel = FALSE
    /\ rep = NoRepair
    /\ call = NoCall
    /\ save = [t \in Savers |-> NoSave]
    /\ strokes = 1
    /\ calls = 0
    /\ crashes = 0
    /\ before = [m \in Maps |-> {}]
    /\ careless = FALSE

\* What a render of the live graph shows.
Drawn(e) == e.base \cup e.graph \cup Range(e.edits)

-----------------------------------------------------------------------------
(* configure_mode *)

\* _reset_graph_locked with the grid g in place: a drawing without keyframes
\* becomes the base of later renders.
ResetGraph(e, g, m) ==
    [e EXCEPT !.grid = g, !.graph = {}, !.edits = <<>>, !.saved = 0,
              !.revision = @ + 1, !.base = IF m = "mapping" THEN g ELSE {}]

\* _resume_keyframes_locked: the saved edits are drawn onto the loaded image again.
ResumeKeyframes(e, k) ==
    IF ~k.there THEN e
    ELSE [e EXCEPT !.graph = k.scans, !.base = k.base, !.edits = k.edits,
                   !.saved = Len(k.edits), !.grid = @ \cup Range(k.edits),
                   !.revision = @ + 1]

\* The engine after the part of configure_mode that holds the lock, when it does
\* not raise.
Configured(e, m, dir, d) ==
    LET there == [e EXCEPT !.mode = m, !.dir = dir, !.of = dir]
    IN IF Readable(d)
       THEN LET loaded == ResetGraph(there, d.image.shows, m)
            IN IF m = "mapping" THEN ResumeKeyframes(loaded, LoadGraph(d, d.image)) ELSE loaded
       ELSE ResetGraph(there, {}, m)

\* A torn image raises; so does localizing without a map.  Mode and directory
\* have been assigned by then, and nothing else.
ConfigureFails(m, d) == Raises(d) \/ (m = "localizing" /\ ~Readable(d))

HalfConfigured(e, m, dir) == [e EXCEPT !.mode = m, !.dir = dir]

Configure(m, dir) ==
    /\ lock = "free"
    /\ IF ConfigureFails(m, disk[dir])
       THEN /\ eng' = HalfConfigured(eng, m, dir)
            /\ UNCHANGED rep
       ELSE /\ eng' = Configured(eng, m, dir, disk[dir])
            /\ rep' = Moved

-----------------------------------------------------------------------------
(* The process *)

\* reconfigure: the active map is the one of state.json, the mode that of the
\* configuration.  A new engine and no other thread.  If it raises, the
\* component is not there and is built again at the next try.
Boot(m) ==
    /\ ~up
    /\ ~ConfigureFails(m, disk[active])
    /\ up' = TRUE
    /\ mode' = m
    /\ eng' = Configured(FreshEngine, m, active, disk[active])
    /\ UNCHANGED <<disk, active, lock, job, cancel, rep, call, save, bounds, before, careless>>

\* Whatever was only in memory is gone.
Crash ==
    /\ up
    /\ crashes < MaxCrashes
    /\ crashes' = crashes + 1
    /\ up' = FALSE
    /\ eng' = FreshEngine
    /\ lock' = "free"
    /\ job' = "free"
    /\ cancel' = FALSE
    /\ rep' = NoRepair
    /\ call' = NoCall
    /\ save' = [t \in Savers |-> NoSave]
    /\ UNCHANGED <<disk, active, mode, strokes, calls, before, careless>>

-----------------------------------------------------------------------------
(* Drawing *)

\* At the bound, edits and repairs change nothing any more.
NextStroke == IF strokes < MaxStrokes THEN strokes + 1 ELSE strokes

\* A tick while mapping: the scan is drawn and kept in a keyframe.
Scan ==
    /\ up
    /\ lock = "free"
    /\ eng.mode = "mapping"
    /\ strokes < MaxStrokes
    /\ strokes' = strokes + 1
    /\ eng' = [eng EXCEPT !.grid = @ \cup {strokes + 1}, !.graph = @ \cup {strokes + 1}]
    /\ UNCHANGED <<disk, active, mode, up, lock, job, cancel, rep, call, save, calls, crashes,
                   before, careless>>

\* clear_obstacles, add_obstacles
Edit ==
    /\ call.op = "edit"
    /\ lock = "free"
    /\ strokes' = NextStroke
    /\ eng' = IF NextStroke = strokes THEN eng
              ELSE [eng EXCEPT !.grid = @ \cup {NextStroke}, !.edits = Append(@, NextStroke)]
    /\ call' = NoCall
    /\ UNCHANGED <<disk, active, mode, up, lock, job, cancel, rep, save, calls, crashes, before, careless>>

-----------------------------------------------------------------------------
(* save_map: image and map.yaml under the lock, keyframes after it. *)

BeginSave(t, dir) ==
    /\ lock = "free"
    /\ lock' = t
    /\ disk' = [disk EXCEPT ![dir] = BeginImage(@)]
    /\ save' = [save EXCEPT ![t] = [NoSave EXCEPT !.pc = "image", !.dir = dir,
                                                  !.old = disk[dir].image]]

\* _graph_payload_locked and the rest of what is read under the lock.
Payload(e, s) ==
    [s EXCEPT !.pc = "keys", !.live = e.graph # {}, !.mode = e.mode, !.grid = e.grid,
              !.keys = Keys(Image(e.grid), e.base, e.graph, e.edits),
              !.fresh = SubSeq(e.edits, e.saved + 1, Len(e.edits))]

\* Mutant: the save does not give the lock back.
SaveImageLocked(t) ==
    /\ save[t].pc = "image"
    /\ disk' = [disk EXCEPT ![save[t].dir] = EndImage(@, eng.grid)]
    /\ eng' = [eng EXCEPT !.dir = save[t].dir]
    /\ save' = [save EXCEPT ![t] = Payload(eng, @)]
    /\ UNCHANGED <<active, mode, up, lock, job, cancel, rep, call, bounds, before, careless>>

SaveImage(t) ==
    /\ save[t].pc = "image"
    /\ disk' = [disk EXCEPT ![save[t].dir] = EndImage(@, eng.grid)]
    /\ eng' = [eng EXCEPT !.dir = save[t].dir]
    /\ save' = [save EXCEPT ![t] = Payload(eng, @)]
    /\ lock' = "free"
    /\ UNCHANGED <<active, mode, up, job, cancel, rep, call, bounds, before, careless>>

\* _write_keyframes: the live graph; or the keyframes that belonged to the image
\* just replaced, with the new edits; or nothing.
SaveKeys(t) ==
    LET s == save[t]
        kept == LoadGraph(disk[s.dir], s.old)
        rewritten == Keys(Image(s.grid), kept.base, kept.scans, kept.edits \o s.fresh)
    IN /\ s.pc = "keys"
       /\ \/ /\ s.live
             /\ disk' = [disk EXCEPT ![s.dir] = WriteKeys(@, s.keys)]
             /\ eng' = [eng EXCEPT !.saved = Len(s.keys.edits)]
          \/ /\ ~s.live /\ s.mode = "localizing" /\ kept.there
             /\ disk' = [disk EXCEPT ![s.dir] = WriteKeys(@, rewritten)]
             /\ eng' = [eng EXCEPT !.saved = @ + Len(s.fresh)]
          \/ /\ ~s.live /\ (s.mode = "localizing" => ~kept.there)
             /\ UNCHANGED <<disk, eng>>
       /\ save' = [save EXCEPT ![t].pc = "end"]
       /\ UNCHANGED <<active, mode, up, lock, job, cancel, rep, call, bounds, before, careless>>

-----------------------------------------------------------------------------
(* Repair *)

\* _repair_skip_reason_locked
Skips == eng.mode # "mapping" \/ Cardinality(eng.graph) < MinNodes

\* start_repair: one thread at a time.
StartRepair(dir, apply) ==
    IF Alive \/ Skips THEN UNCHANGED rep
    ELSE rep' = [NoRepair EXCEPT !.pc = "start", !.dir = dir, !.apply = apply]

RepairClear ==
    /\ rep.pc = "start"
    /\ cancel' = FALSE
    /\ rep' = [rep EXCEPT !.pc = "check"]
    /\ UNCHANGED <<disk, active, mode, up, eng, lock, job, call, save, bounds, before, careless>>

RepairCheck ==
    /\ rep.pc = "check"
    /\ lock = "free"
    /\ rep' = IF Skips THEN NoRepair ELSE [rep EXCEPT !.pc = "wait"]
    /\ UNCHANGED <<disk, active, mode, up, eng, lock, job, cancel, call, save, bounds, before, careless>>

RepairSnapshot ==
    /\ rep.pc = "wait"
    /\ job = "free" /\ lock = "free"
    /\ job' = "repairer"
    /\ rep' = [rep EXCEPT !.pc = "plan", !.revision = eng.revision, !.moved = FALSE]
    /\ UNCHANGED <<disk, active, mode, up, eng, lock, cancel, call, save, bounds, before, careless>>

\* verdict: what was found before the event stopped the search is not confident.
\* acceptable: an operator's "force" does not ask for confidence.
MayApply(apply, stopped) == apply # "never" /\ (stopped => apply = "force")

\* plan_repair looks at the event before each keyframe.
RepairPlan ==
    /\ rep.pc = "plan"
    /\ \/ rep' = NoRepair /\ job' = "free"
       \/ /\ MayApply(rep.apply, cancel)
          /\ rep' = [rep EXCEPT !.pc = "backup"]
          /\ UNCHANGED job
    /\ UNCHANGED <<disk, active, mode, up, eng, lock, cancel, call, save, bounds, before, careless>>

\* _backup_map_files copies, removes the backup of an earlier repair ...
RepairDropBackup ==
    LET some == AnyFile(disk[rep.dir])
    IN /\ rep.pc = "backup"
       /\ rep' = IF some THEN [rep EXCEPT !.pc = "rename", !.copied = Copied(disk[rep.dir])]
                 ELSE [rep EXCEPT !.pc = "apply"]
       /\ disk' = IF some THEN [disk EXCEPT ![rep.dir] = BeginDropBackup(@)] ELSE disk
       /\ before' = IF some THEN [before EXCEPT ![rep.dir] = disk[rep.dir].image.shows]
                    ELSE before
       /\ UNCHANGED <<active, mode, up, eng, lock, job, cancel, call, save, bounds, careless>>

\* ... and moves the copies into place.
RepairBackUp ==
    /\ rep.pc = "rename"
    /\ rep' = [rep EXCEPT !.pc = "apply", !.copied = NoBackup]
    /\ disk' = [disk EXCEPT ![rep.dir] = BackUp(@, rep.copied)]
    /\ UNCHANGED <<active, mode, up, eng, lock, job, cancel, call, save, bounds, before, careless>>

NeverStale == FALSE     \* Mutant: applies the plan whatever has been loaded meanwhile.

Stale == eng.revision # rep.revision \/ eng.mode # "mapping"

RepairAbort ==
    /\ \/ rep.pc = "apply" /\ Stale
       \/ rep.pc = "render" /\ eng.revision # rep.revision
    /\ lock = "free"
    /\ rep' = NoRepair
    /\ job' = "free"
    /\ UNCHANGED <<disk, active, mode, up, eng, lock, cancel, call, save, bounds, before, careless>>

\* The keyframes move; the grid does not yet.
RepairApply ==
    /\ rep.pc = "apply" /\ ~Stale
    /\ lock = "free"
    /\ strokes' = NextStroke
    /\ eng' = [eng EXCEPT !.graph = @ \cup {NextStroke}]
    /\ rep' = [rep EXCEPT !.pc = "resolve"]
    /\ UNCHANGED <<disk, active, mode, up, lock, job, cancel, call, save, calls, crashes, before, careless>>

\* _optimize_and_render takes its own snapshot ...
RepairResolve ==
    /\ rep.pc = "resolve"
    /\ lock = "free"
    /\ rep' = [rep EXCEPT !.pc = "render", !.revision = eng.revision]
    /\ UNCHANGED <<disk, active, mode, up, eng, lock, job, cancel, call, save, bounds, before, careless>>

\* ... and publishes what it drew, with the scans and edits made meanwhile.
RepairRender ==
    /\ rep.pc = "render" /\ eng.revision = rep.revision
    /\ lock = "free"
    /\ eng' = [eng EXCEPT !.grid = Drawn(eng), !.revision = @ + 1]
    /\ job' = "free"
    /\ rep' = [rep EXCEPT !.pc = "save"]
    /\ UNCHANGED <<disk, active, mode, up, lock, cancel, call, save, bounds, before, careless>>

\* save_map(repair=False), after the job was given back.
RepairSave ==
    /\ rep.pc = "save"
    /\ BeginSave("repairer", rep.dir)
    /\ rep' = [rep EXCEPT !.pc = "saving"]
    /\ UNCHANGED <<active, mode, up, eng, job, cancel, call, bounds, before, careless>>

RepairSaved ==
    /\ rep.pc = "saving" /\ save["repairer"].pc = "end"
    /\ rep' = NoRepair
    /\ save' = [save EXCEPT !["repairer"] = NoSave]
    /\ UNCHANGED <<disk, active, mode, up, eng, lock, job, cancel, call, bounds, before, careless>>

RepairThread ==
    \/ RepairClear \/ RepairCheck \/ RepairSnapshot \/ RepairPlan \/ RepairDropBackup
    \/ RepairBackUp \/ RepairAbort \/ RepairApply \/ RepairResolve \/ RepairRender
    \/ RepairSave \/ RepairSaved
    \/ SaveImage("repairer") \/ SaveKeys("repairer")

-----------------------------------------------------------------------------
(* The client: what a command does on the event loop, then its worker thread. *)

\* After a careless act only MaxHasty commands follow.
Issue(c) ==
    /\ up
    /\ call = NoCall
    /\ calls < (IF careless THEN MaxHasty ELSE MaxCalls)
    /\ calls' = calls + 1
    /\ call' = c

\* A careful client polls repair_status before it does anything but edit, ask
\* for a repair, or start again on the map under repair, for which the start
\* waits.

\* start_mapping, start_localizing with a map.  The active map changes even if
\* the command is then refused.
Start(m, md) ==
    /\ careless' = (careless \/ (Alive /\ rep.dir # m))
    /\ active' = m
    /\ Issue(IF md = "localizing" /\ ~HasOccupancyMap(disk[m]) THEN NoCall
             ELSE [NoCall EXCEPT !.op = "start", !.pc = "switch", !.map = m, !.mode = md])
    /\ UNCHANGED <<disk, mode, up, eng, lock, job, cancel, rep, save, strokes, crashes, before>>

\* set_active_map; a careful client only takes back what a refused start did.
SetActive(m) ==
    /\ m # active
    /\ careless' = (careless \/ Alive \/ m # eng.dir)
    /\ active' = m
    /\ Issue(NoCall)
    /\ UNCHANGED <<disk, mode, up, eng, lock, job, cancel, rep, save, strokes, crashes, before>>

\* save_map, repair_map and undo_repair name the active map's directory here.
\* repair_map is refused unless the service says it is mapping.
OnActive(op, arg) ==
    /\ careless' = (careless \/ (op \in {"save", "undo"} /\ Alive))
    /\ Issue(IF op = "repair" /\ mode # "mapping" THEN NoCall
             ELSE [NoCall EXCEPT !.op = op, !.pc = "run", !.map = active, !.arg = arg])
    /\ UNCHANGED <<disk, active, mode, up, eng, lock, job, cancel, rep, save, strokes, crashes,
                   before>>

\* clear_map, and delete_map of the active map, which comes back empty.  What is
\* loaded goes too, even if it is another map, whose start was refused.
ClearMap ==
    /\ careless' = (careless \/ Alive \/ active # eng.dir)
    /\ disk' = [disk EXCEPT ![active] = EmptiedDir(@)]
    /\ Issue([NoCall EXCEPT !.op = "clear", !.pc = "run", !.map = active])
    /\ UNCHANGED <<active, mode, up, eng, lock, job, cancel, rep, save, strokes, crashes,
                   before>>

\* delete_map of another map.
DeleteMap(m) ==
    /\ careless' = (careless \/ Alive)
    /\ m # active
    /\ disk' = [disk EXCEPT ![m] = EmptyDir]
    /\ Issue(NoCall)
    /\ UNCHANGED <<active, mode, up, eng, lock, job, cancel, rep, save, strokes, crashes,
                   before>>

Client ==
    \/ \E m \in Maps : \/ \E md \in Modes : Start(m, md)
                       \/ SetActive(m)
                       \/ DeleteMap(m)
    \/ OnActive("save", "auto") \/ OnActive("undo", "auto") \/ OnActive("edit", "auto")
    \/ \E apply \in {"auto", "force", "never"} : OnActive("repair", apply)
    \/ ClearMap

At(op, pc) == call.op = op /\ call.pc = pc

\* _finish_or_cancel_repair
Switch ==
    /\ call.pc = "switch"
    /\ call' = [call EXCEPT !.pc = IF Alive /\ rep.dir = call.map THEN "join" ELSE "load"]
    /\ cancel' = (cancel \/ (Alive /\ rep.dir # call.map))
    /\ UNCHANGED <<disk, active, mode, up, eng, lock, job, rep, save, bounds, before, careless>>

Joined ==
    /\ call.pc = "join" /\ ~Alive
    /\ call' = [call EXCEPT !.pc = "load"]
    /\ UNCHANGED <<disk, active, mode, up, eng, lock, job, cancel, rep, save, bounds, before, careless>>

\* The wait is over and the repair is not.  Planning is what takes minutes.  With
\* a careful client the rest of a repair is over within the wait, and so is a
\* forced repair, which plans on regardless of the event.
JoinTimeout ==
    /\ call.pc = "join" /\ Alive
    /\ careless' = (careless \/ rep.pc \notin {"wait", "plan"} \/ rep.apply = "force")
    /\ cancel' = TRUE
    /\ call' = [call EXCEPT !.pc = "load"]
    /\ UNCHANGED <<disk, active, mode, up, eng, lock, job, rep, save, bounds, before>>

\* _start_mode sets the service's mode unless configure_mode raised.
Load ==
    /\ call.pc = "load"
    /\ Configure(call.mode, call.map)
    /\ mode' = IF call.op = "start" /\ ~ConfigureFails(call.mode, disk[call.map])
               THEN call.mode ELSE mode
    /\ call' = NoCall
    /\ UNCHANGED <<disk, active, up, lock, job, cancel, save, bounds, before, careless>>

SaveBegins ==
    /\ At("save", "run")
    /\ BeginSave("client", call.map)
    /\ call' = [call EXCEPT !.pc = "saving"]
    /\ UNCHANGED <<active, mode, up, eng, job, cancel, rep, bounds, before, careless>>

\* The end of save_map: a repair is started for a map that was being drawn.
SaveEnds ==
    /\ At("save", "saving") /\ save["client"].pc = "end"
    /\ IF save["client"].mode = "mapping" THEN StartRepair(call.map, "auto") ELSE UNCHANGED rep
    /\ save' = [save EXCEPT !["client"] = NoSave]
    /\ call' = NoCall
    /\ UNCHANGED <<disk, active, mode, up, eng, lock, job, cancel, bounds, before, careless>>

RepairMap ==
    /\ At("repair", "run")
    /\ lock = "free"
    /\ StartRepair(call.map, call.arg)
    /\ call' = NoCall
    /\ UNCHANGED <<disk, active, mode, up, eng, lock, job, cancel, save, bounds, before, careless>>

\* undo_repair: without a backup there is nothing to do.
UndoBegins ==
    /\ At("undo", "run")
    /\ call' = IF disk[call.map].backup.there THEN [call EXCEPT !.pc = "job"] ELSE NoCall
    /\ UNCHANGED <<disk, active, mode, up, eng, lock, job, cancel, rep, save, bounds, before, careless>>

UndoTakesJob ==
    /\ At("undo", "job")
    /\ job = "free"
    /\ job' = "client"
    /\ disk' = [disk EXCEPT ![call.map] = BeginImage(@)]
    /\ call' = [call EXCEPT !.pc = "copy", !.want = before[call.map],
                            !.sound = Readable(disk[call.map].backup)]
    /\ UNCHANGED <<active, mode, up, eng, lock, cancel, rep, save, bounds, before, careless>>

UndoImage ==
    /\ At("undo", "copy")
    /\ disk' = [disk EXCEPT ![call.map] = RestoreImage(@)]
    /\ call' = [call EXCEPT !.pc = "keys"]
    /\ UNCHANGED <<active, mode, up, eng, lock, job, cancel, rep, save, bounds, before, careless>>

UndoKeys ==
    /\ At("undo", "keys")
    /\ disk' = [disk EXCEPT ![call.map] = BeginDropBackup(RestoreKeys(@))]
    /\ call' = [call EXCEPT !.pc = "drop"]
    /\ UNCHANGED <<active, mode, up, eng, lock, job, cancel, rep, save, bounds, before, careless>>

\* The backup is gone, the job is given back, the files are loaded again.
UndoDrops ==
    /\ At("undo", "drop")
    /\ lock = "free"
    /\ disk' = [disk EXCEPT ![call.map] = EndDropBackup(@)]
    /\ job' = "free"
    /\ call' = [call EXCEPT !.pc = "switch", !.mode = eng.mode]
    /\ UNCHANGED <<active, mode, up, eng, lock, cancel, rep, save, bounds, before, careless>>

\* _reset_live_slam, reset_map: the drawing and its keyframes go, the engine's
\* mode and directory stay.
ResetMap ==
    /\ At("clear", "run")
    /\ lock = "free"
    /\ cancel' = TRUE
    /\ eng' = ResetGraph(eng, {}, eng.mode)
    /\ mode' = "mapping"
    /\ rep' = Moved
    /\ call' = NoCall
    /\ UNCHANGED <<disk, active, up, lock, job, save, bounds, before, careless>>

Worker ==
    \/ Switch \/ Joined \/ JoinTimeout \/ Load
    \/ SaveBegins \/ SaveImage("client") \/ SaveKeys("client") \/ SaveEnds
    \/ RepairMap \/ UndoBegins \/ UndoTakesJob \/ UndoImage \/ UndoKeys \/ UndoDrops
    \/ ResetMap \/ Edit

Next ==
    \/ \E md \in Modes : Boot(md)
    \/ Crash
    \/ Scan
    \/ Client
    \/ Worker
    \/ RepairThread

\* Threads run, repairs end (their time is limited), and locks are granted in turn.
Fairness == WF_vars(Worker) /\ WF_vars(RepairThread)

Spec == Init /\ [][Next]_vars /\ Fairness

-----------------------------------------------------------------------------
(* Properties *)

Image_ == [is : {"none", "torn", "whole"}, shows : SUBSET Strokes]

TypeOK ==
    /\ active \in Maps
    /\ mode \in Modes
    /\ eng.mode \in Modes /\ eng.dir \in Maps \cup {NoMap} /\ eng.of \in Maps \cup {NoMap}
    /\ eng.grid \subseteq Strokes /\ eng.graph \subseteq Strokes /\ eng.base \subseteq Strokes
    /\ Range(eng.edits) \subseteq Strokes
    /\ eng.saved \in Nat
    /\ \A m \in Maps : /\ disk[m].image \in Image_
                       /\ disk[m].keys.sha \in Image_
                       /\ disk[m].backup.there \in BOOLEAN
    /\ lock \in {"free"} \cup Savers
    /\ job \in {"free", "client", "repairer"}
    /\ job = "repairer" <=> rep.pc \in {"plan", "backup", "rename", "apply", "resolve", "render"}

\* What a re-render of the live graph would draw is what the grid shows: nothing
\* comes back and nothing is lost at the next loop closure.  That holds across
\* saves, crashes between the image and the keyframes, resumes and undos, for a
\* session whose files loaded without an error (configure_mode, save_map,
\* load_graph).  While a repair has moved keyframes it has not drawn yet, the
\* two differ.
GraphRedrawsGrid ==
    (up /\ ~careless /\ eng.mode = "mapping" /\ eng.of = eng.dir /\ rep.pc \notin {"resolve", "render"})
        => eng.grid = Drawn(eng)

\* A repair moves the keyframes of the session it looked at, however long it
\* took and whatever was loaded meanwhile (run_repair).
RepairStaysInItsSession ==
    [][rep.pc = "apply" /\ rep'.pc = "resolve" => ~rep.moved]_vars

\* A repair that was overtaken by a switch to another map, now loaded and active,
\* writes no map file any more (_finish_or_cancel_repair, run_repair).
SwitchCancelsRepair ==
    [][save["repairer"].pc = "image" /\ save'["repairer"].pc = "keys"
           => ~rep.moved \/ eng.of # active \/ eng.of = save["repairer"].dir]_vars

\* An undo that found a whole backup and could load it shows what was on disk
\* when the repair was let through (undo_repair).
UndoRestores ==
    [][(~careless /\ call.op = "undo" /\ call.pc = "load" /\ call' = NoCall /\ up' /\ call.sound
            /\ ~ConfigureFails(call.mode, disk[call.map]))
           => eng'.grid = call.want]_vars

\* Every command returns: no command and the repair thread wait for one another,
\* and no path keeps a lock (configure_mode, undo_repair, run_repair).
CommandsReturn == call # NoCall ~> call = NoCall
=============================================================================

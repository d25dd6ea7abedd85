----------------------------- MODULE LidarReader -----------------------------
(***************************************************************************)
(* The rplidar camera (src/src/models/rplidar_shm.py) over its serial      *)
(* session (src/src/lidar/rplidar_serial.py): the thread that reads scans  *)
(* and reconnects, the watchdog that aborts a read that hangs, and the     *)
(* event loop that restarts, closes and reconfigures the camera.  They     *)
(* share the device, its lock, and the events _stop and _stall_abort.      *)
(*                                                                         *)
(* Time passes in ticks, one poll of the watchdog each, and only while     *)
(* every thread waits for it: between two ticks the threads interleave.    *)
(* A session that shares its USB hub with a CAN adapter (hub_soft) is      *)
(* never closed after an error; the protocol is restarted instead.  What   *)
(* the bytes of a scan make is left out.                                   *)
(***************************************************************************)
EXTENDS Naturals, Sequences

CONSTANTS
    Gap,            \* max_publish_gap_s, in ticks
    KickAfter,      \* age of the last publication that closes the device
    Baud,           \* the baud rate of the lidar
    Configured,     \* whether the camera was told it
    TryTicks,       \* how long a request that is not answered takes
    Warmup,         \* warmup_scans
    MaxBackoff,     \* max_reconnect_backoff_s
    JoinTicks,      \* _join_timeout_s
    HubUnplugs,     \* whether a device on a shared hub may be replugged
    MaxCalls        \* bound on the calls of the event loop

ASSUME ReaderAssumption ==
    /\ Gap \in Nat \ {0} /\ KickAfter \in Nat /\ KickAfter > Gap
    /\ Baud \in {1000000, 256000, 115200} /\ Configured \in BOOLEAN /\ TryTicks \in Nat \ {0}
    /\ Warmup \in Nat /\ MaxBackoff \in Nat \ {0} /\ JoinTicks \in Nat /\ HubUnplugs \in BOOLEAN /\ MaxCalls \in Nat

VARIABLES
    usb,        \* the lidar: up, silent (its port stays), gone (its port is dead)
    fd,         \* _device: shut (None), open, dead
    soft,       \* _hub_soft
    stop,       \* _stop
    abort,      \* _stall_abort
    age,        \* ticks since _last_publish_wall
    prog,       \* ticks since _scan_loop_progress_wall
    scan,       \* the scan thread
    dog,        \* the stall watchdog
    main,       \* the event loop
    calls       \* calls made

vars == <<usb, fd, soft, stop, abort, age, prog, scan, dog, main, calls>>

Never == KickAfter + 1      \* nothing was published yet

\* An open tries each baud rate on one open port, and asks for the info of the
\* lidar as it is, after a stop and, unless other devices share the hub, after
\* a reset.
BaudRates == IF Configured THEN <<Baud>> ELSE <<1000000, 256000, 115200>>
Asking == IF soft THEN <<"plain", "stop">> ELSE <<"plain", "stop", "reset">>

Tries == Len(BaudRates) * Len(Asking)
BaudOf(try) == BaudRates[((try - 1) \div Len(Asking)) + 1]
AskedAfter(try) == Asking[((try - 1) % Len(Asking)) + 1]

\* What a request comes to.  The bytes of a scan that still runs may be in the
\* way until the lidar was told to stop.
Answers(try) ==
    CASE usb = "gone" -> {"dead"}
      [] usb = "up" /\ BaudOf(try) = Baud ->
           IF AskedAfter(try) = "plain" THEN {"info", "none"} ELSE {"info"}
      [] OTHER -> {"none"}

MaxLeft == TryTicks + JoinTicks + MaxBackoff
MaxTries == 9

TypeOK ==
    /\ usb \in {"up", "silent", "gone"}
    /\ fd \in {"shut", "open", "dead"}
    /\ {soft, stop, abort} \subseteq BOOLEAN
    /\ age \in 0 .. Never /\ prog \in 0 .. Gap
    /\ scan \in [pc : {"off", "top", "ask", "lock", "opening", "arm", "reading", "hung", "failed",
                       "closing", "wait", "final"},
                 left : 0 .. MaxLeft, warm : 0 .. Warmup, try : 0 .. MaxTries]
    /\ dog \in {"off", "sleep", "look", "warn", "kick", "close"}
    /\ main \in [pc : {"idle", "close", "join", "opening", "kick"}, again : BOOLEAN,
                 left : 0 .. MaxLeft, try : 0 .. MaxTries]
    /\ calls \in 0 .. MaxCalls

Init ==
    /\ usb = "up" /\ fd = "shut" /\ soft \in BOOLEAN
    /\ stop = FALSE /\ abort = FALSE
    /\ age = Never /\ prog = Gap
    /\ scan = [pc |-> "off", left |-> 0, warm |-> 0, try |-> 0]
    /\ dog = "off"
    /\ main = [pc |-> "idle", again |-> FALSE, left |-> 0, try |-> 0]
    /\ calls = 0

\* _device_lock is held while the device is opened.
Locked == scan.pc = "opening" \/ main.pc = "opening"

ScanGoes(pc, left) == scan' = [scan EXCEPT !.pc = pc, !.left = left]

\* _wait_backoff, with a delay that doubles up to its limit
ScanWaits == \E b \in 1 .. MaxBackoff : scan' = [scan EXCEPT !.pc = "wait", !.left = b, !.try = 0] /\ prog' = 0

-----------------------------------------------------------------------------
(* The scan thread.                                                        *)

ScanVars == <<usb, soft, stop, age, dog, main, calls>>

Top ==
    /\ scan.pc = "top"
    /\ IF stop THEN ScanGoes("final", 0) /\ UNCHANGED <<fd, abort, prog>>
       ELSE /\ prog' = 0
            /\ abort' = (abort /\ fd # "shut")
            /\ ScanGoes(IF fd = "shut" THEN "ask" ELSE "arm", 0)
            /\ UNCHANGED fd
    /\ UNCHANGED ScanVars

\* _try_reconnect looks at _stop once, before it waits for the lock.
Asks ==
    /\ scan.pc = "ask"
    /\ IF stop THEN ScanWaits ELSE ScanGoes("lock", 0) /\ prog' = 0
    /\ UNCHANGED <<ScanVars, fd, abort>>

Opens ==
    /\ scan.pc = "lock" /\ ~Locked
    /\ scan' = [scan EXCEPT !.pc = "opening", !.try = 1]
    /\ UNCHANGED <<ScanVars, fd, abort, prog>>

\* A request that is not answered is given up in time, then the next is made;
\* when there is none left, or the port is dead, the port is closed.
Requests ==
    /\ scan.pc = "opening" /\ scan.left = 0
    /\ \E answer \in Answers(scan.try) :
         CASE answer = "info" ->
                /\ fd' = "open"
                /\ scan' = [scan EXCEPT !.pc = "arm", !.try = 0]
                /\ UNCHANGED prog
           [] answer = "none" /\ scan.try < Tries ->
                /\ scan' = [scan EXCEPT !.left = TryTicks, !.try = @ + 1]
                /\ UNCHANGED <<fd, prog>>
           [] OTHER -> ScanWaits /\ UNCHANGED fd
    /\ UNCHANGED <<ScanVars, abort>>

\* An attempt begins; a device that was closed meanwhile fails at once.
Arms ==
    /\ scan.pc = "arm"
    /\ prog' = 0 /\ abort' = FALSE
    /\ scan' = [scan EXCEPT !.pc = "reading", !.left = 1, !.warm = 0]
    /\ UNCHANGED <<ScanVars, fd>>

\* A revolution is complete; the first ones are not published.
ScanComplete ==
    /\ scan.pc = "reading" /\ scan.left = 0 /\ fd = "open" /\ usb = "up" /\ ~abort
    /\ prog' = 0
    /\ IF stop THEN ScanGoes("final", 0) /\ UNCHANGED age
       ELSE IF scan.warm < Warmup
       THEN scan' = [scan EXCEPT !.left = 1, !.warm = @ + 1] /\ UNCHANGED age
       ELSE ScanGoes("reading", 1) /\ age' = 0
    /\ UNCHANGED <<usb, fd, soft, stop, abort, dog, main, calls>>

\* The read ends: aborted, the device closed or dead, or nothing came in time.
\* A read that blocks in the driver ends when the device is closed.
ReadFails ==
    /\ \/ scan.pc = "reading" /\ (abort \/ fd # "open" \/ (usb # "up" /\ scan.left = 0))
       \/ scan.pc = "hung" /\ (fd # "open" \/ usb # "silent")
    /\ ScanGoes("failed", 0)
    /\ UNCHANGED <<ScanVars, fd, abort, prog>>

ReadHangs ==
    /\ scan.pc = "reading" /\ fd = "open" /\ usb = "silent"
    /\ ScanGoes("hung", 0)
    /\ UNCHANGED <<ScanVars, fd, abort, prog>>

\* A session on a shared hub keeps its port.
Recovers ==
    /\ scan.pc = "failed"
    /\ IF stop THEN ScanGoes("final", 0) /\ UNCHANGED <<abort, prog>>
       ELSE IF soft THEN ScanWaits /\ abort' = FALSE
       ELSE ScanGoes("closing", 0) /\ UNCHANGED <<abort, prog>>
    /\ UNCHANGED <<ScanVars, fd>>

Closes ==
    /\ scan.pc = "closing" /\ ~Locked
    /\ fd' = "shut" /\ abort' = FALSE
    /\ ScanWaits
    /\ UNCHANGED ScanVars

WaitEnds ==
    /\ scan.pc = "wait" /\ (stop \/ scan.left = 0)
    /\ ScanGoes(IF stop THEN "final" ELSE "top", 0)
    /\ UNCHANGED <<ScanVars, fd, abort, prog>>

Ends ==
    /\ scan.pc = "final" /\ ~Locked
    /\ fd' = "shut"
    /\ ScanGoes("off", 0)
    /\ UNCHANGED <<ScanVars, abort, prog>>

ScanStep ==
    \/ Top \/ Asks \/ Opens \/ Requests \/ Arms \/ ScanComplete \/ ReadFails \/ ReadHangs
    \/ Recovers \/ Closes \/ WaitEnds \/ Ends

-----------------------------------------------------------------------------
(* The watchdog and kicks.                                                 *)

DogVars == <<usb, soft, stop, age, prog, scan, main, calls>>

\* Mutant: only the last publication is looked at.
LooksAtAge ==
    /\ dog = "look"
    /\ dog' = IF stop THEN "off"
              ELSE IF age = Never \/ age <= Gap THEN "sleep"
              ELSE IF age >= KickAfter THEN "kick"
              ELSE IF abort THEN "sleep" ELSE "warn"
    /\ UNCHANGED <<DogVars, fd, abort>>

\* _stall_watchdog_tick
Looks ==
    /\ dog = "look"
    /\ dog' = IF stop THEN "off"
              ELSE IF age = Never \/ age <= Gap \/ prog < Gap THEN "sleep"
              ELSE IF age >= KickAfter THEN "kick"
              ELSE IF abort THEN "sleep" ELSE "warn"
    /\ UNCHANGED <<DogVars, fd, abort>>

Warns ==
    /\ dog = "warn"
    /\ abort' = TRUE /\ dog' = "sleep"
    /\ UNCHANGED <<DogVars, fd>>

\* _kick_scan_loop: a device on a shared hub is not closed.
Kicks ==
    /\ dog = "kick"
    /\ IF stop THEN dog' = "sleep" /\ UNCHANGED abort
       ELSE abort' = TRUE /\ dog' = IF soft /\ fd # "shut" THEN "sleep" ELSE "close"
    /\ UNCHANGED <<DogVars, fd>>

KickCloses ==
    /\ dog = "close" /\ ~Locked
    /\ fd' = "shut" /\ dog' = "sleep"
    /\ UNCHANGED <<DogVars, abort>>

DogWakes ==
    /\ dog = "sleep" /\ stop
    /\ dog' = "off"
    /\ UNCHANGED <<DogVars, fd, abort>>

DogStep == Looks \/ Warns \/ Kicks \/ KickCloses \/ DogWakes

-----------------------------------------------------------------------------
(* The event loop.                                                         *)

MainVars == <<usb, soft, age, calls>>

Call == calls < MaxCalls /\ calls' = calls + 1

\* do_command restart
Restarts ==
    /\ main.pc = "idle" /\ Call
    /\ ~stop
    /\ abort' = TRUE
    /\ main' = [main EXCEPT !.pc = IF soft /\ fd # "shut" THEN "idle" ELSE "kick"]
    /\ UNCHANGED <<usb, fd, soft, stop, age, prog, scan, dog>>

RestartCloses ==
    /\ main.pc = "kick" /\ ~Locked
    /\ fd' = "shut"
    /\ main' = [main EXCEPT !.pc = "idle"]
    /\ UNCHANGED <<MainVars, stop, abort, prog, scan, dog>>

\* close_sync, alone or as the first thing reconfigure does
CloseBegins ==
    /\ main.pc = "idle" /\ Call
    /\ stop' = TRUE /\ abort' = TRUE
    /\ \E again \in BOOLEAN : main' = [main EXCEPT !.pc = "close", !.again = again]
    /\ UNCHANGED <<usb, fd, soft, age, prog, scan, dog>>

CloseCloses ==
    /\ main.pc = "close" /\ ~Locked
    /\ fd' = "shut"
    /\ main' = [main EXCEPT !.pc = "join", !.left = JoinTicks]
    /\ UNCHANGED <<MainVars, stop, abort, prog, scan, dog>>

Joined == scan.pc = "off" /\ dog = "off"

\* A thread that is still there makes reconfigure fail, with _stop left set.
JoinFails ==
    /\ main.pc = "join" /\ ~Joined /\ main.left = 0
    /\ main' = [main EXCEPT !.pc = "idle"]
    /\ abort' = (abort /\ ~main.again)
    /\ UNCHANGED <<MainVars, fd, stop, prog, scan, dog>>

JoinEnds ==
    /\ main.pc = "join" /\ Joined
    /\ IF main.again
       THEN /\ stop' = FALSE /\ abort' = FALSE
            /\ prog' = Gap
            /\ main' = [main EXCEPT !.pc = "opening", !.left = 0, !.try = 1]
       ELSE /\ main' = [main EXCEPT !.pc = "idle", !.left = 0]
            /\ UNCHANGED <<stop, abort, prog>>
    /\ UNCHANGED <<MainVars, fd, scan, dog>>

\* A device that does not open makes reconfigure fail.
Configures ==
    /\ main.pc = "opening" /\ main.left = 0
    /\ \E answer \in Answers(main.try) :
         CASE answer = "info" ->
                /\ fd' = "open"
                /\ scan' = [scan EXCEPT !.pc = "top", !.left = 0, !.try = 0]
                /\ dog' = "look"
                /\ main' = [main EXCEPT !.pc = "idle", !.try = 0]
           [] answer = "none" /\ main.try < Tries ->
                /\ main' = [main EXCEPT !.left = TryTicks, !.try = @ + 1]
                /\ UNCHANGED <<fd, scan, dog>>
           [] OTHER ->
                /\ main' = [main EXCEPT !.pc = "idle", !.try = 0]
                /\ UNCHANGED <<fd, scan, dog>>
    /\ UNCHANGED <<MainVars, stop, abort, prog>>

MainStep == RestartCloses \/ CloseCloses \/ JoinFails \/ JoinEnds \/ Configures

-----------------------------------------------------------------------------
(* The lidar, and time.                                                    *)

UsbVars == <<soft, stop, abort, age, prog, scan, dog, main, calls>>

Changes ==
    /\ usb' \in {"up", "silent", "gone"} \ {usb}
    /\ usb' = "gone" => ~soft \/ HubUnplugs
    /\ fd' = IF usb' = "gone" /\ fd = "open" THEN "dead" ELSE fd
    /\ UNCHANGED UsbVars

Less(n) == IF n = 0 THEN 0 ELSE n - 1
More(n, limit) == IF n < limit THEN n + 1 ELSE limit

\* Every thread waits: for time, for the lock, or for the device.
Waiting ==
    /\ \/ scan.pc \in {"off", "hung"} /\ (scan.pc = "hung" => fd = "open" /\ usb = "silent")
       \/ scan.pc \in {"opening", "reading"} /\ scan.left > 0
             /\ (scan.pc = "reading" => ~abort /\ fd = "open")
       \/ scan.pc = "wait" /\ scan.left > 0 /\ ~stop
       \/ scan.pc \in {"lock", "closing", "final"} /\ Locked
    /\ \/ dog = "off" \/ (dog = "sleep" /\ ~stop)
       \/ dog = "close" /\ Locked
    /\ \/ main.pc = "idle"
       \/ main.pc = "join" /\ ~Joined /\ main.left > 0
       \/ main.pc = "opening" /\ main.left > 0
       \/ main.pc \in {"close", "kick"} /\ Locked

\* The wait itself is progress.
Progress == IF scan.pc = "wait" THEN 0 ELSE More(prog, Gap)

Tick ==
    /\ Waiting
    /\ scan' = [scan EXCEPT !.left = Less(@)]
    /\ dog' = IF dog = "sleep" THEN "look" ELSE dog
    /\ main' = [main EXCEPT !.left = Less(@)]
    /\ age' = IF age = Never THEN Never ELSE More(age, KickAfter)
    /\ prog' = Progress
    /\ UNCHANGED <<usb, fd, soft, stop, abort, calls>>

-----------------------------------------------------------------------------
Next == ScanStep \/ DogStep \/ MainStep \/ Restarts \/ CloseBegins \/ Changes \/ Tick

Spec == Init /\ [][Next]_vars

Fairness == WF_vars(ScanStep) /\ WF_vars(DogStep) /\ WF_vars(MainStep) /\ WF_vars(Tick)

FairSpec == Spec /\ Fairness

-----------------------------------------------------------------------------
(* close_sync that came to its end leaves nothing behind: no thread, and   *)
(* no device, though the scan thread may have been about to open one.      *)
ClosedMeansShut == scan.pc = "off" /\ stop => fd = "shut"

(* "A reconnect is progress" (_stall_watchdog): the watchdog steps in for  *)
(* a read, or an open that takes long, never for a wait.                   *)
KicksOnlyReads ==
    [][dog = "look" /\ dog' \in {"kick", "warn"} =>
         scan.pc \notin {"wait", "ask", "lock"}]_vars

(* While the lidar answers, revolutions are published again and again,     *)
(* whatever was unplugged, aborted or restarted before.                    *)
Resumes ==
    <>[](usb = "up") /\ <>[](scan.pc # "off" /\ ~stop) => []<>(age = 0)
=============================================================================

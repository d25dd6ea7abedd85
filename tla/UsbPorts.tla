------------------------------ MODULE UsbPorts ------------------------------
(***************************************************************************)
(* How the lidar and the IMU find their USB-serial ports and keep apart:   *)
(* src/src/lidar/serial_ports.py (candidates, claims, the open lock),      *)
(* RPLidarSerial and WitSerial (open, open_first_working, close), and what *)
(* RPLidarShm and WitImu do with a port that is lost.                      *)
(*                                                                         *)
(* A path is a by-id link, named here after the device it belongs to, or a *)
(* node (/dev/ttyUSB<n>).  A device can be unplugged and come back under   *)
(* another node.  A claim is kept under the real path: the node while the  *)
(* device is plugged in, the link itself when it dangles.                  *)
(***************************************************************************)
EXTENDS Naturals, FiniteSets

CONSTANTS
    Nodes,          \* names of the nodes the kernel hands out
    Start,          \* the node of each device that is plugged in at first
    FixedPaths,     \* paths a configuration may name
    MaxChanges,     \* bound: devices unplugged or plugged in
    MaxCalls        \* bound: configurations and closes of the two drivers

Devices == {"lidar", "imu", "relay", "can"}
Drivers == {"lidar", "imu"}
Paths == Devices \cup Nodes
None == "none"
Rounds == 3

ASSUME PortsAssumption ==
    /\ Nodes \cap (Devices \cup {None}) = {} /\ IsFiniteSet(Nodes) /\ Cardinality(Nodes) >= 3
    /\ Start \in [Devices -> Nodes \cup {None}]
    /\ \A d, e \in Devices : d # e /\ Start[d] # None => Start[d] # Start[e]
    /\ FixedPaths \subseteq Paths
    /\ MaxChanges \in Nat /\ MaxCalls \in Nat

VARIABLES
    node,       \* the node of each device, None when it is not plugged in
    bridge,     \* the chip of each device's UART bridge
    soft,       \* the hub has a CAN adapter on it: ports are not opened exclusively
    claims,     \* _claims: real path to owner
    usb,        \* who holds _usb_open_lock
    fd,         \* the device each driver has open, "dead" when it was unplugged
    drv,        \* where each driver is
    missed,     \* drivers whose search may miss their sensor (ghost)
    stale,      \* nodes whose device changed since they were claimed (ghost)
    changes, calls

portVars == <<node, bridge, soft, claims, usb, fd, drv, missed, stale, changes, calls>>

Plugged(d) == node[d] # None

\* The device behind a path, None when there is none.
DeviceAt(path) ==
    IF path \in Devices
    THEN IF Plugged(path) THEN path ELSE None
    ELSE IF \E d \in Devices : node[d] = path THEN CHOOSE d \in Devices : node[d] = path
    ELSE None

Realpath(path) == IF path \in Devices /\ Plugged(path) THEN node[path] ELSE path

\* The other driver's chip, which a driver refuses.
Reserved(o) == IF o = "lidar" THEN "ch340" ELSE "cp210"
Other(o) == IF o = "lidar" THEN "imu" ELSE "lidar"

\* is_safe_sensor_serial_port: the names, USB ids and drivers of CAN adapters,
\* and a SocketCAN device below the same USB device, tell them apart.
LooksLikeCan(d) == d = "can"
HostsCan(d) == d = "can"
Safe(d) == ~LooksLikeCan(d) /\ ~HostsCan(d)

\* port_chip_family; a dangling link still has the chip in its name.
Family(path) ==
    IF path \in Devices THEN bridge[path]
    ELSE IF DeviceAt(path) = None THEN "other" ELSE bridge[DeviceAt(path)]

\* list_candidate_serial_ports with the chip that is configured: "ch340" means
\* every bridge that is not a CP210.
Setting(o) == IF o = "lidar" THEN bridge["lidar"] ELSE "ch340"
Candidates(o) ==
    {d \in Devices : /\ Plugged(d) /\ Safe(d)
                     /\ (bridge[d] = "cp210") <=> (Setting(o) = "cp210")}

\* drop_claimed_by_other
ClaimedByOther(o, path) == claims[Realpath(path)] \notin {None, o}
Unclaimed(o, paths) == {p \in paths : ~ClaimedByOther(o, p) /\ Family(p) # Reserved(o)}

Idle == [pc |-> "off", path |-> None, cand |-> {}, todo |-> {}, round |-> 1,
         again |-> FALSE, loop |-> FALSE]

PortsTypeOK ==
    /\ node \in [Devices -> Nodes \cup {None}]
    /\ \A d, e \in Devices : d # e /\ Plugged(d) => node[d] # node[e]
    /\ bridge \in [Devices -> {"cp210", "ch340", "other"}] /\ soft \in BOOLEAN
    /\ claims \in [Paths -> Drivers \cup {None}]
    /\ usb \in Drivers \cup {None}
    /\ fd \in [Drivers -> Devices \cup {None, "dead"}]
    /\ drv \in [Drivers -> [pc : {"off", "list", "next", "probe", "asking", "claim", "fail",
                                  "up", "lost"},
                            path : Paths \cup {None}, cand : SUBSET Devices,
                            todo : SUBSET Devices, round : 1 .. Rounds, again : BOOLEAN,
                            loop : BOOLEAN]]
    /\ missed \subseteq Drivers /\ stale \subseteq Nodes
    /\ changes \in 0 .. MaxChanges /\ calls \in 0 .. MaxCalls

PortsInit ==
    /\ node = Start
    /\ \E l \in {"cp210", "other"}, i \in {"ch340", "other"} :
         bridge = [d \in Devices |-> CASE d = "lidar" -> l [] d = "imu" -> i
                                       [] d = "relay" -> "ch340" [] d = "can" -> "other"]
    /\ soft \in BOOLEAN
    /\ claims = [p \in Paths |-> None]
    /\ usb = None
    /\ fd = [o \in Drivers |-> None]
    /\ drv = [o \in Drivers |-> Idle]
    /\ missed = {} /\ stale = {}
    /\ changes = 0 /\ calls = 0

Goes(o, pc) == drv' = [drv EXCEPT ![o].pc = pc]

\* release_serial_port: whoever owns the claim.
Release(path) == claims' = [claims EXCEPT ![Realpath(path)] = None]

Plugs == <<node, bridge, soft, stale, changes>>

-----------------------------------------------------------------------------
(* Configuration and close.                                                *)

\* reconfigure of a closed driver: a fixed path, or the search for one
Configure(o) ==
    /\ drv[o].pc = "off" /\ calls < MaxCalls
    /\ calls' = calls + 1
    /\ \/ \E path \in FixedPaths : drv' = [drv EXCEPT ![o] = [Idle EXCEPT !.pc = "probe", !.path = path]]
       \/ drv' = [drv EXCEPT ![o] = [Idle EXCEPT !.pc = "list", !.cand = Candidates(o)]]
    /\ missed' = IF Plugged(o) THEN missed \ {o} ELSE missed \cup {o}
    /\ UNCHANGED <<Plugs, claims, usb, fd>>

\* close_sync.  The lidar does not take the open lock to close, the IMU does.
Close(o) ==
    /\ drv[o].pc \in {"up", "lost"} /\ calls < MaxCalls
    /\ o = "imu" => usb = None
    /\ calls' = calls + 1
    /\ fd' = [fd EXCEPT ![o] = None]
    /\ IF drv[o].pc = "up" THEN Release(drv[o].path) ELSE UNCHANGED claims
    /\ drv' = [drv EXCEPT ![o] = Idle]
    /\ UNCHANGED <<Plugs, usb, missed>>

-----------------------------------------------------------------------------
(* open_first_working                                                      *)

\* A round begins: a new list, unless it is empty, without the ports of others.
List(o) ==
    /\ drv[o].pc = "list"
    /\ LET fresh == IF drv[o].round > 1 /\ Candidates(o) # {} THEN Candidates(o) ELSE drv[o].cand
           left == Unclaimed(o, fresh)
       IN drv' = [drv EXCEPT ![o].pc = "next", ![o].cand = left, ![o].todo = left,
                             ![o].again = FALSE]
    /\ UNCHANGED <<Plugs, claims, usb, fd, missed, calls>>

\* The next port in the order of the list.
NextPort(o) ==
    /\ drv[o].pc = "next"
    /\ \E p \in drv[o].todo :
         drv' = [drv EXCEPT ![o].pc = "probe", ![o].path = p, ![o].todo = @ \ {p}]
    /\ UNCHANGED <<Plugs, claims, usb, fd, missed, calls>>

\* Another round only after a port that was busy or missing.
NextRound(o) ==
    /\ drv[o].pc = "next" /\ drv[o].todo = {}
    /\ drv[o].again /\ drv[o].round < Rounds
    /\ drv' = [drv EXCEPT ![o].pc = "list", ![o].round = @ + 1]
    /\ UNCHANGED <<Plugs, claims, usb, fd, missed, calls>>

\* No port answered: reconfigure fails.
GivesUp(o) ==
    /\ drv[o].pc = "next" /\ drv[o].todo = {}
    /\ ~drv[o].again \/ drv[o].round = Rounds
    /\ drv' = [drv EXCEPT ![o] = Idle]
    /\ UNCHANGED <<Plugs, claims, usb, fd, missed, calls>>

\* The search is on (not a fixed path, which is not searched for again).
Searching(o) == drv[o].cand # {} /\ ~drv[o].loop

Failed(o, again) == [drv[o] EXCEPT !.pc = "fail", !.again = @ \/ again]

\* What a port that does not open comes to; a fixed path raises, a search goes
\* on, the lidar's reconnect waits and tries again.
NotOpen(o, again) ==
    drv' = [drv EXCEPT ![o] =
              IF Searching(o) THEN Failed(o, again)
              ELSE IF drv[o].loop THEN [@ EXCEPT !.pc = "lost"] ELSE Idle]

-----------------------------------------------------------------------------
(* _open_unlocked, with the open lock                                      *)

MayOpen(o, d) == d # None /\ Safe(d) /\ bridge[d] # Reserved(o)

\* Only exclusive opens exclude each other.
InUse(o, d) == ~soft /\ fd[Other(o)] = d

\* Mutant: a port is claimed when it opens, before it answers.
OpenClaims(o) ==
    /\ drv[o].pc = "probe" /\ usb = None
    /\ LET d == DeviceAt(drv[o].path) IN
         IF MayOpen(o, d) /\ ~InUse(o, d)
         THEN /\ usb' = o
              /\ fd' = [fd EXCEPT ![o] = d]
              /\ claims' = [claims EXCEPT ![Realpath(drv[o].path)] = o]
              /\ Goes(o, "asking")
         ELSE /\ NotOpen(o, d = None \/ MayOpen(o, d))
              /\ UNCHANGED <<usb, fd, claims>>
    /\ UNCHANGED <<Plugs, missed, calls>>

Open(o) ==
    /\ drv[o].pc = "probe" /\ usb = None
    /\ LET d == DeviceAt(drv[o].path) IN
         IF MayOpen(o, d) /\ ~InUse(o, d)
         THEN /\ usb' = o
              /\ fd' = [fd EXCEPT ![o] = d]
              /\ Goes(o, "asking")
         ELSE /\ NotOpen(o, d = None \/ MayOpen(o, d))
              /\ UNCHANGED <<usb, fd>>
    /\ UNCHANGED <<Plugs, claims, missed, calls>>

\* The sensor answers on its own port.  When another driver reads the same
\* port, the answer may be lost to it.
Answers(o) == /\ usb = o /\ drv[o].pc = "asking" /\ fd[o] = o
              /\ usb' = None
              /\ IF Searching(o) THEN Goes(o, "claim")
                 ELSE drv' = [drv EXCEPT ![o].pc = "up", ![o].loop = (o = "lidar")]
              /\ UNCHANGED <<Plugs, claims, fd, missed, calls>>

\* An LCUS-2 relay, which the IMU's search tells by its own reply, a sensor of
\* another kind, a device that was unplugged, or an answer lost to the other.
NoAnswer(o) ==
    /\ usb = o /\ drv[o].pc = "asking"
    /\ fd[o] # o \/ fd[Other(o)] = o
    /\ usb' = None
    /\ fd' = [fd EXCEPT ![o] = None]
    /\ NotOpen(o, fd[o] = "dead")
    /\ UNCHANGED <<Plugs, claims, missed, calls>>

\* After a failed probe the port is closed once more, and its claim dropped.
ProbeFailed(o) ==
    /\ drv[o].pc = "fail" /\ usb = None
    /\ Release(drv[o].path)
    /\ Goes(o, "next")
    /\ UNCHANGED <<Plugs, usb, fd, missed, calls>>

\* The claim is made when the lock is free again; the path is kept.
Claim(o) ==
    /\ drv[o].pc = "claim"
    /\ claims' = [claims EXCEPT ![Realpath(drv[o].path)] = o]
    /\ stale' = stale \ {Realpath(drv[o].path)}
    /\ drv' = [drv EXCEPT ![o] = [Idle EXCEPT !.pc = "up", !.path = drv[o].path,
                                              !.loop = (o = "lidar")]]
    /\ UNCHANGED <<node, bridge, soft, changes, usb, fd, missed, calls>>

-----------------------------------------------------------------------------
(* A port that dies.  The IMU's read loop only counts errors, and so does   *)
(* the lidar's on a hub with a CAN adapter, where it keeps its port.        *)

\* Mutant: the hubs are mixed up: a port is kept unless it has a CAN adapter.
LosesOnSoftHub ==
    /\ drv["lidar"].pc = "up" /\ fd["lidar"] = "dead" /\ soft
    /\ fd' = [fd EXCEPT !["lidar"] = None]
    /\ Release(drv["lidar"].path)
    /\ Goes("lidar", "lost")
    /\ UNCHANGED <<Plugs, usb, missed, calls>>

Loses ==
    /\ drv["lidar"].pc = "up" /\ fd["lidar"] = "dead" /\ ~soft
    /\ fd' = [fd EXCEPT !["lidar"] = None]
    /\ Release(drv["lidar"].path)
    /\ Goes("lidar", "lost")
    /\ UNCHANGED <<Plugs, usb, missed, calls>>

\* _try_reconnect opens the path that was configured or found.
Reconnects ==
    /\ drv["lidar"].pc = "lost"
    /\ Goes("lidar", "probe")
    /\ UNCHANGED <<Plugs, claims, usb, fd, missed, calls>>

-----------------------------------------------------------------------------
(* The hub.                                                                *)

Unplug(d) ==
    /\ Plugged(d) /\ changes < MaxChanges
    /\ changes' = changes + 1
    /\ node' = [node EXCEPT ![d] = None]
    /\ fd' = [o \in Drivers |-> IF fd[o] = d THEN "dead" ELSE fd[o]]
    /\ stale' = stale \cup {node[d]}
    /\ missed' = missed \cup ({d} \cap Drivers)
    /\ UNCHANGED <<bridge, soft, claims, usb, drv, calls>>

Plug(d, n) ==
    /\ ~Plugged(d) /\ changes < MaxChanges
    /\ \A e \in Devices : node[e] # n
    /\ changes' = changes + 1
    /\ node' = [node EXCEPT ![d] = n]
    /\ UNCHANGED <<bridge, soft, claims, usb, fd, drv, missed, stale, calls>>

-----------------------------------------------------------------------------
Searches(o) == List(o) \/ NextPort(o) \/ NextRound(o) \/ GivesUp(o) \/ ProbeFailed(o) \/ Claim(o)
Opens(o) == Open(o) \/ Answers(o) \/ NoAnswer(o)

PortsNext ==
    \/ \E o \in Drivers : Configure(o) \/ Close(o) \/ Searches(o) \/ Opens(o)
    \/ Loses \/ Reconnects
    \/ \E d \in Devices : Unplug(d) \/ \E n \in Nodes : Plug(d, n)

PortsSpec == PortsInit /\ [][PortsNext]_portVars

\* The drivers' threads run, and neither is kept from the open lock for ever.
PortsFairSpec ==
    /\ PortsSpec
    /\ \A o \in Drivers : WF_portVars(Searches(o)) /\ SF_portVars(Open(o)) /\ WF_portVars(Answers(o) \/ NoAnswer(o))
    /\ WF_portVars(Loses) /\ WF_portVars(Reconnects)

-----------------------------------------------------------------------------
(* Properties *)

\* Whatever is unplugged and comes back under whatever node: no driver has the
\* CAN adapter or the other driver's chip open, and no port that is opened
\* exclusively is open twice.
PortsApart ==
    /\ \A o \in Drivers : fd[o] \in Devices => Safe(fd[o]) /\ bridge[fd[o]] # Reserved(o)
    /\ fd["lidar"] = fd["imu"] /\ fd["lidar"] \in Devices => soft

\* A search that fails had a reason: the sensor was unplugged meanwhile, or its
\* node has an old claim of the other driver.  That the other driver probes its
\* port at the same moment is none.
SearchesFind ==
    [][\A o \in Drivers : GivesUp(o) => o \in missed \/ node[o] \in stale]_portVars

\* A lidar that runs and is there again under the path it was found or
\* configured with is read again, if it is not unplugged or closed, unless it
\* is on a hub with a CAN adapter.
LidarReturns ==
    (drv["lidar"].loop /\ ~soft /\ DeviceAt(drv["lidar"].path) = "lidar")
      ~> \/ drv["lidar"].pc = "up" /\ fd["lidar"] = "lidar"
         \/ DeviceAt(drv["lidar"].path) # "lidar" \/ ~drv["lidar"].loop
=============================================================================

------------------------------ MODULE SwarmStart ------------------------------
(***************************************************************************)
(* How a swarm takes off one drone after another.  The planner of drone d  *)
(* waits in SEQUENTIAL_START for the trajectories of drones 0 .. d-1, adds *)
(* its own and sends them on, once; the bridge carries that message to the *)
(* next drone over a TCP connection it opens once, 0.2 s after its start,  *)
(* to a server that accepts one connection in its life.  Later             *)
(* trajectories are broadcast over UDP, which the sender hears too.        *)
(*                                                                         *)
(* A planner that is already in WAIT_TARGET when it gets its goal goes to  *)
(* GEN_NEW_TRAJ instead: it waits for nobody and sends no such message.    *)
(*                                                                         *)
(* A buffer is a sequence of 4-byte cells; TCP is a stream of them, which  *)
(* read() may cut anywhere.                                                *)
(***************************************************************************)
EXTENDS Integers, Sequences, SequencesExt, FiniteSets

CONSTANTS
  N,             \* drones 0 .. N-1
  LoopsBack,     \* next_drone_ip of the last drone is its own, the default, or no drone's
  Late,          \* bound: the drones whose goal may find them in WAIT_TARGET
  MaxVersion,    \* bound: trajectories a drone plans
  Roams,         \* bound: pairs of drones that may be out of range of each other
  Hears,         \* bound: pairs of drones of which the first may hear the second's broadcasts
  MaxDatagrams,  \* bound: datagrams on their way
  MaxReads,      \* bound: read() calls a message is cut into
  Fragile,       \* bound: the drones whose bridge may die
  MaxCrashes     \* bound: how often one does

Drones == 0 .. N - 1
Backlog == 3     \* listen(): so many, and one more, wait to be accepted
Nobody == -1     \* no drone, and the drone_id of a slot that is not in use

ASSUME SwarmAssumption ==
  /\ N \in Nat \ {0} /\ LoopsBack \in BOOLEAN
  /\ MaxVersion \in Nat \ {0} /\ MaxDatagrams \in Nat /\ MaxReads \in Nat \ {0} /\ MaxCrashes \in Nat
  /\ Fragile \subseteq Drones /\ Late \subseteq Drones
  /\ Roams \subseteq Drones \X Drones /\ Hears \subseteq Drones \X Drones

NextDrone(d) == IF d < N - 1 THEN d + 1 ELSE IF LoopsBack THEN d ELSE Nobody

VARIABLES
  \* the planners
  odom,          \* have_odom_
  start,         \* the state the planner leaves the ground from, "none" before its goal
  flying,        \* that state has been left for EXEC_TRAJ
  recv_pre,      \* have_recv_pre_agent_
  multi,         \* multi_bspline_msgs_buf_
  slots,         \* swarm_trajs_buf_, slot i at place i+1
  version,       \* traj_id of the trajectory flown, 0 before the first
  \* the bridges
  bridge,        \* "off", "listening" before connect(), "up", "dead"
  link,          \* the socket to the next drone
  server,        \* server_fun: "down", "accepting", "reading", "closed"
  backlog,       \* connections the server has not accepted
  source,        \* whose connection it reads
  ended,         \* that connection has no writer any more
  outbox,        \* the bridge's queue of its planner's swarm_trajs
  wire,          \* the message sent by d and not read
  parsed,        \* what server_fun has made of what it read, oldest first
  \* the network and the bounds
  air,           \* datagrams that may still arrive
  lost,          \* the start message of d can no longer reach drone d+1
  crashes

planners == <<odom, start, flying, recv_pre, multi, slots, version>>
sockets  == <<bridge, link, server, backlog, source, ended>>
buffers  == <<outbox, wire, parsed>>
swarmVars == <<planners, sockets, buffers, air, lost, crashes>>

(* The drones that fly since it was their turn.                             *)
in_turn == [d \in Drones |-> flying[d] /\ start[d] = "SEQUENTIAL_START"]

-----------------------------------------------------------------------------
(* Messages and their layout.  A Bspline keeps what is compared here: its   *)
(* drone, order, traj_id and the sizes of its lists.                        *)

Bspline(d, v) == [drone_id |-> d, order |-> 3, traj_id |-> v, knots |-> 2, pos_pts |-> 1, yaw_pts |-> 0]
Message(from, traj) == [drone_id_from |-> from, traj |-> traj]

MULTI_TRAJ == 889
Large == 1000                      \* half of a double that is not zero
Size(n) == <<n, 0>>                \* size_t and int64_t: low half, high half
Double == <<Large, Large>>
Round  == <<0, Large>>             \* a double with few digits, like 1.0
Zero   == <<0, 0>>

Repeat(s, n) == FlattenSeq([i \in 1 .. n |-> s])

(* knots begin below zero and pass through it; yaw_dt is never set.         *)
SerializeBspline(b) ==
  <<b.drone_id, b.order>> \o Double \o Size(b.traj_id) \o Zero
    \o Size(b.knots)   \o Repeat(Double, b.knots - 1) \o Zero
    \o Size(b.pos_pts) \o Repeat(Double \o Zero \o Round, b.pos_pts)
    \o Size(b.yaw_pts) \o Repeat(Double, b.yaw_pts)

SerializeMultiBsplines(m) ==
  <<MULTI_TRAJ, m.drone_id_from>> \o Size(Len(m.traj))
    \o FlattenSeq([i \in 1 .. Len(m.traj) |-> SerializeBspline(m.traj[i])])

(* Beyond what was ever received recv_buf_ is zero.                         *)
Cell(buf, i) == IF i <= Len(buf) THEN buf[i] ELSE 0

(* A size read at cell i; Huge when no vector can be resized to it.         *)
Huge == -1
SizeAt(buf, i) == IF Cell(buf, i + 1) = 0 /\ Cell(buf, i) < Large THEN Cell(buf, i) ELSE Huge

DeserializeBspline(buf, at) ==
  LET knots   == SizeAt(buf, at + 8)
      pos_pts == SizeAt(buf, at + 10 + 2 * knots)
      yaw_pts == SizeAt(buf, at + 12 + 2 * knots + 6 * pos_pts)
  IN  IF knots = Huge \/ pos_pts = Huge \/ yaw_pts = Huge
        THEN [end |-> Huge]
        ELSE [end  |-> at + 14 + 2 * knots + 6 * pos_pts + 2 * yaw_pts,
              traj |-> [drone_id |-> Cell(buf, at), order |-> Cell(buf, at + 1),
                        traj_id |-> Cell(buf, at + 4), knots |-> knots,
                        pos_pts |-> pos_pts, yaw_pts |-> yaw_pts]]

(* The type in the first cell is not looked at.  len is what is compared    *)
(* with what read() returned; Huge when a resize throws, which ends the     *)
(* process.                                                                 *)
DeserializeMultiBsplines(buf) ==
  LET size == SizeAt(buf, 3)
      step[i \in 0 .. size] ==
        IF i = 0 THEN [end |-> 5, traj |-> <<>>]
        ELSE LET done == step[i - 1]
                 next == DeserializeBspline(buf, done.end)
             IN  IF done.end = Huge \/ next.end = Huge THEN [end |-> Huge]
                 ELSE [end |-> next.end, traj |-> Append(done.traj, next.traj)]
  IN  IF size = Huge \/ step[size].end = Huge
        THEN [len |-> Huge]
        ELSE [len |-> step[size].end - 1, msg |-> Message(Cell(buf, 2), step[size].traj)]

(* What server_fun makes of the cells of a message, for every way to cut    *)
(* them into at most MaxReads pieces: each piece lies over the rest of the  *)
(* buffer, and is published when the lengths agree.  Nothing the node does  *)
(* depends on when a piece arrives, so they are all read in one step.       *)
Abort == Message(Nobody, <<>>)

Overlay(piece, buf) == piece \o SubSeq(buf, Len(piece) + 1, Len(buf))

Cuts(len) == UNION {{c \in [1 .. k -> 1 .. len] : c[k] = len /\ \A i \in 1 .. k - 1 : c[i] < c[i + 1]} :
                      k \in 1 .. MaxReads}

AgreesOrLonger(len, valread) == len >= valread       \* mutant: stale cells complete it
Agrees(len, valread) == len = valread

(* The piece read() returns i-th, and what is published for it: the message *)
(* found in the buffer when its length is what read() returned, or nothing, *)
(* unless a size read out of stale cells ends the process.                  *)
Piece(cells, cut, i) == SubSeq(cells, IF i = 1 THEN 1 ELSE cut[i - 1] + 1, cut[i])

TakenFor(found, valread) ==
  IF found.len = Huge THEN <<Abort>> ELSE IF Agrees(found.len, valread) THEN <<found.msg>> ELSE <<>>

Made(cells, cut) ==
  LET buf[i \in 0 .. Len(cut)] == IF i = 0 THEN <<>> ELSE Overlay(Piece(cells, cut, i), buf[i - 1])
      made[i \in 0 .. Len(cut)] ==
        IF i = 0 THEN <<>>
        ELSE IF made[i - 1] # <<>> /\ Last(made[i - 1]) = Abort THEN made[i - 1]
        ELSE made[i - 1] \o TakenFor(DeserializeMultiBsplines(buf[i]), Len(Piece(cells, cut, i)))
  IN  made[Len(cut)]

(* Evaluated once, for the lists planners keep.                             *)
Chain(n) == [i \in 1 .. n |-> Bspline(i - 1, 1)]
ReadsOf ==
  [m \in {Message(d, Chain(n)) : d \in Drones, n \in 0 .. N} |->
     LET cells == SerializeMultiBsplines(m) IN {Made(cells, c) : c \in Cuts(Len(cells))}]

-----------------------------------------------------------------------------
SwarmTypeOK ==
  /\ start \in [Drones -> {"none", "SEQUENTIAL_START", "GEN_NEW_TRAJ"}]
  /\ odom \in [Drones -> BOOLEAN] /\ flying \in [Drones -> BOOLEAN]
  /\ recv_pre \in [Drones -> BOOLEAN] /\ version \in [Drones -> 0 .. MaxVersion]
  /\ \A d \in Drones : Len(multi[d].traj) <= N /\ Len(slots[d]) <= N
  /\ bridge \in [Drones -> {"off", "listening", "up", "dead"}]
  /\ link \in [Drones -> {"none", "failed", "open", "unread", "broken"}]
  /\ server \in [Drones -> {"down", "accepting", "reading", "closed"}]
  /\ source \in [Drones -> Drones \cup {Nobody}] /\ ended \in [Drones -> BOOLEAN]
  /\ \A d \in Drones : Len(backlog[d]) <= Backlog + 1 /\ Len(outbox[d]) <= 1
  /\ \A d \in Drones : Len(wire[d]) <= 1 /\ Len(parsed[d]) <= MaxReads
  /\ air \subseteq [to : Drones, of : Drones, traj_id : 1 .. MaxVersion]
  /\ lost \subseteq Drones /\ crashes \in 0 .. MaxCrashes

SwarmInit ==
  /\ start = [d \in Drones |-> "none"]
  /\ odom = [d \in Drones |-> FALSE] /\ flying = [d \in Drones |-> FALSE]
  /\ recv_pre = [d \in Drones |-> FALSE] /\ version = [d \in Drones |-> 0]
  /\ multi = [d \in Drones |-> Message(0, <<>>)] /\ slots = [d \in Drones |-> <<>>]
  /\ bridge = [d \in Drones |-> "off"] /\ link = [d \in Drones |-> "none"]
  /\ server = [d \in Drones |-> "down"] /\ backlog = [d \in Drones |-> <<>>]
  /\ source = [d \in Drones |-> Nobody] /\ ended = [d \in Drones |-> FALSE]
  /\ outbox = [d \in Drones |-> <<>>] /\ wire = [d \in Drones |-> <<>>]
  /\ parsed = [d \in Drones |-> <<>>]
  /\ air = {} /\ lost = {} /\ crashes = 0

-----------------------------------------------------------------------------
(* The planner of drone d, in PRESET_TARGET mode.                           *)

Odometry(d) ==
  /\ ~odom[d]
  /\ odom' = [odom EXCEPT ![d] = TRUE]
  /\ UNCHANGED <<start, flying, recv_pre, multi, slots, version, sockets, buffers, air, lost, crashes>>

(* The trigger has come and readGivenWps sets the goal.  The exec timer is   *)
(* either still to take the planner from INIT to WAIT_TARGET, and then finds *)
(* the goal and goes on to SEQUENTIAL_START, or it has done so already, and  *)
(* planNextWaypoint goes to GEN_NEW_TRAJ.                                    *)
TriggerComes(d) ==
  /\ odom[d] /\ start[d] = "none"
  /\ \E s \in {"SEQUENTIAL_START"} \cup (IF d \in Late THEN {"GEN_NEW_TRAJ"} ELSE {}) :
       start' = [start EXCEPT ![d] = s]
  /\ UNCHANGED <<odom, flying, recv_pre, multi, slots, version, sockets, buffers, air, lost, crashes>>

(* broadcast_bspline_pub_ and one_traj_sub_udp_cb: to all, itself included; *)
(* some arrive.                                                             *)
Broadcast(d) ==
  IF bridge[d] # "up" THEN UNCHANGED air
  ELSE \E to \in SUBSET {o \in Drones : <<o, d>> \in Hears} :
         /\ air' = air \cup {[to |-> o, of |-> d, traj_id |-> version'[d]] : o \in to}
         /\ Cardinality(air') <= MaxDatagrams

(* The message publishSwarmTrajs(true) makes: its own trajectory replaces   *)
(* the one it already has in the list, or is appended; a list of any other  *)
(* length is published as it is.                                            *)
WithOwn(d, m) ==
  LET own == Bspline(d, version'[d])
  IN  Message(d, CASE Len(m.traj) = d + 1 -> [m.traj EXCEPT ![d + 1] = own]
                   [] Len(m.traj) = d -> Append(m.traj, own)
                   [] OTHER -> m.traj)

ReadyAlone(d) == odom[d]                              \* mutant: does not wait
ReadyWithOwn(d) == odom[d] /\ (d > 0 => Len(slots[d]) > d)  \* mutant: waits for its own too
Ready(d) == odom[d] /\ (d > 0 => recv_pre[d])

(* SEQUENTIAL_START, when a plan is found.                                  *)
SequentialStart(d) ==
  /\ start[d] = "SEQUENTIAL_START" /\ ~flying[d] /\ Ready(d)
  /\ flying' = [flying EXCEPT ![d] = TRUE]
  /\ version' = [version EXCEPT ![d] = 1]
  /\ multi' = [multi EXCEPT ![d] = WithOwn(d, @)]
  /\ IF bridge[d] \in {"listening", "up"}
       THEN outbox' = [outbox EXCEPT ![d] = <<multi'[d]>>] /\ UNCHANGED lost
       ELSE lost' = lost \cup {d} /\ UNCHANGED outbox
  /\ Broadcast(d)
  /\ UNCHANGED <<odom, start, recv_pre, slots, sockets, wire, parsed, crashes>>

(* GEN_NEW_TRAJ, when a plan is found: publishSwarmTrajs(false).            *)
GenNewTraj(d) ==
  /\ start[d] = "GEN_NEW_TRAJ" /\ ~flying[d]
  /\ flying' = [flying EXCEPT ![d] = TRUE]
  /\ version' = [version EXCEPT ![d] = 1]
  /\ Broadcast(d)
  /\ UNCHANGED <<odom, start, recv_pre, multi, slots, sockets, buffers, lost, crashes>>

(* A replan: publishSwarmTrajs(false) too.                                  *)
Replan(d) ==
  /\ flying[d] /\ version[d] < MaxVersion
  /\ version' = [version EXCEPT ![d] = @ + 1]
  /\ Broadcast(d)
  /\ UNCHANGED <<odom, start, flying, recv_pre, multi, slots, sockets, buffers, lost, crashes>>

Unused == [drone_id |-> Nobody, of |-> Nobody, traj_id |-> 0]
Slot(i, b) == [drone_id |-> i, of |-> b.drone_id, traj_id |-> b.traj_id]

(* swarmTrajsCallback.  The message is kept even when it is refused; far    *)
(* are the trajectories that start beyond 4/3 of the planning horizon.      *)
AcceptsAnyLength(d, m) == odom[d]                     \* mutant: no check of the length
Accepts(d, m) == odom[d] /\ Len(m.traj) = m.drone_id_from + 1 /\ m.traj[1].order = 3

SwarmTrajs(d, m) ==
  /\ multi' = [multi EXCEPT ![d] = m]
  /\ IF Accepts(d, m)
       THEN /\ \E far \in SUBSET {i \in DOMAIN m.traj : <<d, i - 1>> \in Roams} :
                 slots' = [slots EXCEPT ![d] =
                   [i \in DOMAIN m.traj |-> IF i \in far THEN Unused ELSE Slot(i - 1, m.traj[i])]]
            /\ recv_pre' = [recv_pre EXCEPT ![d] = TRUE]
       ELSE UNCHANGED <<slots, recv_pre>>

(* udp_recv_fun and BroadcastBsplineCallback: a trajectory of its own, or   *)
(* one that starts more than 0.25 s from now, is passed over.               *)
Filled(s, n) == s \o [i \in 1 .. n - Len(s) |-> Unused]

BroadcastBspline(d) ==
  \E p \in air, far \in BOOLEAN :
    /\ far => <<d, p.of>> \in Roams
    /\ p.to = d /\ bridge[d] \in {"listening", "up"}
    /\ LET room == IF Len(slots[d]) <= p.of THEN Filled(slots[d], p.of + 1) ELSE slots[d]
       IN  slots' = [slots EXCEPT ![d] =
             IF p.of = d THEN @
             ELSE IF far THEN [room EXCEPT ![p.of + 1].drone_id = Nobody]
             ELSE [room EXCEPT ![p.of + 1] = Slot(p.of, Bspline(p.of, p.traj_id))]]
    /\ air' = air \ {p}
    /\ UNCHANGED <<odom, start, flying, recv_pre, multi, version, sockets, buffers, lost, crashes>>

-----------------------------------------------------------------------------
(* The bridge of drone d.                                                   *)

(* main() up to the two sleeps: server_fun listens before the second ends.  *)
StartBridge(d) ==
  /\ bridge[d] \in {"off", "dead"}
  /\ bridge' = [bridge EXCEPT ![d] = "listening"]
  /\ server' = [server EXCEPT ![d] = "accepting"]
  /\ link' = [link EXCEPT ![d] = "none"]
  /\ UNCHANGED <<planners, backlog, source, ended, buffers, air, lost, crashes>>

(* connect_to_next_drone, tried once.  A server that reads already has its  *)
(* socket open, so the connection is made and never accepted.               *)
Connect(d) ==
  /\ bridge[d] = "listening"
  /\ bridge' = [bridge EXCEPT ![d] = "up"]
  /\ LET n == NextDrone(d)
         there == IF n = Nobody \/ Len(backlog[n]) > Backlog THEN "down" ELSE server[n]
     IN  /\ link' = [link EXCEPT ![d] =
                       CASE there = "accepting" -> "open"
                         [] there = "reading"   -> "unread"
                         [] OTHER               -> "failed"]
         /\ IF there = "accepting" THEN backlog' = [backlog EXCEPT ![n] = Append(@, d)]
            ELSE UNCHANGED backlog
  /\ UNCHANGED <<planners, server, source, ended, buffers, air, lost, crashes>>

(* wait_connection_from_previous_drone.                                     *)
Accept(d) ==
  /\ server[d] = "accepting" /\ backlog[d] # <<>>
  /\ server' = [server EXCEPT ![d] = "reading"]
  /\ source' = [source EXCEPT ![d] = Head(backlog[d])]
  /\ ended' = [ended EXCEPT ![d] = Head(backlog[d]) = Nobody]
  /\ LET others == Range(Tail(backlog[d])) \ {Nobody}
     IN  /\ link' = [o \in Drones |-> IF o \in others THEN "unread" ELSE link[o]]
         /\ lost' = lost \cup {o \in others : wire[o] # <<>>}
         /\ wire' = [o \in Drones |-> IF o \in others THEN <<>> ELSE wire[o]]
  /\ backlog' = [backlog EXCEPT ![d] = <<>>]
  /\ UNCHANGED <<planners, bridge, outbox, parsed, air, crashes>>

(* multitraj_sub_tcp_cb.                                                    *)
SendMulti(d) ==
  /\ bridge[d] = "up" /\ outbox[d] # <<>>
  /\ outbox' = [outbox EXCEPT ![d] = <<>>]
  /\ IF link[d] = "open"
       THEN wire' = [wire EXCEPT ![d] = outbox[d]] /\ UNCHANGED lost
       ELSE lost' = lost \cup {d} /\ UNCHANGED wire
  /\ UNCHANGED <<planners, sockets, parsed, air, crashes>>

(* Everybody the death of bridge d cuts off.                                *)
Severed(d) == {o \in Drones : o # d /\ NextDrone(o) = d /\ link[o] = "open"}

(* The process of bridge d ends; what it sent can still be read.            *)
Dies(d) ==
  /\ bridge' = [bridge EXCEPT ![d] = "dead"]
  /\ server' = [server EXCEPT ![d] = "down"]
  /\ link' = [o \in Drones |-> IF o = d THEN "none" ELSE IF o \in Severed(d) THEN "broken" ELSE link[o]]
  /\ backlog' = [o \in Drones |-> IF o = d THEN <<>>
                                  ELSE [i \in DOMAIN backlog[o] |-> IF backlog[o][i] = d THEN Nobody ELSE backlog[o][i]]]
  /\ source' = [source EXCEPT ![d] = Nobody]
  /\ ended' = [o \in Drones |-> o # d /\ (ended[o] \/ source[o] = d)]
  /\ LET unread == IF NextDrone(d) # Nobody /\ NextDrone(d) # d /\ source[NextDrone(d)] = d THEN {} ELSE {d}
     IN  /\ wire' = [o \in Drones |-> IF o \in Severed(d) \cup unread THEN <<>> ELSE wire[o]]
         /\ lost' = lost \cup {o \in Severed(d) \cup unread : wire[o] # <<>>}
                         \cup (IF outbox[d] # <<>> THEN {d} ELSE {})
                         \cup (IF parsed[d] # <<>> THEN {source[d]} ELSE {})
  /\ outbox' = [outbox EXCEPT ![d] = <<>>]
  /\ parsed' = [parsed EXCEPT ![d] = <<>>]

Crash(d) ==
  /\ d \in Fragile /\ bridge[d] \in {"listening", "up"} /\ crashes < MaxCrashes
  /\ crashes' = crashes + 1
  /\ Dies(d)
  /\ UNCHANGED <<planners, air>>

(* server_fun: what read() returned is published when the lengths agree.   *)
Read(d) ==
  LET from == source[d] IN
  /\ server[d] = "reading" /\ from # Nobody /\ wire[from] # <<>>
  /\ wire' = [wire EXCEPT ![from] = <<>>]
  /\ \E r \in ReadsOf[Head(wire[from])] :
       /\ parsed' = [parsed EXCEPT ![d] = r]
       /\ lost' = IF r = wire[from] THEN lost ELSE lost \cup {from}
  /\ UNCHANGED <<planners, sockets, outbox, air, crashes>>

PublishTrajs(d) ==
  /\ parsed[d] # <<>>
  /\ LET m == Head(parsed[d])
     IN  IF m = Abort
           THEN Dies(d) /\ UNCHANGED planners
           ELSE /\ parsed' = [parsed EXCEPT ![d] = Tail(@)]
                /\ SwarmTrajs(d, m)
                /\ lost' = IF Accepts(d, m) THEN lost ELSE lost \cup {source[d]}
                /\ UNCHANGED <<odom, start, flying, version, sockets, outbox, wire>>
  /\ UNCHANGED <<air, crashes>>

(* read() returns 0: both sockets are closed and the thread ends.           *)
EndOfStream(d) ==
  /\ server[d] = "reading" /\ ended[d]
  /\ source[d] # Nobody => wire[source[d]] = <<>>
  /\ parsed[d] = <<>>
  /\ server' = [server EXCEPT ![d] = "closed"]
  /\ source' = [source EXCEPT ![d] = Nobody]
  /\ UNCHANGED <<planners, bridge, link, backlog, ended, buffers, air, lost, crashes>>

-----------------------------------------------------------------------------
Step(d) ==
  \/ Odometry(d) \/ TriggerComes(d) \/ SequentialStart(d) \/ GenNewTraj(d) \/ Replan(d)
  \/ BroadcastBspline(d)
  \/ StartBridge(d) \/ Connect(d) \/ Accept(d) \/ SendMulti(d)
  \/ Read(d) \/ PublishTrajs(d) \/ EndOfStream(d) \/ Crash(d)

SwarmNext == \E d \in Drones : Step(d)

SwarmSpec == SwarmInit /\ [][SwarmNext]_swarmVars

(* ros::spin and the threads get to run; every drone is triggered, and a     *)
(* plan that can be found is found.                                         *)
Fairness ==
  \A d \in Drones :
    /\ WF_swarmVars(TriggerComes(d) \/ SequentialStart(d) \/ GenNewTraj(d))
    /\ WF_swarmVars(Connect(d)) /\ WF_swarmVars(Accept(d))
    /\ WF_swarmVars(SendMulti(d)) /\ WF_swarmVars(Read(d)) /\ WF_swarmVars(PublishTrajs(d))
    /\ WF_swarmVars(EndOfStream(d))

SwarmFairSpec == SwarmSpec /\ Fairness

-----------------------------------------------------------------------------
(* A drone that takes off in its turn does so after every drone before it   *)
(* did the same: no piece a stream is cut into is taken for a start         *)
(* message, and a drone that leaves without waiting starts nobody.          *)
StartsInOrder == \A d \in Drones, e \in Drones : in_turn[d] /\ e < d => in_turn[e]

(* The state is well formed, and what a planner holds in slot i, whether it *)
(* came over TCP, over UDP or after a list was refused, is a trajectory     *)
(* drone i has planned.                                                     *)
SlotHoldsItsDrone ==
  /\ SwarmTypeOK
  /\ \A d \in Drones : \A i \in DOMAIN slots[d] :
       slots[d][i].drone_id # Nobody =>
         /\ slots[d][i].drone_id = i - 1 /\ slots[d][i].of = i - 1
         /\ slots[d][i].traj_id \in 1 .. version[i - 1]

(* The list a drone sends on, and so its successor's, is its own trajectory *)
(* after those of all drones before it.                                     *)
SendsTheWholeChain ==
  \A d \in Drones : outbox[d] # <<>> =>
    /\ Head(outbox[d]).drone_id_from = d
    /\ [i \in DOMAIN Head(outbox[d]).traj |-> Head(outbox[d]).traj[i].drone_id] = [i \in 1 .. d + 1 |-> i - 1]

(* Once a drone has taken off in its turn, the next one flies too, or the    *)
(* one start message it will ever be sent has been lost: to a bridge that   *)
(* was not up, a connection that failed, was never accepted or broke, a     *)
(* read() that cut it, a planner without odom.  It waits for no other       *)
(* reason.                                                                  *)
StartsOrLost ==
  \A d \in Drones : d + 1 \in Drones => (in_turn[d] ~> (flying[d + 1] \/ d \in lost))
=============================================================================

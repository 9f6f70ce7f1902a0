----------------------------- MODULE RelaySession -----------------------------
(***************************************************************************)
(* Session ports of the relay server and the data plane that forwards on   *)
(* them (localtrans-relay lease.rs:216-267, data_plane.rs). Two devices    *)
(* that punch through get a port of the pool; each learns nothing of the   *)
(* other's address: the port's recv_loop learns where both speak from and  *)
(* forwards between them, one packet at a time. remove_session_port takes  *)
(* the locks of its three maps one after the other, and the reaper acts on *)
(* a snapshot of the idle ports.                                           *)
(***************************************************************************)
EXTENDS Integers, FiniteSets, FiniteSetsExt

CONSTANTS
  Device,       \* fingerprints
  Addr,         \* source addresses a device may send from
  None,
  MaxPort,      \* the pool is 1 .. MaxPort
  MaxSessions,  \* bound: session ports given out
  MaxPackets    \* bound: packets admitted by the data plane

ASSUME PortsAssumption ==
  None \notin Device \cup Addr /\ MaxPort \in Nat /\ MaxSessions \in Nat /\ MaxPackets \in Nat

Ports  == 1 .. MaxPort
Flags  == {"knock", "data", "goodbye"}
NoPair   == {}
NoPacket == [src |-> None, flag |-> "none", from |-> None]

VARIABLES
  leased,        \* ports in port_map
  sessionPorts,  \* session_ports
  members,       \* session_members: the pair of devices, NoPair if none
  activity,      \* session_activity: "fresh", "idle" (older than twice the ttl), "none"
  closing,       \* unfinished calls of remove_session_port: [port, step, by]
  reap,          \* idle ports the reaper has read and not yet removed
  learned,       \* data plane: address of each device on each port
  hand,          \* data plane: the admitted packet each recv_loop is handling
  heard,         \* history: where each device last spoke from on each port
  sessions, packets

pvars == <<leased, sessionPorts, members, activity, closing, reap, learned, hand, heard, sessions, packets>>

PInit ==
  /\ leased = {} /\ sessionPorts = {} /\ closing = {} /\ reap = {}
  /\ members = [p \in Ports |-> NoPair]
  /\ activity = [p \in Ports |-> "none"]
  /\ learned = [p \in Ports |-> [d \in Device |-> None]]
  /\ hand = [p \in Ports |-> NoPacket]
  /\ heard = [p \in Ports |-> [d \in Device |-> None]]
  /\ sessions = 0 /\ packets = 0

\* A device registers, or its lease goes: alloc looks at port_map only.
LeaseTaken ==
  /\ leased # Ports /\ leased' = leased \cup {Min(Ports \ leased)}
  /\ UNCHANGED <<sessionPorts, members, activity, closing, reap, learned, hand, heard, sessions, packets>>

LeaseFreed(p) ==
  /\ p \in leased /\ leased' = leased \ {p}
  /\ UNCHANGED <<sessionPorts, members, activity, closing, reap, learned, hand, heard, sessions, packets>>

Free == Ports \ (leased \cup sessionPorts)

\* alloc_session_port: session_ports stays locked, so the three maps change at once.
AllocSession(a, b) ==
  /\ sessions < MaxSessions /\ Free # {} /\ a # b
  /\ LET p == Min(Free) IN
       /\ sessionPorts' = sessionPorts \cup {p}
       /\ members' = [members EXCEPT ![p] = {a, b}]
       /\ activity' = [activity EXCEPT ![p] = "fresh"]
  /\ sessions' = sessions + 1
  /\ UNCHANGED <<leased, closing, reap, learned, hand, heard, packets>>

CloseStep(c) ==
  /\ CASE c.step = "ports" ->
            /\ sessionPorts' = sessionPorts \ {c.port}
            /\ closing' = (closing \ {c}) \cup {[c EXCEPT !.step = "members"]}
            /\ UNCHANGED <<members, activity>>
       [] c.step = "members" ->
            /\ members' = [members EXCEPT ![c.port] = NoPair]
            /\ closing' = (closing \ {c}) \cup {[c EXCEPT !.step = "activity"]}
            /\ UNCHANGED <<sessionPorts, activity>>
       [] c.step = "activity" ->
            /\ activity' = [activity EXCEPT ![c.port] = "none"]
            /\ closing' = closing \ {c}
            /\ UNCHANGED <<sessionPorts, members>>
  /\ UNCHANGED <<leased, reap, learned, hand, heard, sessions, packets>>

\* remove_session_port is called: three sections to come.
CloseBegun(p, who) == closing' = closing \cup {[port |-> p, step |-> "ports", by |-> who]}

Busy(who, p) == \E c \in closing : c.by = who /\ c.port = p

\* Twice the ttl goes by without a packet.
Ages(p) ==
  /\ activity[p] = "fresh"
  /\ activity' = [activity EXCEPT ![p] = "idle"]
  /\ UNCHANGED <<leased, sessionPorts, members, closing, reap, learned, hand, heard, sessions, packets>>

\* reap_expired: the idle ports are collected under the read lock, and removed
\* one by one after it is released.
ReapRead ==
  /\ reap = {} /\ \A p \in Ports : ~Busy("reaper", p)
  /\ reap' = {p \in Ports : activity[p] = "idle"}
  /\ UNCHANGED <<leased, sessionPorts, members, activity, closing, learned, hand, heard, sessions, packets>>

ReapNext(p) ==
  /\ p \in reap /\ \A q \in Ports : ~Busy("reaper", q)
  /\ reap' = reap \ {p}
  /\ CloseBegun(p, "reaper")
  /\ UNCHANGED <<leased, sessionPorts, members, activity, learned, hand, heard, sessions, packets>>

\* A packet of a device reaches a port that is waiting for one: the device must
\* be a member of the port's session, which counts as activity. Packets with a
\* bad header, an unknown token or flag or an oversized payload, and those of
\* strangers, change nothing here.
Admit(p, src, flag, from) ==
  /\ packets < MaxPackets /\ hand[p] = NoPacket /\ ~Busy("loop", p)
  /\ src \in members[p]
  /\ activity' = [activity EXCEPT ![p] = IF @ = "none" THEN "none" ELSE "fresh"]
  /\ hand' = [hand EXCEPT ![p] = [src |-> src, flag |-> flag, from |-> from]]
  /\ heard' = [heard EXCEPT ![p][src] = from]
  /\ packets' = packets + 1
  /\ UNCHANGED <<leased, sessionPorts, members, closing, reap, learned, sessions>>

Handles(p, flag) == hand[p].flag = flag /\ hand' = [hand EXCEPT ![p] = NoPacket]

\* KNOCK: learn the address, forward nothing.
Knock(p) ==
  /\ Handles(p, "knock")
  /\ learned' = [learned EXCEPT ![p][hand[p].src] = hand[p].from]
  /\ UNCHANGED <<leased, sessionPorts, members, activity, closing, reap, heard, sessions, packets>>

Known(p) == {d \in Device : learned[p][d] # None}

Goodbye_always(p) ==
  /\ Handles(p, "goodbye")
  /\ learned' = [learned EXCEPT ![p][hand[p].src] = None]
  /\ CloseBegun(p, "loop")
  /\ UNCHANGED <<leased, sessionPorts, members, activity, reap, heard, sessions, packets>>

\* GOODBYE: forget it; the last one to leave gives the session port back.
Goodbye(p) ==
  /\ Handles(p, "goodbye")
  /\ learned' = [learned EXCEPT ![p][hand[p].src] = None]
  /\ IF Known(p) # {} /\ Known(p) \subseteq {hand[p].src}
       THEN CloseBegun(p, "loop") ELSE UNCHANGED closing
  /\ UNCHANGED <<leased, sessionPorts, members, activity, reap, heard, sessions, packets>>

\* DATA: a learned device that speaks from a new address has moved (its NAT
\* has). Then the payload goes on to the other member, which leaves no trace here.
Data(p) ==
  /\ Handles(p, "data")
  /\ learned' = IF hand[p].src \in Known(p)
                  THEN [learned EXCEPT ![p][hand[p].src] = hand[p].from] ELSE learned
  /\ UNCHANGED <<leased, sessionPorts, members, activity, closing, reap, heard, sessions, packets>>

Closes == \E c \in closing : CloseStep(c)
Reaps  == ReapRead \/ \E p \in Ports : ReapNext(p)

PNext ==
  \/ LeaseTaken \/ \E p \in Ports : LeaseFreed(p)
  \/ \E a, b \in Device : AllocSession(a, b)
  \/ Closes \/ Reaps
  \/ \E p \in Ports : Ages(p) \/ Knock(p) \/ Goodbye(p) \/ Data(p)
  \/ \E p \in Ports, d \in Device, flag \in Flags, from \in Addr : Admit(p, d, flag, from)

PSpec == PInit /\ [][PNext]_pvars

PTypeOK ==
  /\ leased \subseteq Ports /\ sessionPorts \subseteq Ports /\ reap \subseteq Ports
  /\ members \in [Ports -> SUBSET Device]
  /\ activity \in [Ports -> {"fresh", "idle", "none"}]
  /\ closing \subseteq [port : Ports, step : {"ports", "members", "activity"}, by : {"loop", "reaper"}]
  /\ learned \in [Ports -> [Device -> Addr \cup {None}]]
  /\ heard \in [Ports -> [Device -> Addr \cup {None}]]
  /\ hand \in [Ports -> [src : Device, flag : Flags, from : Addr] \cup {NoPacket}]
  /\ sessions \in 0 .. MaxSessions /\ packets \in 0 .. MaxPackets

\* Data for a device goes to the address it last spoke from on that port, over
\* NAT rebinding and over sessions that reuse the port (data_plane.rs:204-226).
AddressCurrent ==
  \A p \in Ports, d \in Device :
    learned[p][d] # None /\ hand[p].src # d => learned[p][d] = heard[p][d]

\* A session ends only by the goodbye of the last member whose address is known
\* or by the reaper, never under a member that knocked and goes on sending: a
\* port the loop closes has nobody learned any more (data_plane.rs:186-196).
ClosedByLast == \A c \in closing : c.by = "loop" => Known(c.port) = {}

\* A session port is in the reaper's sight or being removed. The code does not keep this: a
\* session that begins between the sections of remove_session_port loses its
\* members and its activity to the rest of that removal.
Reapable == \A p \in sessionPorts : activity[p] # "none" \/ \E c \in closing : c.port = p

\* Where packets are sent to is where the device last spoke from, and the loop
\* closes no port with a known member (data_plane.rs:120-226).
PortsSound == PTypeOK /\ AddressCurrent /\ ClosedByLast
===============================================================================

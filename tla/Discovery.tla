------------------------------ MODULE Discovery ------------------------------
(* The discovery service (discovery.rs) of devices that no broadcast of      *)
(* each other reaches, so that they see each other only by the addresses     *)
(* they keep probing, plus the nonce window that drops repeated packets.     *)
(* Time advances in steps of four seconds; a packet arrives in its step.     *)
EXTENDS Naturals, FiniteSets

CONSTANTS Dev,        \* devices
          Ghost,      \* addresses nobody answers at
          Segment,    \* pairs of devices a broadcast joins
          Retry,      \* PROBE_RETRY_PERIOD
          Offline,    \* offline_secs
          Eviction,   \* PROBE_FAIL_EVICTION
          MaxTargets, \* MAX_PROBE_TARGETS
          Losses,     \* bound: packets lost
          Commands    \* bound: starts, stops, names, switches and commands

ASSUME DiscoveryAssumption == Retry \in Nat /\ Offline \in Nat /\ Eviction \in Nat \ {0}

Host == Dev \cup Ghost
Gone == Offline     \* an age no entry keeps

VARIABLES on, hidden, \* the service runs; the switch of the settings
          heardOf,    \* devices: [Dev -> [Dev -> age, Gone when not listed]]
          due,        \* probe_targets: [Dev -> [address -> steps left, Retry + 1 for none]]
          probeFails, \* probe_fail_counts
          file,       \* probe_targets.json
          net,        \* packets under way: [from, to, kind]
          away,       \* ghost: devices that were off, hidden or trimmed since last heard
          lost, commands
dvars == <<on, hidden, heardOf, due, probeFails, file, net, away, lost, commands>>

NoTarget == Retry + 1
Targets(d) == {p \in Host : due[d][p] # NoTarget}
Listed(d)  == {p \in Dev : heardOf[d][p] # Gone}

DInit ==
  /\ on = [d \in Dev |-> FALSE] /\ hidden = [d \in Dev |-> FALSE]
  /\ heardOf = [d \in Dev |-> [p \in Dev |-> Gone]]
  /\ due = [d \in Dev |-> [p \in Host |-> NoTarget]]
  /\ probeFails = [d \in Dev |-> [p \in Host |-> 0]]
  /\ file = [d \in Dev |-> {}]
  /\ net = {} /\ away = [d \in Dev |-> {}]
  /\ lost = 0 /\ commands = 0

Packets(d, to, kind) == [from : {d}, to : to \ {d}, kind : {kind}]
Broadcast(d, kind) == Packets(d, {p \in Dev : {d, p} \in Segment}, kind)
Step == commands < Commands /\ commands' = commands + 1

------------------------------------------------------------------------------
(* start: the table is empty, the targets of the last run are due at once *)
Start(d) ==
  /\ ~on[d] /\ Step
  /\ on' = [on EXCEPT ![d] = TRUE]
  /\ due' = [due EXCEPT ![d] = [p \in Host |-> IF p \in file[d] THEN 0 ELSE NoTarget]]
  /\ heardOf' = [heardOf EXCEPT ![d] = [p \in Dev |-> Gone]]
  /\ probeFails' = [probeFails EXCEPT ![d] = [p \in Host |-> 0]]
  /\ net' = net \cup (IF hidden[d] THEN {} ELSE Broadcast(d, "presence"))
  /\ away' = [away EXCEPT ![d] = Dev]
  /\ UNCHANGED <<hidden, file, lost>>

Stop(d) ==
  /\ on[d] /\ Step
  /\ on' = [on EXCEPT ![d] = FALSE]
  /\ net' = {k \in net : k.to # d}
  /\ away' = [p \in Dev |-> away[p] \cup {d}]
  /\ UNCHANGED <<hidden, heardOf, due, probeFails, file, lost>>

(* the commands: a broadcast probe, a probe of one address that is kept, a  *)
(* new name told to everybody, and the switch that hides the device         *)
ProbeNow(d) ==
  /\ on[d] /\ Step
  /\ net' = net \cup Broadcast(d, "probe")
  /\ UNCHANGED <<on, hidden, heardOf, due, probeFails, file, away, lost>>

ProbeAddr(d, p) ==
  /\ on[d] /\ p # d /\ Step
  /\ net' = net \cup Packets(d, {p} \cap Dev, "probe")
  /\ due' = [due EXCEPT ![d][p] = Retry]
  /\ file' = [file EXCEPT ![d] = Targets(d) \cup {p}]
  /\ UNCHANGED <<on, hidden, heardOf, probeFails, away, lost>>

SetName(d) ==
  /\ on[d] /\ Step
  /\ net' = net \cup (IF hidden[d] THEN {} ELSE Broadcast(d, "presence"))
                \cup Packets(d, Targets(d) \cap Dev, "presence")
  /\ UNCHANGED <<on, hidden, heardOf, due, probeFails, file, away, lost>>

Hide(d) ==
  /\ Step
  /\ hidden' = [hidden EXCEPT ![d] = ~@]
  /\ away' = [p \in Dev |-> IF p = d THEN Dev ELSE away[p] \cup {d}]
  /\ UNCHANGED <<on, heardOf, due, probeFails, file, net, lost>>

------------------------------------------------------------------------------
(* A packet of any kind lists its sender, and its address is probed from    *)
(* then on; a probe is answered unless the device hides                     *)
Lists_answers == {"presence", "resp"}
Lists == {"presence", "probe", "resp"}

Receive(k) ==
  LET d == k.to  p == k.from IN
  /\ k \in net /\ on[d]
  /\ heardOf' = IF k.kind \in Lists THEN [heardOf EXCEPT ![d][p] = 0] ELSE heardOf
  /\ away' = IF k.kind \in Lists /\ ~hidden[p] /\ ~hidden[d] /\ on[p] /\ d \in Targets(p)
             THEN [away EXCEPT ![d] = @ \ {p}] ELSE away
  /\ probeFails' = IF k.kind \in Lists THEN [probeFails EXCEPT ![d][p] = 0] ELSE probeFails
  /\ due' = IF p \notin Targets(d) THEN [due EXCEPT ![d][p] = Retry] ELSE due
  /\ file' = IF p \notin Targets(d) THEN [file EXCEPT ![d] = Targets(d) \cup {p}] ELSE file
  /\ net' = (net \ {k}) \cup (IF k.kind = "probe" /\ ~hidden[d]
                              THEN Packets(d, {p}, "resp") ELSE {})
  /\ UNCHANGED <<on, hidden, lost, commands>>

Lose(k) ==
  /\ k \in net
  /\ \/ lost < Losses /\ lost' = lost + 1
     \/ ~on[k.to] /\ lost' = lost
  /\ net' = net \ {k}
  /\ UNCHANGED <<on, hidden, heardOf, due, probeFails, file, away, commands>>

(* the periodic announcement *)
Presence(d) ==
  /\ on[d] /\ ~hidden[d] /\ Broadcast(d, "presence") \ net # {} /\ Step
  /\ net' = net \cup Broadcast(d, "presence")
  /\ UNCHANGED <<on, hidden, heardOf, due, probeFails, file, away, lost>>

------------------------------------------------------------------------------
(* Once a second: too many targets lose any of them, those that are due are *)
(* probed and counted while no device at their address is listed, and one   *)
(* that was silent too often is forgotten.                                  *)
Trim(d) ==
  /\ on[d] /\ Cardinality(Targets(d)) > MaxTargets
  /\ \E p \in Targets(d) :
       /\ due' = [due EXCEPT ![d][p] = NoTarget]
       /\ file' = [file EXCEPT ![d] = Targets(d) \ {p}]
       /\ away' = [q \in Dev |-> away[q] \cup (IF q = d THEN {p} ELSE IF q = p THEN {d} ELSE {})]
  /\ UNCHANGED <<on, hidden, heardOf, probeFails, net, lost, commands>>

DueNow(d) == {p \in Targets(d) : due[d][p] = 0}
Failed(d) == [p \in Host |-> IF p \in DueNow(d) \ Listed(d) THEN probeFails[d][p] + 1
                                                            ELSE probeFails[d][p]]
Silent(d) == {p \in Host : Failed(d)[p] >= Eviction}

(* the forgotten targets stay in the file *)
Forgotten_kept(d) == Targets(d)
Forgotten(d) == Targets(d) \ Silent(d)

Reprobe(d) ==
  /\ on[d] /\ DueNow(d) # {} /\ Cardinality(Targets(d)) <= MaxTargets
  /\ net' = net \cup Packets(d, DueNow(d) \cap Dev, "probe")
  /\ probeFails' = [probeFails EXCEPT ![d] = [p \in Host |-> IF p \in Silent(d) THEN 0 ELSE Failed(d)[p]]]
  /\ due' = [due EXCEPT ![d] = [p \in Host |-> IF p \in Silent(d) THEN NoTarget
                                               ELSE IF p \in DueNow(d) THEN Retry ELSE @[p]]]
  /\ file' = IF Silent(d) \cap Targets(d) # {} THEN [file EXCEPT ![d] = Forgotten(d)] ELSE file
  /\ UNCHANGED <<on, hidden, heardOf, away, lost, commands>>

(* four seconds pass; entries not heard of for offline_secs leave the table *)
Tick ==
  /\ net = {} /\ \A d \in Dev : on[d] => DueNow(d) = {} /\ Cardinality(Targets(d)) <= MaxTargets
  /\ heardOf' = [d \in Dev |-> [p \in Dev |-> IF heardOf[d][p] = Gone THEN Gone ELSE heardOf[d][p] + 1]]
  /\ due' = [d \in Dev |-> [p \in Host |-> IF due[d][p] \in {0, NoTarget} THEN due[d][p]
                                                                        ELSE due[d][p] - 1]]
  /\ UNCHANGED <<on, hidden, probeFails, file, net, away, lost, commands>>

DNext ==
  \/ \E d \in Dev : Start(d) \/ Stop(d) \/ ProbeNow(d) \/ SetName(d) \/ Hide(d)
                    \/ Presence(d) \/ Trim(d) \/ Reprobe(d)
  \/ \E d \in Dev, p \in Host : ProbeAddr(d, p)
  \/ \E k \in net : Receive(k) \/ Lose(k)
  \/ Tick

DSpec == DInit /\ [][DNext]_dvars

------------------------------------------------------------------------------
DTypeOK ==
  /\ heardOf \in [Dev -> [Dev -> 0 .. Gone]]
  /\ due \in [Dev -> [Host -> 0 .. NoTarget]]
  /\ probeFails \in [Dev -> [Host -> 0 .. Eviction - 1]]
  /\ file \in [Dev -> SUBSET Host]

(* A device that is there, answers and was heard of does not drop out of the *)
(* list although only the probes of either side reach the other, and one     *)
(* packet is lost, unless a full table dropped it (PROBE_RETRY_PERIOD,       *)
(* "clearly less than offline_secs"; a probe lists its sender as an answer   *)
(* does).                                                                    *)
StaysListed ==
  [][\A d \in Dev : \A p \in Listed(d) \ away[d] :
       on[d] /\ on'[d] => heardOf'[d][p] # Gone]_dvars

(* The file holds the targets of a running service, whatever added or removed *)
(* them, so that a restart finds the devices again (probe_targets.json).      *)
FileCurrent == \A d \in Dev : on[d] => file[d] = Targets(d)

=============================================================================

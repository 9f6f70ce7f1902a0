------------------------------ MODULE RelayLease ------------------------------
(***************************************************************************)
(* The lease table of the relay server (localtrans-relay lease.rs): a      *)
(* registered device holds a lease, that is a port of the pool and the     *)
(* token its packets carry. leases, port_map and token_map have a lock     *)
(* each: alloc holds all three, remove takes them one after the other, and *)
(* the reaper acts on a snapshot.                                          *)
(*                                                                         *)
(* Connections (RelayControl) and packets (RelaySession) appear here as    *)
(* callers: any device may register, ping, send or leave at any time.      *)
(***************************************************************************)
EXTENDS Integers, FiniteSets, FiniteSetsExt

CONSTANTS
  Device,       \* fingerprints
  None,         \* no fingerprint
  MaxPort,      \* the pool is 1 .. MaxPort
  MaxTokens     \* bound: tokens issued, that is registrations

ASSUME NoneAssumption == None \notin Device
ASSUME PoolAssumption == MaxPort \in Nat \ {0}
ASSUME BoundAssumption == MaxTokens \in Nat

Ports   == 1 .. MaxPort
Tokens  == 1 .. MaxTokens
NoLease == [port |-> 0, token |-> 0, fresh |-> FALSE]
Lease   == [port : Ports, token : Tokens, fresh : BOOLEAN]
Removal == [port : Ports, token : Tokens, step : {"port", "token"}, by : {"conn", "reaper"}]

VARIABLES
  leases,     \* fp -> entry; fresh: data or a ping within the ttl
  portMap,    \* port -> fp
  tokenMap,   \* token -> fp
  removing,   \* calls of remove that still have a map to clear
  reaping,    \* reap_expired: "sleep" or "leases", between its snapshot and its last removal
  todo,       \* what is left of its snapshot
  gone,       \* devices that lost power for good
  issued      \* tokens issued so far

vars == <<leases, portMap, tokenMap, removing, reaping, todo, gone, issued>>
reaper == <<reaping, todo>>

Init ==
  /\ leases = [d \in Device |-> NoLease]
  /\ portMap = [p \in Ports |-> None]
  /\ tokenMap = [t \in Tokens |-> None]
  /\ removing = {}
  /\ reaping = "sleep" /\ todo = {}
  /\ gone = {} /\ issued = 0

\* Ports no lease has. Session ports, of the same pool, are not looked at.
Free == {p \in Ports : portMap[p] = None}

\* A new lease takes the smallest free port; without one nothing changes.
AllocNew(d) ==
  /\ leases[d] = NoLease /\ Free # {}
  /\ LET p == Min(Free) IN
       /\ leases' = [leases EXCEPT ![d] = [port |-> p, token |-> issued', fresh |-> TRUE]]
       /\ portMap' = [portMap EXCEPT ![p] = d]
       /\ tokenMap' = [tokenMap EXCEPT ![issued'] = d]

AllocAgain_keepsOld(d) ==
  /\ leases[d] # NoLease
  /\ leases' = [leases EXCEPT ![d] = [port |-> @.port, token |-> issued', fresh |-> TRUE]]
  /\ tokenMap' = [tokenMap EXCEPT ![issued'] = d]
  /\ UNCHANGED portMap

\* A device that has a lease keeps its port and gets a new token for the old one.
AllocAgain(d) ==
  /\ leases[d] # NoLease
  /\ leases' = [leases EXCEPT ![d] = [port |-> @.port, token |-> issued', fresh |-> TRUE]]
  /\ tokenMap' = [tokenMap EXCEPT ![leases[d].token] = None, ![issued'] = d]
  /\ UNCHANGED portMap

\* alloc: under the three locks from beginning to end.
Alloc(d) ==
  /\ d \notin gone /\ issued < MaxTokens
  /\ issued' = issued + 1
  /\ AllocNew(d) \/ AllocAgain(d)
  /\ UNCHANGED <<removing, reaper, gone>>

Taken_atEnd(d, who) ==
  /\ leases[d] # NoLease
  /\ leases' = [leases EXCEPT ![d] = NoLease]
  /\ portMap' = [portMap EXCEPT ![leases[d].port] = None]
  /\ removing' = removing \cup {[port |-> leases[d].port, token |-> leases[d].token,
                                 step |-> "port", by |-> who]}
  /\ UNCHANGED tokenMap

\* remove, first section: the entry leaves the table with its port and token
\* still in the other two maps.
Taken(d, who) ==
  /\ leases[d] # NoLease
  /\ leases' = [leases EXCEPT ![d] = NoLease]
  /\ removing' = removing \cup {[port |-> leases[d].port, token |-> leases[d].token,
                                 step |-> "port", by |-> who]}
  /\ UNCHANGED <<portMap, tokenMap>>

\* remove called by a connection: Leave, a closed connection, an evicted one.
Remove(d) == Taken(d, "conn") /\ UNCHANGED <<reaper, gone, issued>>

RemovePort(r) ==
  /\ r.step = "port"
  /\ portMap' = [portMap EXCEPT ![r.port] = None]
  /\ removing' = (removing \ {r}) \cup {[r EXCEPT !.step = "token"]}
  /\ UNCHANGED <<leases, tokenMap, reaper, gone, issued>>

RemoveToken(r) ==
  /\ r.step = "token"
  /\ tokenMap' = [tokenMap EXCEPT ![r.token] = None]
  /\ removing' = removing \ {r}
  /\ UNCHANGED <<leases, portMap, reaper, gone, issued>>

Refreshed(d) ==
  leases' = IF leases[d] = NoLease THEN leases ELSE [leases EXCEPT ![d].fresh = TRUE]

\* heartbeat: a ping of the control connection refreshes the lease.
Heartbeat(d) ==
  /\ d \notin gone
  /\ Refreshed(d)
  /\ UNCHANGED <<portMap, tokenMap, removing, reaper, gone, issued>>

\* get_by_token: a packet of the token's device refreshes the lease it has now.
Packet(t) ==
  /\ tokenMap[t] # None /\ tokenMap[t] \notin gone
  /\ Refreshed(tokenMap[t])
  /\ UNCHANGED <<portMap, tokenMap, removing, reaper, gone, issued>>

\* The ttl goes by without data or a ping of d.
Ages(d) ==
  /\ leases[d].fresh
  /\ leases' = [leases EXCEPT ![d].fresh = FALSE]
  /\ UNCHANGED <<portMap, tokenMap, removing, reaper, gone, issued>>

PowerLost(d) ==
  /\ gone' = gone \cup {d}
  /\ UNCHANGED <<leases, portMap, tokenMap, removing, reaper, issued>>

Expired_noSilent == {d \in Device : leases[d] # NoLease /\ ~leases[d].fresh /\ d \notin gone}

Expired == {d \in Device : leases[d] # NoLease /\ ~leases[d].fresh}

\* reap_expired: the old leases are collected under the read lock ...
ReapRead ==
  /\ reaping = "sleep"
  /\ reaping' = "leases" /\ todo' = Expired
  /\ UNCHANGED <<leases, portMap, tokenMap, removing, gone, issued>>

\* ... and removed one call after the other when it is released.
ReapNext ==
  /\ reaping = "leases" /\ \A r \in removing : r.by # "reaper"
  /\ \/ \E d \in todo :
          /\ todo' = todo \ {d}
          /\ IF leases[d] = NoLease
               THEN UNCHANGED <<leases, portMap, tokenMap, removing>>
               ELSE Taken(d, "reaper")
          /\ UNCHANGED reaping
     \/ /\ todo = {} /\ reaping' = "sleep"
        /\ UNCHANGED <<leases, portMap, tokenMap, removing, todo>>
  /\ UNCHANGED <<gone, issued>>

Removes == \E r \in removing : RemovePort(r) \/ RemoveToken(r)
Reaps   == ReapRead \/ ReapNext

Next ==
  \/ \E d \in Device : Alloc(d) \/ Remove(d) \/ Heartbeat(d) \/ Ages(d) \/ PowerLost(d)
  \/ \E t \in Tokens : Packet(t)
  \/ Removes \/ Reaps

Spec == Init /\ [][Next]_vars

\* Time passes for a device that is gone, and a task that has begun an
\* operation goes on with it; nobody has to register, ping or send.
Fairness ==
  /\ \A d \in Device : WF_vars(d \in gone /\ Ages(d))
  /\ WF_vars(Removes) /\ WF_vars(Reaps)

FairSpec == Spec /\ Fairness

TypeOK ==
  /\ leases \in [Device -> Lease \cup {NoLease}]
  /\ portMap \in [Ports -> Device \cup {None}]
  /\ tokenMap \in [Tokens -> Device \cup {None}]
  /\ removing \subseteq Removal
  /\ reaping \in {"sleep", "leases"} /\ todo \subseteq Device
  /\ gone \subseteq Device /\ issued \in 0 .. MaxTokens

\* Once a device has registered again or its lease has been removed, its old
\* token opens nothing: every token in token_map is the one in its device's
\* lease, or its removal has not got to it yet (lease.rs alloc, remove).
TokensCurrent ==
  \A t \in Tokens : tokenMap[t] # None =>
    \/ leases[tokenMap[t]].token = t
    \/ \E r \in removing : r.token = t

\* No port of the pool leaks and none is given twice: port_map names the device
\* whose lease has the port, or the removal that will free it is under way, also
\* when the device registers again in the middle of the removal (lease.rs:124-134).
PortOwned ==
  /\ \A d \in Device : leases[d] # NoLease => portMap[leases[d].port] = d
  /\ \A p \in Ports : portMap[p] # None =>
       \/ leases[portMap[p]].port = p
       \/ \E r \in removing : r.port = p /\ r.step = "port"

\* A device that has lost power gives its port and its token back, without a
\* goodbye and whatever the others do (lease.rs:152-161).
GoneReclaimed ==
  \A d \in Device : d \in gone ~> (\A p \in Ports : portMap[p] # d) /\ (\A t \in Tokens : tokenMap[t] # d)
===============================================================================

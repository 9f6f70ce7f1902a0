---------------------------- MODULE RelayAdmission ----------------------------
(***************************************************************************)
(* Which control connections the relay server takes (localtrans-relay      *)
(* control.rs): a global slot reserved before the handshake, a slot of the *)
(* address after it, a block list of addresses that failed to prove the    *)
(* key, and the guard that gives the slots back. What an admitted          *)
(* connection does is in RelayControl.                                     *)
(***************************************************************************)
EXTENDS Integers, FiniteSets

CONSTANTS
  Ip,         \* addresses
  MaxCalls,   \* bound: connection attempts
  MaxActive,  \* MAX_CONNS
  PerIp,      \* MAX_CONNS_PER_IP
  AuthMax     \* auth_max_per_min

ConstantsOK ==
  /\ MaxCalls \in Nat /\ MaxActive \in Nat /\ PerIp \in Nat /\ AuthMax \in Nat

Calls == 1 .. MaxCalls
Counted == {"counted", "proved", "ended"}             \* holds a slot of its address
Holding == Counted \cup {"reserved", "releasedIp"}    \* holds a global slot

VARIABLES
  st,        \* each attempt's task
  ip,        \* and its address
  active,    \* active_conns
  ipConns,   \* ip_conns
  failures,  \* auth_failures: failures in the address's window
  blocked    \* blocked_ips that have not run out

avars == <<st, ip, active, ipConns, failures, blocked>>

AInit ==
  /\ st = [k \in Calls |-> "none"] /\ ip \in [Calls -> Ip]
  /\ active = 0 /\ ipConns = [i \in Ip |-> 0]
  /\ failures = [i \in Ip |-> 0] /\ blocked = {}

Goes(k, from, to) == st[k] = from /\ st' = [st EXCEPT ![k] = to]

\* The accept loop reserves a slot, and refuses at once when it is one too many.
Incoming(k) ==
  /\ IF active < MaxActive THEN Goes(k, "none", "reserved") /\ active' = active + 1
                           ELSE Goes(k, "none", "refused") /\ UNCHANGED active
  /\ UNCHANGED <<ip, ipConns, failures, blocked>>

HandshakeFails(k) ==
  /\ Goes(k, "reserved", "refused") /\ active' = active - 1
  /\ UNCHANGED <<ip, ipConns, failures, blocked>>

Handshake_noRollback(k) ==
  /\ IF ipConns[ip[k]] >= PerIp
       THEN Goes(k, "reserved", "refused") /\ UNCHANGED <<ipConns, active>>
       ELSE /\ Goes(k, "reserved", "counted") /\ UNCHANGED active
            /\ ipConns' = [ipConns EXCEPT ![ip[k]] = @ + 1]
  /\ UNCHANGED <<ip, failures, blocked>>

\* After the handshake the address is counted, or the reserved slot rolled back.
Handshake(k) ==
  /\ IF ipConns[ip[k]] >= PerIp
       THEN Goes(k, "reserved", "refused") /\ active' = active - 1 /\ UNCHANGED ipConns
       ELSE /\ Goes(k, "reserved", "counted") /\ UNCHANGED active
            /\ ipConns' = [ipConns EXCEPT ![ip[k]] = @ + 1]
  /\ UNCHANGED <<ip, failures, blocked>>

\* handle_conn: a blocked address is turned away before its proof is read.
TurnedAway(k) ==
  /\ ip[k] \in blocked /\ Goes(k, "counted", "ended")
  /\ UNCHANGED <<ip, active, ipConns, failures, blocked>>

Proved(k) ==
  /\ ip[k] \notin blocked /\ Goes(k, "counted", "proved")
  /\ UNCHANGED <<ip, active, ipConns, failures, blocked>>

ProofLate(k) ==  \* no proof, or no Register, within 10 s
  /\ st[k] \in {"counted", "proved"} /\ st' = [st EXCEPT ![k] = "ended"]
  /\ UNCHANGED <<ip, active, ipConns, failures, blocked>>

\* record_auth_failure, for a wrong proof and for a wrong Register: the failure
\* that reaches the limit blocks the address.
ProofFails(k) ==
  /\ st[k] \in {"counted", "proved"} /\ (st[k] = "counted" => ip[k] \notin blocked)
  /\ st' = [st EXCEPT ![k] = "ended"]
  /\ failures' = [failures EXCEPT ![ip[k]] = IF @ < AuthMax THEN @ + 1 ELSE @]
  /\ blocked' = IF failures'[ip[k]] >= AuthMax THEN blocked \cup {ip[k]} ELSE blocked
  /\ UNCHANGED <<ip, active, ipConns>>

\* The registered connection ends; then the guard: release, and drop.
Leaves(k) == Goes(k, "proved", "ended") /\ UNCHANGED <<ip, active, ipConns, failures, blocked>>

Release(k) ==
  /\ Goes(k, "ended", "releasedIp")
  /\ ipConns' = [ipConns EXCEPT ![ip[k]] = @ - 1]
  /\ UNCHANGED <<ip, active, failures, blocked>>

GuardDrop(k) ==
  /\ Goes(k, "releasedIp", "gone") /\ active' = active - 1
  /\ UNCHANGED <<ip, ipConns, failures, blocked>>

\* The 30 s tick forgets a block that has run out (10 min) and a window that has
\* (1 min): the block may outlive the window and the other way round.
Forget(i) ==
  /\ \/ blocked' = blocked \ {i} /\ UNCHANGED failures
     \/ failures' = [failures EXCEPT ![i] = 0] /\ UNCHANGED blocked
  /\ UNCHANGED <<st, ip, active, ipConns>>

Step(k) ==
  \/ HandshakeFails(k) \/ Handshake(k) \/ TurnedAway(k) \/ Proved(k) \/ ProofFails(k)
  \/ ProofLate(k) \/ Release(k) \/ GuardDrop(k)

ANext == (\E k \in Calls : Incoming(k) \/ Step(k) \/ Leaves(k)) \/ (\E i \in Ip : Forget(i))

ASpec == AInit /\ [][ANext]_avars

ATypeOK ==
  /\ st \in [Calls -> Holding \cup {"none", "refused", "gone"}] /\ ip \in [Calls -> Ip]
  /\ active \in 0 .. MaxActive /\ ipConns \in [Ip -> 0 .. PerIp]
  /\ failures \in [Ip -> 0 .. AuthMax] /\ blocked \subseteq Ip

Held        == {k \in Calls : st[k] \in Holding}
HeldFrom(i) == {k \in Calls : ip[k] = i /\ st[k] \in Counted}
CountsExact ==
  /\ active = Cardinality(Held)
  /\ \A i \in Ip : ipConns[i] = Cardinality(HeldFrom(i))

\* The counters that refuse connections count the tasks that run: no slot leaks
\* on any of the ways a connection ends and none is given back twice, so that
\* nobody is refused for ever (control.rs:48-97, 232-300).
SlotsExact == ATypeOK /\ CountsExact
===============================================================================

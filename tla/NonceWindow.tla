----------------------------- MODULE NonceWindow -----------------------------
(* The window in which discovery.rs recognises a packet it has had before   *)
(* (verify_and_parse, ReplayGuard): by the stamp of the sender's clock and a *)
(* nonce.  Clocks differ; packets are delayed and duplicated by the network. *)
EXTENDS Naturals, FiniteSets

CONSTANTS Packet,   \* packets that were sent
          Stamp,    \* [Packet -> the sender's time it carries]
          Skew,     \* CLOCK_SKEW_TOLERANCE_MS
          Room,     \* nonces kept (4096)
          Horizon   \* bound: the last moment looked at

VARIABLES now,      \* the receiver's clock
          nonces,   \* packets whose nonce is remembered
          taken     \* [Packet -> moments it was accepted at]

ASSUME WindowAssumption ==
  Stamp \in [Packet -> Nat] /\ Skew \in Nat /\ Room \in Nat

nvars == <<now, nonces, taken>>

NInit == now = 0 /\ nonces = {} /\ taken = [p \in Packet |-> {}]

InWindow(p) == now <= Stamp[p] + Skew /\ Stamp[p] <= now + Skew

(* what is older than the tolerance is dropped before a packet is looked up *)
Kept == {p \in nonces : Stamp[p] + Skew > now}

(* a full table takes nothing new, and forgets nothing for it *)
HasRoom(p) == Cardinality(Kept) < Room

Arrives(p) ==
  /\ InWindow(p)
  /\ nonces' = IF p \notin Kept /\ HasRoom(p) THEN Kept \cup {p} ELSE Kept
  /\ taken' = IF p \notin Kept /\ HasRoom(p) THEN [taken EXCEPT ![p] = @ \cup {now}] ELSE taken
  /\ nonces' # nonces \/ taken' # taken
  /\ now' = now

NPasses == now < Horizon /\ now' = now + 1 /\ UNCHANGED <<nonces, taken>>

NNext == NPasses \/ \E p \in Packet : Arrives(p)
NSpec == NInit /\ [][NNext]_nvars

------------------------------------------------------------------------------
NTypeOK == nonces \subseteq Packet /\ Cardinality(nonces) <= Room

(* A packet is acted on at one moment only, except that its nonce is given up *)
(* a moment before its stamp: at exactly the end of the window it counts as  *)
(* new once more (discovery.rs: last_ts > cutoff, now_diff > tolerance).     *)
TakenOnceInside ==
  \A p \in Packet : Cardinality(taken[p] \ {Stamp[p] + Skew}) <= 1

(* "The nonces are kept at least as long as the stamps are tolerated."       *)
(* The code does not keep this: see the README.                              *)
TakenOnce == \A p \in Packet : Cardinality(taken[p]) <= 1
=============================================================================

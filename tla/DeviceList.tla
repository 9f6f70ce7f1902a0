------------------------------ MODULE DeviceList ------------------------------
(* The list of devices the user sees (device_merge.rs): what discovery hears, *)
(* what the relay's roster holds and whom the user has paired with, as these  *)
(* come and go and time passes.  A device is known by its fingerprint; two    *)
(* devices may have the same name.                                            *)
EXTENDS Naturals, FiniteSets

CONSTANTS Id,        \* fingerprints
          Called,    \* [Id -> the name the device broadcasts]
          Alias,     \* [Id -> the user's name for it, or NoAlias]
          NoAlias,
          Keeps,     \* bound: steps discovery keeps a device
          Stale      \* bound: age from which a duplicate is hidden (24 hours)

VARIABLES nearby,    \* discovery's table: [Id -> steps since it was heard, Stale + 1 for none]
          roster,    \* Ids in the relay's roster
          connected, \* Ids with a session
          paired     \* trust store: [Id -> age of the pairing, Stale + 1 for none]
lvars == <<nearby, roster, connected, paired>>

Never   == Stale + 1
Local   == {i \in Id : nearby[i] # Never}
Trusted == {i \in Id : paired[i] # Never}

LInit ==
  /\ nearby = [i \in Id |-> Never] /\ paired = [i \in Id |-> Never]
  /\ roster = {} /\ connected = {}

Older(f) == [i \in Id |-> IF f[i] >= Stale THEN f[i] ELSE f[i] + 1]
(* discovery drops what it has not heard of, and publishes its table *)
Heard_of(f) == [i \in Id |-> IF f[i] + 1 >= Keeps THEN Never ELSE f[i] + 1]

Heard(i)   == nearby' = [nearby EXCEPT ![i] = 0] /\ UNCHANGED <<roster, connected, paired>>
Roster     == \E r \in SUBSET Id : roster' = r /\ UNCHANGED <<nearby, connected, paired>>
Session(i) == /\ connected' = IF i \in connected THEN connected \ {i} ELSE connected \cup {i}
              /\ UNCHANGED <<nearby, roster, paired>>
Pairs(i)   == paired[i] = Never /\ i \in connected /\ paired' = [paired EXCEPT ![i] = 0]
              /\ UNCHANGED <<nearby, roster, connected>>
Forget(i)  == paired[i] # Never /\ paired' = [paired EXCEPT ![i] = Never]
              /\ connected' = connected \ {i} /\ UNCHANGED <<nearby, roster>>
LPasses    == nearby' = Heard_of(nearby) /\ paired' = Older(paired) /\ UNCHANGED <<roster, connected>>

LNext == LPasses \/ Roster
         \/ \E i \in Id : Heard(i) \/ Session(i) \/ Pairs(i) \/ Forget(i)
LSpec == LInit /\ [][LNext]_lvars

------------------------------------------------------------------------------
(* merge_devices *)

(* discovery first, then the roster, then whom the user has paired with *)
Source(i) == CASE i \in Local -> "local" [] i \in roster -> "relay" [] OTHER -> "trust"
Merged == Local \cup roster \cup Trusted
Name(i) == IF Alias[i] # NoAlias THEN Alias[i] ELSE Called[i]
Online(i) == Source(i) \in {"local", "relay"}
Age(i) == IF Source(i) = "local" THEN nearby[i] ELSE paired[i]

(* an old offline entry gives way to another one of its name *)
Hidden(i) ==
  /\ i \in Merged /\ ~Online(i)
  /\ \E o \in Merged \ {i} : Name(o) = Name(i)
  /\ Age(i) = Stale
Shown == {i \in Merged : ~Hidden(i)}

------------------------------------------------------------------------------
(* A paired device whose name nobody else has is always in the list, however *)
(* long it has been away (device_merge.rs: the card of a paired device stays). *)
PairedShown ==
  \A i \in Trusted : (\A o \in Merged \ {i} : Name(o) # Name(i)) => i \in Shown

(* A device that can be reached is in the list once, with the address of the *)
(* local network if there is one (device_merge.rs: local first).             *)
ReachableShown == \A i \in Local \cup roster : Online(i) => i \in Shown

=============================================================================

----------------------------- MODULE ShareWatch -----------------------------
(* The watcher of the shared folders (share_watch.rs): it compares the      *)
(* fingerprint of every folder with the one it saw last, tells the peers    *)
(* about a change, and looks less often while nothing changes.              *)
EXTENDS Naturals, FiniteSets

CONSTANTS Share,    \* ids of shared folders
          Revisions  \* bound: contents a folder takes
ASSUME ShareAssumption == IsFiniteSet(Share) /\ Revisions \in Nat

VARIABLES registered,  \* ids in the registry
          content,     \* [Share -> version of the folder's root]
          defs, scan,  \* the registry's list and the fingerprints of this round
          base,        \* last: [Share -> version seen last, 0 for none]
          idle,        \* idle_rounds, up to the shift it is capped at
          told         \* SharesChanged sent, by share
wvars == <<registered, content, defs, scan, base, idle, told>>

WInit ==
  /\ registered \in SUBSET Share
  /\ content = [s \in Share |-> 1]
  /\ defs = {} /\ scan = [s \in Share |-> 0]
  /\ base = [s \in Share |-> 0]
  /\ idle = 0 /\ told = [s \in Share |-> 0]

Change(s) ==
  /\ content[s] < Revisions
  /\ content' = [content EXCEPT ![s] = @ + 1]
  /\ UNCHANGED <<registered, defs, scan, base, idle, told>>

(* share_add, share_remove: an id is never given twice *)
Add(s) ==
  /\ s \notin registered /\ base[s] = 0 /\ scan[s] = 0
  /\ registered' = registered \cup {s}
  /\ UNCHANGED <<content, defs, scan, base, idle, told>>

Remove(s) ==
  /\ s \in registered
  /\ registered' = registered \ {s}
  /\ UNCHANGED <<content, defs, scan, base, idle, told>>

(* the tick: the list is taken, the folders are read on another thread *)
Tick ==
  /\ defs = {} /\ registered # {}
  /\ defs' = registered
  /\ scan' = [s \in Share |-> IF s \in registered THEN content[s] ELSE 0]
  /\ UNCHANGED <<registered, content, base, idle, told>>

(* what was seen is kept before it is compared *)
Changed == {s \in defs : base[s] # 0 /\ base[s] # scan[s]}

(* baselines of shares that are gone are dropped once there are too many *)
Kept == [s \in Share |-> IF s \in defs THEN scan[s] ELSE base[s]]
(* counted before this round's are added *)
Known_before == {s \in Share : base[s] # 0}
Known == {s \in Share : Kept[s] # 0}

Compare ==
  /\ defs # {}
  /\ told' = [s \in Share |-> IF s \in Changed THEN scan[s] ELSE told[s]]
  /\ base' = IF Cardinality(Known) > Cardinality(defs)
             THEN [s \in Share |-> IF s \in defs THEN Kept[s] ELSE 0]
             ELSE Kept
  /\ idle' = IF Changed # {} THEN 0 ELSE IF idle = 4 THEN 4 ELSE idle + 1
  /\ defs' = {}
  /\ UNCHANGED <<registered, content, scan>>

(* a round that finds nothing shared reads nothing and drops every baseline *)
EmptyRound ==
  /\ defs = {} /\ registered = {}
  /\ scan' = [s \in Share |-> 0] /\ base' = [s \in Share |-> 0]
  /\ idle' = IF idle = 4 THEN 4 ELSE idle + 1
  /\ UNCHANGED <<registered, content, defs, told>>

WNext == Tick \/ Compare \/ EmptyRound \/ \E s \in Share : Change(s) \/ Add(s) \/ Remove(s)

WSpec == WInit /\ [][WNext]_wvars

------------------------------------------------------------------------------
(* The fingerprint a folder is known by never changes without the peers      *)
(* having been told of the one it changes to; a shared folder's browser is   *)
(* otherwise out of date for good (share_watch.rs: on_change).               *)
NeverSilently ==
  [][\A s \in Share : base[s] # 0 /\ base'[s] \notin {0, base[s]} => told'[s] = base'[s]]_wvars

(* A share that is gone has no baseline after a round in which it was absent,*)
(* also when another share came in its place (share_watch.rs: last.retain).  *)
NoOldBaseline ==
  [][defs # {} /\ defs' = {} => \A s \in Share \ defs : base'[s] = 0]_wvars

(* No change is kept silent, and a share that went leaves no baseline        *)
(* (share_watch.rs).                                                         *)
WatchSound == NeverSilently /\ NoOldBaseline
=============================================================================

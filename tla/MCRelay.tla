-------------------------------- MODULE MCRelay --------------------------------
(***************************************************************************)
(* One run for the relay and for those who depend on it: its leases, the   *)
(* admission of connections, punching, the shells' client of it and the    *)
(* loops that reconnect.  They share no state in the model, so that a run  *)
(* takes one of them: `which` says which one steps, the others stay as     *)
(* they begin.                                                             *)
(***************************************************************************)
EXTENDS RelayLease, RelayAdmission, RelayPunch, RelayShell

VARIABLES
  which,
  \* Reconnect
  table, made, conns, up, down, events, pump, badge, trusted, remembered, seen, starting, cmd,
  removal, reg, loop, fails, gaveUp, absent, healing, swallowed, vanished

bvars == <<table, made, conns, up, down, events, pump, badge, trusted, remembered, seen, starting,
           cmd, removal, reg, loop, fails, gaveUp, absent, healing, swallowed, vanished>>

R == INSTANCE Reconnect WITH MaxConns <- 1, MaxFails <- 1, MaxHeals <- 1, pc <- loop, live <- conns

ASSUME ConstantsOK /\ R!ConstantsOK

MCInit ==
  /\ which \in {"lease", "admission", "punch", "client", "reconnect"}
  /\ Init /\ AInit /\ CInit /\ RInit /\ R!Init
  /\ which # "admission" => ip \in [1 .. 3 -> {CHOOSE i \in Ip : TRUE}]
  /\ ~hidden \* the two values of the flag are alike
  /\ which # "client" => ~phone /\ ~enabled
  /\ which # "reconnect" => trusted /\ remembered

MCNext ==
  /\ UNCHANGED which
  /\ \/ which = "lease" /\ Next /\ UNCHANGED <<avars, cvars, rvars, bvars>>
     \/ which = "admission" /\ ANext /\ UNCHANGED <<vars, cvars, rvars, bvars>>
     \/ which = "punch" /\ CNext /\ UNCHANGED <<vars, avars, rvars, bvars>>
     \/ which = "client" /\ RNext /\ UNCHANGED <<vars, avars, cvars, bvars>>
     \/ which = "reconnect" /\ R!Next /\ UNCHANGED <<vars, avars, cvars, rvars>>

\* The fairness of each module, for the machine that steps.
MCFairness ==
  /\ \A d \in Device : WF_vars(which = "lease" /\ d \in gone /\ Ages(d))
  /\ WF_vars(which = "lease" /\ Removes) /\ WF_vars(which = "lease" /\ Reaps)
  /\ WF_cvars(which = "punch" /\ Timeout)
  /\ \A c \in Client : WF_rvars(which = "client" /\ Steps(c))
  /\ \A c \in Client : WF_rvars(which = "client" /\ Task(c))
  /\ WF_bvars(which = "reconnect" /\ R!Loops)
  /\ WF_bvars(which = "reconnect" /\ \E c \in R!Conns : R!UpSent(c))

MCSpec == MCInit /\ [][MCNext]_<<which, vars, avars, cvars, rvars, bvars>> /\ MCFairness

\* A device that lost power gives everything back (RelayLease), every call of
\* connect_peer ends (RelayPunch), with the relay enabled there is a client in
\* the end (RelayShell), and the loop of a device whose trust went is over
\* (Reconnect; reconnect.rs:87).
RelayLive == GoneReclaimed /\ CallsEnd /\ Connects /\ R!RemovedStops
================================================================================

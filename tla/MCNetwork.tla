------------------------------- MODULE MCNetwork -------------------------------
(***************************************************************************)
(* One run for how a device finds others and stays in touch with them:     *)
(* discovery and its nonce window, the list of devices, the measured       *)
(* channels, the loops that reconnect and the relay's session ports.  They *)
(* share no state here, so a run takes one of them: `which` says which one *)
(* steps, the others stay as they begin.                                   *)
(***************************************************************************)
EXTENDS Contact, RelaySession

VARIABLE which

(* Two devices that hear each other's broadcasts; the stamps of the packets; *)
(* three devices, two of them of one name.                                   *)
MCSegment == {{"a", "b"}}
MCStamp   == <<2, 3, 5>>
MCCalled  == <<"m", "m", "n">>
MCAlias   == <<"-", "-", "-">>

(* The relay addresses differ in little but their number, so that the first *)
(* one to lead to the peer is the first of them. A transfer only delays      *)
(* steps that may be late anyway: it begins or ends before the first session.*)
Met == {a \in Relays : current = a \/ \E u \in ups : u.to = a}
InTurn ==
  /\ \A a \in Relays : session'.gen > session.gen /\ session'.to = a => a \in Met \/ \A b \in Relays \ Met : a <= b
  /\ gen > 0 => UNCHANGED busy

ASSUME ConstantsOK

MCInit ==
  /\ which \in {"discovery", "nonces", "list", "routing", "reconnect", "ports"}
  /\ DInit /\ NInit /\ LInit /\ OInit /\ Init /\ PInit
  /\ which # "routing" => ~busy /\ ~relayUp
  /\ which # "reconnect" => trusted /\ remembered

MCNext ==
  /\ UNCHANGED which
  /\ \/ which = "discovery" /\ DNext /\ UNCHANGED <<nvars, lvars, ovars, vars, pvars>>
     \/ which = "nonces" /\ NNext /\ UNCHANGED <<dvars, lvars, ovars, vars, pvars>>
     \/ which = "list" /\ LNext /\ UNCHANGED <<dvars, nvars, ovars, vars, pvars>>
     \/ which = "reconnect" /\ Next /\ UNCHANGED <<dvars, nvars, lvars, ovars, pvars>>
     \/ which = "ports" /\ PNext /\ UNCHANGED <<dvars, nvars, lvars, ovars, vars>>
     \/ /\ which = "routing" /\ ONext /\ UNCHANGED <<dvars, nvars, lvars, vars, pvars>>
        /\ InTurn

MCSpec == MCInit /\ [][MCNext]_<<which, dvars, nvars, lvars, ovars, vars, pvars>>
================================================================================

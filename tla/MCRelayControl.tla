---------------------------- MODULE MCRelayControl ----------------------------
(***************************************************************************)
(* Two settings of RelayControl in one run: two devices, one of which quits*)
(* on a network that loses nothing, and one device on a network that drops *)
(* a connection.  With two connections, devices meet only if each dials    *)
(* once and proves its key; the first to dial may take its time for that.  *)
(* What a device does that dials again is in the second setting, and so    *)
(* are sessions through the relay, and what comes between the entry of a   *)
(* connection and its answer, or the end of one and its entry's.           *)
(***************************************************************************)
EXTENDS RelayControl

VARIABLE which

Only == CHOOSE d \in Quitters : TRUE

MCInit == which \in {"quits", "drops"} /\ Init

Met(k) == conn'[k].dev \subseteq (IF k = 1 THEN {Only} ELSE Device \ {Only})

AtOnce ==
  /\ \A k \in Conns : conn[k].task = "entered" => conn'[k].task # "entered"
  /\ \A x \in evicting : x.next = "entry" => x \notin evicting'

MCNext ==
  /\ Next /\ UNCHANGED which
  /\ which = "quits" => /\ lost' = 0 /\ talking' = {} /\ AtOnce
                        /\ \A k \in Conns : Met(k) /\ ~(conn[k].task = "auth" /\ conn'[k].task = "ended")
  /\ which = "drops" => \A d \in Device \ {Only} : dial'[d] = 0

MCSpec == MCInit /\ [][MCNext]_<<which, vars>> /\ Fairness
================================================================================

------------------------------- MODULE Contact -------------------------------
(* How a device comes to know others and stays in touch: the discovery       *)
(* service, the window by which it drops repeated packets, the list of       *)
(* devices the user sees, the channels to a peer and the loops that          *)
(* reconnect.                                                                *)
EXTENDS Discovery, NonceWindow, DeviceList, Routing, Reconnect

(* Whom a device knows: the file holds the targets of a running service, so  *)
(* that a restart finds the devices again (discovery.rs, probe_targets.json);*)
(* a packet is acted on at one moment inside the window (ReplayGuard); and a *)
(* paired device whose name nobody else has, and every device that can be    *)
(* reached, is shown (device_merge.rs).                                      *)
DevicesKnown ==
  /\ DTypeOK /\ FileCurrent
  /\ NTypeOK /\ TakenOnceInside
  /\ PairedShown /\ ReachableShown

(* Nobody is tried over and over for one reason: the scheduler moves a       *)
(* session for delays measured since the last move (Routing), and a loop     *)
(* that gave up leaves the device in peace until it comes back (Reconnect).  *)
TriesPaced == [][MovesPaced]_ovars /\ QuietAfterGiveUp
=============================================================================

-------------------------------- MODULE OnDisk --------------------------------
(* What stays on disk: the directories of unfinished pulls (PartStore), the  *)
(* desktop shell's table of cards (TableFile) and what the mobile shell      *)
(* keeps of received jobs (MobileStore).                                     *)
EXTENDS PartStore, TableFile, MobileStore

(* The desktop's file catches up with its table (main.rs, the saver); on the *)
(* phone an open card is at work and files are reported in the folder that   *)
(* was asked for (lib.rs, transfer_state.rs); a bitmap claims only what is   *)
(* there, whatever happens to sources and directories (engine.rs,            *)
(* PartWriter).                                                              *)
TablesSound ==
  /\ FileCurrent
  /\ STypeOK /\ OpenAtWork /\ AskedReported
  /\ PartsSound

(* A start shows every directory (rebuild_cards), hidden cards stay hidden,  *)
(* and what is hidden is recorded as such (lib.rs); a pull that ends by an   *)
(* error leaves its bitmap, and a landed file is replaced only if all names  *)
(* are taken or its own was chosen before it landed (engine.rs:259-262).     *)
RestartKeeps == DirsShown /\ HiddenStays /\ RemovedRecorded /\ PartsKept
===============================================================================

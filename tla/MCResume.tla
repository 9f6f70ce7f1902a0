------------------------------- MODULE MCResume -------------------------------
(***************************************************************************)
(* One run for what stands after an interruption: the pipeline of a pull   *)
(* and its resumption, the directories of a series of pulls with every     *)
(* content and a name that is taken, operations on a remote folder whose   *)
(* session is lost, and the watcher of shares.  They share no state here,  *)
(* so a run takes one of them: `which` says which one steps, the others    *)
(* stay as they begin.                                                     *)
(***************************************************************************)
EXTENDS FetchPipeline, PartStore, RemoteOps, ShareWatch

MCSize == [f \in Files |-> CASE f = "long" -> 2 [] f = "short" -> 1 [] f = "empty" -> 0]

(* Operations that meet in one folder of three names: two deletions, a       *)
(* renaming of what is deleted, a listing or a walk while a folder is made,  *)
(* and questions beside a renaming.                                          *)
On(kind, path, new) == [kind |-> kind, path |-> path, new |-> new]
MCOp == <<On("delete", 1, 1), On("rename", 2, 3), On("list", 1, 1), On("walk", 1, 1),
          On("delete", 2, 1), On("mkdir", 3, 1), On("meta", 3, 1), On("shares", 3, 1)>>

ASSUME ConstantsOK /\ Gentle

VARIABLE which

MCInit ==
  /\ which \in {"pull", "store", "remote", "shares"}
  /\ Init /\ PInit /\ RInit /\ WInit
  /\ which # "shares" => registered = {}

MCNext ==
  /\ UNCHANGED which
  /\ \/ which = "pull" /\ Next /\ UNCHANGED <<pvars, rvars, wvars>>
     \/ which = "store" /\ PNext /\ UNCHANGED <<vars, rvars, wvars>>
     \/ which = "remote" /\ RNext /\ UNCHANGED <<vars, pvars, wvars>>
     \/ which = "shares" /\ WNext /\ UNCHANGED <<vars, pvars, rvars>>

MCSpec == MCInit /\ [][MCNext]_<<which, vars, pvars, rvars, wvars>>
===============================================================================

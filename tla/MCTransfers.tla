----------------------------- MODULE MCTransfers -----------------------------
(***************************************************************************)
(* One run for the safety of what handles files: the window of a pull      *)
(* (three chunks on two streams, pauses, cancels and throttling), the cards*)
(* of batches, the tables on disk of both shells, directories whose names  *)
(* are used again and that are removed under a pull, and pushed files that *)
(* land beside pulls.  They share no state here, so a run takes one of     *)
(* them: `which` says which one steps, the others stay as they begin.      *)
(***************************************************************************)
EXTENDS FetchPipeline, OnDisk, BatchCards

(* Three pulls of two contents; one card of the desktop and its directory,  *)
(* with no room for history; two jobs that are pushed to a phone, one of    *)
(* them accepted by the policy.                                             *)
MCSize == [long |-> 2, short |-> 1]

(* A batch with a small and two large files, the push of a large one, a     *)
(* download of two files, a folder with two, the retry of one of the batch.*)
MCKind   == <<"batch", "single", "pull", "dir", "retry">>
MCSmall  == <<<<"s">>, <<>>, <<"x", "y">>, <<"x", "y">>, <<"s">>>>
MCLarge  == <<<<"L", "M">>, <<"N">>, <<>>, <<>>, <<"M">>>>
MCCardOf == <<1, 2, 3, 4, 1>>

VARIABLE which

(* Transfers are alike until they start: they start in the order of their   *)
(* numbers.                                                                 *)
InOrder == \A p \in Ids \ {1} : pull[p].st # "none" => pull[p - 1].st # "none"

Pushes == {p \in Ids : pull[p].st # "none" /\ pull[p].peer = Hole}

(* What pulls and pushes do by themselves.                                  *)
Writing ==
  \/ \E p \in Ids, q \in Peers, f \in Files : Start(p, q, f) \/ Push(p, q, f)
  \/ \E p \in Ids, c \in Offsets : WriteChunk(p, c)
  \/ \E p \in Ids : Abort(p) \/ Cancel(p) \/ FinPrepare(p) \/ FinRename(p) \/ FinClean(p)

ASSUME ConstantsOK

mcvars == <<which, vars, bvars, tvars, svars, pvars>>

MCInit ==
  /\ which \in {"window", "batch", "table", "store", "dirs", "beside"}
  /\ Init /\ BInit /\ TInit /\ SInit /\ PInit

MCNext ==
  /\ UNCHANGED which
  /\ \/ which = "window" /\ Next /\ UNCHANGED <<bvars, tvars, svars, pvars>>
     \/ which = "batch" /\ BNext /\ UNCHANGED <<vars, tvars, svars, pvars>>
     \/ which = "table" /\ TNext /\ UNCHANGED <<vars, bvars, svars, pvars>>
     \/ which = "store" /\ SNext /\ UNCHANGED <<vars, bvars, tvars, pvars>>
     \/ which = "dirs" /\ PNext /\ InOrder' /\ Pushes' = {} /\ UNCHANGED <<vars, bvars, tvars, svars>>
     \/ which = "beside" /\ Writing /\ InOrder' /\ UNCHANGED <<vars, bvars, tvars, svars>>

MCSpec == MCInit /\ [][MCNext]_mcvars
==============================================================================

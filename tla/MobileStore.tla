------------------------------ MODULE MobileStore ------------------------------
(***************************************************************************)
(* What the mobile shell keeps of received jobs: cards in memory, their    *)
(* index transfers.json written once a second, the parts directories on    *)
(* disk, and the folder reported to the user interface for saved files.    *)
(* The receiving folder can be changed at any time; a job lands in the     *)
(* folder of the moment it was accepted, or in the configured download     *)
(* folder when the policy accepted it. Cards of MobileCards, without the   *)
(* placeholders and with one file per job: pending, paused and active are  *)
(* one state here, "open".                                                 *)
(***************************************************************************)
EXTENDS Integers, FiniteSets

CONSTANTS
  Job,       \* jobs other devices push
  Inboxes,   \* folders the user chooses to receive in
  Down,      \* config.download_dir
  Private,   \* the application's own folder, the inbox until one is set
  Nowhere,
  ByPolicy,      \* jobs that the push policy accepts without asking
  History,   \* finished cards transfers.json holds, 150 in the code
  Reopens,   \* bound: restarts of the application
  Wishes     \* bound: commands of the user

ASSUME StoreAssumption ==
  /\ Nowhere \notin Inboxes \cup {Down, Private} /\ ByPolicy \subseteq Job
  /\ History \in Nat /\ Reopens \in Nat /\ Wishes \in Nat

Root == Inboxes \cup {Down, Private}

VARIABLES
  appUp, inboxDir,
  card,      \* the table: "none", "open", "cancelling", "done", "failed", "interrupted"
  hidden,    \* removed from view
  run,       \* the engine's work on each job
  root,      \* the folder the engine lands the job in
  acc,       \* saved_files: the folder reported with the job's files, Nowhere without one
  saved,     \* FilesSaved events: job and folder
  partsIn,   \* folder that holds the job's parts directory
  full,      \* jobs whose bitmap is complete
  unsaved,
  index,     \* transfers.json: a state for each recorded job, and the removed mark
  reopened, wishes

memory == <<card, hidden, acc, unsaved>>
stored == <<partsIn, full>>
svars  == <<appUp, inboxDir, memory, run, root, saved, stored, index, reopened, wishes>>

Settled == {"done", "failed", "interrupted"}
OpenStates == {"open", "cancelling"}

SInit ==
  /\ appUp = TRUE /\ inboxDir = Private
  /\ card = [j \in Job |-> "none"] /\ hidden = {} /\ acc = [j \in Job |-> Nowhere] /\ unsaved = FALSE
  /\ run = [j \in Job |-> "none"] /\ root = [j \in Job |-> Nowhere] /\ saved = {}
  /\ partsIn = [j \in Job |-> Nowhere] /\ full = {}
  /\ index = [st |-> [j \in Job |-> "none"], removed |-> {}]
  /\ reopened = 0 /\ wishes = 0

(***************************************************************************)
(* A job.                                                                  *)
(***************************************************************************)

\* respond_offer: the folder sent to the engine is pinned for the report.
AcceptRoot(j) ==
  /\ root' = [root EXCEPT ![j] = inboxDir] /\ acc' = [acc EXCEPT ![j] = inboxDir]

Accept(j) ==
  /\ appUp /\ run[j] = "none" /\ j \notin ByPolicy
  /\ AcceptRoot(j) /\ run' = [run EXCEPT ![j] = "accepted"]
  /\ UNCHANGED <<appUp, inboxDir, card, hidden, unsaved, saved, stored, index, reopened, wishes>>

\* The policy accepts: no folder is named, the engine takes its default.
AutoAccept(j) ==
  /\ appUp /\ run[j] = "none" /\ j \in ByPolicy
  /\ root' = [root EXCEPT ![j] = Down] /\ run' = [run EXCEPT ![j] = "accepted"]
  /\ UNCHANGED <<appUp, inboxDir, memory, saved, stored, index, reopened, wishes>>

\* Started: a card, a parts directory, and a folder for the report if none is
\* pinned.
JobStarted(j) ==
  /\ appUp /\ run[j] = "accepted" /\ run' = [run EXCEPT ![j] = "run"]
  /\ partsIn' = [partsIn EXCEPT ![j] = root[j]]
  /\ card' = [card EXCEPT ![j] = "open"] /\ hidden' = hidden \ {j} /\ unsaved' = TRUE
  /\ acc' = [acc EXCEPT ![j] = IF @ = Nowhere THEN inboxDir ELSE @]
  /\ UNCHANGED <<appUp, inboxDir, root, saved, full, index, reopened, wishes>>

\* The last chunk has landed; verification and finalisation follow.
LastLanded(j) ==
  /\ appUp /\ run[j] = "run" /\ j \notin full /\ partsIn[j] # Nowhere
  /\ full' = full \cup {j}
  /\ UNCHANGED <<appUp, inboxDir, memory, run, root, saved, partsIn, index, reopened, wishes>>

(* finalize_remove.                                                        *)
RowGone(j) ==
  /\ card' = [card EXCEPT ![j] = "none"] /\ hidden' = hidden \ {j}
  /\ acc' = [acc EXCEPT ![j] = Nowhere] /\ unsaved' = TRUE

Settles(j, to) ==
  IF card[j] = "cancelling" THEN RowGone(j)
  ELSE /\ card' = [card EXCEPT ![j] = IF @ = "open" THEN to ELSE @]
       /\ unsaved' = TRUE /\ UNCHANGED hidden
       /\ acc' = IF to = "failed" /\ card[j] = "open" THEN [acc EXCEPT ![j] = Nowhere] ELSE acc

\* Done: the file is in its folder, the directory gone, and the shell reports
\* the file under the folder it has pinned.
Done(j) ==
  /\ appUp /\ run[j] = "run" /\ j \in full /\ partsIn[j] # Nowhere
  /\ run' = [run EXCEPT ![j] = "over"]
  /\ partsIn' = [partsIn EXCEPT ![j] = Nowhere] /\ full' = full \ {j}
  /\ saved' = IF card[j] = "open" /\ acc[j] # Nowhere THEN saved \cup {<<j, acc[j]>>} ELSE saved
  /\ Settles(j, "done")
  /\ UNCHANGED <<appUp, inboxDir, root, index, reopened, wishes>>

Failed(j) ==
  /\ appUp /\ run[j] \in {"accepted", "run"}
  /\ run' = [run EXCEPT ![j] = "over"] /\ Settles(j, "failed")
  /\ UNCHANGED <<appUp, inboxDir, root, saved, stored, index, reopened, wishes>>

(***************************************************************************)
(* The user.                                                               *)
(***************************************************************************)

Wish == appUp /\ wishes < Wishes /\ wishes' = wishes + 1
Unmoved == <<appUp, run, root, saved, index, reopened>>

CancelJob(j) ==
  /\ Wish /\ card[j] = "open" /\ card' = [card EXCEPT ![j] = "cancelling"] /\ unsaved' = TRUE
  /\ UNCHANGED <<Unmoved, inboxDir, hidden, acc, stored>>

\* Five seconds without an answer of the engine; the parts stay.
CancelTimeout(j) ==
  /\ appUp /\ card[j] = "cancelling" /\ RowGone(j)
  /\ UNCHANGED <<Unmoved, inboxDir, stored, wishes>>

Hide(j) ==
  /\ Wish /\ card[j] \in Settled /\ j \notin hidden
  /\ hidden' = hidden \cup {j} /\ unsaved' = TRUE /\ UNCHANGED <<Unmoved, inboxDir, card, acc, stored>>

\* parts_roots: the folders that are looked at.
Roots == {inboxDir, Down, Private}

(* orphan_card_dto: the card of a directory.                               *)
Orphan(j) == IF j \in full THEN "failed" ELSE "interrupted"

\* restore_disk_job: back in view, or a card for a directory without one.
RestoreJob(j) ==
  /\ Wish
  /\ \/ j \in hidden /\ UNCHANGED card
     \/ card[j] = "none" /\ partsIn[j] \in Roots /\ card' = [card EXCEPT ![j] = Orphan(j)]
  /\ hidden' = hidden \ {j} /\ unsaved' = TRUE /\ UNCHANGED <<Unmoved, inboxDir, acc, stored>>

\* destroy_disk_job and level "destroy": the row, if there is one, and the
\* directory in every folder that is looked at.
DestroyJob(j) ==
  /\ Wish /\ (card[j] # "none" \/ partsIn[j] \in Roots)
  /\ RowGone(j)
  /\ partsIn' = [partsIn EXCEPT ![j] = IF @ \in Roots THEN Nowhere ELSE @]
  /\ full' = IF partsIn[j] \in Roots THEN full \ {j} ELSE full
  /\ UNCHANGED <<Unmoved, inboxDir>>

(* gc_stale_parts: directories with a complete bitmap.                     *)
Collected(r) == {j \in full : partsIn[j] = r}

\* set_inbox_dir: cards for the directories found there, then the collection.
SetInbox(r) ==
  /\ Wish /\ r \in Inboxes /\ inboxDir' = r
  /\ card' = [j \in Job |-> IF card[j] = "none" /\ partsIn[j] = r THEN Orphan(j) ELSE card[j]]
  /\ partsIn' = [j \in Job |-> IF j \in Collected(r) THEN Nowhere ELSE partsIn[j]]
  /\ full' = full \ Collected(r) /\ unsaved' = TRUE
  /\ UNCHANGED <<Unmoved, hidden, acc>>

(***************************************************************************)
(* Persistence.                                                            *)
(***************************************************************************)

Counted_hidden == {j \in Job : card[j] \in {"done", "failed"}}

\* collect_persist_list: everything but finished cards in view, of which some
\* History are taken, in the order of the table.
Counted == {j \in Job : card[j] \in {"done", "failed"} /\ j \notin hidden}
Enough(keep) == Cardinality(keep) = IF Cardinality(Counted) < History THEN Cardinality(Counted) ELSE History
Record(keep) == [st |-> [j \in Job |-> IF j \in Counted \ keep THEN "none" ELSE card[j]], removed |-> hidden]

Persist ==
  /\ appUp /\ unsaved /\ unsaved' = FALSE
  /\ \E keep \in SUBSET Counted : Enough(keep) /\ index' = Record(keep)
  /\ UNCHANGED <<appUp, inboxDir, card, hidden, acc, run, root, saved, stored, reopened, wishes>>

Crash ==
  /\ appUp /\ reopened < Reopens /\ appUp' = FALSE
  /\ card' = [j \in Job |-> "none"] /\ hidden' = {} /\ acc' = [j \in Job |-> Nowhere] /\ unsaved' = FALSE
  /\ run' = [j \in Job |-> IF run[j] \in {"accepted", "run"} THEN "over" ELSE run[j]]
  /\ UNCHANGED <<inboxDir, root, saved, stored, index, reopened, wishes>>

\* migrate_records_on_startup: a record that was open is interrupted, and is
\* dropped when no directory is found for it.
Migrated(j) ==
  IF index.st[j] \in OpenStates
    THEN IF partsIn[j] \in {Down, Private} THEN "interrupted" ELSE "none"
    ELSE index.st[j]

\* The removed mark of the index goes to the card of the directory, too.
MarkedAgain(c, found) == {j \in index.removed : c[j] # "none"}

\* rebuild_cards: directories first, then the index, then the collection. The
\* inbox is not known yet.
Reopen ==
  LET found == {j \in Job : partsIn[j] \in {Down, Private}}
      c     == [j \in Job |-> IF j \in found THEN Orphan(j) ELSE Migrated(j)]
  IN /\ ~appUp /\ appUp' = TRUE /\ reopened' = reopened + 1 /\ inboxDir' = Private
     /\ card' = c /\ hidden' = MarkedAgain(c, found) /\ unsaved' = TRUE
     /\ partsIn' = [j \in Job |-> IF j \in found \cap full THEN Nowhere ELSE partsIn[j]]
     /\ full' = full \ found
     /\ UNCHANGED <<acc, run, root, saved, index, wishes>>

SNext ==
  \/ \E j \in Job : Accept(j) \/ AutoAccept(j) \/ JobStarted(j) \/ LastLanded(j) \/ Done(j) \/ Failed(j)
  \/ \E j \in Job : CancelJob(j) \/ CancelTimeout(j) \/ Hide(j) \/ RestoreJob(j) \/ DestroyJob(j)
  \/ \E r \in Inboxes : SetInbox(r)
  \/ Persist \/ Crash \/ Reopen

SSpec == SInit /\ [][SNext]_svars

(***************************************************************************)
(* Properties.                                                             *)
(***************************************************************************)

\* The type of the state (state.rs:45-136, lib.rs:196-232).
STypeOK ==
  /\ inboxDir \in Root /\ card \in [Job -> OpenStates \cup Settled \cup {"none"}]
  /\ hidden \subseteq {j \in Job : card[j] \in Settled}
  /\ acc \in [Job -> Root \cup {Nowhere}] /\ saved \subseteq Job \X Root
  /\ partsIn \in [Job -> Root \cup {Nowhere}] /\ full \subseteq {j \in Job : partsIn[j] # Nowhere}
  /\ run \in [Job -> {"none", "accepted", "run", "over"}]

\* An open card belongs to a job at work: no crash, restart or restoration
\* leaves one that nothing will ever end (lib.rs:239-272, 372-437).
OpenAtWork == \A j \in Job : card[j] \in OpenStates => run[j] = "run"

\* What the user removed from view, and the index knows it, is not in view
\* after a restart (lib.rs:208-232).
HiddenStays ==
  [][reopened' # reopened => \A j \in index.removed : card'[j] # "none" => j \in hidden']_svars

\* The index forgets no removed card (lib.rs:210-214).
RemovedRecorded ==
  [][index' # index => \A j \in hidden : j \in index'.removed /\ index'.st[j] = card[j]]_svars

\* The files of a job that the user accepted are reported in the folder they
\* are in, wherever the inbox has moved by then (lib.rs:1999-2030, 3170-3240).
AskedReported == \A s \in saved : s[1] \notin ByPolicy => s[2] = root[s[1]]

\* Files are reported in the folder they landed in (lib.rs:3175-3177).
\* The code does not keep this: see the README.
SavedWhereLanded == \A s \in saved : s[2] = root[s[1]]
================================================================================

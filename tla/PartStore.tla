------------------------------- MODULE PartStore -------------------------------
(***************************************************************************)
(* What a receiver keeps on disk while it pulls files, or is sent large    *)
(* ones: one directory .localtrans-parts/<job_id> per transfer, with       *)
(* manifest.json (the file and its bitmap of received chunks) and part.bin *)
(* (the data), and the download folder the finished part.bin is renamed    *)
(* into (transfer/engine.rs PartWriter and the choice of directory in      *)
(* start_pull_parts and recv_push_large_file; transfer/manifest.rs;        *)
(* transfer/mod.rs).                                                       *)
(*                                                                         *)
(* The directory is named after the job id, which the SOURCE takes from a  *)
(* counter of its process (next_source_job_id). All files here have one    *)
(* name: files with different names never meet in the download folder, and *)
(* the parts directories do not depend on names.                           *)
(***************************************************************************)
EXTENDS Integers, FiniteSets

CONSTANTS
  Peers,     \* sources the receiver pulls from
  Files,     \* contents a source may offer
  Size,      \* number of chunks of each content
  Hole,      \* no content
  MaxPulls,  \* bound: pulls started
  Tries,     \* resolve_name_conflict tries the name itself and Tries numbered ones
  Restarts,  \* bound: restarts of the receiver
  Mishaps    \* what may happen besides, see MishapKinds

MishapKinds == {"peerRestart", "torn", "rmdirFails", "gcWhileRunning", "destroy",
                "push"}

ConstantsOK ==
  /\ Hole \notin Files \cup Peers /\ Size \in [Files -> Nat]
  /\ MaxPulls \in Nat \ {0} /\ Tries \in Nat \ {0} /\ Restarts \in Nat
  /\ Mishaps \subseteq MishapKinds

Ids    == 1 .. MaxPulls               \* job ids, and directory names
Inodes == 1 .. MaxPulls               \* part.bin files ever created; 0 is none
Slots  == 0 .. Tries                  \* name, "name (1)", ...
Offsets == UNION {0 .. (Size[f] - 1) : f \in Files}
OffsetsOf(f) == 0 .. (Size[f] - 1)
Exact(f) == [c \in Offsets |-> IF c \in OffsetsOf(f) THEN f ELSE Hole]

Manifest == [file : Files, bits : SUBSET Offsets]
NoManifest == [file |-> Hole, bits |-> {}]
Corrupt == [file |-> Hole, bits |-> Offsets]

Running == {"open", "finalizing", "renamed"}
NoPull  == [st |-> "none", peer |-> Hole, file |-> Hole, dir |-> 0, bits |-> {},
            ino |-> 0, slot |-> 0]

VARIABLES
  nextId,   \* next_source_job_id of each source's process
  pull,     \* PartWriter of each pull, and how far the pull is
  man,      \* manifest.json of each directory
  part,     \* inode of part.bin in each directory, 0 if it is missing
  data,     \* what stands at each chunk offset of an inode
  folder,   \* inode at each name of the download folder, 0 if free
  restarts,
  crowded,  \* history: directories two writers have worked in at once
  overtaken \* history: writers whose chosen name another one has taken since

pvars == <<nextId, pull, man, part, data, folder, restarts, crowded, overtaken>>
met == <<crowded, overtaken>>

PInit ==
  /\ nextId = [q \in Peers |-> 1]
  /\ pull = [p \in Ids |-> NoPull]
  /\ man = [i \in Ids |-> NoManifest]
  /\ part = [i \in Ids |-> 0]
  /\ data = [n \in Inodes |-> [c \in Offsets |-> Hole]]
  /\ folder = [s \in Slots |-> 0]
  /\ restarts = 0 /\ crowded = {} /\ overtaken = {}

Loadable(i) == man[i] \in Manifest
Full(m)     == OffsetsOf(m.file) \subseteq m.bits
Unused      == {n \in Inodes : \A p \in Ids : pull[p].ino # n}
LeastOf(S)  == CHOOSE n \in S : \A k \in S : n <= k
Active      == {p \in Ids : pull[p].st \in Running}

(* pending_jobs: directories with a loadable manifest that misses chunks.  *)
Pending == {i \in Ids : Loadable(i) /\ ~Full(man[i])}

-----------------------------------------------------------------------------

(* A pull resumes a pending directory of the same content, the first that  *)
(* read_dir returns, or takes the one named after its job id.              *)
DirFor(f, id) ==
  LET same == {i \in Pending : man[i].file = f}
  IN IF same = {} THEN {id} ELSE same

(* PartWriter::load_or_open on directory i; an empty file calls open       *)
(* itself. A manifest of the same content is taken with its bitmap and     *)
(* needs its part.bin; otherwise a new manifest is written over what is    *)
(* there and part.bin is created, or reused as it is. Nothing asks whether *)
(* another writer is at work there. q is the source whose slot the pull    *)
(* holds; a push holds none.                                               *)
Opened(p, q, f, i) ==
  /\ crowded' = IF \E o \in Active : pull[o].dir = i THEN crowded \cup {i} ELSE crowded
  /\ IF Size[f] > 0 /\ Loadable(i) /\ man[i].file = f
       THEN /\ pull' = [pull EXCEPT ![p] =
                 [NoPull EXCEPT !.st = IF part[i] = 0 THEN "failed" ELSE "open",
                    !.peer = q, !.file = f, !.dir = i, !.bits = man[i].bits, !.ino = part[i]]]
            /\ UNCHANGED <<man, part>>
       ELSE /\ man' = [man EXCEPT ![i] = [file |-> f, bits |-> {}]]
            /\ part' = [part EXCEPT ![i] = IF @ = 0 THEN LeastOf(Unused) ELSE @]
            /\ pull' = [pull EXCEPT ![p] =
                 [NoPull EXCEPT !.st = "open", !.peer = q, !.file = f, !.dir = i,
                    !.ino = part'[i]]]

(* MetaResp has arrived: the pull gets its job id and its directory. Pulls *)
(* from one peer run one after the other (acquire_slot).                   *)
Start(p, q, f) ==
  /\ pull[p].st = "none" /\ \A o \in Active : pull[o].peer # q
  /\ nextId' = [nextId EXCEPT ![q] = @ + 1]
  /\ \E i \in DirFor(f, nextId[q]) : Opened(p, q, f, i)
  /\ UNCHANGED <<data, folder, restarts, overtaken>>

(* recv_push_large_file: a large file of a push gets a job id in the same  *)
(* way and always the directory named after it; it waits for no slot.      *)
Push(p, q, f) ==
  /\ "push" \in Mishaps /\ pull[p].st = "none" /\ Size[f] > 0
  /\ nextId' = [nextId EXCEPT ![q] = @ + 1]
  /\ Opened(p, Hole, f, nextId[q])
  /\ UNCHANGED <<data, folder, restarts, overtaken>>

Saved(p, bits) == [man EXCEPT ![pull[p].dir] = [file |-> pull[p].file, bits |-> bits]]

(* write_chunk_preverified: seek and write, set the bit, save the manifest *)
(* if it is the last chunk or if a second has passed since the last save.  *)
WriteChunk(p, c) ==
  /\ pull[p].st = "open" /\ c \in OffsetsOf(pull[p].file) \ pull[p].bits
  /\ data' = [data EXCEPT ![pull[p].ino][c] = pull[p].file]
  /\ pull' = [pull EXCEPT ![p].bits = pull[p].bits \cup {c}]
  /\ \/ man' = Saved(p, pull'[p].bits)
     \/ ~(OffsetsOf(pull[p].file) \subseteq pull'[p].bits) /\ UNCHANGED man
  /\ UNCHANGED <<nextId, part, folder, restarts, met>>

End(p, st) == pull' = [pull EXCEPT ![p].st = st]

(* Mutant: the bitmap is saved whether or not part.bin is there.           *)
Dropped_always(p, m, bins) ==
  [m EXCEPT ![pull[p].dir] = [file |-> pull[p].file, bits |-> pull[p].bits]]

(* Drop for PartWriter, when the manifests are m and the part.bins are     *)
(* bins: the bitmap is saved if part.bin is still there.                   *)
Dropped(p, m, bins) ==
  IF bins[pull[p].dir] = 0 THEN m
  ELSE [m EXCEPT ![pull[p].dir] = [file |-> pull[p].file, bits |-> pull[p].bits]]

(* An error ends the pull: connection, peer, hash, full disk.              *)
Abort(p) ==
  /\ pull[p].st = "open"
  /\ End(p, "failed") /\ man' = Dropped(p, man, part)
  /\ UNCHANGED <<nextId, part, data, folder, restarts, met>>

(* The directory is removed - a failure is ignored - and the PartWriter    *)
(* dropped.                                                                *)
RemoveDir(p) ==
  \/ /\ part' = [part EXCEPT ![pull[p].dir] = 0]
     /\ man' = Dropped(p, [man EXCEPT ![pull[p].dir] = NoManifest], part')
  \/ "rmdirFails" \in Mishaps /\ man' = Dropped(p, man, part) /\ UNCHANGED part

(* The user cancels a pull.                                                *)
Cancel(p) ==
  /\ pull[p].st = "open" /\ pull[p].peer # Hole
  /\ End(p, "failed") /\ RemoveDir(p)
  /\ UNCHANGED <<nextId, data, folder, restarts, met>>

(* Mutant: the name is used as it is.                                      *)
FreeSlot_first == 0

(* resolve_name_conflict: the first free name, the last one if none is.    *)
FreeSlot ==
  LET free == {s \in Slots : folder[s] = 0} IN IF free = {} THEN Tries ELSE LeastOf(free)

(* finalize, until the rename: save, check the bitmap, choose the name.    *)
FinPrepare(p) ==
  /\ pull[p].st = "open" /\ OffsetsOf(pull[p].file) \subseteq pull[p].bits
  /\ man' = Saved(p, pull[p].bits)
  /\ pull' = [pull EXCEPT ![p] = [@ EXCEPT !.st = "finalizing", !.slot = FreeSlot]]
  /\ UNCHANGED <<nextId, part, data, folder, restarts, met>>

(* fs::rename replaces what stands at the new name by now.                 *)
FinRename(p) ==
  /\ pull[p].st = "finalizing"
  /\ LET i == pull[p].dir
     IN IF part[i] = 0
          THEN /\ End(p, "failed") /\ man' = Dropped(p, man, part)
               /\ UNCHANGED <<part, folder, overtaken>>
          ELSE /\ End(p, "renamed")
               /\ folder' = [folder EXCEPT ![pull[p].slot] = part[i]]
               /\ part' = [part EXCEPT ![i] = 0] /\ UNCHANGED man
               /\ overtaken' = overtaken \cup
                    {o \in Active \ {p} : pull[o].st = "finalizing" /\ pull[o].slot = pull[p].slot}
  /\ UNCHANGED <<nextId, data, restarts, crowded>>

(* The parts directory goes and the PartWriter with it.                   *)
FinClean(p) ==
  /\ pull[p].st = "renamed"
  /\ End(p, "done") /\ RemoveDir(p)
  /\ UNCHANGED <<nextId, data, folder, restarts, met>>

(* gc_stale_parts removes the directories whose bitmap is all true.        *)
Stale == {i \in Ids : Loadable(i) /\ Full(man[i])}

(* The receiver's process ends without running a destructor and starts     *)
(* again with gc_stale_parts. Manifest::save is not atomic: a save cut     *)
(* short leaves a manifest that does not parse.                            *)
Restart ==
  /\ restarts < Restarts /\ restarts' = restarts + 1
  /\ pull' = [p \in Ids |-> IF p \in Active THEN [pull[p] EXCEPT !.st = "failed"] ELSE pull[p]]
  /\ \E torn \in {{}} \cup {{pull[p].dir} : p \in {o \in Active : pull[o].st = "open"}} :
       /\ torn # {} => "torn" \in Mishaps
       /\ man' = [i \in Ids |-> IF i \in torn THEN Corrupt
                                ELSE IF i \in Stale THEN NoManifest ELSE man[i]]
       /\ part' = [i \in Ids |-> IF i \in Stale \ torn THEN 0 ELSE part[i]]
  /\ UNCHANGED <<nextId, data, folder, met>>

(* set_inbox_dir runs the same collection while pulls are running.         *)
CollectNow ==
  /\ "gcWhileRunning" \in Mishaps /\ Stale # {}
  /\ man' = [i \in Ids |-> IF i \in Stale THEN NoManifest ELSE man[i]]
  /\ part' = [i \in Ids |-> IF i \in Stale THEN 0 ELSE part[i]]
  /\ UNCHANGED <<nextId, pull, data, folder, restarts, met>>

(* finalize_destroy: the user deletes the row of a transfer, which removes *)
(* the directory of its job id, whether or not the engine has stopped.     *)
DestroyDir(i) ==
  /\ "destroy" \in Mishaps /\ \E p \in Ids : pull[p].dir = i /\ pull[p].st \in {"open", "failed"}
  /\ man' = [man EXCEPT ![i] = NoManifest] /\ part' = [part EXCEPT ![i] = 0]
  /\ <<man', part'>> # <<man, part>>
  /\ UNCHANGED <<nextId, pull, data, folder, restarts, met>>

(* A source restarts: its job ids start over.                              *)
PeerRestart(q) ==
  /\ "peerRestart" \in Mishaps /\ nextId[q] > 1
  /\ nextId' = [nextId EXCEPT ![q] = 1]
  /\ UNCHANGED <<pull, man, part, data, folder, restarts, met>>

PNext ==
  \/ \E p \in Ids, q \in Peers, f \in Files : Start(p, q, f) \/ Push(p, q, f)
  \/ \E p \in Ids, c \in Offsets : WriteChunk(p, c)
  \/ \E p \in Ids : Abort(p) \/ Cancel(p) \/ FinPrepare(p) \/ FinRename(p) \/ FinClean(p)
  \/ Restart \/ CollectNow \/ \E i \in Ids : DestroyDir(i)
  \/ \E q \in Peers : PeerRestart(q)

PSpec == PInit /\ [][PNext]_pvars
-----------------------------------------------------------------------------
Writer == [st : Running \cup {"none", "failed", "done"}, peer : Peers \cup {Hole},
           file : Files \cup {Hole}, dir : Ids \cup {0}, bits : SUBSET Offsets,
           ino : Inodes \cup {0}, slot : Slots]

(* Every variable holds what the program can store there.                  *)
PTypeOK ==
  /\ nextId \in [Peers -> 1 .. (MaxPulls + 1)]
  /\ pull \in [Ids -> Writer]
  /\ man \in [Ids -> Manifest \cup {NoManifest, Corrupt}]
  /\ part \in [Ids -> Inodes \cup {0}]
  /\ data \in [Inodes -> [Offsets -> Files \cup {Hole}]]
  /\ folder \in [Slots -> Inodes \cup {0}]
  /\ restarts \in 0 .. Restarts
  /\ crowded \subseteq Ids /\ overtaken \subseteq Ids

(* What a pull would resume is there: every chunk a loadable manifest      *)
(* claims stands in part.bin, through errors, cancels and crashes, in every*)
(* directory in which no two writers have met.                             *)
ResumeSound ==
  \A i \in Ids \ crowded : Loadable(i) /\ part[i] # 0 =>
    \A c \in man[i].bits : data[part[i]][c] = man[i].file

(* A landed file is the offered file: every chunk, and nothing after the   *)
(* last.                                                                   *)
LandedExact ==
  \A p \in Ids : pull[p].st \in {"renamed", "done"} =>
    folder[pull[p].slot] # 0 /\ data[folder[pull[p].slot]] = Exact(pull[p].file)

(* Finalize never replaces a file that stood in the download folder when   *)
(* it chose a free name: a file is only replaced if every name is taken, or*)
(* if another transfer has landed at the very name since it was chosen.    *)
KeepsLanding ==
  \A s \in Slots : folder[s] # 0 /\ folder'[s] # folder[s] =>
    \/ \A t \in Slots : folder[t] # 0
    \/ \E p \in overtaken : pull[p].slot = s /\ pull'[p].st = "renamed"

(* A pull is never locked out by its own past: what pending_jobs offers    *)
(* for resumption can be opened.                                           *)
NeverStuck == Active = {} => \A i \in Pending : part[i] # 0

(* What has been received and recorded stays until it has landed: a        *)
(* manifest on disk loses bits only to a cancel, a torn save or, when it   *)
(* is full, the collector.                                                 *)
KeepsProgress ==
  \A i \in Ids :
    Loadable(i) /\ ~(man'[i].file = man[i].file /\ man[i].bits \subseteq man'[i].bits) =>
      \/ \E p \in Active : pull[p].dir = i /\ pull[p].st # "finalizing"
                           /\ pull'[p].st \in {"failed", "done"}
      \/ Full(man[i])

(* "resumption demands that no way out loses the record of a received      *)
(* chunk" (Drop for PartWriter): a pull that ends by an error leaves its   *)
(* whole bitmap on disk.                                                   *)
SavesOnDrop ==
  \A p \in Ids :
    /\ pull[p].st = "open" /\ pull'[p].st = "failed" /\ restarts' = restarts
    /\ part'[pull[p].dir] # 0
    => pull[p].bits \subseteq man'[pull[p].dir].bits

(* With a single source that keeps counting and pushes nothing, directories*)
(* nobody else empties and as many names as pulls, more can be said: what  *)
(* lands is exact and what is pending can be opened.                       *)
Gentle ==
  /\ Mishaps \subseteq {"torn", "rmdirFails"} /\ MaxPulls <= Tries + 1
  /\ \A q, r \in Peers : q = r

PartsSound == PTypeOK /\ ResumeSound /\ (Gentle => LandedExact /\ NeverStuck)

KeepsParts == KeepsLanding /\ SavesOnDrop /\ (Gentle => KeepsProgress)
PartsKept  == [][KeepsParts]_pvars

(* A claim of a comment that does not hold.                                *)

(* "the job id is globally unique, no conflict across instances either"    *)
(* (next_source_job_id), of a source that has restarted and counts its job *)
(* ids from the start again: a landed file holds nothing of another        *)
(* transfer.                                                               *)
NoForeignTail ==
  \A p \in Ids : pull[p].st = "renamed" =>
    \A c \in Offsets : data[folder[pull[p].slot]][c] \in {pull[p].file, Hole}
=============================================================================

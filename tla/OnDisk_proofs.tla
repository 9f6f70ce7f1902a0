----------------------------- MODULE OnDisk_proofs -----------------------------
(***************************************************************************)
(* Proofs about what stays on disk: the directories of a receiver's pulls  *)
(* (PartStore), the desktop's table of cards (TableFile) and the phone's   *)
(* store of received jobs (MobileStore), for every set of contents, sizes, *)
(* jobs and folders, every number of pulls, of names and of restarts.      *)
(***************************************************************************)
EXTENDS OnDisk, FiniteSetTheorems, WellFoundedInduction, TLAPS

-----------------------------------------------------------------------------
(* Numbers and sets.                                                        *)

(* The least number of a set is in it and is the least.                     *)
LEMMA LeastIn ==
  ASSUME NEW S \in SUBSET Nat, S # {}
  PROVE  LeastOf(S) \in S /\ \A k \in S : LeastOf(S) <= k
<1>1. PICK x \in S : \A y \in S : ~(<<y, x>> \in OpToRel(<, Nat))
  BY NatLessThanWellFounded, WFMin
<1>2. \A y \in S : x <= y
  <2>1. SUFFICES ASSUME NEW y \in S PROVE x <= y
    OBVIOUS
  <2>2. x \in Nat /\ y \in Nat
    OBVIOUS
  <2>3. ~(y < x)
    BY <1>1, <2>2 DEF OpToRel
  <2>4. QED
    BY <2>2, <2>3
<1>3. QED
  BY <1>2 DEF LeastOf

(* What the other pulls have taken leaves one of as many things as there    *)
(* are pulls.                                                               *)
LEMMA OneLeft ==
  ASSUME ConstantsOK, NEW p \in Ids, NEW g, NEW T, IsFiniteSet(T), Cardinality(T) >= MaxPulls
  PROVE  \E t \in T : \A o \in Ids \ {p} : g[o] # t
<1> DEFINE Others == Ids \ {p}
           Taken  == {g[o] : o \in Others}
<1>1. IsFiniteSet(Ids) /\ Cardinality(Ids) = MaxPulls
  BY FS_Interval DEF Ids, ConstantsOK
<1>2. IsFiniteSet(Others) /\ Cardinality(Others) = MaxPulls - 1
  BY <1>1, FS_RemoveElement
<1>3. IsFiniteSet(Taken) /\ Cardinality(Taken) <= MaxPulls - 1
  <2> DEFINE f == [o \in Others |-> g[o]]
  <2>1. f \in Surjection(Others, Taken)
    BY DEF Surjection
  <2> HIDE DEF f, Taken, Others
  <2>2. QED
    BY <1>2, <2>1, FS_Surjection
<1>4. Cardinality(Taken) \in Nat /\ Cardinality(T) \in Nat /\ MaxPulls \in Nat
  BY <1>3, FS_CardinalityType DEF ConstantsOK
<1>5. ~(T \subseteq Taken)
  <2>1. SUFFICES ASSUME T \subseteq Taken PROVE FALSE
    OBVIOUS
  <2> HIDE DEF Taken
  <2>2. Cardinality(T) <= Cardinality(Taken)
    BY <1>3, <2>1, FS_Subset
  <2>3. QED
    BY <1>3, <1>4, <2>2
<1>6. QED
  BY <1>5

(* A pull that has not started finds a part.bin nobody has created, ...     *)
LEMMA UnusedLeft ==
  ASSUME ConstantsOK, NEW p \in Ids, pull[p].ino = 0
  PROVE  LeastOf(Unused) \in Inodes /\ \A o \in Ids : pull[o].ino # LeastOf(Unused)
<1>1. IsFiniteSet(Inodes) /\ Cardinality(Inodes) = MaxPulls /\ MaxPulls \in Nat
  BY FS_Interval DEF Inodes, ConstantsOK
<1> DEFINE g == [k \in Ids |-> pull[k].ino]
<1>2. \E n \in Inodes : \A o \in Ids \ {p} : g[o] # n
  <2> HIDE DEF g
  <2>1. Cardinality(Inodes) >= MaxPulls
    BY <1>1
  <2>2. QED
    BY <1>1, <2>1, OneLeft
<1>3. PICK n \in Inodes : n \in Unused
  BY <1>2 DEF Unused, Inodes
<1>4. Unused \in SUBSET Nat
  BY DEF Unused, Inodes
<1>5. QED
  BY <1>3, <1>4, LeastIn DEF Unused

(* ... and a name that is chosen is a name, free if one is.                 *)
LEMMA SlotChosen ==
  ASSUME ConstantsOK
  PROVE  FreeSlot \in Slots /\ ((\E s \in Slots : folder[s] = 0) => folder[FreeSlot] = 0)
<1> DEFINE free == {s \in Slots : folder[s] = 0}
<1>1. free \in SUBSET Nat /\ Tries \in Slots
  BY DEF Slots, ConstantsOK
<1>2. CASE free = {}
  BY <1>1, <1>2 DEF FreeSlot
<1>3. CASE free # {}
  <2>1. LeastOf(free) \in free
    BY <1>1, <1>3, LeastIn
  <2>2. QED
    BY <1>3, <2>1 DEF FreeSlot
<1>4. QED
  BY <1>2, <1>3

(* Sizes, contents and manifests.                                           *)
LEMMA DataFacts ==
  ASSUME ConstantsOK
  PROVE  /\ \A f \in Files : OffsetsOf(f) \subseteq Offsets
         /\ \A f \in Files, b \in SUBSET Offsets :
              [file |-> f, bits |-> b] \in Manifest
         /\ NoManifest \notin Manifest /\ Corrupt \notin Manifest
         /\ \A m \in Manifest : m.file \in Files /\ m.bits \in SUBSET Offsets
         /\ Ids \subseteq Nat \ {0} /\ Inodes \subseteq Nat \ {0} /\ 0 \in Slots /\ Slots \subseteq Nat
BY DEF ConstantsOK, OffsetsOf, Offsets, Manifest, NoManifest, Corrupt, Ids, Inodes, Slots

-----------------------------------------------------------------------------
(* The inductive invariant of any store, however many sources there are and *)
(* whatever is pushed: pulls and pushes alike are transfers p \in Ids.       *)

Started == {p \in Ids : pull[p].st # "none"}
Holds(p, i) == part[i] # 0 /\ pull[p].ino = part[i]

(* Writers at work in one directory are known to have met there.            *)
CrowdInv ==
  \A p, o \in Active : pull[p].dir = pull[o].dir => p = o \/ pull[p].dir \in crowded

(* A source has not counted further than there are pulls.                   *)
IdsInv == \A q \in Peers : nextId[q] <= Cardinality(Started) + 1

PullsInv ==
  \A p \in Ids :
    /\ pull[p].st = "none" => pull[p] = NoPull
    /\ pull[p].st # "none" => pull[p].file \in Files /\ pull[p].dir \in Ids
    /\ p \in Active => pull[p].ino # 0
                       /\ (pull[p].st # "open" => OffsetsOf(pull[p].file) \subseteq pull[p].bits)

(* A part.bin was created by a pull and does not move between directories.  *)
InodesInv ==
  /\ \A i \in Ids : part[i] # 0 => \E p \in Ids : pull[p].ino = part[i]
  /\ \A p, i \in Ids : Holds(p, i) => pull[p].dir = i
  /\ \A p, o \in Ids : pull[p].ino = pull[o].ino /\ pull[p].ino # 0 => pull[p].dir = pull[o].dir

(* A writer that has its directory to itself writes the part.bin in it, or  *)
(* one that is gone; its bits stand for what is there.                      *)
OpenInv ==
  \A p \in Active : pull[p].dir \notin crowded =>
    /\ part[pull[p].dir] \in {0, pull[p].ino}
    /\ pull[p].st = "renamed" => part[pull[p].dir] = 0
    /\ \A c \in pull[p].bits : data[pull[p].ino][c] = pull[p].file
    /\ Loadable(pull[p].dir) /\ part[pull[p].dir] # 0 => man[pull[p].dir].file = pull[p].file

BaseInv == PTypeOK /\ IdsInv /\ PullsInv /\ InodesInv /\ CrowdInv /\ ResumeSound /\ OpenInv

(* A pull can only start while a source has an id left.                     *)
LEMMA IdLeft ==
  ASSUME ConstantsOK, PTypeOK, IdsInv, NEW p \in Ids, pull[p].st = "none", NEW q \in Peers
  PROVE  nextId[q] \in Ids
<1>1. IsFiniteSet(Ids) /\ Cardinality(Ids) = MaxPulls /\ MaxPulls \in Nat
  BY FS_Interval DEF Ids, ConstantsOK
<1>2. IsFiniteSet(Ids \ {p}) /\ Cardinality(Ids \ {p}) = MaxPulls - 1
  BY <1>1, FS_RemoveElement
<1>3. Started \in SUBSET (Ids \ {p})
  BY DEF Started
<1>4. Cardinality(Started) <= MaxPulls - 1 /\ Cardinality(Started) \in Nat
  BY <1>2, <1>3, FS_Subset, FS_CardinalityType
<1>5. nextId[q] \in 1 .. (MaxPulls + 1) /\ nextId[q] <= Cardinality(Started) + 1
  BY DEF PTypeOK, IdsInv
<1>6. QED
  BY <1>1, <1>4, <1>5 DEF Ids

(* What load_or_open makes of a directory.                                  *)
Resumes(w, f, i) ==
  /\ Loadable(i) /\ man[i].file = f
  /\ w.bits = man[i].bits /\ w.ino = part[i]
  /\ w.st = (IF part[i] = 0 THEN "failed" ELSE "open")
  /\ UNCHANGED <<man, part>>

Begins(w, f, i) ==
  /\ ~(Size[f] > 0 /\ Loadable(i) /\ man[i].file = f)
  /\ w.st = "open" /\ w.bits = {} /\ w.ino \in Inodes
  /\ man' = [man EXCEPT ![i] = [file |-> f, bits |-> {}]]
  /\ part' = [part EXCEPT ![i] = w.ino]
  /\ part[i] # 0 => w.ino = part[i]
  /\ part[i] = 0 => w.ino \in Unused

(* Opening either resumes the directory it found or begins it anew          *)
(* (PartWriter::open).                                                      *)
LEMMA OpenedEffect ==
  ASSUME ConstantsOK, PTypeOK, NEW p \in Ids, pull[p] = NoPull,
         NEW q \in Peers \cup {Hole}, NEW f \in Files, NEW i \in Ids, Opened(p, q, f, i)
  PROVE  \E w \in Writer : /\ pull' = [pull EXCEPT ![p] = w]
                           /\ w.peer = q /\ w.file = f /\ w.dir = i
                           /\ Resumes(w, f, i) \/ Begins(w, f, i)
<1>1. part[i] \in Inodes \cup {0} /\ 0 \in Slots /\ pull[p].ino = 0
  BY DataFacts DEF PTypeOK, NoPull
<1>2. CASE Size[f] > 0 /\ Loadable(i) /\ man[i].file = f
  <2> DEFINE w == [st |-> IF part[i] = 0 THEN "failed" ELSE "open", peer |-> q, file |-> f,
                   dir |-> i, bits |-> man[i].bits, ino |-> part[i], slot |-> 0]
  <2>1. man[i].bits \in SUBSET Offsets
    BY <1>2, DataFacts DEF Loadable
  <2>2. w \in Writer
    BY <1>1, <2>1 DEF Writer, Running
  <2>3. pull' = [pull EXCEPT ![p] = w] /\ UNCHANGED <<man, part>>
    BY <1>2 DEF Opened, NoPull
  <2>4. Resumes(w, f, i)
    BY <1>2, <2>3 DEF Resumes
  <2>5. QED
    BY <2>2, <2>3, <2>4
<1>3. CASE ~(Size[f] > 0 /\ Loadable(i) /\ man[i].file = f)
  <2> DEFINE w == [st |-> "open", peer |-> q, file |-> f, dir |-> i, bits |-> {},
                   ino |-> part'[i], slot |-> 0]
  <2>1. /\ man' = [man EXCEPT ![i] = [file |-> f, bits |-> {}]]
        /\ part' = [part EXCEPT ![i] = IF part[i] = 0 THEN LeastOf(Unused) ELSE part[i]]
        /\ pull' = [pull EXCEPT ![p] = w]
    BY <1>3 DEF Opened, NoPull
  <2>2. LeastOf(Unused) \in Inodes /\ LeastOf(Unused) \in Unused
    BY <1>1, UnusedLeft DEF Unused
  <2>3. part'[i] = IF part[i] = 0 THEN LeastOf(Unused) ELSE part[i]
    BY <2>1 DEF PTypeOK
  <2>4. w \in Writer /\ w.ino \in Inodes
    BY <1>1, <2>2, <2>3 DEF Writer, Running
  <2>5. Begins(w, f, i)
    BY <1>1, <1>3, <2>1, <2>2, <2>3, <2>4 DEF Begins
  <2>6. QED
    BY <2>1, <2>4, <2>5
<1>4. QED
  BY <1>2, <1>3

-----------------------------------------------------------------------------
(* A pull starts.                                                           *)
LEMMA StartBase ==
  ASSUME ConstantsOK, BaseInv,
         NEW p \in Ids, NEW q \in Peers, NEW f \in Files, Start(p, q, f) \/ Push(p, q, f)
  PROVE  BaseInv'
<1>t. PTypeOK /\ IdsInv /\ PullsInv /\ InodesInv /\ CrowdInv /\ ResumeSound /\ OpenInv
  BY DEF BaseInv
<1>1. pull[p].st = "none" /\ pull[p] = NoPull /\ nextId[q] \in Ids
  BY <1>t, IdLeft DEF Start, Push, PullsInv
<1>2. PICK r \in Peers \cup {Hole}, i \in Ids : Opened(p, r, f, i)
  <2>1. CASE Start(p, q, f)
    <3>1. \E i \in Ids : Opened(p, q, f, i)
      BY <1>1, <2>1 DEF Start, DirFor, Pending
    <3>2. QED
      BY <3>1
  <2>2. CASE Push(p, q, f)
    BY <1>1, <2>2 DEF Push
  <2>3. QED
    BY <2>1, <2>2
<1>3. PICK w \in Writer : /\ pull' = [pull EXCEPT ![p] = w]
                          /\ w.peer = r /\ w.file = f /\ w.dir = i
                          /\ Resumes(w, f, i) \/ Begins(w, f, i)
  BY <1>t, <1>1, <1>2, OpenedEffect
<1>4. data' = data /\ folder' = folder /\ restarts' = restarts /\ overtaken' = overtaken
      /\ nextId' = [nextId EXCEPT ![q] = nextId[q] + 1]
  BY DEF Start, Push
<1>c. /\ crowded \subseteq crowded' /\ crowded' \subseteq crowded \cup {i}
      /\ (\E o \in Active : pull[o].dir = i) => i \in crowded'
  BY <1>2 DEF Opened
<1>5. /\ pull'[p] = w /\ \A o \in Ids \ {p} : pull'[o] = pull[o]
      /\ pull' \in [Ids -> Writer]
  BY <1>t, <1>3 DEF PTypeOK
<1>6. /\ man' \in [Ids -> Manifest \cup {NoManifest, Corrupt}]
      /\ part' \in [Ids -> Inodes \cup {0}]
  <2>1. [file |-> f, bits |-> {}] \in Manifest
    BY DataFacts
  <2>2. CASE Resumes(w, f, i)
    BY <1>t, <2>2 DEF PTypeOK, Resumes
  <2>3. CASE Begins(w, f, i)
    BY <1>t, <2>1, <2>3 DEF PTypeOK, Begins
  <2>4. QED
    BY <1>3, <2>2, <2>3
<1>7. PTypeOK'
  <2>1. nextId' \in [Peers -> 1 .. (MaxPulls + 1)]
    BY <1>t, <1>1, <1>4 DEF PTypeOK, Ids, ConstantsOK
  <2>2. QED
    BY <1>t, <1>4, <1>5, <1>6, <1>c, <2>1 DEF PTypeOK
<1>8. w.st \in {"open", "failed"} /\ (w.st = "open" => w.ino # 0) /\ w.ino \in Inodes \cup {0}
  <2>1. 0 \notin Inodes
    BY DEF Inodes
  <2>2. QED
    BY <1>3, <2>1 DEF Resumes, Begins, Writer
<1>9. IdsInv'
  <2>1. IsFiniteSet(Started)
    <3>1. IsFiniteSet(Ids) /\ Started \in SUBSET Ids
      BY FS_Interval DEF Ids, ConstantsOK, Started
    <3>2. QED
      BY <3>1, FS_Subset
  <2>2. p \notin Started /\ Started' = Started \cup {p}
    BY <1>1, <1>5, <1>8 DEF Started
  <2>3. Cardinality(Started') = Cardinality(Started) + 1 /\ Cardinality(Started) \in Nat
    BY <2>1, <2>2, FS_AddElement, FS_CardinalityType
  <2>4. SUFFICES ASSUME NEW x \in Peers PROVE nextId'[x] <= Cardinality(Started') + 1
    BY DEF IdsInv
  <2>5. nextId[x] <= Cardinality(Started) + 1 /\ nextId[x] \in Int
    BY <1>t DEF IdsInv, PTypeOK, ConstantsOK
  <2>6. nextId'[x] \in {nextId[x], nextId[x] + 1}
    BY <1>4, <1>t DEF PTypeOK
  <2>7. QED
    BY <2>3, <2>5, <2>6
<1>10. PullsInv'
  BY <1>t, <1>3, <1>5, <1>8 DEF PullsInv, Active, Running
<1>11. InodesInv'
  <2>1. CASE Resumes(w, f, i)
    <3>1. part' = part /\ w.ino = part[i] /\ w.dir = i
      BY <1>3, <2>1 DEF Resumes
    <3>2. \A o \in Ids : pull[o].ino = part[i] /\ part[i] # 0 => pull[o].dir = i
      BY <1>t DEF InodesInv, Holds
    <3>3. \A k \in Ids : part[k] # 0 => \E o \in Ids : o # p /\ pull[o].ino = part[k]
      BY <1>t, <1>1 DEF InodesInv, NoPull
    <3>4. \A k \in Ids : part[k] = part[i] /\ part[i] # 0 => k = i
      BY <1>t, <3>2, <3>3 DEF InodesInv, Holds
    <3>5. QED
      BY <1>t, <1>5, <3>1, <3>2, <3>3, <3>4 DEF InodesInv, Holds
  <2>2. CASE Begins(w, f, i)
    <3>1. /\ w.ino \in Inodes /\ w.ino # 0 /\ w.dir = i
          /\ part'[i] = w.ino /\ \A k \in Ids \ {i} : part'[k] = part[k]
          /\ part[i] # 0 => w.ino = part[i]
          /\ part[i] = 0 => \A o \in Ids : pull[o].ino # w.ino
      BY <1>t, <1>3, <2>2 DEF Begins, PTypeOK, Unused, Inodes
    <3>2. \A o \in Ids : pull[o].ino = w.ino => pull[o].dir = i
      BY <1>t, <3>1 DEF InodesInv, Holds
    <3>3. \A k \in Ids : part[k] # 0 => \E o \in Ids : o # p /\ pull[o].ino = part[k]
      BY <1>t, <1>1 DEF InodesInv, NoPull
    <3>4. \A k \in Ids \ {i} : part[k] # w.ino
      BY <1>t, <3>1, <3>2, <3>3 DEF InodesInv, Holds
    <3>5. QED
      BY <1>t, <1>5, <3>1, <3>2, <3>3, <3>4 DEF InodesInv, Holds
  <2>3. QED
    BY <1>3, <2>1, <2>2
<1>12. ResumeSound'
  <2>1. CASE Resumes(w, f, i)
    BY <1>t, <1>4, <1>c, <2>1 DEF Resumes, ResumeSound, Loadable
  <2>2. CASE Begins(w, f, i)
    BY <1>t, <1>4, <1>c, <2>2 DEF Begins, ResumeSound, Loadable, PTypeOK
  <2>3. QED
    BY <1>3, <2>1, <2>2
<1>h. CrowdInv'
  <2>1. SUFFICES ASSUME NEW k \in Active', NEW o \in Active', pull'[k].dir = pull'[o].dir, k # o
                 PROVE  pull'[k].dir \in crowded'
    BY DEF CrowdInv
  <2>2. \A x \in {k, o} : x # p => x \in Active /\ pull'[x] = pull[x]
    BY <1>5 DEF Active
  <2>3. CASE k # p /\ o # p
    BY <1>t, <1>c, <2>1, <2>2, <2>3 DEF CrowdInv
  <2>4. CASE k = p \/ o = p
    BY <1>3, <1>5, <1>c, <2>1, <2>2, <2>4
  <2>5. QED
    BY <2>3, <2>4
<1>13. ASSUME NEW o \in Active', o # p, pull'[o].dir \notin crowded'
       PROVE  /\ o \in Active /\ pull'[o] = pull[o] /\ pull[o].dir \in Ids
              /\ pull[o].dir \notin crowded
              /\ part'[pull[o].dir] = part[pull[o].dir] /\ man'[pull[o].dir] = man[pull[o].dir]
  <2>1. o \in Active /\ pull'[o] = pull[o]
    BY <1>13, <1>5 DEF Active
  <2>2. pull[o].dir \in Ids /\ pull[o].dir # i /\ pull[o].dir \notin crowded
    BY <1>t, <1>c, <1>13, <2>1 DEF Active, PullsInv, Running
  <2>3. CASE Resumes(w, f, i)
    BY <2>1, <2>2, <2>3 DEF Resumes
  <2>4. CASE Begins(w, f, i)
    BY <1>t, <2>1, <2>2, <2>4 DEF Begins, PTypeOK
  <2>5. QED
    BY <1>3, <2>3, <2>4, <2>1, <2>2
<1>14. ASSUME NEW o \in Active', pull'[o].dir \notin crowded'
       PROVE  /\ part'[pull'[o].dir] \in {0, pull'[o].ino}
              /\ pull'[o].st = "renamed" => part'[pull'[o].dir] = 0
              /\ \A c \in pull'[o].bits : data'[pull'[o].ino][c] = pull'[o].file
              /\ man'[pull'[o].dir] \in Manifest /\ part'[pull'[o].dir] # 0 =>
                   man'[pull'[o].dir].file = pull'[o].file
  <2>1. CASE o # p
    <3>1. /\ o \in Active /\ pull'[o] = pull[o] /\ pull[o].dir \notin crowded
          /\ part'[pull[o].dir] = part[pull[o].dir] /\ man'[pull[o].dir] = man[pull[o].dir]
      BY <1>13, <1>14, <2>1
    <3>2. QED
      BY <1>t, <1>4, <3>1 DEF OpenInv, Loadable
  <2>2. CASE o = p
    <3>1. pull'[o] = w /\ w.dir = i /\ w.file = f /\ w.st \in Running
      BY <1>3, <1>5, <2>2 DEF Active
    <3>2. CASE Resumes(w, f, i)
      <4>1. /\ w.st = "open" /\ part[i] # 0 /\ w.ino = part[i] /\ w.bits = man[i].bits
            /\ Loadable(i) /\ man[i].file = f /\ man' = man /\ part' = part
        BY <3>1, <3>2 DEF Resumes, Running
      <4>2. \A c \in man[i].bits : data[part[i]][c] = man[i].file
        BY <1>t, <1>c, <1>14, <3>1, <4>1 DEF ResumeSound
      <4>3. QED
        BY <1>4, <3>1, <4>1, <4>2
    <3>3. CASE Begins(w, f, i)
      <4>1. /\ w.st = "open" /\ w.bits = {}
            /\ part'[i] = w.ino /\ man'[i] = [file |-> f, bits |-> {}]
        BY <1>t, <3>3 DEF Begins, PTypeOK
      <4>2. QED
        BY <3>1, <4>1
    <3>4. QED
      BY <1>3, <3>2, <3>3
  <2>3. QED
    BY <2>1, <2>2
<1>15. OpenInv'
  BY <1>14 DEF OpenInv, Loadable
<1>16. QED
  BY <1>7, <1>9, <1>10, <1>11, <1>12, <1>15, <1>h DEF BaseInv

-----------------------------------------------------------------------------
(* Steps that write no data: pulls only end or go on to land what they have,*)
(* a directory is kept, emptied, torn or saved by a pull at work in it.     *)
SameJob(p) ==
  /\ pull'[p].peer = pull[p].peer /\ pull'[p].file = pull[p].file
  /\ pull'[p].dir = pull[p].dir /\ pull'[p].bits = pull[p].bits
  /\ pull'[p].ino = pull[p].ino
  /\ pull[p].st = "none" => pull'[p] = pull[p]
  /\ pull[p].st # "none" => pull'[p].st # "none"

SavedBy(p) == [file |-> pull[p].file, bits |-> pull[p].bits]

NoData ==
  /\ data' = data /\ crowded' = crowded /\ \A q \in Peers : nextId'[q] <= nextId[q]
  /\ \A p \in Ids : SameJob(p)
  /\ \A p \in Active' :
       /\ p \in Active
       /\ pull[p].dir \notin crowded /\ pull'[p].st = "renamed" => part'[pull[p].dir] = 0
       /\ pull'[p].st # "open" => OffsetsOf(pull[p].file) \subseteq pull[p].bits
  /\ \A i \in Ids : part'[i] \in {0, part[i]}
  /\ \A i \in Ids : part'[i] # 0 =>
       \/ man'[i] \in {man[i], NoManifest, Corrupt}
       \/ \E p \in Active : pull[p].dir = i /\ man'[i] = SavedBy(p)

(* A step that changes neither inodes, manifests nor pulls keeps what the   *)
(* store says of itself.                                                    *)
LEMMA NoDataBase ==
  ASSUME ConstantsOK, BaseInv, PTypeOK', NoData
  PROVE  BaseInv'
<1>t. PTypeOK /\ IdsInv /\ PullsInv /\ InodesInv /\ CrowdInv /\ ResumeSound /\ OpenInv
  BY DEF BaseInv
<1>1. IdsInv'
  <2>1. Started' = Started
    BY DEF NoData, SameJob, Started
  <2>2. IsFiniteSet(Ids) /\ Started \in SUBSET Ids
    BY FS_Interval DEF Ids, ConstantsOK, Started
  <2>3. Cardinality(Started) \in Nat
    BY <2>2, FS_Subset, FS_CardinalityType
  <2>4. SUFFICES ASSUME NEW q \in Peers PROVE nextId'[q] <= Cardinality(Started) + 1
    BY <2>1 DEF IdsInv
  <2>5. nextId[q] \in Int /\ nextId'[q] \in Int
    BY <1>t DEF PTypeOK, ConstantsOK
  <2>6. nextId'[q] <= nextId[q] /\ nextId[q] <= Cardinality(Started) + 1
    BY <1>t DEF NoData, IdsInv
  <2>7. QED
    BY <2>3, <2>5, <2>6
<1>2. PullsInv'
  <2>1. SUFFICES ASSUME NEW p \in Ids
                 PROVE  /\ pull'[p].st = "none" => pull'[p] = NoPull
                        /\ pull'[p].st # "none" => pull'[p].file \in Files /\ pull'[p].dir \in Ids
                        /\ p \in Active' =>
                             /\ pull'[p].ino # 0
                             /\ pull'[p].st # "open" => OffsetsOf(pull'[p].file) \subseteq pull'[p].bits
    BY DEF PullsInv
  <2>2. /\ SameJob(p) /\ (p \in Active' => p \in Active)
        /\ p \in Active' /\ pull'[p].st # "open" => OffsetsOf(pull[p].file) \subseteq pull[p].bits
    BY DEF NoData
  <2>3. QED
    BY <1>t, <2>2 DEF SameJob, PullsInv
<1>3. InodesInv'
  <2>1. \A p \in Ids : pull'[p].ino = pull[p].ino /\ pull'[p].dir = pull[p].dir
    BY DEF NoData, SameJob
  <2>2. \A i \in Ids : part'[i] \in {0, part[i]}
    BY DEF NoData
  <2>3. QED
    BY <1>t, <2>1, <2>2 DEF InodesInv, Holds
<1>c. CrowdInv'
  BY <1>t DEF NoData, SameJob, CrowdInv, Active
<1>4. ASSUME NEW p \in Active, NEW i \in Ids \ crowded, pull[p].dir = i, part[i] # 0
      PROVE  \A c \in pull[p].bits : data[part[i]][c] = pull[p].file
  BY <1>t, <1>4 DEF OpenInv
<1>5. ResumeSound'
  <2>1. SUFFICES ASSUME NEW i \in Ids \ crowded, man'[i] \in Manifest, part'[i] # 0
                 PROVE  \A c \in man'[i].bits : data'[part'[i]][c] = man'[i].file
    BY DEF NoData, ResumeSound, Loadable
  <2>2. part'[i] = part[i] /\ part[i] # 0 /\ data' = data
    BY <2>1 DEF NoData
  <2>3. CASE man'[i] \in {man[i], NoManifest, Corrupt}
    BY <1>t, <2>1, <2>2, <2>3, DataFacts DEF ResumeSound, Loadable
  <2>4. ASSUME NEW p \in Active, pull[p].dir = i, man'[i] = SavedBy(p)
        PROVE  \A c \in man'[i].bits : data'[part'[i]][c] = man'[i].file
    BY <1>4, <2>2, <2>4 DEF SavedBy
  <2>5. QED
    BY <2>1, <2>3, <2>4 DEF NoData
<1>6. ASSUME NEW p \in Active', pull'[p].dir \notin crowded
      PROVE  /\ part'[pull'[p].dir] \in {0, pull'[p].ino}
             /\ pull'[p].st = "renamed" => part'[pull'[p].dir] = 0
             /\ \A c \in pull'[p].bits : data'[pull'[p].ino][c] = pull'[p].file
             /\ man'[pull'[p].dir] \in Manifest /\ part'[pull'[p].dir] # 0 =>
                  man'[pull'[p].dir].file = pull'[p].file
  <2>1. /\ p \in Active /\ SameJob(p) /\ data' = data /\ pull[p].dir \notin crowded
        /\ pull'[p].st = "renamed" => part'[pull[p].dir] = 0
    BY <1>6 DEF NoData, SameJob, Active
  <2>2. pull[p].dir \in Ids
    BY <1>t, <2>1 DEF Active, PullsInv, Running
  <2>3. part'[pull[p].dir] \in {0, part[pull[p].dir]}
    BY <2>2 DEF NoData
  <2>4. ASSUME man'[pull[p].dir] \in Manifest, part'[pull[p].dir] # 0
        PROVE  man'[pull[p].dir].file = pull[p].file
    <3>1. CASE man'[pull[p].dir] \in {man[pull[p].dir], NoManifest, Corrupt}
      BY <1>t, <2>1, <2>3, <2>4, <3>1, DataFacts DEF OpenInv, Loadable
    <3>2. ASSUME NEW o \in Active, pull[o].dir = pull[p].dir, man'[pull[p].dir] = SavedBy(o)
          PROVE  man'[pull[p].dir].file = pull[p].file
      BY <1>t, <2>1, <3>2 DEF CrowdInv, SavedBy
    <3>3. QED
      BY <2>2, <2>4, <3>1, <3>2 DEF NoData
  <2>5. QED
    BY <1>t, <2>1, <2>3, <2>4 DEF OpenInv, SameJob
<1>7. OpenInv'
  BY <1>6 DEF NoData, OpenInv, Loadable
<1>8. QED
  BY <1>1, <1>2, <1>3, <1>c, <1>5, <1>7 DEF BaseInv

-----------------------------------------------------------------------------
(* The steps of a running pull and those that end it.                       *)
Manifests == Manifest \cup {NoManifest, Corrupt}

(* The end of a pull changes nothing of the others.                         *)
LEMMA Ends ==
  ASSUME PTypeOK, NEW p \in Active, NEW x \in Running \cup {"failed", "done"}, End(p, x)
  PROVE  /\ p \in Ids /\ pull' \in [Ids -> Writer]
         /\ pull'[p].st = x /\ pull'[p].slot = pull[p].slot
         /\ \A o \in Ids : SameJob(o) /\ (o # p => pull'[o] = pull[o])
<1>1. p \in Ids /\ pull[p] \in Writer /\ pull[p].st # "none"
  BY DEF Active, PTypeOK, Running
<1>2. /\ pull'[p] = [pull[p] EXCEPT !.st = x] /\ \A o \in Ids \ {p} : pull'[o] = pull[o]
      /\ DOMAIN pull' = Ids /\ pull' = [o \in Ids |-> pull'[o]]
  BY <1>1 DEF End, PTypeOK
<1>3. pull'[p] \in Writer
  BY <1>1, <1>2 DEF Writer
<1>4. pull' \in [Ids -> Writer]
  BY <1>2, <1>3 DEF PTypeOK
<1>5. /\ pull'[p].st = x /\ pull'[p].peer = pull[p].peer /\ pull'[p].file = pull[p].file
      /\ pull'[p].dir = pull[p].dir /\ pull'[p].bits = pull[p].bits
      /\ pull'[p].ino = pull[p].ino /\ pull'[p].slot = pull[p].slot /\ x # "none"
  BY <1>1, <1>2 DEF Writer, Running
<1>6. QED
  BY <1>1, <1>2, <1>4, <1>5 DEF SameJob

(* The bitmap of a pull at work is one for a manifest.                      *)
LEMMA ActiveFacts ==
  ASSUME ConstantsOK, PTypeOK, PullsInv, NEW p \in Active
  PROVE  /\ p \in Ids /\ pull[p].dir \in Ids /\ pull[p].file \in Files
         /\ pull[p].ino \in Inodes /\ pull[p].bits \in SUBSET Offsets /\ SavedBy(p) \in Manifest
<1>1. p \in Ids /\ pull[p].st # "none" /\ pull[p] \in Writer
  BY DEF Active, Running, PTypeOK
<1>2. pull[p].bits \in SUBSET Offsets /\ pull[p].ino \in Inodes \cup {0}
  BY <1>1 DEF Writer
<1>3. pull[p].file \in Files /\ pull[p].dir \in Ids /\ pull[p].ino # 0
  BY <1>1 DEF PullsInv
<1>4. QED
  BY <1>1, <1>2, <1>3, DataFacts DEF SavedBy

(* Dropping a writer saves its bitmap into its own directory, if part.bin is*)
(* still there.                                                             *)
LEMMA DroppedFacts ==
  ASSUME ConstantsOK, PTypeOK, PullsInv, NEW p \in Active, NEW m \in [Ids -> Manifests], NEW bins
  PROVE  /\ Dropped(p, m, bins) \in [Ids -> Manifests]
         /\ \A i \in Ids \ {pull[p].dir} : Dropped(p, m, bins)[i] = m[i]
         /\ Dropped(p, m, bins)[pull[p].dir] =
              IF bins[pull[p].dir] = 0 THEN m[pull[p].dir] ELSE SavedBy(p)
<1>1. pull[p].dir \in Ids /\ SavedBy(p) \in Manifests
  BY ActiveFacts DEF Manifests
<1>2. QED
  BY <1>1 DEF Dropped, SavedBy

(* The directory is emptied, or kept with the bitmap saved.                 *)
LEMMA Removed ==
  ASSUME ConstantsOK, PTypeOK, PullsInv, NEW p \in Active, RemoveDir(p)
  PROVE  /\ man' \in [Ids -> Manifests] /\ part' \in [Ids -> Inodes \cup {0}]
         /\ \A i \in Ids \ {pull[p].dir} : man'[i] = man[i] /\ part'[i] = part[i]
         /\ \/ man'[pull[p].dir] = NoManifest /\ part'[pull[p].dir] = 0
            \/ /\ "rmdirFails" \in Mishaps /\ part' = part
               /\ man'[pull[p].dir] = IF part[pull[p].dir] = 0 THEN man[pull[p].dir] ELSE SavedBy(p)
<1> DEFINE i == pull[p].dir
           gone == [man EXCEPT ![i] = NoManifest]
<1>1. i \in Ids /\ man \in [Ids -> Manifests] /\ part \in [Ids -> Inodes \cup {0}]
  BY ActiveFacts DEF PTypeOK, Manifests
<1>2. gone \in [Ids -> Manifests] /\ gone[i] = NoManifest /\ \A k \in Ids \ {i} : gone[k] = man[k]
  BY <1>1 DEF Manifests
<1>3. CASE part' = [part EXCEPT ![i] = 0] /\ man' = Dropped(p, gone, part')
  <2>1. part' \in [Ids -> Inodes \cup {0}] /\ part'[i] = 0 /\ \A k \in Ids \ {i} : part'[k] = part[k]
    BY <1>1, <1>3
  <2> HIDE DEF gone, i
  <2>2. /\ Dropped(p, gone, part') \in [Ids -> Manifests]
        /\ \A k \in Ids \ {i} : Dropped(p, gone, part')[k] = gone[k]
        /\ Dropped(p, gone, part')[i] = IF part'[i] = 0 THEN gone[i] ELSE SavedBy(p)
    BY <1>2, DroppedFacts DEF i
  <2>3. QED
    BY <1>2, <1>3, <2>1, <2>2 DEF i
<1>4. CASE "rmdirFails" \in Mishaps /\ man' = Dropped(p, man, part) /\ part' = part
  BY <1>1, <1>4, DroppedFacts
<1>5. QED
  BY <1>3, <1>4 DEF RemoveDir

(* A pull that fails,                                                       *)
LEMMA AbortBase ==
  ASSUME ConstantsOK, BaseInv, NEW p \in Ids, Abort(p)
  PROVE  BaseInv'
<1>1. PTypeOK /\ PullsInv /\ p \in Active /\ man \in [Ids -> Manifests]
  BY DEF BaseInv, Abort, Active, Running, PTypeOK, Manifests
<1>2. /\ pull' \in [Ids -> Writer] /\ pull'[p].st = "failed"
      /\ \A o \in Ids : SameJob(o) /\ (o # p => pull'[o] = pull[o])
  BY <1>1, Ends DEF Abort
<1>3. man' = Dropped(p, man, part) /\ UNCHANGED <<nextId, part, data, folder, restarts, crowded, overtaken>>
  BY DEF Abort, met
<1>4. /\ man' \in [Ids -> Manifests]
      /\ \A i \in Ids : man'[i] = man[i] \/ (i = pull[p].dir /\ man'[i] = SavedBy(p))
  BY <1>1, <1>3, DroppedFacts
<1>5. PTypeOK'
  BY <1>1, <1>2, <1>3, <1>4 DEF PTypeOK, Manifests
<1>6. \A o \in Active' : o \in Active /\ pull'[o] = pull[o]
  BY <1>2 DEF Active, Running
<1>7. /\ \A o \in Active' : /\ o \in Active
                            /\ pull[o].dir \notin crowded /\ pull'[o].st = "renamed" =>
                                 part'[pull[o].dir] = 0
                            /\ pull'[o].st # "open" => OffsetsOf(pull[o].file) \subseteq pull[o].bits
      /\ \A q \in Peers : nextId'[q] <= nextId[q]
  BY <1>1, <1>3, <1>6 DEF BaseInv, OpenInv, PullsInv, Active, PTypeOK
<1>8. NoData
  <2>1. \A i \in Ids : part'[i] \in {0, part[i]}
    BY <1>3
  <2>2. \A i \in Ids : \/ man'[i] \in {man[i], NoManifest, Corrupt}
                       \/ \E o \in Active : pull[o].dir = i /\ man'[i] = SavedBy(o)
    BY <1>1, <1>4
  <2>3. \A o \in Ids : SameJob(o)
    BY <1>2
  <2>4. data' = data /\ crowded' = crowded
    BY <1>3
  <2>5. QED
    BY <1>7, <2>1, <2>2, <2>3, <2>4 DEF NoData
<1>9. QED
  BY <1>5, <1>8, NoDataBase

(* Steps that leave the source counters alone, one pull stepping.           *)
LEMMA OthersKept ==
  ASSUME ConstantsOK, BaseInv, NEW p \in Active, NEW x,
         nextId' = nextId, data' = data, crowded' = crowded, pull'[p].st = x,
         \A o \in Ids : SameJob(o) /\ (o # p => pull'[o] = pull[o]),
         x \in Running => /\ x # "open" /\ OffsetsOf(pull[p].file) \subseteq pull[p].bits
                          /\ x = "renamed" => part'[pull[p].dir] = 0,
         \A i \in Ids : part'[i] \in {0, part[i]},
         \A i \in Ids : part'[i] # 0 =>
           man'[i] \in {man[i], NoManifest, Corrupt} \/ (i = pull[p].dir /\ man'[i] = SavedBy(p))
  PROVE  NoData
<1>1. PTypeOK /\ OpenInv /\ PullsInv
  BY DEF BaseInv
<1>2. \A q \in Peers : nextId'[q] <= nextId[q]
  BY <1>1 DEF PTypeOK, ConstantsOK
<1>3. ASSUME NEW o \in Active'
      PROVE  /\ o \in Active
             /\ pull[o].dir \notin crowded /\ pull'[o].st = "renamed" => part'[pull[o].dir] = 0
             /\ pull'[o].st # "open" => OffsetsOf(pull[o].file) \subseteq pull[o].bits
  <2>1. CASE o = p
    BY <2>1 DEF Active
  <2>2. CASE o # p
    <3>1. o \in Active /\ pull'[o] = pull[o]
      BY <2>2 DEF Active
    <3>2. pull[o].dir \in Ids
      BY <1>1, <3>1, ActiveFacts
    <3>3. QED
      BY <1>1, <3>1, <3>2 DEF OpenInv, PullsInv, Active
  <2>3. QED
    BY <2>1, <2>2
<1>4. QED
  BY <1>2, <1>3 DEF NoData

(* that is cancelled or cleaned up after,                                   *)
LEMMA CancelBase ==
  ASSUME ConstantsOK, BaseInv, NEW p \in Ids, Cancel(p) \/ FinClean(p)
  PROVE  BaseInv'
<1>1. PTypeOK /\ PullsInv /\ p \in Active
  BY DEF BaseInv, Cancel, FinClean, Active, Running
<1>2. RemoveDir(p) /\ UNCHANGED <<nextId, data, folder, restarts, crowded, overtaken>>
      /\ \E x \in {"failed", "done"} : End(p, x)
  BY DEF Cancel, FinClean, met
<1>3. PICK x \in {"failed", "done"} : End(p, x)
  BY <1>2
<1>4. /\ pull' \in [Ids -> Writer] /\ pull'[p].st = x
      /\ \A o \in Ids : SameJob(o) /\ (o # p => pull'[o] = pull[o])
  BY <1>1, <1>3, Ends
<1>5. /\ man' \in [Ids -> Manifests] /\ part' \in [Ids -> Inodes \cup {0}]
      /\ \A i \in Ids : part'[i] \in {0, part[i]}
      /\ \A i \in Ids : part'[i] # 0 =>
           man'[i] \in {man[i], NoManifest, Corrupt} \/ (i = pull[p].dir /\ man'[i] = SavedBy(p))
  BY <1>1, <1>2, Removed
<1>6. PTypeOK'
  BY <1>1, <1>2, <1>4, <1>5 DEF PTypeOK, Manifests
<1>7. x \notin Running
  BY DEF Running
<1>8. NoData
  BY <1>1, <1>2, <1>4, <1>5, <1>7, OthersKept
<1>9. QED
  BY <1>6, <1>8, NoDataBase

(* that gets ready to land,                                                 *)
LEMMA FinPrepareBase ==
  ASSUME ConstantsOK, BaseInv, NEW p \in Ids, FinPrepare(p)
  PROVE  BaseInv'
<1>1. PTypeOK /\ PullsInv /\ p \in Active /\ pull[p] \in Writer
  BY DEF BaseInv, FinPrepare, Active, Running, PTypeOK
<1>2. pull[p].dir \in Ids /\ SavedBy(p) \in Manifest
  BY <1>1, ActiveFacts
<1>3. /\ man' = [man EXCEPT ![pull[p].dir] = SavedBy(p)]
      /\ pull' = [pull EXCEPT ![p] = [pull[p] EXCEPT !.st = "finalizing", !.slot = FreeSlot]]
      /\ UNCHANGED <<nextId, part, data, folder, restarts, crowded, overtaken>>
      /\ OffsetsOf(pull[p].file) \subseteq pull[p].bits /\ pull[p].st # "none"
  BY <1>1 DEF FinPrepare, Saved, SavedBy, met
<1>4. FreeSlot \in Slots
  BY SlotChosen
<1> DEFINE w == [pull[p] EXCEPT !.st = "finalizing", !.slot = FreeSlot]
<1>5. /\ w \in Writer /\ w.st = "finalizing" /\ w.peer = pull[p].peer /\ w.file = pull[p].file
      /\ w.dir = pull[p].dir /\ w.bits = pull[p].bits /\ w.ino = pull[p].ino
  BY <1>1, <1>4 DEF Writer, Running
<1> HIDE DEF w
<1>6. /\ pull' \in [Ids -> Writer] /\ pull'[p] = w /\ \A o \in Ids \ {p} : pull'[o] = pull[o]
  BY <1>1, <1>3, <1>5 DEF PTypeOK, w
<1>7. /\ pull'[p].st = "finalizing"
      /\ \A o \in Ids : SameJob(o) /\ (o # p => pull'[o] = pull[o])
  BY <1>3, <1>5, <1>6 DEF SameJob
<1>8. PTypeOK'
  BY <1>1, <1>2, <1>3, <1>6 DEF PTypeOK
<1>9. /\ \A i \in Ids : part'[i] \in {0, part[i]}
      /\ \A i \in Ids : part'[i] # 0 =>
           man'[i] \in {man[i], NoManifest, Corrupt} \/ (i = pull[p].dir /\ man'[i] = SavedBy(p))
  BY <1>1, <1>2, <1>3 DEF PTypeOK
<1>10. NoData
  BY <1>1, <1>3, <1>7, <1>9, OthersKept
<1>11. QED
  BY <1>8, <1>10, NoDataBase

(* and that lands,                                                          *)
LEMMA FinRenameBase ==
  ASSUME ConstantsOK, BaseInv, NEW p \in Ids, FinRename(p)
  PROVE  BaseInv'
<1>1. PTypeOK /\ PullsInv /\ OpenInv /\ p \in Active /\ pull[p] \in Writer
      /\ man \in [Ids -> Manifests] /\ pull[p].st = "finalizing"
  BY DEF BaseInv, FinRename, Active, Running, PTypeOK, Manifests
<1>2. pull[p].dir \in Ids /\ SavedBy(p) \in Manifest /\ pull[p].slot \in Slots
  BY <1>1, ActiveFacts DEF Writer
<1>3. UNCHANGED <<nextId, data, restarts, crowded>> /\ OffsetsOf(pull[p].file) \subseteq pull[p].bits
  BY <1>1 DEF FinRename, PullsInv
<1>4. CASE part[pull[p].dir] = 0
  <2>1. /\ End(p, "failed") /\ man' = Dropped(p, man, part)
        /\ part' = part /\ folder' = folder /\ overtaken' = overtaken
    BY <1>4 DEF FinRename
  <2>2. /\ pull' \in [Ids -> Writer] /\ pull'[p].st = "failed"
        /\ \A o \in Ids : SameJob(o) /\ (o # p => pull'[o] = pull[o])
    BY <1>1, <2>1, Ends
  <2>3. /\ man' \in [Ids -> Manifests]
        /\ \A i \in Ids : man'[i] = man[i] \/ (i = pull[p].dir /\ man'[i] = SavedBy(p))
    BY <1>1, <2>1, DroppedFacts
  <2>4. PTypeOK'
    BY <1>1, <1>3, <2>1, <2>2, <2>3 DEF PTypeOK, Manifests
  <2>5. "failed" \notin Running
    BY DEF Running
  <2>6. NoData
    BY <1>1, <1>3, <2>1, <2>2, <2>3, <2>5, OthersKept
  <2>7. QED
    BY <2>4, <2>6, NoDataBase
<1>5. CASE part[pull[p].dir] # 0
  <2>1. /\ End(p, "renamed") /\ man' = man
        /\ folder' = [folder EXCEPT ![pull[p].slot] = part[pull[p].dir]]
        /\ part' = [part EXCEPT ![pull[p].dir] = 0]
        /\ \E T \in SUBSET Active : overtaken' = overtaken \cup T
    BY <1>5 DEF FinRename
  <2>2. /\ pull' \in [Ids -> Writer] /\ pull'[p].st = "renamed"
        /\ \A o \in Ids : SameJob(o) /\ (o # p => pull'[o] = pull[o])
    BY <1>1, <2>1, Ends DEF Running
  <2>3. PTypeOK'
    BY <1>1, <1>2, <1>3, <2>1, <2>2 DEF PTypeOK, Active
  <2>4. /\ part'[pull[p].dir] = 0 /\ \A i \in Ids : part'[i] \in {0, part[i]}
        /\ \A i \in Ids : man'[i] = man[i]
    BY <1>1, <1>2, <2>1 DEF PTypeOK
  <2>5. NoData
    BY <1>1, <1>3, <2>2, <2>4, OthersKept
  <2>6. QED
    BY <2>3, <2>5, NoDataBase
<1>6. QED
  BY <1>4, <1>5

(* What happens to the directories and to the sources besides.              *)
LEMMA RestartBase ==
  ASSUME ConstantsOK, BaseInv, Restart
  PROVE  BaseInv'
<1>1. PTypeOK /\ PullsInv /\ OpenInv /\ man \in [Ids -> Manifests]
  BY DEF BaseInv, PTypeOK, Manifests
<1>2. /\ \A p \in Ids : pull'[p] = IF p \in Active THEN [pull[p] EXCEPT !.st = "failed"] ELSE pull[p]
      /\ restarts' \in 0 .. Restarts /\ UNCHANGED <<nextId, data, folder, crowded, overtaken>>
      /\ pull' = [p \in Ids |-> pull'[p]]
  BY <1>1 DEF Restart, PTypeOK, ConstantsOK, met
<1>3. ASSUME NEW p \in Ids
      PROVE  pull'[p] \in Writer /\ SameJob(p) /\ p \notin Active'
  <2>1. CASE p \in Active
    <3>1. pull[p] \in Writer /\ pull[p].st # "none" /\ pull'[p] = [pull[p] EXCEPT !.st = "failed"]
      BY <1>1, <1>2, <2>1 DEF PTypeOK, Active, Running
    <3>2. QED
      BY <3>1 DEF Writer, SameJob, Active, Running
  <2>2. CASE p \notin Active
    BY <1>1, <1>2, <2>2 DEF PTypeOK, SameJob, Active
  <2>3. QED
    BY <2>1, <2>2
<1>4. pull' \in [Ids -> Writer]
  BY <1>2, <1>3
<1>5. /\ \A i \in Ids : man'[i] \in {man[i], NoManifest, Corrupt} /\ part'[i] \in {0, part[i]}
      /\ man' = [i \in Ids |-> man'[i]] /\ part' = [i \in Ids |-> part'[i]]
  BY DEF Restart
<1>6. PTypeOK'
  BY <1>1, <1>2, <1>4, <1>5 DEF PTypeOK
<1>7. \A q \in Peers : nextId'[q] <= nextId[q]
  BY <1>1, <1>2 DEF PTypeOK, ConstantsOK
<1>8. \A p \in Active' : FALSE
  BY <1>3 DEF Active
<1>9. NoData
  BY <1>2, <1>3, <1>5, <1>7, <1>8 DEF NoData
<1>10. QED
  BY <1>6, <1>9, NoDataBase

(* directories that are collected or deleted,                               *)
LEMMA DirectoryBase ==
  ASSUME ConstantsOK, BaseInv, CollectNow \/ \E i \in Ids : DestroyDir(i)
  PROVE  BaseInv'
<1>1. PTypeOK /\ PullsInv /\ OpenInv
  BY DEF BaseInv
<1>2. UNCHANGED <<nextId, pull, data, folder, restarts, crowded, overtaken>>
  BY DEF CollectNow, DestroyDir, met
<1>3. /\ \A i \in Ids : man'[i] \in {man[i], NoManifest, Corrupt} /\ part'[i] \in {0, part[i]}
      /\ man' = [i \in Ids |-> man'[i]] /\ part' = [i \in Ids |-> part'[i]]
  <2>1. CASE CollectNow
    BY <2>1 DEF CollectNow
  <2>2. ASSUME NEW i \in Ids, DestroyDir(i)
        PROVE  /\ \A k \in Ids : man'[k] \in {man[k], NoManifest, Corrupt} /\ part'[k] \in {0, part[k]}
               /\ man' = [k \in Ids |-> man'[k]] /\ part' = [k \in Ids |-> part'[k]]
    BY <1>1, <2>2 DEF DestroyDir, PTypeOK
  <2>3. QED
    BY <2>1, <2>2
<1>4. PTypeOK'
  BY <1>1, <1>2, <1>3 DEF PTypeOK
<1>5. \A q \in Peers : nextId'[q] <= nextId[q]
  BY <1>1, <1>2 DEF PTypeOK, ConstantsOK
<1>6. ASSUME NEW p \in Active'
      PROVE  /\ p \in Active
             /\ pull[p].dir \notin crowded /\ pull'[p].st = "renamed" => part'[pull[p].dir] = 0
             /\ pull'[p].st # "open" => OffsetsOf(pull[p].file) \subseteq pull[p].bits
  <2>1. p \in Active
    BY <1>2 DEF Active
  <2>2. pull[p].dir \in Ids
    BY <1>1, <2>1, ActiveFacts
  <2>3. QED
    BY <1>1, <1>2, <1>3, <2>1, <2>2 DEF OpenInv, PullsInv, Active
<1>7. \A p \in Ids : SameJob(p)
  BY <1>2 DEF SameJob
<1>8. NoData
  BY <1>2, <1>3, <1>5, <1>6, <1>7 DEF NoData
<1>9. QED
  BY <1>4, <1>8, NoDataBase

(* the restart of a source,                                                 *)
LEMMA PeerRestartBase ==
  ASSUME ConstantsOK, BaseInv, NEW q \in Peers, PeerRestart(q)
  PROVE  BaseInv'
<1>1. PTypeOK /\ PullsInv /\ OpenInv
  BY DEF BaseInv
<1>2. UNCHANGED <<pull, man, part, data, folder, restarts, crowded, overtaken>> /\ nextId' = [nextId EXCEPT ![q] = 1]
  BY DEF PeerRestart, met
<1>3. PTypeOK' /\ \A r \in Peers : nextId'[r] <= nextId[r]
  BY <1>1, <1>2 DEF PTypeOK, ConstantsOK
<1>4. \A p \in Active' : /\ p \in Active
                         /\ pull[p].dir \notin crowded /\ pull'[p].st = "renamed" =>
                              part'[pull[p].dir] = 0
                         /\ pull'[p].st # "open" => OffsetsOf(pull[p].file) \subseteq pull[p].bits
  BY <1>1, <1>2 DEF Active, OpenInv, PullsInv
<1>5. NoData
  BY <1>2, <1>3, <1>4 DEF NoData, SameJob
<1>6. QED
  BY <1>3, <1>5, NoDataBase

(* A chunk is written.                                                      *)
LEMMA WriteEffect ==
  ASSUME ConstantsOK, PTypeOK, PullsInv, NEW p \in Ids, NEW c \in Offsets, WriteChunk(p, c)
  PROVE  /\ p \in Active /\ pull[p].st = "open" /\ c \in OffsetsOf(pull[p].file) \ pull[p].bits
         /\ pull' \in [Ids -> Writer]
         /\ pull'[p] = [pull[p] EXCEPT !.bits = pull[p].bits \cup {c}]
         /\ pull'[p].st = "open" /\ pull'[p].bits = pull[p].bits \cup {c}
         /\ pull'[p].peer = pull[p].peer /\ pull'[p].file = pull[p].file
         /\ pull'[p].dir = pull[p].dir /\ pull'[p].ino = pull[p].ino /\ pull'[p].slot = pull[p].slot
         /\ \A o \in Ids \ {p} : pull'[o] = pull[o]
         /\ data' \in [Inodes -> [Offsets -> Files \cup {Hole}]]
         /\ data'[pull[p].ino] = [data[pull[p].ino] EXCEPT ![c] = pull[p].file]
         /\ \A n \in Inodes \ {pull[p].ino} : data'[n] = data[n]
         /\ man' \in [Ids -> Manifests]
         /\ \A i \in Ids \ {pull[p].dir} : man'[i] = man[i]
         /\ \/ man'[pull[p].dir] = [file |-> pull[p].file, bits |-> pull[p].bits \cup {c}]
            \/ man' = man /\ ~(OffsetsOf(pull[p].file) \subseteq pull[p].bits \cup {c})
         /\ UNCHANGED <<nextId, part, folder, restarts, crowded, overtaken>>
<1>1. /\ p \in Active /\ pull[p].st = "open" /\ c \in OffsetsOf(pull[p].file) \ pull[p].bits
      /\ pull[p] \in Writer /\ UNCHANGED <<nextId, part, folder, restarts, crowded, overtaken>>
  BY DEF WriteChunk, met, Active, Running, PTypeOK
<1>2. /\ pull[p].dir \in Ids /\ pull[p].file \in Files /\ pull[p].ino \in Inodes
      /\ pull[p].bits \cup {c} \in SUBSET Offsets
  BY <1>1, ActiveFacts
<1> DEFINE w == [pull[p] EXCEPT !.bits = pull[p].bits \cup {c}]
           m == [file |-> pull[p].file, bits |-> pull[p].bits \cup {c}]
<1>3. /\ w \in Writer /\ w.st = "open" /\ w.bits = pull[p].bits \cup {c}
      /\ w.peer = pull[p].peer /\ w.file = pull[p].file
      /\ w.dir = pull[p].dir /\ w.ino = pull[p].ino /\ w.slot = pull[p].slot
  BY <1>1, <1>2 DEF Writer
<1>4. pull' = [pull EXCEPT ![p] = w]
  BY DEF WriteChunk
<1>5. m \in Manifests
  BY <1>2, DataFacts DEF Manifests
<1> HIDE DEF w
<1>6. pull' \in [Ids -> Writer] /\ pull'[p] = w /\ \A o \in Ids \ {p} : pull'[o] = pull[o]
  BY <1>3, <1>4 DEF PTypeOK
<1>7. \/ man' = [man EXCEPT ![pull[p].dir] = m]
      \/ man' = man /\ ~(OffsetsOf(pull[p].file) \subseteq pull[p].bits \cup {c})
  BY <1>3, <1>6 DEF WriteChunk, Saved
<1> HIDE DEF m
<1>8. /\ man' \in [Ids -> Manifests] /\ \A i \in Ids \ {pull[p].dir} : man'[i] = man[i]
      /\ \/ man'[pull[p].dir] = m
         \/ man' = man /\ ~(OffsetsOf(pull[p].file) \subseteq pull[p].bits \cup {c})
  BY <1>2, <1>5, <1>7 DEF PTypeOK, Manifests
<1>9. /\ data' \in [Inodes -> [Offsets -> Files \cup {Hole}]]
      /\ data'[pull[p].ino] = [data[pull[p].ino] EXCEPT ![c] = pull[p].file]
      /\ \A n \in Inodes \ {pull[p].ino} : data'[n] = data[n]
  BY <1>2 DEF WriteChunk, PTypeOK
<1>10. QED
  BY <1>1, <1>3, <1>6, <1>8, <1>9 DEF w, m

(* and a chunk that is written, with its save, keep it.                     *)
LEMMA WriteChunkBase ==
  ASSUME ConstantsOK, BaseInv, NEW p \in Ids, NEW c \in Offsets, WriteChunk(p, c)
  PROVE  BaseInv'
<1>t. PTypeOK /\ IdsInv /\ PullsInv /\ InodesInv /\ CrowdInv /\ ResumeSound /\ OpenInv
  BY DEF BaseInv
<1> DEFINE i == pull[p].dir
           n == pull[p].ino
<1>1. /\ p \in Active /\ pull[p].st = "open"
      /\ pull' \in [Ids -> Writer]
      /\ pull'[p].st = "open" /\ pull'[p].bits = pull[p].bits \cup {c}
      /\ pull'[p].file = pull[p].file /\ pull'[p].dir = i /\ pull'[p].ino = n
      /\ \A o \in Ids \ {p} : pull'[o] = pull[o]
      /\ data' \in [Inodes -> [Offsets -> Files \cup {Hole}]]
      /\ data'[n] = [data[n] EXCEPT ![c] = pull[p].file]
      /\ \A k \in Inodes \ {n} : data'[k] = data[k]
      /\ man' \in [Ids -> Manifests]
      /\ \A k \in Ids \ {i} : man'[k] = man[k]
      /\ \/ man'[i] = [file |-> pull[p].file, bits |-> pull[p].bits \cup {c}]
         \/ man' = man
      /\ UNCHANGED <<nextId, part, folder, restarts, crowded, overtaken>>
  BY <1>t, WriteEffect
<1>2. i \in Ids /\ pull[p].file \in Files /\ n \in Inodes /\ n # 0
  BY <1>t, <1>1, ActiveFacts DEF PullsInv
<1>3. \A o \in Ids : pull'[o].ino = pull[o].ino /\ pull'[o].dir = pull[o].dir
                     /\ pull'[o].file = pull[o].file /\ pull'[o].st = pull[o].st
  BY <1>1
<1>4. PTypeOK'
  BY <1>t, <1>1 DEF PTypeOK, Manifests
<1>5. IdsInv'
  <2>1. Started' = Started /\ nextId' = nextId
    BY <1>1, <1>3 DEF Started
  <2>2. QED
    BY <1>t, <2>1 DEF IdsInv
<1>6. Active' = Active /\ Active \subseteq Ids
  BY <1>3 DEF Active
<1>c. CrowdInv'
  BY <1>t, <1>1, <1>3, <1>6 DEF CrowdInv
<1>7. PullsInv'
  BY <1>t, <1>1, <1>3, <1>6 DEF PullsInv
<1>8. InodesInv'
  BY <1>t, <1>1, <1>3 DEF InodesInv, Holds
<1>9. DOMAIN data[n] = Offsets
  BY <1>t, <1>2 DEF PTypeOK
<1>10. /\ data'[n][c] = pull[p].file /\ \A b \in Offsets \ {c} : data'[n][b] = data[n][b]
       /\ \A b \in pull[p].bits : b \in Offsets /\ (i \notin crowded => data[n][b] = pull[p].file)
  BY <1>t, <1>1, <1>2, <1>9, ActiveFacts DEF OpenInv
<1>11. i \notin crowded => /\ part[i] \in {0, n}
                           /\ Loadable(i) /\ part[i] # 0 => man[i].file = pull[p].file
  BY <1>t, <1>1 DEF OpenInv
<1>12. ResumeSound'
  <2>1. SUFFICES ASSUME NEW k \in Ids \ crowded, man'[k] \in Manifest, part[k] # 0,
                        NEW b \in man'[k].bits
                 PROVE  data'[part[k]][b] = man'[k].file
    BY <1>1 DEF ResumeSound, Loadable
  <2>2. b \in Offsets
    BY <2>1, DataFacts
  <2>3. CASE k # i
    <3>1. part[k] # n /\ part[k] \in Inodes /\ man'[k] = man[k]
      BY <1>t, <1>1, <1>2, <2>1, <2>3 DEF InodesInv, Holds, PTypeOK
    <3>2. QED
      BY <1>t, <1>1, <2>1, <3>1 DEF ResumeSound, Loadable
  <2>4. CASE k = i
    <3>1. part[k] = n /\ i \notin crowded
      BY <1>11, <2>1, <2>4
    <3>2. CASE man'[i] = [file |-> pull[p].file, bits |-> pull[p].bits \cup {c}]
      BY <1>10, <2>1, <2>4, <3>1, <3>2
    <3>3. CASE man' = man
      <4>1. man[k].file = pull[p].file /\ data[n][b] = pull[p].file
        BY <1>t, <1>11, <2>1, <2>4, <3>1, <3>3 DEF ResumeSound, Loadable
      <4>2. QED
        BY <1>10, <2>2, <3>1, <3>3, <4>1
    <3>4. QED
      BY <1>1, <3>2, <3>3
  <2>5. QED
    BY <2>3, <2>4
<1>13. ASSUME NEW o \in Active, pull'[o].dir \notin crowded
       PROVE  /\ part[pull'[o].dir] \in {0, pull'[o].ino}
              /\ pull'[o].st = "renamed" => part[pull'[o].dir] = 0
              /\ \A b \in pull'[o].bits : data'[pull'[o].ino][b] = pull'[o].file
              /\ man'[pull'[o].dir] \in Manifest /\ part[pull'[o].dir] # 0 =>
                   man'[pull'[o].dir].file = pull'[o].file
  <2>1. CASE o = p
    <3>1. i \notin crowded
      BY <1>1, <1>13, <2>1
    <3>2. man'[i] \in Manifest /\ part[i] # 0 => man'[i].file = pull[p].file
      BY <1>1, <1>11, <3>1 DEF Loadable
    <3>3. \A b \in pull[p].bits \cup {c} : data'[n][b] = pull[p].file
      BY <1>10, <3>1
    <3>4. QED
      BY <1>1, <1>11, <2>1, <3>1, <3>2, <3>3
  <2>2. CASE o # p
    <3>1. o \in Ids /\ pull'[o] = pull[o] /\ pull[o].dir \in Ids /\ pull[o].ino \in Inodes
      BY <1>t, <1>1, <2>2, ActiveFacts
    <3>2. pull[o].dir # i
      BY <1>t, <1>1, <1>13, <2>2, <3>1 DEF CrowdInv
    <3>3. pull[o].ino # n
      BY <1>t, <1>1, <1>2, <3>1, <3>2 DEF InodesInv
    <3>4. man'[pull[o].dir] = man[pull[o].dir] /\ data'[pull[o].ino] = data[pull[o].ino]
      BY <1>1, <3>1, <3>2, <3>3
    <3>5. QED
      BY <1>t, <1>13, <3>1, <3>4 DEF OpenInv, Loadable
  <2>3. QED
    BY <2>1, <2>2
<1>14. OpenInv'
  BY <1>1, <1>6, <1>13 DEF OpenInv, Loadable
<1>15. QED
  BY <1>4, <1>5, <1>c, <1>7, <1>8, <1>12, <1>14 DEF BaseInv

-----------------------------------------------------------------------------
(* An empty store has nothing to be wrong about.                            *)
LEMMA BaseInit == ConstantsOK /\ PInit => BaseInv
<1> SUFFICES ASSUME ConstantsOK, PInit PROVE BaseInv
  OBVIOUS
<1>1. \A p \in Ids : pull[p] = NoPull
  BY DEF PInit
<1>2. NoPull \in Writer /\ NoPull.st = "none" /\ NoPull.ino = 0
  BY DataFacts DEF NoPull, Writer
<1>3. PTypeOK
  BY <1>2 DEF PInit, PTypeOK, ConstantsOK
<1>4. Started = {} /\ Active = {}
  BY <1>1, <1>2 DEF Started, Active, Running
<1>5. IdsInv
  BY <1>4, FS_EmptySet DEF IdsInv, PInit
<1>6. PullsInv /\ OpenInv /\ CrowdInv
  BY <1>1, <1>2, <1>4 DEF PullsInv, OpenInv, CrowdInv
<1>7. InodesInv /\ ResumeSound
  BY <1>1, <1>2 DEF PInit, InodesInv, Holds, ResumeSound
<1>8. QED
  BY <1>3, <1>5, <1>6, <1>7 DEF BaseInv

(* Every step keeps what the store says of itself.                          *)
LEMMA BaseStep == ConstantsOK /\ BaseInv /\ [PNext]_pvars => BaseInv'
<1> SUFFICES ASSUME ConstantsOK, BaseInv, [PNext]_pvars PROVE BaseInv'
  OBVIOUS
<1>1. CASE UNCHANGED pvars
  BY <1>1 DEF pvars, BaseInv, PTypeOK, IdsInv, Started, PullsInv, Active, InodesInv, Holds,
     CrowdInv, ResumeSound, OpenInv, Loadable
<1>2. CASE PNext
  BY <1>2, StartBase, WriteChunkBase, AbortBase, CancelBase, FinPrepareBase, FinRenameBase,
     RestartBase, DirectoryBase, PeerRestartBase DEF PNext
<1>3. QED
  BY <1>1, <1>2

-----------------------------------------------------------------------------
(* A name that was chosen stays free until it is used, unless all names are *)
(* taken or another transfer lands there first and is known to have.        *)
NamesInv ==
  \A p \in Ids : pull[p].st = "finalizing" =>
    \/ folder[pull[p].slot] = 0 \/ p \in overtaken
    \/ \A t \in Slots : folder[t] # 0

(* Steps that choose or take no name, ...                                   *)
NamesAlone ==
  /\ folder' = folder /\ overtaken' = overtaken
  /\ \A p \in Ids : pull'[p].st = "finalizing" =>
       pull[p].st = "finalizing" /\ pull'[p].slot = pull[p].slot

(* ... a transfer that begins or goes on being one of them,                 *)
LEMMA BeginsOrGoesOn ==
  ASSUME ConstantsOK, BaseInv, NEW p \in Ids,
         \/ \E q \in Peers, f \in Files : Start(p, q, f) \/ Push(p, q, f)
         \/ \E c \in Offsets : WriteChunk(p, c)
         \/ Abort(p) \/ Cancel(p) \/ FinClean(p)
  PROVE  NamesAlone
<1>t. PTypeOK /\ PullsInv
  BY DEF BaseInv
<1>1. ASSUME NEW q \in Peers, NEW f \in Files, Start(p, q, f) \/ Push(p, q, f)
      PROVE  NamesAlone
  <2>1. PICK r \in Peers \cup {Hole}, i \in Ids : Opened(p, r, f, i)
    <3>1. CASE Start(p, q, f)
      BY <1>t, <3>1, IdLeft DEF Start, DirFor, Pending, BaseInv
    <3>2. CASE Push(p, q, f)
      BY <1>t, <3>2, IdLeft DEF Push, BaseInv
    <3>3. QED
      BY <1>1, <3>1, <3>2
  <2>2. PICK w \in Writer : /\ pull' = [pull EXCEPT ![p] = w]
                            /\ Resumes(w, f, i) \/ Begins(w, f, i)
    BY <1>t, <1>1, <2>1, OpenedEffect DEF Start, Push, PullsInv
  <2>3. w.st # "finalizing" /\ pull'[p] = w /\ \A o \in Ids \ {p} : pull'[o] = pull[o]
    BY <1>t, <2>2 DEF Resumes, Begins, PTypeOK
  <2>4. QED
    BY <1>1, <2>3 DEF NamesAlone, Start, Push
<1>2. ASSUME NEW c \in Offsets, WriteChunk(p, c)
      PROVE  NamesAlone
  BY <1>t, <1>2, WriteEffect DEF NamesAlone
<1>3. CASE Abort(p) \/ Cancel(p) \/ FinClean(p)
  <2>1. /\ p \in Active /\ folder' = folder /\ overtaken' = overtaken
        /\ \E x \in {"failed", "done"} : End(p, x)
    BY <1>3 DEF Abort, Cancel, FinClean, Active, Running, met
  <2>2. PICK x \in {"failed", "done"} : End(p, x)
    BY <2>1
  <2>3. pull'[p].st = x /\ \A o \in Ids : o # p => pull'[o] = pull[o]
    BY <1>t, <2>1, <2>2, Ends
  <2>4. QED
    BY <2>1, <2>2, <2>3 DEF NamesAlone
<1>4. QED
  BY <1>1, <1>2, <1>3

(* and what happens to processes and directories another.                   *)
LEMMA DisturbedAlone ==
  ASSUME ConstantsOK, BaseInv,
         Restart \/ CollectNow \/ (\E i \in Ids : DestroyDir(i)) \/ \E q \in Peers : PeerRestart(q)
  PROVE  NamesAlone
<1>t. PTypeOK
  BY DEF BaseInv
<1>1. CASE Restart
  <2>1. /\ \A p \in Ids : pull'[p] = IF p \in Active THEN [pull[p] EXCEPT !.st = "failed"] ELSE pull[p]
        /\ folder' = folder /\ overtaken' = overtaken /\ \A p \in Ids : pull[p] \in Writer
    BY <1>t, <1>1 DEF Restart, PTypeOK, met
  <2>2. ASSUME NEW p \in Ids PROVE pull'[p].st # "finalizing"
    <3>1. CASE p \in Active
      BY <2>1, <3>1 DEF Writer
    <3>2. CASE p \notin Active
      BY <2>1, <3>2 DEF Active, Running
    <3>3. QED
      BY <3>1, <3>2
  <2>3. QED
    BY <2>1, <2>2 DEF NamesAlone
<1>2. CASE CollectNow \/ (\E i \in Ids : DestroyDir(i)) \/ \E q \in Peers : PeerRestart(q)
  BY <1>2 DEF NamesAlone, CollectNow, DestroyDir, PeerRestart, met
<1>3. QED
  BY <1>1, <1>2

(* A name is chosen when it is free, and who takes it is noticed.           *)
LEMMA NamesStep == ConstantsOK /\ BaseInv /\ NamesInv /\ [PNext]_pvars => NamesInv'
<1> SUFFICES ASSUME ConstantsOK, BaseInv, NamesInv, [PNext]_pvars PROVE NamesInv'
  OBVIOUS
<1>t. PTypeOK /\ PullsInv
  BY DEF BaseInv
<1>1. CASE NamesAlone
  BY <1>1 DEF NamesInv, NamesAlone
<1>2. ASSUME NEW p \in Ids, FinPrepare(p)
      PROVE  NamesInv'
  <2>1. p \in Active /\ pull[p] \in Writer /\ folder' = folder /\ overtaken' = overtaken
    BY <1>t, <1>2 DEF FinPrepare, Active, Running, PTypeOK, met
  <2>2. /\ pull'[p] = [pull[p] EXCEPT !.st = "finalizing", !.slot = FreeSlot]
        /\ \A o \in Ids \ {p} : pull'[o] = pull[o]
    BY <1>t, <1>2 DEF FinPrepare, PTypeOK
  <2>3. pull'[p].slot = FreeSlot
    BY <2>1, <2>2 DEF Writer
  <2>4. folder[FreeSlot] = 0 \/ \A t \in Slots : folder[t] # 0
    BY SlotChosen
  <2>5. QED
    BY <2>1, <2>2, <2>3, <2>4 DEF NamesInv
<1>3. ASSUME NEW p \in Ids, FinRename(p)
      PROVE  NamesInv'
  <2>1. p \in Active /\ pull[p] \in Writer /\ \E x \in {"failed", "renamed"} : End(p, x)
    BY <1>t, <1>3 DEF FinRename, Active, Running, PTypeOK
  <2>2. PICK x \in {"failed", "renamed"} : End(p, x)
    BY <2>1
  <2>3. pull'[p].st = x /\ \A o \in Ids : o # p => pull'[o] = pull[o]
    BY <1>t, <2>1, <2>2, Ends DEF Running
  <2>4. SUFFICES ASSUME NEW o \in Ids, pull'[o].st = "finalizing"
                 PROVE  \/ folder'[pull'[o].slot] = 0 \/ o \in overtaken'
                        \/ \A t \in Slots : folder'[t] # 0
    BY DEF NamesInv
  <2>5. o # p /\ pull'[o] = pull[o] /\ o \in Active
    BY <2>3, <2>4 DEF Active, Running
  <2>6. CASE part[pull[p].dir] = 0
    BY <1>3, <2>4, <2>5, <2>6 DEF FinRename, NamesInv
  <2>7. CASE part[pull[p].dir] # 0
    <3>1. /\ folder' = [folder EXCEPT ![pull[p].slot] = part[pull[p].dir]]
          /\ overtaken \subseteq overtaken'
          /\ pull[o].slot = pull[p].slot => o \in overtaken'
      BY <1>3, <2>4, <2>5, <2>7 DEF FinRename
    <3>2. pull[o].slot # pull[p].slot => folder'[pull[o].slot] = folder[pull[o].slot]
      <4>1. pull[o].slot \in Slots
        BY <1>t, <2>5 DEF PTypeOK, Writer
      <4>2. QED
        BY <1>t, <3>1, <4>1 DEF PTypeOK
    <3>3. (\A t \in Slots : folder[t] # 0) => \A t \in Slots : folder'[t] # 0
      BY <1>t, <2>7, <3>1 DEF PTypeOK
    <3>4. QED
      BY <2>4, <2>5, <3>1, <3>2, <3>3 DEF NamesInv
  <2>8. QED
    BY <2>6, <2>7
<1>4. CASE UNCHANGED pvars
  BY <1>4 DEF pvars, NamesInv
<1>5. QED
  BY <1>1, <1>2, <1>3, <1>4, BeginsOrGoesOn, DisturbedAlone DEF PNext

-----------------------------------------------------------------------------
(* A single source that pushes nothing serves one pull at a time, so that a *)
(* running pull has the disk to itself.                                     *)
AloneInv ==
  /\ \A p, o \in Active : p = o
  /\ \A p \in Active : pull[p].peer \in Peers
  /\ crowded = {}

(* With one source whose ids only count up, no pull is given a directory in *)
(* use.                                                                     *)
LEMMA AloneStep ==
  ASSUME ConstantsOK, Gentle, BaseInv, AloneInv, [PNext]_pvars
  PROVE  AloneInv'
<1>t. PTypeOK /\ PullsInv
  BY DEF BaseInv
<1>0. ASSUME crowded' = crowded,
             \A p \in Active' : p \in Active /\ pull'[p].peer = pull[p].peer
      PROVE  AloneInv'
  BY <1>0 DEF AloneInv
<1>1. ASSUME NEW p \in Ids, NEW q \in Peers, NEW f \in Files, Start(p, q, f)
      PROVE  AloneInv'
  <2>1. Active = {}
    BY <1>1 DEF Start, Gentle, AloneInv
  <2>2. PICK i \in Ids : Opened(p, q, f, i)
    BY <1>t, <1>1, IdLeft DEF Start, DirFor, Pending, BaseInv
  <2>3. PICK w \in Writer : pull' = [pull EXCEPT ![p] = w] /\ w.peer = q
    BY <1>t, <1>1, <2>2, OpenedEffect DEF Start, PullsInv
  <2>4. pull'[p] = w /\ \A o \in Ids \ {p} : pull'[o] = pull[o]
    BY <1>t, <2>3 DEF PTypeOK
  <2>5. \A o \in Active' : o = p /\ pull'[o].peer \in Peers
    BY <2>1, <2>3, <2>4 DEF Active
  <2>6. crowded' = {}
    BY <2>1, <2>2 DEF Opened, AloneInv
  <2>7. QED
    BY <2>5, <2>6 DEF AloneInv
<1>2. ASSUME NEW p \in Ids, NEW c \in Offsets, WriteChunk(p, c)
      PROVE  AloneInv'
  <2>1. crowded' = crowded /\ \A o \in Active' : o \in Active /\ pull'[o].peer = pull[o].peer
    BY <1>t, <1>2, WriteEffect DEF Active
  <2>2. QED
    BY <1>0, <2>1
<1>3. ASSUME NEW p \in Ids, Abort(p) \/ Cancel(p) \/ FinClean(p) \/ FinRename(p)
      PROVE  AloneInv'
  <2>1. p \in Active /\ crowded' = crowded /\ \E x \in {"failed", "done", "renamed"} : End(p, x)
    BY <1>3 DEF Abort, Cancel, FinClean, FinRename, Active, Running, met
  <2>2. PICK x \in {"failed", "done", "renamed"} : End(p, x)
    BY <2>1
  <2>3. \A o \in Ids : SameJob(o) /\ (o # p => pull'[o] = pull[o])
    BY <1>t, <2>1, <2>2, Ends DEF Running
  <2>4. \A o \in Active' : o \in Active /\ pull'[o].peer = pull[o].peer
    BY <2>1, <2>3 DEF Active, SameJob
  <2>5. QED
    BY <1>0, <2>1, <2>4
<1>4. ASSUME NEW p \in Ids, FinPrepare(p)
      PROVE  AloneInv'
  <2>1. p \in Active /\ pull[p] \in Writer /\ crowded' = crowded
    BY <1>t, <1>4 DEF FinPrepare, Active, Running, PTypeOK, met
  <2>2. /\ pull'[p] = [pull[p] EXCEPT !.st = "finalizing", !.slot = FreeSlot]
        /\ \A o \in Ids \ {p} : pull'[o] = pull[o]
    BY <1>t, <1>4 DEF FinPrepare, PTypeOK
  <2>3. pull'[p].peer = pull[p].peer
    BY <2>1, <2>2 DEF Writer
  <2>4. \A o \in Active' : o \in Active /\ pull'[o].peer = pull[o].peer
    BY <2>1, <2>2, <2>3 DEF Active
  <2>5. QED
    BY <1>0, <2>1, <2>4
<1>5. CASE Restart
  <2>1. /\ \A p \in Ids : pull'[p] = IF p \in Active THEN [pull[p] EXCEPT !.st = "failed"] ELSE pull[p]
        /\ crowded' = crowded /\ \A p \in Ids : pull[p] \in Writer
    BY <1>t, <1>5 DEF Restart, PTypeOK, met
  <2>2. ASSUME NEW p \in Ids PROVE pull'[p].st \notin Running
    <3>1. CASE p \in Active
      BY <2>1, <3>1 DEF Writer, Running
    <3>2. CASE p \notin Active
      BY <2>1, <3>2 DEF Active
    <3>3. QED
      BY <3>1, <3>2
  <2>3. Active' = {}
    BY <2>2 DEF Active, Running
  <2>4. QED
    BY <1>0, <2>1, <2>3
<1>6. /\ ~CollectNow /\ (\A i \in Ids : ~DestroyDir(i)) /\ (\A q \in Peers : ~PeerRestart(q))
      /\ \A p \in Ids, q \in Peers, f \in Files : ~Push(p, q, f)
  BY DEF Gentle, CollectNow, DestroyDir, PeerRestart, Push
<1>7. CASE UNCHANGED pvars
  BY <1>7 DEF pvars, AloneInv, Active
<1>8. QED
  BY <1>1, <1>2, <1>3, <1>4, <1>5, <1>6, <1>7 DEF PNext

-----------------------------------------------------------------------------
(* What a single source that keeps counting adds.                           *)

(* The directories of the ids to come are untouched: a directory is only    *)
(* ever used for one content.                                               *)
FreshInv ==
  \A q \in Peers, i \in Ids : i >= nextId[q] =>
    man[i] = NoManifest /\ part[i] = 0 /\ \A p \in Ids : pull[p].dir # i

(* A running pull finds its part.bin until it has renamed it, and the       *)
(* manifest of its directory is of its content and not ahead of it.         *)
WorkInv ==
  \A p \in Active :
    /\ pull[p].st # "renamed" => part[pull[p].dir] = pull[p].ino
    /\ man[pull[p].dir].file = pull[p].file /\ man[pull[p].dir].bits \subseteq pull[p].bits
    /\ pull[p].st # "open" => man[pull[p].dir].bits = pull[p].bits

PendInv == \A i \in Pending : part[i] # 0

(* A part.bin holds chunks of its content and holes, nothing else.          *)
Pure(n, f) == \A c \in Offsets : data[n][c] = Hole \/ (data[n][c] = f /\ c \in OffsetsOf(f))

PureInv ==
  /\ \A p \in Ids : pull[p].ino # 0 => Pure(pull[p].ino, pull[p].file)
  /\ \A n \in Unused, c \in Offsets : data[n][c] = Hole
  /\ \A p, i \in Ids : Holds(p, i) /\ Loadable(i) => pull[p].file = man[i].file

(* What has landed is exact, and nobody writes to it any more.              *)
LandInv ==
  /\ \A p \in Ids : pull[p].st \in {"renamed", "done"} =>
       /\ pull[p].ino # 0 /\ folder[pull[p].slot] = pull[p].ino
       /\ data[pull[p].ino] = Exact(pull[p].file)
  /\ \A s \in Slots : folder[s] # 0 =>
       /\ \A i \in Ids : part[i] # folder[s]
       /\ \E p \in Ids : /\ pull[p].slot = s /\ pull[p].ino = folder[s]
                         /\ pull[p].st \notin {"none", "open"}
  /\ \A p \in Ids : pull[p].st = "finalizing" => folder[pull[p].slot] = 0

GentleInv == FreshInv /\ WorkInv /\ PendInv /\ PureInv /\ LandInv

(* A pull at work has a directory that can be opened again.                 *)
LEMMA LoadedWork ==
  ASSUME ConstantsOK, PTypeOK, PullsInv, WorkInv, NEW p \in Active
  PROVE  Loadable(pull[p].dir)
<1>1. pull[p].dir \in Ids /\ pull[p].file \in Files
  BY ActiveFacts
<1>2. man[pull[p].dir] \in Manifest \cup {NoManifest, Corrupt} /\ man[pull[p].dir].file \in Files
  BY <1>1 DEF PTypeOK, WorkInv
<1>3. NoManifest.file \notin Files /\ Corrupt.file \notin Files
  BY DEF NoManifest, Corrupt, ConstantsOK
<1>4. QED
  BY <1>2, <1>3 DEF Loadable

(* The directory a pull starts in is new, or holds what it resumes.         *)
LEMMA StartDir ==
  ASSUME ConstantsOK, BaseInv, GentleInv, NEW p \in Ids, NEW q \in Peers, NEW f \in Files,
         Start(p, q, f)
  PROVE  \E i \in Ids, w \in Writer :
           /\ pull[p].st = "none" /\ pull[p].ino = 0
           /\ pull'[p] = w /\ \A o \in Ids \ {p} : pull'[o] = pull[o]
           /\ w.st = "open" /\ w.file = f /\ w.dir = i
           /\ nextId' = [nextId EXCEPT ![q] = nextId[q] + 1] /\ nextId[q] \in Ids
           /\ UNCHANGED <<data, folder>>
           /\ \/ /\ i < nextId[q] /\ Loadable(i) /\ man[i].file = f /\ part[i] # 0
                 /\ w.ino = part[i] /\ w.bits = man[i].bits /\ UNCHANGED <<man, part>>
              \/ /\ i = nextId[q] /\ part[i] = 0 /\ w.ino \in Unused /\ w.ino # 0 /\ w.bits = {}
                 /\ man'[i] = [file |-> f, bits |-> {}] /\ part'[i] = w.ino
                 /\ \A k \in Ids \ {i} : man'[k] = man[k] /\ part'[k] = part[k]
<1>t. PTypeOK /\ PullsInv /\ IdsInv /\ FreshInv /\ PendInv
  BY DEF BaseInv, GentleInv
<1>0. pull[p].st = "none" /\ pull[p] = NoPull /\ nextId[q] \in Ids
  BY <1>t, IdLeft DEF Start, PullsInv
<1>1. pull[p].st = "none" /\ pull[p] = NoPull /\ nextId[q] \in Ids /\ pull[p].ino = 0
  BY <1>0 DEF NoPull
<1>2. PICK i \in DirFor(f, nextId[q]) : Opened(p, q, f, i)
  BY DEF Start
<1>3. \/ i \in Pending /\ man[i].file = f
      \/ i = nextId[q]
  BY <1>2 DEF DirFor
<1>4. i \in Ids
  BY <1>1, <1>3 DEF Pending
<1>5. PICK w \in Writer : /\ pull' = [pull EXCEPT ![p] = w]
                          /\ w.peer = q /\ w.file = f /\ w.dir = i
                          /\ Resumes(w, f, i) \/ Begins(w, f, i)
  BY <1>t, <1>1, <1>2, <1>4, OpenedEffect
<1>6. /\ pull'[p] = w /\ \A o \in Ids \ {p} : pull'[o] = pull[o]
      /\ nextId' = [nextId EXCEPT ![q] = nextId[q] + 1] /\ UNCHANGED <<data, folder>>
  BY <1>t, <1>5 DEF PTypeOK, Start
<1>7. CASE i \in Pending /\ man[i].file = f
  <2>1. Loadable(i) /\ ~Full(man[i]) /\ part[i] # 0
    BY <1>t, <1>7 DEF Pending, PendInv
  <2>2. Size[f] \in Nat /\ Size[f] # 0
    BY <1>7, <2>1 DEF Full, OffsetsOf, ConstantsOK
  <2>3. Resumes(w, f, i)
    BY <1>5, <1>7, <2>1, <2>2 DEF Begins
  <2>4. i < nextId[q]
    <3>1. man[i] # NoManifest
      BY <2>1, DataFacts DEF Loadable
    <3>2. ~(i >= nextId[q])
      BY <1>t, <1>4, <3>1 DEF FreshInv
    <3>3. QED
      BY <1>1, <1>4, <3>2 DEF Ids
  <2>5. QED
    BY <1>1, <1>4, <1>5, <1>6, <2>1, <2>3, <2>4 DEF Resumes
<1>8. CASE i = nextId[q]
  <2>1. i >= nextId[q]
    BY <1>4, <1>8 DEF Ids
  <2>2. man[i] = NoManifest /\ part[i] = 0
    BY <1>t, <1>4, <2>1 DEF FreshInv
  <2>3. ~Loadable(i)
    BY <2>2, DataFacts DEF Loadable
  <2>4. Begins(w, f, i)
    BY <1>5, <2>3 DEF Resumes
  <2>5. /\ w.st = "open" /\ w.bits = {} /\ w.ino \in Inodes /\ w.ino \in Unused
        /\ man'[i] = [file |-> f, bits |-> {}] /\ part'[i] = w.ino
        /\ \A k \in Ids \ {i} : man'[k] = man[k] /\ part'[k] = part[k]
    BY <1>t, <1>4, <2>2, <2>4 DEF Begins, PTypeOK
  <2>6. w.ino # 0
    BY <2>5 DEF Inodes
  <2>7. QED
    BY <1>1, <1>4, <1>5, <1>6, <1>8, <2>2, <2>5, <2>6
<1>9. QED
  BY <1>3, <1>7, <1>8

(* A pull that begins,                                                      *)
LEMMA StartGentle ==
  ASSUME ConstantsOK, Gentle, BaseInv, AloneInv, GentleInv, BaseInv',
         NEW p \in Ids, NEW q \in Peers, NEW f \in Files, Start(p, q, f)
  PROVE  GentleInv'
<1>t. /\ PTypeOK /\ PullsInv /\ InodesInv /\ PullsInv' /\ InodesInv'
      /\ FreshInv /\ WorkInv /\ PendInv /\ PureInv /\ LandInv
  BY DEF BaseInv, GentleInv
<1>1. Active = {} /\ Peers = {q}
  BY DEF Start, Gentle, AloneInv
<1>2. PICK i \in Ids, w \in Writer :
           /\ pull[p].st = "none" /\ pull[p].ino = 0
           /\ pull'[p] = w /\ \A o \in Ids \ {p} : pull'[o] = pull[o]
           /\ w.st = "open" /\ w.file = f /\ w.dir = i
           /\ nextId' = [nextId EXCEPT ![q] = nextId[q] + 1] /\ nextId[q] \in Ids
           /\ UNCHANGED <<data, folder>>
           /\ \/ /\ i < nextId[q] /\ Loadable(i) /\ man[i].file = f /\ part[i] # 0
                 /\ w.ino = part[i] /\ w.bits = man[i].bits /\ UNCHANGED <<man, part>>
              \/ /\ i = nextId[q] /\ part[i] = 0 /\ w.ino \in Unused /\ w.ino # 0 /\ w.bits = {}
                 /\ man'[i] = [file |-> f, bits |-> {}] /\ part'[i] = w.ino
                 /\ \A k \in Ids \ {i} : man'[k] = man[k] /\ part'[k] = part[k]
  BY StartDir
<1>3. \A o \in Active' : o = p
  BY <1>1, <1>2 DEF Active
<1>4. w.ino # 0 /\ w.dir = i /\ part'[i] = w.ino
  BY <1>2
<1>5. FreshInv'
  <2>1. SUFFICES ASSUME NEW k \in Ids, k >= nextId'[q]
                 PROVE  man'[k] = NoManifest /\ part'[k] = 0 /\ \A o \in Ids : pull'[o].dir # k
    BY <1>1 DEF FreshInv
  <2>2. nextId'[q] = nextId[q] + 1 /\ nextId[q] \in Int /\ k \in Int /\ i \in Int
    BY <1>t, <1>2 DEF PTypeOK, Ids
  <2>3. k >= nextId[q] /\ k # i
    BY <1>2, <2>1, <2>2
  <2>4. man[k] = NoManifest /\ part[k] = 0 /\ \A o \in Ids : pull[o].dir # k
    BY <1>t, <2>3 DEF FreshInv
  <2>5. QED
    BY <1>2, <2>3, <2>4
<1>6. WorkInv'
  <2>1. /\ part'[i] = w.ino /\ man'[i].file = f /\ man'[i].bits \subseteq w.bits
        /\ w.st = "open" /\ w.dir = i /\ w.file = f
    BY <1>2
  <2>2. QED
    BY <1>2, <1>3, <2>1 DEF WorkInv
<1>7. PendInv'
  <2>1. SUFFICES ASSUME NEW k \in Ids, man'[k] \in Manifest, ~Full(man'[k]) PROVE part'[k] # 0
    BY DEF PendInv, Pending, Loadable
  <2>2. CASE k = i
    BY <1>4, <2>2
  <2>3. CASE k # i
    <3>1. man'[k] = man[k] /\ part'[k] = part[k]
      BY <1>2, <2>3
    <3>2. QED
      BY <1>t, <2>1, <3>1 DEF PendInv, Pending, Loadable
  <2>4. QED
    BY <2>2, <2>3
<1>8. PureInv'
  <2>1. \A o \in Ids : pull'[o].ino # 0 => Pure(pull'[o].ino, pull'[o].file)
    <3>1. Pure(w.ino, f)
      <4>1. CASE Loadable(i) /\ man[i].file = f /\ part[i] # 0 /\ w.ino = part[i]
        <5>1. PICK o \in Ids : pull[o].ino = part[i]
          BY <1>t, <4>1 DEF InodesInv
        <5>2. pull[o].file = f
          BY <1>t, <4>1, <5>1 DEF PureInv, Holds
        <5>3. QED
          BY <1>t, <4>1, <5>1, <5>2 DEF PureInv
      <4>2. CASE w.ino \in Unused
        BY <1>t, <4>2 DEF PureInv, Pure
      <4>3. QED
        BY <1>2, <4>1, <4>2
    <3>2. QED
      BY <1>t, <1>2, <3>1 DEF PureInv
  <2>3. Unused' \subseteq Unused
    <3>1. \A o \in Ids : pull[o].ino # 0 => pull'[o].ino = pull[o].ino
      BY <1>2
    <3>2. 0 \notin Inodes
      BY DEF Inodes
    <3>3. QED
      BY <3>1, <3>2 DEF Unused
  <2>4. ASSUME NEW o \in Ids, NEW k \in Ids, part'[k] # 0, pull'[o].ino = part'[k], man'[k] \in Manifest
        PROVE  pull'[o].file = man'[k].file
    <3>1. pull'[o].dir = k
      BY <1>t, <2>4 DEF InodesInv, Holds
    <3>2. CASE o = p
      BY <1>2, <3>1, <3>2
    <3>3. CASE o # p
      <4>1. pull'[o] = pull[o]
        BY <1>2, <3>3
      <4>2. part'[k] = part[k] /\ man'[k] = man[k]
        <5>1. CASE w.ino \in Unused
          <6>1. k # i
            BY <1>4, <2>4, <4>1, <5>1 DEF Unused
          <6>2. QED
            BY <1>2, <6>1
        <5>2. CASE UNCHANGED <<man, part>>
          BY <5>2
        <5>3. QED
          BY <1>2, <5>1, <5>2
      <4>3. QED
        BY <1>t, <2>4, <4>1, <4>2 DEF PureInv, Holds, Loadable
    <3>4. QED
      BY <3>2, <3>3
  <2>5. data' = data
    BY <1>2
  <2>6. /\ \A o \in Ids : pull'[o].ino # 0 =>
             \A c \in Offsets : \/ data'[pull'[o].ino][c] = Hole
                                \/ data'[pull'[o].ino][c] = pull'[o].file
                                   /\ c \in OffsetsOf(pull'[o].file)
        /\ \A n \in Unused', c \in Offsets : data'[n][c] = Hole
    BY <1>t, <2>1, <2>3, <2>5 DEF PureInv, Pure
  <2>7. QED
    BY <2>4, <2>6 DEF PureInv, Pure, Holds, Loadable
<1>9. LandInv'
  <2>1. \A o \in Ids : pull'[o].st # "open" => pull'[o] = pull[o]
    BY <1>2
  <2>2. ASSUME NEW s \in Slots, folder'[s] # 0
        PROVE  /\ \A k \in Ids : part'[k] # folder'[s]
               /\ \E o \in Ids : /\ pull'[o].slot = s /\ pull'[o].ino = folder'[s]
                                 /\ pull'[o].st \notin {"none", "open"}
    <3>1. folder' = folder
      BY <1>2
    <3>2. PICK o \in Ids : /\ pull[o].slot = s /\ pull[o].ino = folder[s]
                           /\ pull[o].st \notin {"none", "open"}
      BY <1>t, <2>2, <3>1 DEF LandInv
    <3>3. o # p /\ pull'[o] = pull[o]
      BY <1>2, <3>2
    <3>4. \A k \in Ids : part[k] # folder[s]
      BY <1>t, <2>2, <3>1 DEF LandInv
    <3>5. \A k \in Ids : part'[k] = part[k] \/ part'[k] \in Unused
      BY <1>2
    <3>6. folder[s] \notin Unused
      BY <3>2 DEF Unused
    <3>7. \A k \in Ids : part'[k] # folder'[s]
      BY <3>1, <3>4, <3>5, <3>6
    <3>8. QED
      BY <3>1, <3>2, <3>3, <3>7
  <2>3. UNCHANGED <<data, folder>>
    BY <1>2
  <2>4. QED
    BY <1>t, <2>1, <2>2, <2>3 DEF LandInv
<1>10. QED
  BY <1>5, <1>6, <1>7, <1>8, <1>9 DEF GentleInv

(* a chunk that is written,                                                 *)
LEMMA WriteGentle ==
  ASSUME ConstantsOK, BaseInv, AloneInv, GentleInv, BaseInv',
         NEW p \in Ids, NEW c \in Offsets, WriteChunk(p, c)
  PROVE  GentleInv'
<1>t. /\ PTypeOK /\ PullsInv /\ InodesInv /\ OpenInv
      /\ FreshInv /\ WorkInv /\ PendInv /\ PureInv /\ LandInv
  BY DEF BaseInv, GentleInv
<1> DEFINE i == pull[p].dir
           n == pull[p].ino
           f == pull[p].file
<1>1. /\ p \in Active /\ pull[p].st = "open" /\ c \in OffsetsOf(f) \ pull[p].bits
      /\ pull'[p].st = "open" /\ pull'[p].bits = pull[p].bits \cup {c}
      /\ pull'[p].file = f /\ pull'[p].dir = i /\ pull'[p].ino = n /\ pull'[p].slot = pull[p].slot
      /\ \A o \in Ids \ {p} : pull'[o] = pull[o]
      /\ data'[n] = [data[n] EXCEPT ![c] = f]
      /\ \A k \in Inodes \ {n} : data'[k] = data[k]
      /\ \A k \in Ids \ {i} : man'[k] = man[k]
      /\ man'[i] = [file |-> f, bits |-> pull[p].bits \cup {c}] \/ man' = man
      /\ UNCHANGED <<nextId, part, folder, restarts, crowded, overtaken>>
  BY <1>t, WriteEffect
<1>2. i \in Ids /\ f \in Files /\ n \in Inodes /\ n # 0
  BY <1>t, <1>1, ActiveFacts DEF PullsInv
<1>3. /\ part[i] = n /\ Loadable(i) /\ man[i].file = f /\ man[i].bits \subseteq pull[p].bits
  BY <1>t, <1>1, LoadedWork DEF WorkInv
<1>4. man'[i].file = f /\ man'[i].bits \subseteq pull'[p].bits
  BY <1>1, <1>3
<1>5. \A o \in Active' : o = p
  BY <1>1 DEF Active, AloneInv, Running
<1>6. \A o \in Ids : /\ pull'[o].st = pull[o].st /\ pull'[o].file = pull[o].file
                     /\ pull'[o].dir = pull[o].dir /\ pull'[o].ino = pull[o].ino
                     /\ pull'[o].slot = pull[o].slot
  BY <1>1
<1>7. data'[n][c] = f /\ \A b \in Offsets \ {c} : data'[n][b] = data[n][b]
  BY <1>t, <1>1, <1>2 DEF PTypeOK
<1>8. FreshInv'
  <2>1. SUFFICES ASSUME NEW r \in Peers, NEW k \in Ids, k >= nextId'[r]
                 PROVE  man'[k] = NoManifest /\ part'[k] = 0 /\ \A o \in Ids : pull'[o].dir # k
    BY DEF FreshInv
  <2>2. man[k] = NoManifest /\ part[k] = 0 /\ \A o \in Ids : pull[o].dir # k
    BY <1>t, <1>1, <2>1 DEF FreshInv
  <2>3. QED
    BY <1>1, <1>6, <2>2
<1>9. WorkInv'
  BY <1>1, <1>3, <1>4, <1>5 DEF WorkInv
<1>10. PendInv'
  <2>1. SUFFICES ASSUME NEW k \in Ids, man'[k] \in Manifest, ~Full(man'[k]) PROVE part'[k] # 0
    BY DEF PendInv, Pending, Loadable
  <2>2. CASE k = i
    BY <1>1, <1>2, <1>3, <2>2
  <2>3. CASE k # i
    BY <1>t, <1>1, <2>1, <2>3 DEF PendInv, Pending, Loadable
  <2>4. QED
    BY <2>2, <2>3
<1>11. \A o \in Ids : pull[o].ino = n => pull[o].file = f
  BY <1>t, <1>2, <1>3 DEF PureInv, Holds
<1>12. PureInv'
  <2>1. ASSUME NEW o \in Ids, pull'[o].ino # 0
        PROVE  \A b \in Offsets : \/ data'[pull'[o].ino][b] = Hole
                                  \/ data'[pull'[o].ino][b] = pull'[o].file
                                     /\ b \in OffsetsOf(pull'[o].file)
    <3>1. Pure(pull[o].ino, pull[o].file) /\ pull'[o].ino = pull[o].ino /\ pull'[o].file = pull[o].file
      BY <1>t, <1>6, <2>1 DEF PureInv
    <3>2. CASE pull[o].ino = n
      <4>1. Pure(n, f) /\ pull'[o].ino = n /\ pull'[o].file = f /\ c \in OffsetsOf(f)
        BY <1>1, <1>11, <3>1, <3>2
      <4>2. \A b \in Offsets : data'[n][b] = data[n][b] \/ (b = c /\ data'[n][b] = f)
        BY <1>7
      <4> HIDE DEF n, f
      <4>3. QED
        BY <4>1, <4>2 DEF Pure
    <3>3. CASE pull[o].ino # n
      <4>1. pull[o].ino \in Inodes
        BY <1>t, <2>1, <3>1 DEF PTypeOK, Writer
      <4>2. QED
        BY <1>1, <3>1, <3>3, <4>1 DEF Pure
    <3>4. QED
      BY <3>2, <3>3
  <2>2. ASSUME NEW k \in Unused', NEW b \in Offsets PROVE data'[k][b] = Hole
    <3>1. k \in Unused /\ k \in Inodes /\ k # n
      BY <1>6, <1>1 DEF Unused
    <3>2. QED
      BY <1>t, <1>1, <3>1 DEF PureInv
  <2>3. ASSUME NEW o \in Ids, NEW k \in Ids, part'[k] # 0, pull'[o].ino = part'[k], man'[k] \in Manifest
        PROVE  pull'[o].file = man'[k].file
    <3>1. CASE k = i
      BY <1>1, <1>3, <1>4, <1>6, <1>11, <2>3, <3>1
    <3>2. CASE k # i
      BY <1>t, <1>1, <1>6, <2>3, <3>2 DEF PureInv, Holds, Loadable
    <3>3. QED
      BY <3>1, <3>2
  <2>4. QED
    BY <2>1, <2>2, <2>3 DEF PureInv, Pure, Holds, Loadable
<1>13. LandInv'
  <2>1. ASSUME NEW o \in Ids, pull'[o].st \in {"renamed", "done"}
        PROVE  /\ pull'[o].ino # 0 /\ folder'[pull'[o].slot] = pull'[o].ino
               /\ data'[pull'[o].ino] = Exact(pull'[o].file)
    <3>1. /\ pull[o].ino # 0 /\ folder[pull[o].slot] = pull[o].ino
          /\ data[pull[o].ino] = Exact(pull[o].file)
      BY <1>t, <1>6, <2>1 DEF LandInv
    <3>2. pull[o].slot \in Slots /\ pull[o].ino \in Inodes
      BY <1>t, <3>1 DEF PTypeOK, Writer
    <3>3. pull[o].ino # n
      BY <1>t, <1>2, <1>3, <3>1, <3>2 DEF LandInv
    <3>4. QED
      BY <1>1, <1>6, <3>1, <3>2, <3>3
  <2>2. /\ \A s \in Slots : folder'[s] # 0 =>
             /\ \A k \in Ids : part'[k] # folder'[s]
             /\ \E o \in Ids : /\ pull'[o].slot = s /\ pull'[o].ino = folder'[s]
                               /\ pull'[o].st \notin {"none", "open"}
        /\ \A o \in Ids : pull'[o].st = "finalizing" => folder'[pull'[o].slot] = 0
    BY <1>t, <1>1, <1>6 DEF LandInv
  <2>3. QED
    BY <2>1, <2>2 DEF LandInv
<1>14. QED
  BY <1>8, <1>9, <1>10, <1>12, <1>13 DEF GentleInv

(* Steps after which no pull runs.                                          *)
AllOver ==
  /\ UNCHANGED <<nextId, data, folder, crowded, overtaken>>
  /\ \A o \in Ids : /\ SameJob(o) /\ pull'[o].slot = pull[o].slot /\ o \notin Active'
                    /\ pull'[o].st \in {"renamed", "done"} => pull[o].st \in {"renamed", "done"}
                    /\ pull[o].st \notin {"none", "open"} => pull'[o].st \notin {"none", "open"}
  /\ \A i \in Ids :
       \/ man'[i] = man[i] /\ part'[i] = part[i]
       \/ /\ man'[i] \in {NoManifest, Corrupt} /\ part'[i] \in {0, part[i]}
          /\ man[i] # NoManifest \/ \E o \in Ids : pull[o].dir = i
       \/ \E o \in Active : /\ pull[o].dir = i /\ man'[i] = SavedBy(o)
                            /\ part'[i] = part[i] /\ part[i] # 0

(* the end of all pulls,                                                    *)
LEMMA AllOverGentle ==
  ASSUME ConstantsOK, BaseInv, GentleInv, AllOver
  PROVE  GentleInv'
<1>t. /\ PTypeOK /\ PullsInv /\ InodesInv
      /\ FreshInv /\ WorkInv /\ PendInv /\ PureInv /\ LandInv
  BY DEF BaseInv, GentleInv
<1>1. /\ UNCHANGED <<nextId, data, folder, crowded, overtaken>>
      /\ \A o \in Ids : /\ pull'[o].file = pull[o].file /\ pull'[o].dir = pull[o].dir
                        /\ pull'[o].ino = pull[o].ino /\ pull'[o].slot = pull[o].slot
                        /\ pull'[o].st \notin Running
      /\ \A i \in Ids : part'[i] \in {0, part[i]}
  BY DEF AllOver, SameJob, Active
<1>2. FreshInv'
  <2>1. SUFFICES ASSUME NEW r \in Peers, NEW k \in Ids, k >= nextId'[r]
                 PROVE  man'[k] = NoManifest /\ part'[k] = 0 /\ \A o \in Ids : pull'[o].dir # k
    BY DEF FreshInv
  <2>2. man[k] = NoManifest /\ part[k] = 0 /\ \A o \in Ids : pull[o].dir # k
    BY <1>t, <1>1, <2>1 DEF FreshInv
  <2>3. man'[k] = man[k] /\ part'[k] = part[k]
    BY <2>2 DEF AllOver, Active
  <2>4. QED
    BY <1>1, <2>2, <2>3
<1>3. WorkInv'
  BY <1>1 DEF WorkInv, Active
<1>4. PendInv'
  <2>1. SUFFICES ASSUME NEW k \in Ids, man'[k] \in Manifest, ~Full(man'[k]) PROVE part'[k] # 0
    BY DEF PendInv, Pending, Loadable
  <2>2. man'[k] \notin {NoManifest, Corrupt}
    BY <2>1, DataFacts
  <2>3. CASE man'[k] = man[k] /\ part'[k] = part[k]
    BY <1>t, <2>1, <2>3 DEF PendInv, Pending, Loadable
  <2>4. QED
    BY <2>2, <2>3 DEF AllOver
<1>5. PureInv'
  <2>1. ASSUME NEW o \in Ids, NEW k \in Ids, part'[k] # 0, pull'[o].ino = part'[k], man'[k] \in Manifest
        PROVE  pull'[o].file = man'[k].file
    <3>1. part'[k] = part[k] /\ pull[o].ino = part[k] /\ part[k] # 0 /\ pull'[o].file = pull[o].file
      BY <1>1, <2>1
    <3>2. man'[k] \notin {NoManifest, Corrupt}
      BY <2>1, DataFacts
    <3>3. CASE man'[k] = man[k]
      BY <1>t, <2>1, <3>1, <3>3 DEF PureInv, Holds, Loadable
    <3>4. ASSUME NEW x \in Active, pull[x].dir = k, man'[k] = SavedBy(x)
          PROVE  pull'[o].file = man'[k].file
      <4>1. Loadable(k) /\ man[k].file = pull[x].file
        BY <1>t, <3>4, LoadedWork DEF WorkInv
      <4>2. QED
        BY <1>t, <3>1, <3>4, <4>1 DEF PureInv, Holds, SavedBy
    <3>5. QED
      BY <3>2, <3>3, <3>4 DEF AllOver
  <2>2. Unused' = Unused
    BY <1>1 DEF Unused
  <2>3. /\ \A o \in Ids : pull'[o].ino # 0 =>
             \A c \in Offsets : \/ data'[pull'[o].ino][c] = Hole
                                \/ data'[pull'[o].ino][c] = pull'[o].file
                                   /\ c \in OffsetsOf(pull'[o].file)
        /\ \A n \in Unused', c \in Offsets : data'[n][c] = Hole
    BY <1>t, <1>1, <2>2 DEF PureInv, Pure
  <2>4. QED
    BY <2>1, <2>3 DEF PureInv, Pure, Holds, Loadable
<1>6. LandInv'
  <2>1. ASSUME NEW o \in Ids, pull'[o].st \in {"renamed", "done"}
        PROVE  /\ pull'[o].ino # 0 /\ folder'[pull'[o].slot] = pull'[o].ino
               /\ data'[pull'[o].ino] = Exact(pull'[o].file)
    <3>1. pull[o].st \in {"renamed", "done"}
      BY <2>1 DEF AllOver
    <3>2. QED
      BY <1>t, <1>1, <3>1 DEF LandInv
  <2>2. ASSUME NEW s \in Slots, folder'[s] # 0
        PROVE  /\ \A k \in Ids : part'[k] # folder'[s]
               /\ \E o \in Ids : /\ pull'[o].slot = s /\ pull'[o].ino = folder'[s]
                                 /\ pull'[o].st \notin {"none", "open"}
    <3>1. folder'[s] = folder[s] /\ \A k \in Ids : part[k] # folder[s]
      BY <1>t, <1>1, <2>2 DEF LandInv
    <3>2. PICK o \in Ids : /\ pull[o].slot = s /\ pull[o].ino = folder[s]
                           /\ pull[o].st \notin {"none", "open"}
      BY <1>t, <1>1, <2>2 DEF LandInv
    <3>3. pull'[o].slot = s /\ pull'[o].ino = folder[s] /\ pull'[o].st \notin {"none", "open"}
      BY <1>1, <3>2 DEF AllOver
    <3>4. \A k \in Ids : part'[k] # folder'[s]
      BY <1>1, <2>2, <3>1
    <3>5. QED
      BY <3>1, <3>3, <3>4
  <2>3. \A o \in Ids : pull'[o].st # "finalizing"
    BY <1>1 DEF Running
  <2>4. QED
    BY <2>1, <2>2, <2>3 DEF LandInv
<1>7. QED
  BY <1>2, <1>3, <1>4, <1>5, <1>6 DEF GentleInv

(* the end of one,                                                          *)
LEMMA EndsGentle ==
  ASSUME ConstantsOK, BaseInv, AloneInv, GentleInv, NEW p \in Ids,
         Abort(p) \/ Cancel(p) \/ FinClean(p)
  PROVE  GentleInv'
<1>t. PTypeOK /\ PullsInv /\ OpenInv /\ WorkInv /\ man \in [Ids -> Manifests]
  BY DEF BaseInv, GentleInv, PTypeOK, Manifests
<1>1. /\ p \in Active /\ UNCHANGED <<nextId, data, folder, crowded, overtaken>>
      /\ \/ End(p, "failed")
         \/ End(p, "done") /\ pull[p].st = "renamed"
  BY DEF Abort, Cancel, FinClean, met, Active, Running
<1>2. PICK x \in {"failed", "done"} : End(p, x) /\ (x = "done" => pull[p].st = "renamed")
  BY <1>1
<1>3. /\ pull'[p].st = x /\ pull'[p].slot = pull[p].slot
      /\ \A o \in Ids : SameJob(o) /\ (o # p => pull'[o] = pull[o])
  BY <1>t, <1>1, <1>2, Ends
<1>4. \A o \in Ids : /\ SameJob(o) /\ pull'[o].slot = pull[o].slot /\ o \notin Active'
                     /\ pull'[o].st \in {"renamed", "done"} => pull[o].st \in {"renamed", "done"}
                     /\ pull[o].st \notin {"none", "open"} => pull'[o].st \notin {"none", "open"}
  BY <1>1, <1>2, <1>3 DEF AloneInv, Active, Running
<1>5. pull[p].dir \in Ids /\ pull[p].ino # 0
  BY <1>t, <1>1, ActiveFacts DEF PullsInv
<1>6. ASSUME NEW i \in Ids
      PROVE  \/ man'[i] = man[i] /\ part'[i] = part[i]
             \/ /\ man'[i] \in {NoManifest, Corrupt} /\ part'[i] \in {0, part[i]}
                /\ \E o \in Ids : pull[o].dir = i
             \/ /\ pull[p].dir = i /\ man'[i] = SavedBy(p)
                /\ part'[i] = part[i] /\ part[i] # 0
  <2>1. CASE Abort(p)
    <3>1. man' = Dropped(p, man, part) /\ part' = part
      BY <2>1 DEF Abort
    <3>2. QED
      BY <1>t, <1>1, <3>1, DroppedFacts
  <2>2. CASE RemoveDir(p)
    <3>1. /\ i # pull[p].dir => man'[i] = man[i] /\ part'[i] = part[i]
          /\ \/ man'[pull[p].dir] = NoManifest /\ part'[pull[p].dir] = 0
             \/ /\ part' = part
                /\ man'[pull[p].dir] = IF part[pull[p].dir] = 0 THEN man[pull[p].dir] ELSE SavedBy(p)
      BY <1>t, <1>1, <2>2, Removed
    <3>2. QED
      BY <1>1, <1>5, <3>1 DEF Active
  <2>3. QED
    BY <2>1, <2>2 DEF Cancel, FinClean
<1>7. \A i \in Ids :
        \/ man'[i] = man[i] /\ part'[i] = part[i]
        \/ /\ man'[i] \in {NoManifest, Corrupt} /\ part'[i] \in {0, part[i]}
           /\ man[i] # NoManifest \/ \E o \in Ids : pull[o].dir = i
        \/ \E o \in Active : /\ pull[o].dir = i /\ man'[i] = SavedBy(o)
                             /\ part'[i] = part[i] /\ part[i] # 0
  BY <1>1, <1>6
<1>8. AllOver
  BY <1>1, <1>4, <1>7 DEF AllOver
<1>9. QED
  BY <1>8, AllOverGentle

(* a crash and a restart,                                                   *)
LEMMA RestartGentle ==
  ASSUME ConstantsOK, BaseInv, AloneInv, GentleInv, Restart
  PROVE  GentleInv'
<1>t. PTypeOK /\ PullsInv
  BY DEF BaseInv
<1>1. /\ \A p \in Ids : pull'[p] = IF p \in Active THEN [pull[p] EXCEPT !.st = "failed"] ELSE pull[p]
      /\ UNCHANGED <<nextId, data, folder, crowded, overtaken>>
  BY DEF Restart, met
<1>2. ASSUME NEW o \in Ids
      PROVE  /\ SameJob(o) /\ pull'[o].slot = pull[o].slot /\ o \notin Active'
             /\ pull'[o].st \in {"renamed", "done"} => pull[o].st \in {"renamed", "done"}
             /\ pull[o].st \notin {"none", "open"} => pull'[o].st \notin {"none", "open"}
  <2>1. CASE o \in Active
    <3>1. pull[o] \in Writer /\ pull[o].st # "none" /\ pull'[o] = [pull[o] EXCEPT !.st = "failed"]
      BY <1>t, <1>1, <2>1 DEF PTypeOK, Active, Running
    <3>2. QED
      BY <3>1 DEF Writer, SameJob, Active, Running
  <2>2. CASE o \notin Active
    BY <1>1, <2>2 DEF SameJob, Active
  <2>3. QED
    BY <2>1, <2>2
<1>3. PICK torn \in {{}} \cup {{pull[p].dir} : p \in {o \in Active : pull[o].st = "open"}} :
        /\ man' = [i \in Ids |-> IF i \in torn THEN Corrupt
                                 ELSE IF i \in Stale THEN NoManifest ELSE man[i]]
        /\ part' = [i \in Ids |-> IF i \in Stale \ torn THEN 0 ELSE part[i]]
  BY DEF Restart
<1>4. \A i \in torn : \E o \in Ids : pull[o].dir = i
  BY DEF Active
<1>5. \A i \in Stale : man[i] # NoManifest
  BY DataFacts DEF Stale, Loadable
<1>6. \A i \in Ids :
        \/ man'[i] = man[i] /\ part'[i] = part[i]
        \/ /\ man'[i] \in {NoManifest, Corrupt} /\ part'[i] \in {0, part[i]}
           /\ man[i] # NoManifest \/ \E o \in Ids : pull[o].dir = i
  BY <1>3, <1>4, <1>5
<1>7. AllOver
  BY <1>1, <1>2, <1>6 DEF AllOver
<1>8. QED
  BY <1>7, AllOverGentle

(* With as many names as pulls, a pull that has all it asked for finds a    *)
(* name that is free.                                                       *)
LEMMA NameLeft ==
  ASSUME ConstantsOK, Gentle, LandInv, NEW p \in Ids, pull[p].st = "open"
  PROVE  folder[FreeSlot] = 0
<1>1. IsFiniteSet(Slots) /\ Cardinality(Slots) = Tries + 1 /\ Tries + 1 >= MaxPulls
  <2>1. IsFiniteSet(Slots) /\ Cardinality(Slots) = Tries + 1
    BY FS_Interval DEF Slots, ConstantsOK
  <2>2. MaxPulls <= Tries + 1 /\ MaxPulls \in Nat /\ Tries \in Nat
    BY DEF ConstantsOK, Gentle
  <2>3. QED
    BY <2>1, <2>2
<1> DEFINE g == [o \in Ids |-> pull[o].slot]
<1>2. \E s \in Slots : \A o \in Ids \ {p} : g[o] # s
  <2> HIDE DEF g
  <2>1. Cardinality(Slots) >= MaxPulls
    BY <1>1
  <2>2. QED
    BY <1>1, <2>1, OneLeft
<1>3. PICK s \in Slots : \A o \in Ids \ {p} : pull[o].slot # s
  BY <1>2
<1>4. folder[s] = 0
  BY <1>3 DEF LandInv
<1>5. QED
  BY <1>4, SlotChosen

(* the choice of a free name,                                               *)
LEMMA FinPrepareGentle ==
  ASSUME ConstantsOK, Gentle, BaseInv, AloneInv, GentleInv, NEW p \in Ids, FinPrepare(p)
  PROVE  GentleInv'
<1>t. /\ PTypeOK /\ PullsInv /\ InodesInv /\ p \in Active /\ pull[p] \in Writer /\ pull[p].st = "open"
      /\ FreshInv /\ WorkInv /\ PendInv /\ PureInv /\ LandInv
  BY DEF BaseInv, GentleInv, FinPrepare, Active, Running, PTypeOK
<1> DEFINE i == pull[p].dir
<1>1. i \in Ids /\ SavedBy(p) \in Manifest /\ pull[p].ino # 0
  BY <1>t, ActiveFacts DEF PullsInv
<1>2. /\ man' = [man EXCEPT ![i] = SavedBy(p)]
      /\ pull' = [pull EXCEPT ![p] = [pull[p] EXCEPT !.st = "finalizing", !.slot = FreeSlot]]
      /\ UNCHANGED <<nextId, part, data, folder, restarts, crowded, overtaken>>
  BY DEF FinPrepare, Saved, SavedBy, met
<1>3. man'[i] = SavedBy(p) /\ \A k \in Ids \ {i} : man'[k] = man[k]
  BY <1>t, <1>1, <1>2 DEF PTypeOK
<1>4. pull'[p] = [pull[p] EXCEPT !.st = "finalizing", !.slot = FreeSlot]
      /\ \A o \in Ids \ {p} : pull'[o] = pull[o]
  BY <1>t, <1>2 DEF PTypeOK
<1>5. /\ pull'[p].st = "finalizing" /\ pull'[p].slot = FreeSlot /\ pull'[p].file = pull[p].file
      /\ pull'[p].dir = pull[p].dir /\ pull'[p].ino = pull[p].ino /\ pull'[p].bits = pull[p].bits
  BY <1>t, <1>4 DEF Writer
<1>6. \A o \in Ids : /\ pull'[o].file = pull[o].file /\ pull'[o].dir = pull[o].dir
                     /\ pull'[o].ino = pull[o].ino
  BY <1>4, <1>5
<1>7. Loadable(i) /\ man[i].file = pull[p].file /\ man'[i].file = pull[p].file
      /\ part[i] = pull[p].ino
  BY <1>t, <1>3, LoadedWork DEF WorkInv, SavedBy
<1>8. FreshInv'
  <2>1. SUFFICES ASSUME NEW r \in Peers, NEW k \in Ids, k >= nextId'[r]
                 PROVE  man'[k] = NoManifest /\ part'[k] = 0 /\ \A o \in Ids : pull'[o].dir # k
    BY DEF FreshInv
  <2>2. man[k] = NoManifest /\ part[k] = 0 /\ \A o \in Ids : pull[o].dir # k
    BY <1>t, <1>2, <2>1 DEF FreshInv
  <2>3. QED
    BY <1>2, <1>3, <1>6, <2>2
<1>9. \A o \in Active' : o = p
  BY <1>t, <1>4 DEF AloneInv, Active
<1>10. WorkInv'
  BY <1>2, <1>3, <1>5, <1>7, <1>9 DEF WorkInv, SavedBy
<1>11. PendInv'
  <2>1. SUFFICES ASSUME NEW k \in Ids, man'[k] \in Manifest, ~Full(man'[k]) PROVE part'[k] # 0
    BY DEF PendInv, Pending, Loadable
  <2>2. CASE k = i
    BY <1>1, <1>2, <1>7, <2>2
  <2>3. CASE k # i
    BY <1>t, <1>2, <1>3, <2>1, <2>3 DEF PendInv, Pending, Loadable
  <2>4. QED
    BY <2>2, <2>3
<1>12. PureInv'
  <2>1. ASSUME NEW o \in Ids, NEW k \in Ids, part'[k] # 0, pull'[o].ino = part'[k], man'[k] \in Manifest
        PROVE  pull'[o].file = man'[k].file
    <3>1. part'[k] = part[k] /\ pull[o].ino = part[k] /\ part[k] # 0 /\ pull'[o].file = pull[o].file
      BY <1>2, <1>6, <2>1
    <3>2. CASE k = i
      BY <1>t, <1>7, <3>1, <3>2 DEF PureInv, Holds
    <3>3. CASE k # i
      BY <1>t, <1>3, <2>1, <3>1, <3>3 DEF PureInv, Holds, Loadable
    <3>4. QED
      BY <3>2, <3>3
  <2>2. Unused' = Unused
    BY <1>6 DEF Unused
  <2>3. /\ \A o \in Ids : pull'[o].ino # 0 =>
             \A c \in Offsets : \/ data'[pull'[o].ino][c] = Hole
                                \/ data'[pull'[o].ino][c] = pull'[o].file
                                   /\ c \in OffsetsOf(pull'[o].file)
        /\ \A n \in Unused', c \in Offsets : data'[n][c] = Hole
    BY <1>t, <1>2, <1>6, <2>2 DEF PureInv, Pure
  <2>4. QED
    BY <2>1, <2>3 DEF PureInv, Pure, Holds, Loadable
<1>13. LandInv'
  <2>1. folder[FreeSlot] = 0
    BY <1>t, NameLeft
  <2>2. \A o \in Ids : /\ pull'[o].st \in {"renamed", "done"} => pull'[o] = pull[o]
                       /\ pull'[o].st = "finalizing" => o = p
    BY <1>4, <1>5, <1>t DEF AloneInv, Active, Running
  <2>3. ASSUME NEW s \in Slots, folder'[s] # 0
        PROVE  /\ \A k \in Ids : part'[k] # folder'[s]
               /\ \E o \in Ids : /\ pull'[o].slot = s /\ pull'[o].ino = folder'[s]
                                 /\ pull'[o].st \notin {"none", "open"}
    <3>1. PICK o \in Ids : /\ pull[o].slot = s /\ pull[o].ino = folder[s]
                           /\ pull[o].st \notin {"none", "open"}
      BY <1>t, <1>2, <2>3 DEF LandInv
    <3>2. pull'[o] = pull[o]
      BY <1>t, <1>4, <3>1
    <3>3. QED
      BY <1>t, <1>2, <2>3, <3>1, <3>2 DEF LandInv
  <2>4. QED
    BY <1>t, <1>2, <1>5, <2>1, <2>2, <2>3 DEF LandInv
<1>14. QED
  BY <1>8, <1>10, <1>11, <1>12, <1>13 DEF GentleInv

(* and the landing keep what only a store nobody empties promises.          *)
LEMMA FinRenameGentle ==
  ASSUME ConstantsOK, BaseInv, AloneInv, GentleInv, NEW p \in Ids, FinRename(p)
  PROVE  /\ GentleInv' /\ man' = man /\ UNCHANGED <<nextId, data>>
<1>t. /\ PTypeOK /\ PullsInv /\ InodesInv /\ OpenInv
      /\ p \in Active /\ pull[p] \in Writer /\ pull[p].st = "finalizing"
      /\ FreshInv /\ WorkInv /\ PendInv /\ PureInv /\ LandInv /\ crowded = {}
  BY DEF BaseInv, GentleInv, AloneInv, FinRename, Active, Running, PTypeOK
<1> DEFINE i == pull[p].dir
           n == pull[p].ino
           f == pull[p].file
           t == pull[p].slot
<1>1. i \in Ids /\ f \in Files /\ n \in Inodes /\ n # 0 /\ t \in Slots
  BY <1>t, ActiveFacts DEF PullsInv, Writer
<1>2. /\ part[i] = n /\ Loadable(i) /\ man[i].file = f /\ man[i].bits = pull[p].bits
      /\ OffsetsOf(f) \subseteq pull[p].bits /\ \A c \in pull[p].bits : data[n][c] = f
  <2>1. pull[p].dir \notin crowded
    BY <1>t
  <2>2. \A c \in pull[p].bits : data[n][c] = f
    BY <1>t, <2>1 DEF OpenInv
  <2>3. OffsetsOf(f) \subseteq pull[p].bits
    BY <1>t DEF PullsInv, Active
  <2>4. QED
    BY <1>t, <2>2, <2>3, LoadedWork DEF WorkInv
<1>3. /\ End(p, "renamed") /\ man' = man
      /\ folder' = [folder EXCEPT ![t] = n]
      /\ part' = [part EXCEPT ![i] = 0] /\ UNCHANGED <<nextId, data>>
  BY <1>1, <1>2 DEF FinRename
<1>4. /\ pull'[p].st = "renamed" /\ pull'[p].slot = t
      /\ \A o \in Ids : SameJob(o) /\ (o # p => pull'[o] = pull[o])
  BY <1>t, <1>3, Ends DEF Running
<1>5. \A o \in Ids : /\ pull'[o].file = pull[o].file /\ pull'[o].dir = pull[o].dir
                     /\ pull'[o].ino = pull[o].ino /\ pull'[o].slot = pull[o].slot
                     /\ pull'[o].bits = pull[o].bits
  BY <1>4 DEF SameJob
<1>6. /\ part'[i] = 0 /\ \A k \in Ids \ {i} : part'[k] = part[k]
      /\ folder'[t] = n /\ \A s \in Slots \ {t} : folder'[s] = folder[s]
  BY <1>t, <1>1, <1>3 DEF PTypeOK
<1>7. FreshInv'
  <2>1. SUFFICES ASSUME NEW r \in Peers, NEW k \in Ids, k >= nextId'[r]
                 PROVE  man'[k] = NoManifest /\ part'[k] = 0 /\ \A o \in Ids : pull'[o].dir # k
    BY DEF FreshInv
  <2>2. man[k] = NoManifest /\ part[k] = 0 /\ \A o \in Ids : pull[o].dir # k
    BY <1>t, <1>3, <2>1 DEF FreshInv
  <2>3. QED
    BY <1>3, <1>5, <1>6, <2>2
<1>8. \A o \in Active' : o = p
  BY <1>t, <1>4 DEF AloneInv, Active
<1>9. WorkInv'
  <2>1. /\ pull'[p].st = "renamed" /\ man'[i].file = f /\ man'[i].bits = pull[p].bits
        /\ pull'[p].dir = i /\ pull'[p].file = f /\ pull'[p].bits = pull[p].bits
    BY <1>2, <1>3, <1>4, <1>5, <1>t DEF Active
  <2>2. QED
    BY <1>8, <2>1 DEF WorkInv
<1>10. PendInv'
  <2>1. SUFFICES ASSUME NEW k \in Ids, man[k] \in Manifest, ~Full(man[k]) PROVE part'[k] # 0
    BY <1>3 DEF PendInv, Pending, Loadable
  <2>2. k # i
    BY <1>2, <2>1 DEF Full
  <2>3. QED
    BY <1>t, <1>6, <2>1, <2>2 DEF PendInv, Pending, Loadable
<1>11. PureInv'
  <2>1. ASSUME NEW o \in Ids, NEW k \in Ids, part'[k] # 0, pull'[o].ino = part'[k], man'[k] \in Manifest
        PROVE  pull'[o].file = man'[k].file
    BY <1>t, <1>3, <1>5, <1>6, <2>1 DEF PureInv, Holds, Loadable
  <2>2. Unused' = Unused
    BY <1>5 DEF Unused
  <2>3. /\ \A o \in Ids : pull'[o].ino # 0 =>
             \A c \in Offsets : \/ data'[pull'[o].ino][c] = Hole
                                \/ data'[pull'[o].ino][c] = pull'[o].file
                                   /\ c \in OffsetsOf(pull'[o].file)
        /\ \A m \in Unused', c \in Offsets : data'[m][c] = Hole
    BY <1>t, <1>3, <1>5, <2>2 DEF PureInv, Pure
  <2>4. QED
    BY <2>1, <2>3 DEF PureInv, Pure, Holds, Loadable
<1>12. data[n] = Exact(f)
  <2>1. data[n] = [c \in Offsets |-> data[n][c]]
    BY <1>t, <1>1 DEF PTypeOK
  <2>2. \A c \in Offsets : data[n][c] = IF c \in OffsetsOf(f) THEN f ELSE Hole
    BY <1>t, <1>1, <1>2 DEF PureInv, Pure
  <2>3. QED
    BY <2>1, <2>2 DEF Exact
<1>13. LandInv'
  <2>1. ASSUME NEW o \in Ids, pull'[o].st \in {"renamed", "done"}
        PROVE  /\ pull'[o].ino # 0 /\ folder'[pull'[o].slot] = pull'[o].ino
               /\ data'[pull'[o].ino] = Exact(pull'[o].file)
    <3>1. CASE o = p
      BY <1>1, <1>3, <1>4, <1>5, <1>6, <1>12, <3>1
    <3>2. CASE o # p
      <4>1. /\ pull[o].ino # 0 /\ folder[pull[o].slot] = pull[o].ino
            /\ data[pull[o].ino] = Exact(pull[o].file) /\ pull'[o] = pull[o]
        BY <1>t, <1>4, <2>1, <3>2 DEF LandInv
      <4>2. pull[o].slot \in Slots
        BY <1>t DEF PTypeOK, Writer
      <4>3. folder[t] = 0
        BY <1>t DEF LandInv, Active
      <4>4. QED
        BY <1>3, <1>6, <4>1, <4>2, <4>3
    <3>3. QED
      BY <3>1, <3>2
  <2>2. ASSUME NEW s \in Slots, folder'[s] # 0
        PROVE  /\ \A k \in Ids : part'[k] # folder'[s]
               /\ \E o \in Ids : /\ pull'[o].slot = s /\ pull'[o].ino = folder'[s]
                                 /\ pull'[o].st \notin {"none", "open"}
    <3>1. CASE s = t
      <4>1. \A k \in Ids : part'[k] # n
        BY <1>t, <1>1, <1>6 DEF InodesInv, Holds, Active
      <4>2. p \in Ids /\ pull'[p].slot = t /\ pull'[p].ino = n /\ pull'[p].st = "renamed"
        BY <1>4, <1>5
      <4>3. QED
        BY <1>6, <3>1, <4>1, <4>2
    <3>2. CASE s # t
      <4>1. folder'[s] = folder[s] /\ \A k \in Ids : part[k] # folder[s]
        BY <1>t, <1>6, <2>2, <3>2 DEF LandInv
      <4>2. PICK o \in Ids : /\ pull[o].slot = s /\ pull[o].ino = folder[s]
                             /\ pull[o].st \notin {"none", "open"}
        BY <1>t, <2>2, <4>1 DEF LandInv
      <4>3. o # p /\ pull'[o] = pull[o]
        BY <1>4, <3>2, <4>2
      <4>4. \A k \in Ids : part'[k] # folder'[s]
        BY <1>6, <2>2, <4>1
      <4>5. QED
        BY <4>1, <4>2, <4>3, <4>4
    <3>3. QED
      BY <3>1, <3>2
  <2>3. \A o \in Ids : pull'[o].st # "finalizing"
    BY <1>4, <1>8 DEF Active, Running
  <2>4. QED
    BY <2>1, <2>2, <2>3 DEF LandInv
<1>14. QED
  BY <1>3, <1>7, <1>9, <1>10, <1>11, <1>13 DEF GentleInv

-----------------------------------------------------------------------------
(* The inductive invariant of the store.                                    *)
SInv == BaseInv /\ NamesInv /\ (Gentle => AloneInv /\ GentleInv)

(* Both parts of the invariant hold in an empty store.                      *)
LEMMA SoleInit == ConstantsOK /\ PInit => SInv
<1> SUFFICES ASSUME ConstantsOK, PInit PROVE SInv
  OBVIOUS
<1>1. BaseInv
  BY BaseInit
<1>2. \A p \in Ids : pull[p].st = "none" /\ pull[p].ino = 0 /\ pull[p].dir = 0
  BY DEF PInit, NoPull
<1>3. Active = {} /\ \A p \in Ids : pull[p].st # "finalizing"
  BY <1>2 DEF Active, Running
<1>4. AloneInv /\ NamesInv
  BY <1>3 DEF PInit, AloneInv, NamesInv
<1>5. FreshInv /\ WorkInv /\ LandInv
  BY <1>2, <1>3 DEF PInit, FreshInv, WorkInv, LandInv, Ids
<1>6. PendInv
  BY DataFacts DEF PendInv, Pending, Loadable, PInit
<1>7. PureInv
  <2>1. \A n \in Unused, c \in Offsets : data[n][c] = Hole
    BY DEF PInit, Unused
  <2>2. \A p, i \in Ids : ~Holds(p, i)
    BY DEF PInit, Holds
  <2>3. QED
    BY <1>2, <2>1, <2>2 DEF PureInv
<1>8. QED
  BY <1>1, <1>4, <1>5, <1>6, <1>7 DEF SInv, GentleInv

(* Every step of such a store keeps it.                                     *)
LEMMA GentleStep ==
  ASSUME ConstantsOK, Gentle, BaseInv, AloneInv, GentleInv, BaseInv', [PNext]_pvars
  PROVE  GentleInv'
<1>1. /\ ~CollectNow /\ (\A i \in Ids : ~DestroyDir(i)) /\ (\A q \in Peers : ~PeerRestart(q))
      /\ \A p \in Ids, q \in Peers, f \in Files : ~Push(p, q, f)
  BY DEF Gentle, CollectNow, DestroyDir, PeerRestart, Push
<1>2. CASE UNCHANGED pvars
  BY <1>2 DEF pvars, GentleInv, FreshInv, WorkInv, Active, PendInv, Pending, Loadable, PureInv, Pure,
     Unused, Holds, LandInv
<1>3. CASE PNext
  BY <1>1, <1>3, StartGentle, WriteGentle, EndsGentle, FinPrepareGentle, FinRenameGentle,
     RestartGentle DEF PNext
<1>4. QED
  BY <1>2, <1>3

(* The invariant holds of every store, and more of one with a single source.*)
LEMMA SoleStep == ConstantsOK /\ SInv /\ [PNext]_pvars => SInv'
<1> SUFFICES ASSUME ConstantsOK, SInv, [PNext]_pvars PROVE SInv'
  OBVIOUS
<1>1. BaseInv' /\ NamesInv'
  BY BaseStep, NamesStep DEF SInv
<1>2. ASSUME Gentle PROVE AloneInv' /\ GentleInv'
  BY <1>1, <1>2, AloneStep, GentleStep DEF SInv
<1>3. Gentle' = Gentle
  BY DEF Gentle
<1>4. QED
  BY <1>1, <1>2, <1>3 DEF SInv

(* Whatever is pulled or pushed from any number of sources, what a pull     *)
(* would resume is there, except in directories where two writers have met. *)
(* With one source that pushes nothing, as long as the ids count up, nobody *)
(* else empties directories and there is a name for each pull, what lands is*)
(* exactly the file offered and what is pending can be opened (PartWriter,  *)
(* pending_jobs, finalize).                                                 *)
THEOREM PartsAlwaysSound ==
  ASSUME ConstantsOK
  PROVE  PSpec => []PartsSound
<1>1. PInit => SInv
  BY SoleInit
<1>2. SInv /\ [PNext]_pvars => SInv'
  BY SoleStep
<1>3. SInv => PartsSound
  BY DEF SInv, BaseInv, GentleInv, LandInv, PendInv, PartsSound, LandedExact, NeverStuck
<1>4. QED
  BY <1>1, <1>2, <1>3, PTL DEF PSpec

-----------------------------------------------------------------------------
(* What a step may not do.                                                  *)
LEMMA LandingKept ==
  ASSUME ConstantsOK, SInv, PNext
  PROVE  KeepsLanding
<1>1. CASE \E p \in Ids : FinRename(p)
  <2>1. PICK p \in Ids : FinRename(p)
    BY <1>1
  <2>2. \/ folder[pull[p].slot] = 0 \/ p \in overtaken
        \/ \A t \in Slots : folder[t] # 0
    BY <2>1 DEF FinRename, SInv, NamesInv
  <2>3. \A s \in Slots : folder'[s] # folder[s] => s = pull[p].slot /\ pull'[p].st = "renamed"
    <3>1. PTypeOK /\ pull[p] \in Writer
      BY <2>1 DEF SInv, BaseInv, PTypeOK
    <3>2. CASE part[pull[p].dir] # 0
      <4>1. pull'[p].st = "renamed"
        BY <2>1, <3>1, <3>2 DEF FinRename, End, PTypeOK, Writer
      <4>2. QED
        BY <2>1, <3>1, <3>2, <4>1 DEF FinRename, PTypeOK
    <3>3. QED
      BY <2>1, <3>2 DEF FinRename
  <2>4. QED
    BY <2>2, <2>3 DEF KeepsLanding
<1>2. CASE folder' = folder
  BY <1>2 DEF KeepsLanding
<1>3. QED
  BY <1>1, <1>2 DEF PNext, Start, Push, WriteChunk, Abort, Cancel, FinPrepare, FinClean, Restart,
     CollectNow, DestroyDir, PeerRestart, met

(* A pull that ends by an error leaves its bitmap in its directory.         *)
LEMMA DropSaves ==
  ASSUME ConstantsOK, SInv, PNext
  PROVE  SavesOnDrop
<1>t. PTypeOK /\ PullsInv /\ man \in [Ids -> Manifests]
  BY DEF SInv, BaseInv, PTypeOK, Manifests
<1>1. SUFFICES ASSUME NEW p \in Ids, pull[p].st = "open", pull'[p].st = "failed",
                      restarts' = restarts, part'[pull[p].dir] # 0
               PROVE  pull[p].bits \subseteq man'[pull[p].dir].bits
  BY DEF SavesOnDrop
<1>2. p \in Active /\ pull'[p] # pull[p] /\ ~Restart
  BY <1>1, <1>t DEF Active, Running, Restart, PTypeOK, ConstantsOK
<1>3. SavedBy(p).bits = pull[p].bits
  BY DEF SavedBy
<1>4. CASE Abort(p)
  <2>1. /\ man' = Dropped(p, man, part) /\ part' = part
    BY <1>4 DEF Abort
  <2>2. Dropped(p, man, part)[pull[p].dir] =
          IF part[pull[p].dir] = 0 THEN man[pull[p].dir] ELSE SavedBy(p)
    BY <1>t, <1>2, DroppedFacts
  <2>3. QED
    BY <1>1, <1>3, <2>1, <2>2
<1>5. CASE Cancel(p)
  <2>1. \/ man'[pull[p].dir] = NoManifest /\ part'[pull[p].dir] = 0
        \/ /\ part' = part
           /\ man'[pull[p].dir] = IF part[pull[p].dir] = 0 THEN man[pull[p].dir] ELSE SavedBy(p)
    BY <1>t, <1>2, <1>5, Removed DEF Cancel
  <2>2. QED
    BY <1>1, <1>3, <2>1
<1>6. CASE FinRename(p) \/ FinPrepare(p) \/ FinClean(p) \/ \E c \in Offsets : WriteChunk(p, c)
  <2>1. CASE FinPrepare(p)
    <3>1. pull[p] \in Writer /\ pull'[p] = [pull[p] EXCEPT !.st = "finalizing", !.slot = FreeSlot]
      BY <1>t, <2>1 DEF FinPrepare, PTypeOK
    <3>2. QED
      BY <1>1, <3>1 DEF Writer
  <2>2. ASSUME NEW c \in Offsets, WriteChunk(p, c) PROVE FALSE
    BY <1>t, <1>1, <2>2, WriteEffect
  <2>3. QED
    BY <1>1, <1>6, <2>1, <2>2 DEF FinRename, FinClean
<1>7. ASSUME NEW o \in Ids, o # p,
             \/ Abort(o) \/ Cancel(o) \/ FinRename(o) \/ FinPrepare(o) \/ FinClean(o)
             \/ \E c \in Offsets : WriteChunk(o, c)
             \/ \E q \in Peers, f \in Files : Start(o, q, f) \/ Push(o, q, f)
      PROVE  FALSE
  <2>1. CASE \E q \in Peers, f \in Files : Start(o, q, f) \/ Push(o, q, f)
    <3>1. PICK q \in Peers, f \in Files : Start(o, q, f) \/ Push(o, q, f)
      BY <2>1
    <3>2. PICK r \in Peers \cup {Hole}, i \in Ids : Opened(o, r, f, i)
      <4>1. CASE Start(o, q, f)
        BY <1>t, <4>1, IdLeft DEF Start, DirFor, Pending, SInv, BaseInv
      <4>2. CASE Push(o, q, f)
        BY <1>t, <4>2, IdLeft DEF Push, SInv, BaseInv
      <4>3. QED
        BY <3>1, <4>1, <4>2
    <3>3. \E w \in Writer : pull' = [pull EXCEPT ![o] = w]
      <4>1. pull[o] = NoPull
        BY <1>t, <3>1 DEF Start, Push, SInv, BaseInv, PullsInv
      <4>2. QED
        BY <1>t, <3>2, <4>1, OpenedEffect DEF SInv, BaseInv
    <3>4. QED
      BY <1>t, <1>2, <1>7, <3>3 DEF PTypeOK
  <2>2. CASE Abort(o) \/ Cancel(o) \/ FinRename(o) \/ FinPrepare(o) \/ FinClean(o)
    BY <1>t, <1>2, <1>7, <2>2 DEF Abort, Cancel, FinRename, FinPrepare, FinClean, End, PTypeOK
  <2>3. CASE \E c \in Offsets : WriteChunk(o, c)
    BY <1>t, <1>2, <1>7, <2>3 DEF WriteChunk, PTypeOK
  <2>4. QED
    BY <1>7, <2>1, <2>2, <2>3
<1>8. ASSUME NEW q \in Peers, NEW f \in Files, Start(p, q, f) \/ Push(p, q, f) PROVE FALSE
  BY <1>1, <1>8 DEF Start, Push
<1>9. pull' # pull
  BY <1>2
<1>10. QED
  BY <1>2, <1>4, <1>5, <1>6, <1>7, <1>8, <1>9 DEF PNext, CollectNow, DestroyDir, PeerRestart

(* What a manifest records is never taken back, except with its directory.  *)
LEMMA ProgressKept ==
  ASSUME ConstantsOK, Gentle, SInv, PNext
  PROVE  KeepsProgress
<1>t. PTypeOK /\ PullsInv /\ OpenInv /\ WorkInv /\ FreshInv /\ AloneInv /\ man \in [Ids -> Manifests]
  BY DEF SInv, BaseInv, GentleInv, PTypeOK, Manifests
<1> DEFINE Keeps(i) == man'[i].file = man[i].file /\ man[i].bits \subseteq man'[i].bits
           Leaves(i) == \E p \in Active : pull[p].dir = i /\ pull[p].st # "finalizing"
                                          /\ pull'[p].st \in {"failed", "done"}
<1>1. SUFFICES ASSUME NEW i \in Ids, Loadable(i)
               PROVE  Keeps(i) \/ Leaves(i) \/ Full(man[i])
  BY DEF KeepsProgress
<1>2. ASSUME man'[i] = man[i] PROVE Keeps(i)
  BY <1>2
<1>3. ASSUME NEW p \in Ids, NEW q \in Peers, NEW f \in Files, Start(p, q, f) PROVE Keeps(i)
  <2>1. BaseInv /\ GentleInv
    BY DEF SInv
  <2>2. PICK k \in Ids : man' = man \/ (k = nextId[q] /\ \A j \in Ids \ {k} : man'[j] = man[j])
    <3>1. PICK k \in DirFor(f, nextId[q]) : Opened(p, q, f, k)
      BY <1>3 DEF Start
    <3>2. k \in Ids /\ (k \in Pending \/ k = nextId[q])
      BY <1>t, <1>3, <2>1, <3>1, IdLeft DEF DirFor, Pending, Start, BaseInv
    <3>3. CASE k = nextId[q]
      <4>1. man' = man \/ man' = [man EXCEPT ![k] = [file |-> f, bits |-> {}]]
        BY <3>1 DEF Opened
      <4>2. QED
        BY <1>t, <3>2, <3>3, <4>1
    <3>4. CASE k \in Pending /\ k # nextId[q]
      <4>1. Loadable(k) /\ ~Full(man[k]) /\ man[k].file = f
        BY <3>1, <3>4 DEF DirFor, Pending
      <4>2. Size[f] > 0
        BY <1>t, <3>2, <4>1, DataFacts DEF Full, OffsetsOf, Loadable, ConstantsOK
      <4>3. man' = man
        BY <3>1, <4>1, <4>2 DEF Opened
      <4>4. QED
        BY <3>2, <4>3
    <3>5. QED
      BY <3>2, <3>3, <3>4
  <2>3. k = nextId[q] => man[k] = NoManifest
    BY <1>t DEF FreshInv, Ids
  <2>4. k = nextId[q] => k # i
    BY <1>1, <2>3, DataFacts DEF Loadable
  <2>5. QED
    BY <1>2, <2>2, <2>4
<1>4. ASSUME NEW p \in Ids, NEW c \in Offsets, WriteChunk(p, c) PROVE Keeps(i)
  <2>1. /\ p \in Active
        /\ \A k \in Ids \ {pull[p].dir} : man'[k] = man[k]
        /\ \/ man'[pull[p].dir] = [file |-> pull[p].file, bits |-> pull[p].bits \cup {c}]
           \/ man' = man
    <3>1. p \in Active
      BY <1>t, <1>4, WriteEffect
    <3>2. ASSUME NEW k \in Ids, k # pull[p].dir PROVE man'[k] = man[k]
      BY <1>t, <1>4, <3>2, WriteEffect
    <3>3. \/ man'[pull[p].dir] = [file |-> pull[p].file, bits |-> pull[p].bits \cup {c}]
          \/ man' = man
      <4>1. pull[p].dir \in Ids /\ pull'[p].bits = pull[p].bits \cup {c}
        BY <1>t, <1>4, WriteEffect DEF PullsInv, PTypeOK, Writer
      <4>2. \/ man' = [man EXCEPT ![pull[p].dir] =
                         [file |-> pull[p].file, bits |-> pull'[p].bits]]
            \/ man' = man
        BY <1>4 DEF WriteChunk, Saved
      <4>3. QED
        BY <1>t, <4>1, <4>2
    <3>4. QED
      BY <3>1, <3>2, <3>3
  <2>2. man[pull[p].dir].file = pull[p].file /\ man[pull[p].dir].bits \subseteq pull[p].bits
    BY <1>t, <2>1 DEF WorkInv
  <2>3. QED
    BY <2>1, <2>2
<1>5. ASSUME NEW p \in Ids, Abort(p) \/ Cancel(p) \/ FinClean(p) PROVE Keeps(i) \/ Leaves(i)
  <2>1. /\ p \in Active /\ pull[p].st # "finalizing"
        /\ End(p, "failed") \/ End(p, "done")
    BY <1>5 DEF Abort, Cancel, FinClean, Active, Running
  <2>2. PICK x \in {"failed", "done"} : End(p, x)
    BY <2>1
  <2>3. pull'[p].st = x
    BY <1>t, <2>1, <2>2, Ends
  <2>4. pull[p].dir = i => Leaves(i)
    BY <2>1, <2>3
  <2>5. ASSUME i # pull[p].dir PROVE man'[i] = man[i]
    <3>1. CASE Abort(p)
      BY <1>t, <2>1, <2>5, <3>1, DroppedFacts DEF Abort
    <3>2. CASE RemoveDir(p)
      BY <1>t, <2>1, <2>5, <3>2, Removed
    <3>3. QED
      BY <1>5, <3>1, <3>2 DEF Cancel, FinClean
  <2>6. QED
    BY <2>4, <2>5
<1>6. ASSUME NEW p \in Ids, FinPrepare(p) PROVE Keeps(i)
  <2>1. p \in Active /\ man' = [man EXCEPT ![pull[p].dir] = SavedBy(p)]
    BY <1>6 DEF FinPrepare, Active, Running, Saved, SavedBy
  <2>2. man[pull[p].dir].file = pull[p].file /\ man[pull[p].dir].bits \subseteq pull[p].bits
    BY <1>t, <2>1 DEF WorkInv
  <2>3. QED
    BY <1>t, <2>1, <2>2 DEF SavedBy, PTypeOK
<1>7. ASSUME NEW p \in Ids, FinRename(p) PROVE Keeps(i)
  BY <1>2, <1>7, FinRenameGentle DEF SInv
<1>8. CASE Restart
  <2>1. PICK torn \in {{}} \cup {{pull[p].dir} : p \in {o \in Active : pull[o].st = "open"}} :
          man' = [k \in Ids |-> IF k \in torn THEN Corrupt
                                ELSE IF k \in Stale THEN NoManifest ELSE man[k]]
    BY <1>8 DEF Restart
  <2>2. CASE i \in torn
    <3>1. PICK p \in Active : pull[p].st = "open" /\ pull[p].dir = i
      BY <2>2
    <3>2. p \in Ids /\ pull[p] \in Writer /\ pull'[p] = [pull[p] EXCEPT !.st = "failed"]
      BY <1>8, <1>t, <3>1 DEF Restart, Active, PTypeOK
    <3>3. pull'[p].st = "failed"
      BY <3>2 DEF Writer
    <3>4. QED
      BY <3>1, <3>3
  <2>3. CASE i \in Stale
    BY <2>3 DEF Stale
  <2>4. CASE i \notin torn /\ i \notin Stale
    BY <1>2, <2>1, <2>4
  <2>5. QED
    BY <2>2, <2>3, <2>4
<1>9. /\ ~CollectNow /\ (\A k \in Ids : ~DestroyDir(k)) /\ (\A q \in Peers : ~PeerRestart(q))
      /\ \A p \in Ids, q \in Peers, f \in Files : ~Push(p, q, f)
  BY DEF Gentle, CollectNow, DestroyDir, PeerRestart, Push
<1> HIDE DEF Keeps, Leaves
<1>10. QED
  BY <1>3, <1>4, <1>5, <1>6, <1>7, <1>8, <1>9 DEF PNext

(* However pulls and pushes of any number of sources cross, a file that     *)
(* stood in the download folder when a name was chosen is replaced only if  *)
(* all names are taken, and a transfer that ends by an error leaves its     *)
(* bitmap on disk; with one source that pushes nothing, what has been       *)
(* recorded stays recorded (resolve_name_conflict, Drop for PartWriter).    *)
THEOREM PartsAlwaysKept ==
  ASSUME ConstantsOK
  PROVE  PSpec => PartsKept
<1>1. PInit => SInv
  BY SoleInit
<1>2. SInv /\ [PNext]_pvars => SInv'
  BY SoleStep
<1>3. SInv /\ [PNext]_pvars => [KeepsParts]_pvars
  BY LandingKept, DropSaves, ProgressKept DEF KeepsParts
<1>4. QED
  BY <1>1, <1>2, <1>3, PTL DEF PSpec, PartsKept

-----------------------------------------------------------------------------
(* The desktop's table. A list of saved rows is in step with the table when *)
(* FileCurrent would hold of it.                                            *)
InStep(list) ==
  /\ \A i \in Rows : row[i].st \notin Over \/ row[i].removed => <<i, row[i]>> \in list
  /\ \A r \in list : row[r[1]] = r[2]

Shaped == /\ \E at, list : saver = [at |-> at, rows |-> list]
          /\ \E at, list : closing = [at |-> at, rows |-> list]

(* A change that counts is not marked yet, is marked, will be read, is in   *)
(* the list that is being written, or is in the file.                       *)
TableInv ==
  /\ owed \in Nat /\ Shaped
  /\ closing.at = "idle" /\ saver.at = "rename" => tmp = saver.rows
  /\ closing.at = "idle" /\ due =>
       \/ owed > 0 \/ dirty \/ saver.at = "read"
       \/ saver.at \in {"write", "rename"} /\ InStep(saver.rows)
       \/ saver.at = "idle" /\ InStep(file)

LEMMA TableBegins == TInit => TableInv
<1> SUFFICES ASSUME TInit PROVE TableInv
  OBVIOUS
<1>1. owed = 0 /\ due = FALSE /\ saver = [at |-> "idle", rows |-> {}] /\ closing = [at |-> "idle", rows |-> {}]
  BY DEF TInit, Nothing
<1> QED
  BY <1>1 DEF TableInv, Shaped

LEMMA ListsInStep == \A l \in PersistLists : InStep(l)
<1> SUFFICES ASSUME NEW l \in PersistLists PROVE InStep(l)
  OBVIOUS
<1>1. PICK h \in SUBSET Limited : l = {<<i, row[i]>> : i \in (Rows \ Limited) \cup h}
  BY DEF PersistLists
<1>2. \A i \in Rows : row[i].st \notin Over \/ row[i].removed => i \in Rows \ Limited
  BY DEF Limited
<1>3. \A r \in l : \E i : r = <<i, row[i]>>
  BY <1>1
<1> QED
  BY <1>1, <1>2, <1>3 DEF InStep

(* What changes the table is owed a mark; the rest leaves table and saver.  *)
LEMMA TableChanges ==
  ASSUME TableInv, TableChanged \/ Marked
  PROVE  TableInv'
<1>1. CASE TableChanged
  <2>1. owed' = owed + 1 /\ owed' \in Nat /\ owed' > 0 /\ UNCHANGED <<saver, closing, tmp>>
    BY <1>1 DEF TableChanged, saving, TableInv
  <2> QED
    BY <2>1 DEF TableInv, Shaped
<1>2. CASE Marked
  <2>1. owed' \in Nat /\ dirty' = TRUE /\ UNCHANGED <<saver, closing, tmp>>
    BY <1>2 DEF Marked, saving, TableInv
  <2> QED
    BY <2>1 DEF TableInv, Shaped
<1> QED
  BY <1>1, <1>2

LEMMA TableRests ==
  ASSUME TableInv, UNCHANGED <<row, owed, dirty, due, saver, closing, tmp, file>>
  PROVE  TableInv'
BY DEF TableInv, Shaped, InStep, Rows

LEMMA SaverKeeps ==
  ASSUME TableInv, SaverTick \/ SaverReads \/ SaverWrites
  PROVE  TableInv'
<1>1. UNCHANGED <<row, owed, closing>> /\ (\A l : InStep(l)' <=> InStep(l))
  BY DEF SaverTick, SaverReads, SaverWrites, InStep, Rows
<1>2. CASE SaverTick
  <2>1. saver' = [at |-> "read", rows |-> {}]
    BY <1>2 DEF SaverTick, Nothing
  <2> QED
    BY <1>1, <2>1 DEF TableInv, Shaped
<1>3. CASE SaverReads
  <2>1. PICK l \in PersistLists : saver' = [at |-> "write", rows |-> l]
    BY <1>3 DEF SaverReads
  <2>2. InStep(l)'
    BY <1>1, <2>1, ListsInStep
  <2>3. InStep(saver.rows)'
    <3>1. saver'.rows = l
      BY <2>1
    <3> QED
      BY <2>2, <3>1 DEF InStep
  <2> QED
    BY <1>1, <2>1, <2>3 DEF TableInv, Shaped
<1>4. CASE SaverWrites
  <2>1. CASE Writes(saver) /\ saver' = [saver EXCEPT !.at = "rename"] /\ UNCHANGED <<file, failures, dirty, due>>
    <3>1. /\ saver.at = "write" /\ tmp' = saver.rows
          /\ saver' = [at |-> "rename", rows |-> saver.rows]
      BY <2>1 DEF Writes, TableInv, Shaped
    <3>2. InStep(saver.rows) => InStep(saver.rows)'
      BY <1>1, <3>1 DEF InStep
    <3> QED
      BY <1>1, <2>1, <3>1, <3>2 DEF TableInv, Shaped
  <2>2. CASE Renames(saver) /\ saver' = Nothing /\ DirtyAfter("rename") /\ UNCHANGED <<failures, due>>
    <3>1. saver.at = "rename" /\ file' = tmp /\ saver' = [at |-> "idle", rows |-> {}] /\ UNCHANGED <<dirty, due>>
      BY <2>2 DEF Renames, Nothing, DirtyAfter, Clears
    <3>2. closing.at = "idle" /\ InStep(saver.rows) => InStep(file)'
      BY <1>1, <3>1 DEF InStep, TableInv
    <3> QED
      BY <1>1, <3>1, <3>2 DEF TableInv, Shaped
  <2>3. CASE GivesUp(saver) /\ saver' = Nothing /\ DirtyAfter("rename") /\ due' = (dirty' \/ owed > 0)
    <3>1. saver' = [at |-> "idle", rows |-> {}]
      BY <2>3 DEF Nothing
    <3>2. due' => dirty' \/ owed > 0
      BY <2>3
    <3> QED
      BY <1>1, <3>1, <3>2 DEF TableInv, Shaped
  <2> QED
    BY <1>4, <2>1, <2>2, <2>3 DEF SaverWrites
<1> QED
  BY <1>2, <1>3, <1>4

LEMMA ClosingKeeps ==
  ASSUME TableInv, Interrupts \/ ClosingWrites \/ Rebuild
  PROVE  TableInv'
<1>1. CASE Interrupts
  <2>1. owed' = owed + 1 /\ UNCHANGED saver /\ closing' = [at |-> "read", rows |-> {}]
    BY <1>1 DEF Interrupts, Nothing
  <2>2. owed' \in Nat /\ closing'.at = "read"
    BY <2>1 DEF TableInv
  <2> QED
    BY <2>1, <2>2 DEF TableInv, Shaped
<1>2. CASE ClosingWrites
  <2>1. UNCHANGED <<owed, saver>>
    BY <1>2 DEF ClosingWrites
  <2>2. \E at, list : closing' = [at |-> at, rows |-> list] /\ at # "idle"
    <3>1. PICK at, list : closing = [at |-> at, rows |-> list]
      BY DEF TableInv, Shaped
    <3>2. \/ \E l : closing' = [at |-> "write", rows |-> l]
          \/ closing' = [closing EXCEPT !.at = "rename"]
          \/ closing' = [Nothing EXCEPT !.at = "over"]
      BY <1>2 DEF ClosingWrites
    <3> QED
      BY <3>1, <3>2 DEF Nothing
  <2>3. closing'.at # "idle"
    BY <2>2
  <2> QED
    BY <2>1, <2>2, <2>3 DEF TableInv, Shaped
<1>3. CASE Rebuild
  <2>1. /\ owed' = 0 /\ due' = FALSE
        /\ saver' = [at |-> "idle", rows |-> {}] /\ closing' = [at |-> "idle", rows |-> {}]
    BY <1>3 DEF Rebuild, Nothing
  <2> QED
    BY <2>1 DEF TableInv, Shaped
<1> QED
  BY <1>1, <1>2, <1>3

LEMMA TableStep == TableInv /\ [TNext]_tvars => TableInv'
<1> SUFFICES ASSUME TableInv, [TNext]_tvars PROVE TableInv'
  OBVIOUS
<1>1. CASE UNCHANGED tvars
  BY <1>1, TableRests DEF tvars
<1>2. CASE Marked \/ SaverTick \/ SaverReads \/ SaverWrites \/ Interrupts \/ ClosingWrites \/ Rebuild
  BY <1>2, TableChanges, SaverKeeps, ClosingKeeps
<1>3. ASSUME NEW i \in RowId,
             \/ \E push \in BOOLEAN : Created(i, push)
             \/ \E to \in Closed : CardEnds(i, to)
             \/ RemoveFromView(i) \/ RemoveForGood(i)
      PROVE  TableInv'
  <2>1. TableChanged
    BY <1>3 DEF Created, CardEnds, RemoveFromView, RemoveForGood, Destroy
  <2> QED
    BY <2>1, TableChanges
<1>4. ASSUME NEW e \in JobId, Filled(e) \/ Restore(e) \/ DestroyOnDisk(e) PROVE TableInv'
  <2>1. TableChanged \/ UNCHANGED <<row, owed, dirty, due, saver, closing, tmp, file>>
    BY <1>4 DEF Filled, Restore, DestroyOnDisk, Destroy, saving
  <2> QED
    BY <2>1, TableChanges, TableRests
<1> QED
  BY <1>1, <1>2, <1>3, <1>4 DEF TNext

LEMMA TableHolds == TableInv => FileCurrent
BY DEF TableInv, InStep, FileCurrent

LEMMA StartShows ==
  ASSUME [TNext]_tvars, rebuilds' # rebuilds
  PROVE  \A e \in JobId : parts[e] # "none" => row'[e].st # "none"
<1>1. Rebuild
  BY DEF TNext, tvars, Marked, SaverTick, SaverReads, SaverWrites, Interrupts, ClosingWrites, Created,
         CardEnds, RemoveFromView, RemoveForGood, Filled, Restore, DestroyOnDisk, Destroy, TableChanged, saving
<1> SUFFICES ASSUME NEW e \in JobId, parts[e] # "none" PROVE row'[e].st # "none"
  OBVIOUS
<1>2. row'[e] = Rebuilt(e) /\ e \in Scanned
  BY <1>1 DEF Rebuild, RowId, Scanned
<1>3. OrphanRow(e).st \in {"failed", "interrupted"} /\ \A b : [OrphanRow(e) EXCEPT !.removed = b].st = OrphanRow(e).st
  BY DEF OrphanRow, NoRow
<1> QED
  BY <1>2, <1>3 DEF Rebuilt

-----------------------------------------------------------------------------
(* The phone's store. A job that has not begun has left nothing, one the    *)
(* user accepted is reported where it lands, and what the index calls       *)
(* removed is over there.                                                   *)
IndexInv ==
  /\ index.st \in [Job -> OpenStates \cup Settled \cup {"none"}]
  /\ index.removed \subseteq {j \in Job : index.st[j] \in Settled}

JobInv(j) ==
  /\ card[j] \in OpenStates => run[j] = "run"
  /\ run[j] \in {"none", "accepted"} => card[j] = "none" /\ partsIn[j] = Nowhere /\ index.st[j] = "none"
  /\ j \notin ByPolicy /\ run[j] = "accepted" => acc[j] = root[j] /\ root[j] # Nowhere
  /\ j \notin ByPolicy /\ run[j] = "run" /\ acc[j] # Nowhere => acc[j] = root[j]
  /\ \A d : <<j, d>> \in saved => run[j] = "over" /\ (j \notin ByPolicy => d = root[j])

StoreInv ==
  /\ STypeOK /\ root \in [Job -> Root \cup {Nowhere}]
  /\ IndexInv /\ \A j \in Job : JobInv(j)

LEMMA StoreBegins == SInit => StoreInv
<1> SUFFICES ASSUME SInit PROVE StoreInv
  OBVIOUS
<1>1. STypeOK /\ root \in [Job -> Root \cup {Nowhere}]
  BY DEF SInit, STypeOK, Root
<1>2. IndexInv
  BY DEF SInit, IndexInv
<1>3. \A j \in Job : JobInv(j)
  BY DEF SInit, JobInv, OpenStates
<1> QED
  BY <1>1, <1>2, <1>3 DEF StoreInv

LEMMA StoreHolds == StoreInv => STypeOK /\ OpenAtWork /\ AskedReported
<1> SUFFICES ASSUME StoreInv PROVE OpenAtWork /\ AskedReported
  BY DEF StoreInv
<1>1. OpenAtWork
  BY DEF StoreInv, JobInv, OpenAtWork
<1>2. ASSUME NEW s \in saved, s[1] \notin ByPolicy PROVE s[2] = root[s[1]]
  <2>1. s[1] \in Job /\ s = <<s[1], s[2]>>
    BY DEF StoreInv, STypeOK
  <2> QED
    BY <1>2, <2>1 DEF StoreInv, JobInv
<1> QED
  BY <1>1, <1>2 DEF AskedReported

(* What a step leaves of a job keeps what is said of it.                    *)
Untouched(j) ==
  /\ card'[j] = card[j] /\ run'[j] = run[j] /\ partsIn'[j] = partsIn[j] /\ acc'[j] = acc[j]
  /\ root'[j] = root[j] /\ \A d : <<j, d>> \in saved' => <<j, d>> \in saved

LEMMA UntouchedKeeps ==
  ASSUME StoreInv, NEW j \in Job, Untouched(j), index' = index
  PROVE  JobInv(j)'
BY DEF StoreInv, Untouched, JobInv

LEMMA Frame ==
  ASSUME StoreInv, NEW j \in Job, index' = index,
         \A x \in Job \ {j} : Untouched(x), JobInv(j)',
         STypeOK', root' \in [Job -> Root \cup {Nowhere}]
  PROVE  StoreInv'
<1>1. \A x \in Job : JobInv(x)'
  BY UntouchedKeeps
<1>2. IndexInv'
  BY DEF StoreInv, IndexInv
<1> QED
  BY <1>1, <1>2 DEF StoreInv

LEMMA Typed ==
  ASSUME StoreInv
  PROVE  /\ inboxDir \in Root /\ card \in [Job -> OpenStates \cup Settled \cup {"none"}]
         /\ hidden \subseteq {x \in Job : card[x] \in Settled}
         /\ acc \in [Job -> Root \cup {Nowhere}] /\ root \in [Job -> Root \cup {Nowhere}]
         /\ run \in [Job -> {"none", "accepted", "run", "over"}]
         /\ saved \subseteq Job \X Root /\ partsIn \in [Job -> Root \cup {Nowhere}]
         /\ full \subseteq {x \in Job : partsIn[x] # Nowhere}
         /\ Nowhere \notin Root /\ Down \in Root /\ Private \in Root /\ Inboxes \subseteq Root
BY StoreAssumption DEF StoreInv, STypeOK, Root

LEMMA Facts ==
  ASSUME StoreInv, NEW j \in Job
  PROVE  /\ inboxDir \in Root /\ card \in [Job -> OpenStates \cup Settled \cup {"none"}]
         /\ hidden \subseteq {x \in Job : card[x] \in Settled}
         /\ acc \in [Job -> Root \cup {Nowhere}] /\ root \in [Job -> Root \cup {Nowhere}]
         /\ run \in [Job -> {"none", "accepted", "run", "over"}]
         /\ saved \subseteq Job \X Root /\ partsIn \in [Job -> Root \cup {Nowhere}]
         /\ full \subseteq {x \in Job : partsIn[x] # Nowhere}
         /\ Nowhere \notin Root /\ Down \in Root /\ Private \in Root /\ Inboxes \subseteq Root
         /\ JobInv(j)
BY Typed DEF StoreInv

LEMMA AcceptStep ==
  ASSUME StoreInv, NEW j \in Job, Accept(j) \/ AutoAccept(j)
  PROVE  StoreInv'
<1>0. UNCHANGED <<inboxDir, card, hidden, saved, partsIn, full, index>> /\ run[j] = "none"
  BY DEF Accept, AutoAccept, memory, stored
<1>1. \E d \in Root : root' = [root EXCEPT ![j] = d] /\ (j \notin ByPolicy => acc' = [acc EXCEPT ![j] = d])
  BY Facts DEF Accept, AutoAccept, AcceptRoot
<1>2. acc' = acc \/ acc' = [acc EXCEPT ![j] = inboxDir]
  BY DEF Accept, AutoAccept, AcceptRoot, memory
<1>3. run' = [run EXCEPT ![j] = "accepted"]
  BY DEF Accept, AutoAccept
<1>4. /\ root' \in [Job -> Root \cup {Nowhere}] /\ acc' \in [Job -> Root \cup {Nowhere}]
      /\ run' \in [Job -> {"none", "accepted", "run", "over"}]
  BY <1>1, <1>2, <1>3, Facts DEF StoreInv, STypeOK
<1>5. STypeOK'
  BY <1>0, <1>4 DEF StoreInv, STypeOK
<1>6. JobInv(j)'
  BY <1>0, <1>1, <1>3, Facts DEF JobInv, StoreInv, STypeOK, OpenStates
<1>7. \A x \in Job \ {j} : Untouched(x)
  BY <1>0, <1>1, <1>2, <1>3, Facts DEF Untouched, StoreInv, STypeOK
<1> QED
  BY <1>0, <1>4, <1>5, <1>6, <1>7, Frame

LEMMA StartedStep ==
  ASSUME StoreInv, NEW j \in Job, JobStarted(j)
  PROVE  StoreInv'
<1>0. UNCHANGED <<inboxDir, root, saved, full, index>> /\ run[j] = "accepted"
  BY DEF JobStarted
<1>1. /\ run' = [run EXCEPT ![j] = "run"] /\ partsIn' = [partsIn EXCEPT ![j] = root[j]]
      /\ card' = [card EXCEPT ![j] = "open"] /\ hidden' = hidden \ {j}
      /\ acc' = [acc EXCEPT ![j] = IF acc[j] = Nowhere THEN inboxDir ELSE acc[j]]
  BY DEF JobStarted
<1>2. JobInv(j) /\ partsIn[j] = Nowhere /\ j \notin full
  BY <1>0, Facts DEF JobInv
<1>3. /\ partsIn' \in [Job -> Root \cup {Nowhere}] /\ acc' \in [Job -> Root \cup {Nowhere}]
      /\ card' \in [Job -> OpenStates \cup Settled \cup {"none"}]
      /\ run' \in [Job -> {"none", "accepted", "run", "over"}]
  BY <1>1, Facts DEF OpenStates, StoreInv, STypeOK
<1>4. \A x \in Job \ {j} : Untouched(x)
  BY <1>0, <1>1, Facts DEF Untouched, StoreInv, STypeOK
<1>5. hidden' \subseteq {x \in Job : card'[x] \in Settled} /\ full' \subseteq {x \in Job : partsIn'[x] # Nowhere}
  BY <1>0, <1>1, <1>2, Facts
<1>6. STypeOK'
  BY <1>0, <1>3, <1>5 DEF StoreInv, STypeOK
<1>7. card'[j] = "open" /\ run'[j] = "run" /\ acc'[j] = IF acc[j] = Nowhere THEN inboxDir ELSE acc[j]
  BY <1>1, Facts DEF StoreInv, STypeOK
<1>8. JobInv(j)'
  BY <1>0, <1>2, <1>7 DEF JobInv
<1> QED
  BY <1>0, <1>4, <1>6, <1>8, Frame, Facts

LEMMA LandedStep ==
  ASSUME StoreInv, NEW j \in Job, LastLanded(j)
  PROVE  StoreInv'
<1>1. UNCHANGED <<inboxDir, card, hidden, acc, run, root, saved, partsIn, index>> /\ full' = full \cup {j}
      /\ partsIn[j] # Nowhere
  BY DEF LastLanded, memory
<1>2. STypeOK'
  BY <1>1 DEF StoreInv, STypeOK
<1>3. \A x \in Job : Untouched(x)
  BY <1>1 DEF Untouched
<1> QED
  BY <1>1, <1>2, <1>3, UntouchedKeeps, Frame, Facts

(* How a card settles, and the end of its row.                              *)
LEMMA Settling ==
  ASSUME StoreInv, NEW j \in Job, NEW to \in {"done", "failed"}, Settles(j, to) \/ RowGone(j)
  PROVE  /\ card' \in [Job -> OpenStates \cup Settled \cup {"none"}] /\ acc' \in [Job -> Root \cup {Nowhere}]
         /\ hidden' \subseteq {x \in Job : card'[x] \in Settled}
         /\ \A x \in Job \ {j} : card'[x] = card[x] /\ acc'[x] = acc[x]
         /\ card'[j] \notin OpenStates /\ (card[j] = "none" => card'[j] = "none")
         /\ acc'[j] \in {acc[j], Nowhere}
<1>0. "done" \in Settled /\ "failed" \in Settled /\ OpenStates = {"open", "cancelling"}
      /\ "none" \notin Settled /\ "open" \notin Settled /\ "none" \notin OpenStates
      /\ "done" \notin OpenStates /\ "failed" \notin OpenStates
  BY DEF Settled, OpenStates
<1>1. CASE RowGone(j)
  BY <1>0, <1>1, Facts DEF RowGone
<1>2. CASE Settles(j, to) /\ ~RowGone(j)
  <2> DEFINE c == IF card[j] = "open" THEN to ELSE card[j]
  <2>1. /\ card[j] # "cancelling" /\ card' = [card EXCEPT ![j] = c] /\ hidden' = hidden
        /\ acc' = acc \/ acc' = [acc EXCEPT ![j] = Nowhere]
    BY <1>2 DEF Settles
  <2>2. /\ c \in OpenStates \cup Settled \cup {"none"} /\ c \notin OpenStates
        /\ card[j] \in Settled => c = card[j]
        /\ card[j] = "none" => c = "none"
    BY <1>0, <2>1, Facts
  <2> HIDE DEF c
  <2>3. card' \in [Job -> OpenStates \cup Settled \cup {"none"}] /\ card'[j] = c
        /\ \A x \in Job \ {j} : card'[x] = card[x]
    BY <2>1, <2>2, Facts
  <2>4. acc' \in [Job -> Root \cup {Nowhere}] /\ acc'[j] \in {acc[j], Nowhere}
        /\ \A x \in Job \ {j} : acc'[x] = acc[x]
    BY <2>1, Facts
  <2>5. hidden' \subseteq {x \in Job : card'[x] \in Settled}
    BY <2>1, <2>2, <2>3, Facts
  <2> QED
    BY <2>2, <2>3, <2>4, <2>5
<1> QED
  BY <1>1, <1>2

LEMMA EndStep ==
  ASSUME StoreInv, NEW j \in Job, Done(j) \/ Failed(j)
  PROVE  StoreInv'
<1>1. /\ UNCHANGED <<inboxDir, root, index>> /\ run' = [run EXCEPT ![j] = "over"]
      /\ (Settles(j, "done") \/ Settles(j, "failed")) /\ run[j] \in {"accepted", "run"}
  BY DEF Done, Failed
<1>2. /\ card' \in [Job -> OpenStates \cup Settled \cup {"none"}] /\ acc' \in [Job -> Root \cup {Nowhere}]
      /\ hidden' \subseteq {x \in Job : card'[x] \in Settled}
      /\ \A x \in Job \ {j} : card'[x] = card[x] /\ acc'[x] = acc[x]
      /\ card'[j] \notin OpenStates
  BY <1>1, Settling
<1>3. \/ partsIn' = [partsIn EXCEPT ![j] = Nowhere] /\ full' = full \ {j}
      \/ UNCHANGED <<partsIn, full>>
  BY DEF Done, Failed, stored
<1>4. /\ partsIn' \in [Job -> Root \cup {Nowhere}] /\ full' \subseteq {x \in Job : partsIn'[x] # Nowhere}
      /\ \A x \in Job \ {j} : partsIn'[x] = partsIn[x]
  BY <1>3, Facts
<1>5. saved' = saved \/ (run[j] = "run" /\ acc[j] # Nowhere /\ saved' = saved \cup {<<j, acc[j]>>})
  BY DEF Done, Failed
<1>6. /\ saved' \subseteq Job \X Root
      /\ \A x \in Job \ {j} : \A d : <<x, d>> \in saved' => <<x, d>> \in saved
      /\ \A d : <<j, d>> \in saved' => (j \notin ByPolicy => d = root[j])
  BY <1>5, Facts DEF JobInv
<1>7. run' \in [Job -> {"none", "accepted", "run", "over"}] /\ run'[j] = "over"
      /\ \A x \in Job \ {j} : run'[x] = run[x]
  BY <1>1, Facts
<1>8. STypeOK'
  BY <1>1, <1>2, <1>4, <1>6, <1>7 DEF StoreInv, STypeOK
<1>9. \A x \in Job \ {j} : Untouched(x)
  BY <1>1, <1>2, <1>4, <1>6, <1>7 DEF Untouched
<1>10. JobInv(j)'
  BY <1>1, <1>2, <1>6, <1>7 DEF JobInv
<1> QED
  BY <1>1, <1>8, <1>9, <1>10, Frame, Facts

(* The user. Where an orphan may be found, a job has begun.                 *)
LEMMA Looked ==
  ASSUME StoreInv, NEW j \in Job
  PROVE  Nowhere \notin Roots /\ Orphan(j) \in Settled /\ "none" \notin Settled \cup OpenStates
         /\ Settled \cap OpenStates = {}
BY Facts DEF Roots, Orphan, Settled, OpenStates

LEMMA RowStep ==
  ASSUME StoreInv, NEW j \in Job, CancelJob(j) \/ Hide(j) \/ RestoreJob(j)
  PROVE  StoreInv'
<1>1. UNCHANGED <<inboxDir, acc, run, root, saved, partsIn, full, index>>
  BY DEF CancelJob, Hide, RestoreJob, Unmoved, stored
<1>2. \/ card[j] = "open" /\ card' = [card EXCEPT ![j] = "cancelling"] /\ hidden' = hidden
      \/ card[j] \in Settled /\ hidden' = hidden \cup {j} /\ card' = card
      \/ j \in hidden /\ card' = card /\ hidden' = hidden \ {j}
      \/ /\ card[j] = "none" /\ partsIn[j] \in Roots /\ card' = [card EXCEPT ![j] = Orphan(j)]
         /\ hidden' = hidden \ {j}
  BY DEF CancelJob, Hide, RestoreJob
<1>3. /\ card' \in [Job -> OpenStates \cup Settled \cup {"none"}]
      /\ \A x \in Job \ {j} : card'[x] = card[x]
      /\ hidden' \subseteq {x \in Job : card'[x] \in Settled}
  <2>1. "open" \notin Settled /\ "cancelling" \in OpenStates
    BY DEF Settled, OpenStates
  <2> QED
    BY <1>2, <2>1, Facts, Looked
<1>4. card'[j] \in OpenStates => card[j] \in OpenStates
  BY <1>2, Facts, Looked DEF OpenStates
<1>5. card[j] = "none" /\ card'[j] # "none" => partsIn[j] # Nowhere
  BY <1>2, Facts, Looked
<1>6. STypeOK'
  BY <1>1, <1>3 DEF StoreInv, STypeOK
<1>7. JobInv(j)'
  BY <1>1, <1>4, <1>5, Facts DEF JobInv
<1>8. \A x \in Job \ {j} : Untouched(x)
  BY <1>1, <1>3 DEF Untouched
<1> QED
  BY <1>1, <1>6, <1>7, <1>8, Frame, Facts

LEMMA RemoveStep ==
  ASSUME StoreInv, NEW j \in Job, CancelTimeout(j) \/ DestroyJob(j)
  PROVE  StoreInv'
<1>1. UNCHANGED <<inboxDir, run, root, saved, index>> /\ RowGone(j)
  BY DEF CancelTimeout, DestroyJob, Unmoved
<1>2. /\ card' \in [Job -> OpenStates \cup Settled \cup {"none"}] /\ acc' \in [Job -> Root \cup {Nowhere}]
      /\ hidden' \subseteq {x \in Job : card'[x] \in Settled}
      /\ \A x \in Job \ {j} : card'[x] = card[x] /\ acc'[x] = acc[x]
      /\ card'[j] = "none" /\ acc'[j] = Nowhere
  <2>1. card'[j] = "none" /\ acc'[j] = Nowhere
    BY <1>1, Facts DEF RowGone
  <2> QED
    BY <1>1, <2>1, Settling
<1>3. card[j] # "none" \/ partsIn[j] # Nowhere
  BY Looked DEF CancelTimeout, DestroyJob
<1>4. \/ UNCHANGED <<partsIn, full>>
      \/ partsIn' = [partsIn EXCEPT ![j] = Nowhere] /\ full' = full \ {j}
  <2>1. CASE CancelTimeout(j)
    BY <2>1 DEF CancelTimeout, stored
  <2>2. CASE DestroyJob(j)
    <3>1. partsIn[j] \notin Roots => [partsIn EXCEPT ![j] = partsIn[j]] = partsIn
      BY Facts
    <3> QED
      BY <2>2, <3>1 DEF DestroyJob
  <2> QED
    BY <2>1, <2>2
<1>5. /\ partsIn' \in [Job -> Root \cup {Nowhere}] /\ full' \subseteq {x \in Job : partsIn'[x] # Nowhere}
      /\ \A x \in Job \ {j} : partsIn'[x] = partsIn[x]
  BY <1>4, Facts
<1>6. STypeOK'
  BY <1>1, <1>2, <1>5 DEF StoreInv, STypeOK
<1>7. JobInv(j)'
  BY <1>1, <1>2, <1>3, Facts, Looked DEF JobInv
<1>8. \A x \in Job \ {j} : Untouched(x)
  BY <1>1, <1>2, <1>5 DEF Untouched
<1> QED
  BY <1>1, <1>6, <1>7, <1>8, Frame, Facts

LEMMA InboxStep ==
  ASSUME StoreInv, NEW r \in Inboxes, SetInbox(r)
  PROVE  StoreInv'
<1>1. UNCHANGED <<run, root, saved, index, hidden, acc>> /\ inboxDir' = r
  BY DEF SetInbox, Unmoved
<1>2. /\ card' = [j \in Job |-> IF card[j] = "none" /\ partsIn[j] = r THEN Orphan(j) ELSE card[j]]
      /\ partsIn' = [j \in Job |-> IF j \in Collected(r) THEN Nowhere ELSE partsIn[j]]
      /\ full' = full \ Collected(r)
  BY DEF SetInbox
<1>3. /\ partsIn' \in [Job -> Root \cup {Nowhere}] /\ full' \subseteq {x \in Job : partsIn'[x] # Nowhere}
      /\ \A x \in Job : partsIn[x] = Nowhere => partsIn'[x] = Nowhere
      /\ \A x \in Job : partsIn'[x] \in {partsIn[x], Nowhere}
  BY <1>2, Typed
<1>4. \A x \in Job : /\ card'[x] \in OpenStates => card[x] \in OpenStates
                     /\ card[x] = "none" /\ partsIn[x] = Nowhere => card'[x] = "none"
                     /\ card[x] \in Settled => card'[x] \in Settled
                     /\ card'[x] \in OpenStates \cup Settled \cup {"none"}
  <2>1. r # Nowhere /\ r \in Root
    BY StoreAssumption DEF Root
  <2>2. \A x \in Job : card'[x] = card[x] \/ (card'[x] = Orphan(x) /\ card[x] = "none" /\ partsIn[x] # Nowhere)
    BY <1>2, <2>1
  <2> QED
    BY <2>2, Facts, Looked
<1>5. STypeOK'
  <2>1. r \in Root /\ card' \in [Job -> OpenStates \cup Settled \cup {"none"}]
    BY <1>2, <1>4, Typed
  <2>2. hidden' \subseteq {x \in Job : card'[x] \in Settled}
    BY <1>1, <1>4, Typed
  <2> QED
    BY <1>1, <1>3, <2>1, <2>2 DEF StoreInv, STypeOK
<1>6. ASSUME NEW j \in Job PROVE JobInv(j)'
  BY <1>1, <1>3, <1>4, Facts DEF JobInv
<1>7. IndexInv'
  BY <1>1 DEF StoreInv, IndexInv
<1> QED
  BY <1>1, <1>5, <1>6, <1>7, Facts DEF StoreInv

(* The index, a crash and the next start.                                   *)
LEMMA Recorded ==
  ASSUME StoreInv, Persist
  PROVE  /\ index'.st \in [Job -> OpenStates \cup Settled \cup {"none"}] /\ index'.removed = hidden
         /\ \A j \in Job : index'.st[j] \in {"none", card[j]}
         /\ \A j \in hidden : index'.st[j] = card[j]
<1>1. PICK keep \in SUBSET Counted : index' = Record(keep)
  BY DEF Persist
<1>2. \A j \in Counted : j \in Job /\ j \notin hidden
  BY DEF Counted
<1>3. index'.st = [j \in Job |-> IF j \in Counted \ keep THEN "none" ELSE card[j]] /\ index'.removed = hidden
  BY <1>1 DEF Record
<1>4. \A j \in hidden : j \in Job
  BY Typed
<1> QED
  BY <1>2, <1>3, <1>4, Typed

LEMMA PersistStep ==
  ASSUME StoreInv, Persist
  PROVE  StoreInv'
<1>1. UNCHANGED <<inboxDir, card, hidden, acc, run, root, saved, partsIn, full>>
  BY DEF Persist, stored
<1>2. STypeOK'
  BY <1>1 DEF StoreInv, STypeOK
<1>3. IndexInv'
  BY <1>1, Recorded, Typed DEF IndexInv
<1>4. ASSUME NEW j \in Job PROVE JobInv(j)'
  BY <1>1, Recorded, Facts DEF JobInv
<1> QED
  BY <1>1, <1>2, <1>3, <1>4 DEF StoreInv

LEMMA CrashStep ==
  ASSUME StoreInv, Crash
  PROVE  StoreInv'
<1>1. /\ UNCHANGED <<inboxDir, root, saved, partsIn, full, index>> /\ hidden' = {}
      /\ card' = [j \in Job |-> "none"] /\ acc' = [j \in Job |-> Nowhere]
      /\ run' = [j \in Job |-> IF run[j] \in {"accepted", "run"} THEN "over" ELSE run[j]]
  BY DEF Crash, stored
<1>2. run' \in [Job -> {"none", "accepted", "run", "over"}]
  BY <1>1, Typed
<1>3. STypeOK'
  BY <1>1, <1>2 DEF StoreInv, STypeOK
<1>4. IndexInv'
  BY <1>1 DEF StoreInv, IndexInv
<1>5. ASSUME NEW j \in Job PROVE JobInv(j)'
  <2>1. card'[j] = "none" /\ run'[j] \notin {"accepted", "run"} /\ (run'[j] = "none" => run[j] = "none")
        /\ (run[j] = "over" => run'[j] = "over")
    BY <1>1
  <2> QED
    BY <1>1, <2>1, Facts, Looked DEF JobInv
<1> QED
  BY <1>1, <1>3, <1>4, <1>5 DEF StoreInv

LEMMA ReopenStep ==
  ASSUME StoreInv, Reopen
  PROVE  StoreInv'
<1> DEFINE found == {j \in Job : partsIn[j] \in {Down, Private}}
           c     == [j \in Job |-> IF j \in found THEN Orphan(j) ELSE Migrated(j)]
<1>1. /\ UNCHANGED <<acc, run, root, saved, index>> /\ inboxDir' = Private
      /\ card' = c /\ hidden' = {j \in index.removed : c[j] # "none"}
      /\ partsIn' = [j \in Job |-> IF j \in found \cap full THEN Nowhere ELSE partsIn[j]]
      /\ full' = full \ found
  BY DEF Reopen, MarkedAgain
<1>2. ASSUME NEW j \in Job
      PROVE  /\ c[j] \in Settled \cup {"none"}
             /\ index.st[j] = "none" /\ partsIn[j] = Nowhere => c[j] = "none"
  <2>1. index.st[j] \in OpenStates \cup Settled \cup {"none"} /\ "interrupted" \in Settled
    BY DEF StoreInv, IndexInv, Settled
  <2> QED
    BY <2>1, Facts, Looked DEF Migrated
<1>3. index.removed \subseteq Job
  BY DEF StoreInv, IndexInv
<1>4. card' \in [Job -> OpenStates \cup Settled \cup {"none"}] /\ hidden' \subseteq {x \in Job : card'[x] \in Settled}
  <2> HIDE DEF found
  <2> QED
    BY <1>1, <1>2, <1>3
<1>5. partsIn' \in [Job -> Root \cup {Nowhere}] /\ full' \subseteq {x \in Job : partsIn'[x] # Nowhere}
      /\ \A x \in Job : partsIn[x] = Nowhere => partsIn'[x] = Nowhere
  BY <1>1, Typed
<1>6. STypeOK'
  BY <1>1, <1>4, <1>5, Typed DEF StoreInv, STypeOK
<1>7. IndexInv'
  BY <1>1 DEF StoreInv, IndexInv
<1>8. ASSUME NEW j \in Job PROVE JobInv(j)'
  <2>1. card'[j] = c[j] /\ card'[j] \notin OpenStates
    BY <1>1, <1>2, Looked
  <2> HIDE DEF c, found
  <2> QED
    BY <1>1, <1>2, <1>5, <2>1, Facts DEF JobInv
<1> QED
  BY <1>1, <1>6, <1>7, <1>8 DEF StoreInv

LEMMA StoreStep == StoreInv /\ [SNext]_svars => StoreInv'
<1> SUFFICES ASSUME StoreInv, [SNext]_svars PROVE StoreInv'
  OBVIOUS
<1>1. CASE UNCHANGED svars
  BY <1>1 DEF svars, memory, stored, StoreInv, STypeOK, IndexInv, JobInv
<1>2. ASSUME NEW j \in Job,
             Accept(j) \/ AutoAccept(j) \/ JobStarted(j) \/ LastLanded(j) \/ Done(j) \/ Failed(j)
      PROVE  StoreInv'
  BY <1>2, AcceptStep, StartedStep, LandedStep, EndStep
<1>3. ASSUME NEW j \in Job,
             CancelJob(j) \/ CancelTimeout(j) \/ Hide(j) \/ RestoreJob(j) \/ DestroyJob(j)
      PROVE  StoreInv'
  BY <1>3, RowStep, RemoveStep
<1>4. CASE Persist \/ Crash \/ Reopen
  BY <1>4, PersistStep, CrashStep, ReopenStep
<1> QED
  BY <1>1, <1>2, <1>3, <1>4, InboxStep DEF SNext

(* A start hides what the index calls removed, and the index calls removed  *)
(* all that is hidden.                                                      *)
LEMMA HidingStep ==
  ASSUME StoreInv, [SNext]_svars
  PROVE  /\ reopened' # reopened => \A j \in index.removed : card'[j] # "none" => j \in hidden'
         /\ index' # index => \A j \in hidden : j \in index'.removed /\ index'.st[j] = card[j]
<1>1. reopened' # reopened => Reopen
  BY DEF SNext, svars, Accept, AutoAccept, JobStarted, LastLanded, Done, Failed, CancelJob, CancelTimeout, Hide,
         RestoreJob, DestroyJob, SetInbox, Persist, Crash, Unmoved
<1>2. index' # index => Persist
  BY DEF SNext, svars, Accept, AutoAccept, JobStarted, LastLanded, Done, Failed, CancelJob, CancelTimeout, Hide,
         RestoreJob, DestroyJob, SetInbox, Crash, Reopen, Unmoved
<1>3. Reopen => \A j \in index.removed : card'[j] # "none" => j \in hidden'
  BY DEF Reopen, MarkedAgain
<1> QED
  BY <1>1, <1>2, <1>3, Recorded

-----------------------------------------------------------------------------
(* Whatever sources, sessions, savers and the user do, the desktop's file   *)
(* catches up with its table, an open card of the phone is at work, files   *)
(* are reported where the user asked for them, and a bitmap claims what is  *)
(* there (main.rs, lib.rs, engine.rs).                                      *)
THEOREM TablesAlwaysSound ==
  ASSUME ConstantsOK
  PROVE  PSpec /\ TSpec /\ SSpec => []TablesSound
<1>1. PSpec => []PartsSound
  BY PartsAlwaysSound
<1>2. TSpec => []FileCurrent
  BY TableBegins, TableStep, TableHolds, PTL DEF TSpec
<1>3. SSpec => [](STypeOK /\ OpenAtWork /\ AskedReported)
  BY StoreBegins, StoreStep, StoreHolds, PTL DEF SSpec
<1>4. FileCurrent /\ (STypeOK /\ OpenAtWork /\ AskedReported) /\ PartsSound => TablesSound
  BY DEF TablesSound
<1> QED
  BY <1>1, <1>2, <1>3, <1>4, PTL

(* A start shows every directory and nothing that was hidden, what is       *)
(* hidden is recorded as such, and what was received stays (rebuild_cards,  *)
(* Drop for PartWriter).                                                    *)
THEOREM RestartAlwaysKeeps ==
  ASSUME ConstantsOK
  PROVE  PSpec /\ TSpec /\ SSpec => RestartKeeps
<1>1. PSpec => PartsKept
  BY PartsAlwaysKept
<1>2. TSpec => DirsShown
  <2>1. [TNext]_tvars =>
          [rebuilds' # rebuilds => \A e \in JobId : parts[e] # "none" => row'[e].st # "none"]_tvars
    BY StartShows
  <2> QED
    BY <2>1, PTL DEF TSpec, DirsShown
<1>3. SSpec => HiddenStays /\ RemovedRecorded
  <2>1. StoreInv /\ [SNext]_svars =>
          /\ [reopened' # reopened => \A j \in index.removed : card'[j] # "none" => j \in hidden']_svars
          /\ [index' # index => \A j \in hidden : j \in index'.removed /\ index'.st[j] = card[j]]_svars
    BY HidingStep
  <2> QED
    BY <2>1, StoreBegins, StoreStep, PTL DEF SSpec, HiddenStays, RemovedRecorded
<1> QED
  BY <1>1, <1>2, <1>3 DEF RestartKeeps
=============================================================================

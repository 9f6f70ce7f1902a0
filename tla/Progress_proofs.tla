----------------------------- MODULE Progress_proofs -----------------------------
(***************************************************************************)
(* Proofs about the cards of the desktop shell: downloads, for every set   *)
(* of files and sources and every number of cards, pulls, permits, commands *)
(* and restarts; pushes, for every number of offers; cards with children,  *)
(* for every set of commands and files.                                    *)
(***************************************************************************)
EXTENDS DownloadCards, PushOffer, BatchCards, FiniteSetTheorems, SequenceTheorems, WellFoundedInduction, TLAPS

-----------------------------------------------------------------------------
(* The invariant.                                                          *)

Lives  == {"gate", "peer", "engine", "drain"}
Begun  == {"open", "run", "paused"}
Writes == {"run", "paused"}
Shows  == {"pending", "active", "paused"}

(* A task alone: its fields fit where it is, and its events are those the  *)
(* engine has sent so far, less the ones that were handled.                *)
RowOK(r) ==
  /\ r.at \in Lives => r.card \in Ids /\ r.file \in Offered
  /\ r.at \in {"none", "gate", "peer", "over"} => r.eng = "none" /\ r.evs = <<>>
  /\ r.at \in {"none", "gate", "peer"} => r.res = "none"
  /\ r.at = "none" => r.card = 0
  /\ r.at = "engine" => r.eng # "none"
  /\ r.at = "drain" => r.eng = "over"
  /\ r.eng = "over" <=> r.at \in {"engine", "drain"} /\ r.res # "none"
  /\ r.eng = "meta" => r.evs = <<>>
  /\ r.eng \in Begun => /\ r.evs \in {<<>>, <<"Started">>}
                        /\ r.job \in JobIds /\ r.job < nextJob
  /\ r.eng \in Writes => r.dir \in JobIds /\ r.dir < nextJob
  /\ r.eng = "over" /\ r.res = "ok"  => r.evs \in {<<>>, <<"Done">>, <<"Started", "Done">>}
  /\ r.eng = "over" /\ r.res = "err" =>
       r.evs \in {<<>>, <<"Failed">>, <<"Started">>, <<"Started", "Failed">>}

RowsOK == \A p \in Pull : RowOK(pull[p])

(* The table and the directories: a card has a file, a directory was opened*)
(* under a job id that was given out, and it has the file of its card.     *)
TableOK ==
  /\ \A i \in Ids : card[i].st # "none" => card[i].file \in Offered
  /\ \A i \in JobIds : card[i].st # "none" =>
       i < nextJob /\ parts[i] \in {NoFile, card[i].file}
  /\ \A i \in Ids : parts[i] # NoFile => i \in JobIds /\ i < nextJob

(* A pull and the card it is for: the id was given out, and has the file   *)
(* of the pull, also as the name of a directory.                           *)
OfCard ==
  \A p \in Pull : pull[p].card # 0 =>
    LET i == pull[p].card IN
      /\ i \in CardIds => i < nextCard
      /\ i \in JobIds => i < nextJob /\ parts[i] \in {NoFile, pull[p].file}
      /\ card[i].st # "none" => card[i].file = pull[p].file

(* A pull that has its job id and no directory yet: nobody uses its name.  *)
Untouched ==
  \A p \in Pull : pull[p].eng = "open" =>
    /\ parts[pull[p].job] = NoFile /\ card[pull[p].job].st = "none"
    /\ \A o \in Pull : /\ pull[o].card # pull[p].job
                       /\ pull[o].eng \in Writes => pull[o].dir # pull[p].job
                       /\ o # p /\ pull[o].eng = "open" => pull[o].job # pull[p].job

(* The lock of the peer, and what it buys: no directory has two writers,   *)
(* and while a pull writes, its directory is nobody else's.                *)
OnePerPeer ==
  \A p, o \in Running : p # o => PeerOf[pull[o].file] # PeerOf[pull[p].file]
Apart ==
  \A p \in Pull : pull[p].eng \in Writes =>
    /\ parts[pull[p].dir] \in {NoFile, pull[p].file}
    /\ \A o \in Pull : o # p /\ pull[o].eng \in Writes => pull[o].dir # pull[p].dir

(* A pull whose Started the shell has not handled, and one where it has.   *)
Before(r) == r.at \in {"gate", "peer"} \/ r.eng = "meta" \/ (r.evs # <<>> /\ Head(r.evs) = "Started")
Behind(r) == \/ r.eng \in Begun /\ r.evs = <<>>
             \/ r.at \in {"engine", "drain"} /\ r.res = "ok" /\ r.evs \in {<<>>, <<"Done">>}

(* The first pull of a card is alone in moving the card while it is open:  *)
(* it finds it pending and unbound, and leaves it bound to itself, or done.*)
Follows ==
  \A p \in Pull : pull[p].at \in Lives =>
    LET r == pull[p]
        c == card[pull[p].card]
    IN /\ ~r.first => c.st \notin Shows
       /\ r.first => \A o \in Pull :
            o # p /\ pull[o].at \in Lives /\ pull[o].first => pull[o].card # r.card
       /\ r.first /\ Before(r) /\ c.st \in Shows => c.st = "pending" /\ c.eng = 0
       /\ r.first /\ Behind(r) => c.st # "pending"
       /\ r.first /\ r.res = "ok" /\ r.evs = <<>> => c.st \notin Shows
       /\ r.first /\ r.eng \in Begun /\ r.evs = <<>> /\ c.st \in Shows => c.eng = r.job

CInv ==
  /\ TypeOK /\ RowsOK /\ TableOK /\ OfCard /\ Untouched /\ OnePerPeer /\ Apart /\ Follows
  /\ NewCardFree /\ DoneMeansLanded /\ LandingShown

-----------------------------------------------------------------------------
(* Lemmas about the operators.                                             *)

(* Cards and engine jobs have numbers of their own, and 0 is neither's.    *)
LEMMA Numbers ==
  /\ Ids \subseteq Nat /\ JobIds \subseteq Nat /\ CardIds \subseteq Nat /\ Pull \subseteq Nat
  /\ CardIds \subseteq Ids /\ JobIds \subseteq Ids /\ 0 \notin Ids
  /\ \A i \in Ids : i \in CardIds \/ i \in JobIds
  /\ \A i \in CardIds : i \notin JobIds
BY BoundsAssumption DEF Ids, JobIds, CardIds, Pull

(* The state machine of a card, event by event (transfer_state.rs).        *)
LEMMA AfterPending ==
  ASSUME NEW ev
  PROVE  After("pending", ev) = CASE ev = "Started" -> "active"
                                  [] ev \in {"QueueTimeout", "Failed"} -> "failed"
                                  [] ev = "CancelRequested" -> "cancelling"
                                  [] OTHER -> "pending"
BY DEF After, Fsm

(* What the state machine of a card makes of each event                    *)
(* (transfer_state.rs): from active,                                       *)
LEMMA AfterActive ==
  ASSUME NEW ev
  PROVE  After("active", ev) = CASE ev = "Paused" -> "paused" [] ev = "Failed" -> "failed"
                                 [] ev = "Finished" -> "done" [] ev = "Interrupted" -> "interrupted"
                                 [] ev = "CancelRequested" -> "cancelling" [] OTHER -> "active"
BY DEF After, Fsm

(* from paused,                                                            *)
LEMMA AfterPaused ==
  ASSUME NEW ev
  PROVE  After("paused", ev) = CASE ev = "Resumed" -> "active" [] ev = "Failed" -> "failed"
                                 [] ev = "Finished" -> "done" [] ev = "Interrupted" -> "interrupted"
                                 [] ev = "CancelRequested" -> "cancelling" [] OTHER -> "paused"
BY DEF After, Fsm

(* from cancelling, which only an end leaves,                              *)
LEMMA AfterCancelling ==
  ASSUME NEW ev
  PROVE  After("cancelling", ev) = CASE ev = "Failed" -> "failed" [] ev = "Finished" -> "done"
                                     [] ev = "Interrupted" -> "interrupted" [] OTHER -> "cancelling"
BY DEF After, Fsm

(* and nothing moves a card that is over or does not exist.                *)
LEMMA AfterOver ==
  ASSUME NEW st \in Terminal \cup {"none"}, NEW ev
  PROVE  After(st, ev) = st
BY DEF After, Fsm, Terminal

(* The states of a card, in the three groups the events tell apart.        *)
LEMMA States == CardState = {"pending", "active", "paused", "cancelling"} \cup Terminal \cup {"none"}
BY DEF CardState, Fsm

(* What an event may do to a state: open cards only close, except that     *)
(* Started opens a pending one, and only Finished makes one done.          *)
LEMMA AfterFacts ==
  ASSUME NEW st \in CardState, NEW ev
  PROVE  /\ After(st, ev) \in CardState
         /\ After(st, ev) = "none" <=> st = "none"
         /\ After(st, ev) \in Shows => st \in Shows
         /\ After(st, ev) = "pending" => st = "pending" /\ ev # "Started"
         /\ ev # "Started" /\ After(st, ev) \in Shows => (After(st, ev) = "pending" <=> st = "pending")
         /\ ev = "Finished" /\ After(st, ev) \in Shows => st = "pending"
         /\ ev # "Finished" /\ After(st, ev) = "done" => st = "done"
<1>1. CASE st \in Terminal \cup {"none"}
  BY <1>1, AfterOver DEF Terminal, Shows
<1>2. CASE st = "pending"
  BY <1>2, AfterPending, States DEF Terminal, Shows
<1>3. CASE st = "active"
  BY <1>3, AfterActive, States DEF Terminal, Shows
<1>4. CASE st = "paused"
  BY <1>4, AfterPaused, States DEF Terminal, Shows
<1>5. CASE st = "cancelling"
  BY <1>5, AfterCancelling, States DEF Terminal, Shows
<1>6. QED
  BY <1>1, <1>2, <1>3, <1>4, <1>5, States

Table == [Ids -> CardRow]
Dirs  == [Ids -> Offered \cup {NoFile}]

(* The empty entry of the table is typed.                                  *)
LEMMA NoCardRow == NoCard \in CardRow /\ NoCard.st = "none"
BY States DEF NoCard, CardRow

(* A pull that was never queued is typed, and nothing about it is set.     *)
LEMMA NoPullRow ==
  /\ NoPull \in PullRow
  /\ NoPull.at = "none" /\ NoPull.card = 0 /\ NoPull.eng = "none" /\ NoPull.evs = <<>>
  /\ NoPull.res = "none"
BY DEF NoPull, PullRow

(* A task that has ended.                                                  *)
LEMMA EndedRow ==
  ASSUME NEW r \in PullRow
  PROVE  /\ Ended(r) \in PullRow
         /\ Ended(r).at = "over" /\ Ended(r).card = r.card /\ Ended(r).file = r.file
         /\ Ended(r).first = r.first /\ Ended(r).res = r.res
         /\ Ended(r).eng = "none" /\ Ended(r).evs = <<>>
BY NoPullRow DEF Ended, PullRow

(* A task that queues.                                                     *)
LEMMA TaskRow ==
  ASSUME NEW i \in Ids, NEW f \in Offered \cup {NoFile}, NEW b \in BOOLEAN
  PROVE  /\ Task(i, f, b) \in PullRow
         /\ Task(i, f, b).at = "gate" /\ Task(i, f, b).card = i /\ Task(i, f, b).file = f
         /\ Task(i, f, b).first = b /\ Task(i, f, b).res = "none"
         /\ Task(i, f, b).eng = "none" /\ Task(i, f, b).evs = <<>>
BY NoPullRow DEF Task, PullRow

(* A new task takes the row of a pull that was never run.                  *)
LEMMA QueuedRow ==
  ASSUME NEW i, NEW f, NEW b, Fresh # {}
  PROVE  \E p \in Pull : pull[p].at = "none" /\ Queued(i, f, b) = [pull EXCEPT ![p] = Task(i, f, b)]
<1>1. Fresh \subseteq Nat
  BY Numbers DEF Fresh
<1>2. PICK x \in Fresh : \A y \in Fresh : ~(<<y, x>> \in OpToRel(<, Nat))
  BY <1>1, NatLessThanWellFounded, WFMin
<1>3. \A y \in Fresh : x <= y
  <2>1. SUFFICES ASSUME NEW y \in Fresh PROVE x <= y
    OBVIOUS
  <2>2. x \in Nat /\ y \in Nat
    BY <1>1
  <2>3. ~(y < x)
    BY <1>2, <2>2 DEF OpToRel
  <2>4. QED
    BY <2>2, <2>3
<1>4. QED
  BY <1>3 DEF Queued, Fresh

(* The next free number is a card's or the one behind them, and no card in *)
(* the table has it or a greater one.                                      *)
LEMMA NextFreeFacts ==
  ASSUME NEW c
  PROVE  /\ NextFree(c) \in 1 .. (Cards + 1)
         /\ \A i \in CardIds : c[i].st # "none" => i < NextFree(c)
<1> DEFINE Used  == {i \in CardIds : c[i].st # "none"}
           Gaps  == {k \in 1 .. (Cards + 1) : \A i \in Used : i < k}
           Good(n) == /\ \A i \in CardIds : c[i].st # "none" => i < n
                      /\ n = 1 \/ c[n - 1].st # "none"
<1>1. Cards \in Nat
  BY BoundsAssumption
<1>2. Gaps \subseteq Nat /\ Cards + 1 \in Gaps
  BY <1>1 DEF CardIds
<1>3. PICK x \in Gaps : \A y \in Gaps : ~(<<y, x>> \in OpToRel(<, Nat))
  BY <1>2, NatLessThanWellFounded, WFMin
<1>4. \A y \in Gaps : ~(y < x)
  BY <1>2, <1>3 DEF OpToRel
<1>5. Good(x)
  <2>1. \A i \in CardIds : c[i].st # "none" => i < x
    OBVIOUS
  <2>2. CASE x # 1
    <3>1. x - 1 \in 1 .. (Cards + 1) /\ x - 1 < x /\ x - 1 \in CardIds
      BY <1>1, <2>2 DEF CardIds
    <3>2. x - 1 \notin Gaps
      BY <1>4, <3>1
    <3>3. PICK i \in Used : ~(i < x - 1)
      BY <3>1, <3>2
    <3>4. i = x - 1
      BY <1>1, <2>1, <3>1, <3>3 DEF CardIds
    <3>5. QED
      BY <2>1, <3>3, <3>4
  <2>3. QED
    BY <2>1, <2>2
<1>6. NextFree(c) = CHOOSE n \in 1 .. (Cards + 1) : Good(n)
  BY DEF NextFree
<1>7. NextFree(c) \in 1 .. (Cards + 1) /\ Good(NextFree(c))
  BY <1>5, <1>6
<1>8. QED
  BY <1>7

-----------------------------------------------------------------------------
(* The card and its directory.                                             *)

(* Deleting a card empties its entry and at most one directory, and leaves *)
(* the others alone.                                                       *)
LEMMA DestroyedFacts ==
  ASSUME NEW c \in Table, NEW i \in Ids, parts \in Dirs, watch \subseteq Ids, Destroyed(c, i)
  PROVE  /\ card' \in Table /\ parts' \in Dirs /\ watch' \subseteq Ids
         /\ card'[i] = NoCard /\ \A j \in Ids \ {i} : card'[j] = c[j]
         /\ \A j \in Ids : parts'[j] \in {NoFile, parts[j]}
<1>1. DirOf(c, i) \in Ids
  BY DEF DirOf, Table, CardRow
<1>2. card' \in Table
  BY NoCardRow DEF Destroyed, Table
<1>3. parts' \in Dirs /\ \A j \in Ids : parts'[j] \in {NoFile, parts[j]}
  BY <1>1 DEF Destroyed, Dirs
<1>4. QED
  BY <1>2, <1>3 DEF Destroyed, Table

(* card_apply: the card moves as the state machine says, or goes.          *)
LEMMA AppliedFacts ==
  ASSUME NEW c \in Table, NEW i \in Ids, NEW ev, parts \in Dirs, watch \subseteq Ids,
         Applied(c, i, ev)
  PROVE  /\ card' \in Table /\ parts' \in Dirs /\ watch' \subseteq Ids
         /\ \A j \in Ids \ {i} : card'[j] = c[j]
         /\ \A j \in Ids : parts'[j] \in {NoFile, parts[j]}
         /\ \/ card'[i] = NoCard
            \/ /\ card'[i].st = After(c[i].st, ev)
               /\ card'[i].eng = c[i].eng /\ card'[i].file = c[i].file
<1>1. CASE Destroyed(c, i)
  BY <1>1, DestroyedFacts
<1>2. CASE card' = [c EXCEPT ![i].st = After(c[i].st, ev)] /\ UNCHANGED <<parts, watch>>
  <2>1. c[i] \in CardRow
    BY DEF Table
  <2>2. After(c[i].st, ev) \in CardState
    BY <2>1, AfterFacts DEF CardRow
  <2>3. [c[i] EXCEPT !.st = After(c[i].st, ev)] \in CardRow
    BY <2>1, <2>2 DEF CardRow
  <2>4. card' \in Table
    BY <1>2, <2>3 DEF Table
  <2>5. QED
    BY <1>2, <2>1, <2>4 DEF Table, CardRow, Dirs
<1>3. QED
  BY <1>1, <1>2 DEF Applied

(* What almost every step does to the table: cards keep their files, none  *)
(* is made or shown again, and directories only go.                        *)
TameCards ==
  \A i \in Ids :
    /\ card'[i].st # "none" => card[i].st # "none" /\ card'[i].file = card[i].file
    /\ card'[i].st \in Shows => card[i].st \in Shows

Tame == TameCards /\ \A i \in Ids : parts'[i] \in {NoFile, parts[i]}

(* And most steps: open cards only close, and none is done.                *)
CalmCards ==
  \A i \in Ids :
    /\ card'[i].st \in Shows =>
         card'[i].eng = card[i].eng /\ (card'[i].st = "pending" <=> card[i].st = "pending")
    /\ card'[i].st = "done" => card[i].st = "done"

Calm == Tame /\ CalmCards

(* A step that leaves the cards and the directories alone is calm.         *)
LEMMA CalmStays == UNCHANGED <<card, parts>> => Calm
BY DEF Calm, CalmCards, Tame, TameCards

(* An event that does not end a pull with success is calm for the table.   *)
LEMMA CalmApplied ==
  ASSUME card \in Table, parts \in Dirs, watch \subseteq Ids, NEW i \in Ids,
         NEW ev \in {"Failed", "QueueTimeout", "Paused", "Resumed"}, Applied(card, i, ev)
  PROVE  Calm
<1>1. /\ \A j \in Ids \ {i} : card'[j] = card[j]
      /\ \A j \in Ids : parts'[j] \in {NoFile, parts[j]}
      /\ \/ card'[i] = NoCard
         \/ /\ card'[i].st = After(card[i].st, ev)
            /\ card'[i].eng = card[i].eng /\ card'[i].file = card[i].file
  BY AppliedFacts
<1>2. card[i].st \in CardState
  BY DEF Table, CardRow
<1>3. CASE card'[i] = NoCard
  BY <1>1, <1>3, NoCardRow DEF Calm, CalmCards, Tame, TameCards, Shows
<1>4. CASE /\ card'[i].st = After(card[i].st, ev)
           /\ card'[i].eng = card[i].eng /\ card'[i].file = card[i].file
  BY <1>1, <1>2, <1>4, AfterFacts DEF Calm, CalmCards, Tame, TameCards, Shows
<1>5. QED
  BY <1>1, <1>3, <1>4

(* Deleting a card is calm: nothing becomes done by it.                    *)
LEMMA CalmDestroyed ==
  ASSUME card \in Table, parts \in Dirs, watch \subseteq Ids, NEW i \in Ids, Destroyed(card, i)
  PROVE  Calm
BY DestroyedFacts, NoCardRow DEF Calm, CalmCards, Tame, TameCards, Shows

-----------------------------------------------------------------------------
(* Type correctness.                                                       *)

Rows == [Pull -> PullRow]

(* The parts of a row that steps change.                                   *)
LEMMA RowParts ==
  ASSUME NEW r \in PullRow
  PROVE  /\ [r EXCEPT !.at = "peer"] \in PullRow
         /\ [r EXCEPT !.at = "engine", !.eng = "meta"] \in PullRow
         /\ \A d \in JobIds : [r EXCEPT !.eng = "run", !.dir = d] \in PullRow
         /\ [r EXCEPT !.eng = "over", !.res = "err"] \in PullRow
BY DEF PullRow

(* What the engine does to its pull's row leaves a typed row: starting,    *)
(* failing, landing, and the pump's reading of an event.                   *)
LEMMA RowEvents ==
  ASSUME NEW r \in PullRow, NEW e \in Seq({"Started", "Done", "Failed"})
  PROVE  /\ \A j \in JobIds : [r EXCEPT !.eng = "open", !.job = j, !.evs = e] \in PullRow
         /\ \A c \in Seq(Action) :
              [r EXCEPT !.ctl = c, !.eng = "over", !.res = "err", !.evs = e] \in PullRow
         /\ [r EXCEPT !.eng = "over", !.res = "ok", !.evs = e] \in PullRow
         /\ [r EXCEPT !.evs = e, !.alive = FALSE] \in PullRow
<1>1. \A j \in JobIds : [r EXCEPT !.eng = "open", !.job = j, !.evs = e] \in PullRow
  BY DEF PullRow
<1>2. \A c \in Seq(Action) :
        [r EXCEPT !.ctl = c, !.eng = "over", !.res = "err", !.evs = e] \in PullRow
  BY DEF PullRow
<1>3. [r EXCEPT !.eng = "over", !.res = "ok", !.evs = e] \in PullRow
  BY DEF PullRow
<1>4. [r EXCEPT !.evs = e, !.alive = FALSE] \in PullRow
  BY DEF PullRow
<1>5. QED
  BY <1>1, <1>2, <1>3, <1>4

(* An order on the control channel, and the engine's obeying it, leave a   *)
(* typed row.                                                              *)
LEMMA RowOrders ==
  ASSUME NEW r \in PullRow, NEW c \in Seq(Action)
  PROVE  /\ [r EXCEPT !.ctl = c] \in PullRow
         /\ \A e \in {"run", "paused"} : [r EXCEPT !.ctl = c, !.eng = e] \in PullRow
<1>1. [r EXCEPT !.ctl = c] \in PullRow
  BY DEF PullRow
<1>2. \A e \in {"run", "paused"} : [r EXCEPT !.ctl = c, !.eng = e] \in PullRow
  BY DEF PullRow
<1>3. QED
  BY <1>1, <1>2

(* A pull that is over in the engine and has events left leaves a typed    *)
(* row.                                                                    *)
LEMMA RowDrains ==
  ASSUME NEW r \in PullRow, NEW b \in BOOLEAN
  PROVE  [r EXCEPT !.at = "drain", !.alive = b] \in PullRow
BY DEF PullRow

(* Writing one row leaves the other rows as they were.                     *)
LEMMA NewRow ==
  ASSUME pull \in Rows, NEW p \in Pull, NEW r \in PullRow, pull' = [pull EXCEPT ![p] = r]
  PROVE  pull' \in Rows /\ pull'[p] = r /\ \A o \in Pull \ {p} : pull'[o] = pull[o]
BY DEF Rows

-----------------------------------------------------------------------------
(* A task goes on or ends, for the same card and file.                     *)
Lasts(r, s) ==
  /\ s.card = r.card /\ s.file = r.file /\ s.first = r.first
  /\ s.at \in Lives => r.at \in Lives
  /\ r.res = "ok" => s.res = "ok"
  /\ s.at = "over" /\ s.res = "ok" =>
       r.res = "ok" /\ (r.at = "over" \/ (r.at \in Lives /\ r.evs = <<>>))

(* It takes no job id and no directory that it did not have.               *)
Goes(r, s) ==
  /\ Lasts(r, s)
  /\ s.eng = "open" => r.eng = "open"
  /\ s.eng \in Begun => r.eng \in Begun /\ s.job = r.job
  /\ s.eng \in Writes => r.eng \in Writes /\ s.dir = r.dir

(* None of its events but a failure is taken.                              *)
Keeps(r, s) ==
  /\ s.eng \in Begun /\ s.evs = <<>> => r.eng \in Begun /\ r.evs = <<>> /\ s.job = r.job
  /\ s.at \in Lives =>
       /\ Before(s) => Before(r)
       /\ Behind(s) => Behind(r)
       /\ s.res = "ok" /\ s.evs = <<>> => r.res = "ok" /\ r.evs = <<>>

Moves(r, s) == Goes(r, s) /\ Keeps(r, s)

AllLast == \A p \in Pull : Lasts(pull[p], pull'[p])
AllKeep == \A p \in Pull : Keeps(pull[p], pull'[p])
AllGo   == \A p \in Pull : Goes(pull[p], pull'[p])
AllMove == \A p \in Pull : Moves(pull[p], pull'[p])

(* A row that does not change makes an allowed move.                       *)
LEMMA MovesSame == ASSUME NEW r PROVE Moves(r, r)
BY DEF Moves, Goes, Lasts, Keeps, Lives, Begun, Writes

(* The moves of a row, from the strictest to the loosest:                  *)
LEMMA GoIsLast == AllGo => AllLast
BY DEF AllGo, AllLast, Goes

(* one that keeps the events and the binding is one of each looser kind.   *)
LEMMA MoveIsGo == AllMove => AllGo /\ AllLast /\ AllKeep
BY GoIsLast DEF AllMove, AllGo, AllKeep, Moves

(* A step that only takes entries and directories away, or keeps their     *)
(* file, leaves a card and its directory with one file.                    *)
LEMMA TableKept ==
  ASSUME TypeOK, TypeOK', TableOK, Tame, UNCHANGED nextJob
  PROVE  TableOK'
BY Numbers DEF TableOK, Tame, TameCards, TypeOK, Table, Dirs

(* Every pull keeps a card that was numbered before it,                    *)
LEMMA OfCardKept ==
  ASSUME TypeOK, TypeOK', OfCard, Tame, AllLast, UNCHANGED <<nextJob, nextCard>>
  PROVE  OfCard'
<1>1. SUFFICES ASSUME NEW p \in Pull, pull'[p].card # 0
              PROVE LET i == pull'[p].card IN
                      /\ i \in CardIds => i < nextCard
                      /\ i \in JobIds => i < nextJob /\ parts'[i] \in {NoFile, pull'[p].file}
                      /\ card'[i].st # "none" => card'[i].file = pull'[p].file
  BY DEF OfCard
<1>2. Lasts(pull[p], pull'[p])
  BY DEF AllLast
<1>3. pull'[p].card = pull[p].card /\ pull'[p].file = pull[p].file
  BY <1>2 DEF Lasts
<1>4. pull[p].card \in Ids
  BY <1>1, <1>3 DEF TypeOK, PullRow
<1>5. QED
  BY <1>1, <1>3, <1>4, Numbers DEF OfCard, Tame, TameCards

(* and what nobody has touched stays so.                                   *)
LEMMA UntouchedKept ==
  ASSUME TypeOK, RowsOK, Untouched, Tame, AllGo
  PROVE  Untouched'
<1>1. SUFFICES ASSUME NEW p \in Pull, pull'[p].eng = "open"
              PROVE /\ parts'[pull'[p].job] = NoFile /\ card'[pull'[p].job].st = "none"
                    /\ \A o \in Pull :
                         /\ pull'[o].card # pull'[p].job
                         /\ pull'[o].eng \in Writes => pull'[o].dir # pull'[p].job
                         /\ o # p /\ pull'[o].eng = "open" => pull'[o].job # pull'[p].job
  BY DEF Untouched
<1>2. pull[p].eng = "open" /\ pull'[p].job = pull[p].job
  BY <1>1 DEF AllGo, Goes, Lasts, Begun
<1>3. pull[p].job \in JobIds /\ pull[p].job \in Ids
  BY <1>2, Numbers DEF RowsOK, RowOK, Begun
<1>4. parts'[pull'[p].job] = NoFile /\ card'[pull'[p].job].st = "none"
  BY <1>2, <1>3 DEF Untouched, Tame, TameCards
<1>5. ASSUME NEW o \in Pull
      PROVE /\ pull'[o].card # pull'[p].job
            /\ pull'[o].eng \in Writes => pull'[o].dir # pull'[p].job
            /\ o # p /\ pull'[o].eng = "open" => pull'[o].job # pull'[p].job
  BY <1>2 DEF Untouched, AllGo, Goes, Lasts, Begun
<1>6. QED
  BY <1>4, <1>5

(* Two pulls at work stay on different files.                              *)
LEMMA ApartKept ==
  ASSUME TypeOK, RowsOK, Apart, Tame, AllGo
  PROVE  Apart'
<1>1. SUFFICES ASSUME NEW p \in Pull, pull'[p].eng \in Writes
              PROVE /\ parts'[pull'[p].dir] \in {NoFile, pull'[p].file}
                    /\ \A o \in Pull :
                         o # p /\ pull'[o].eng \in Writes => pull'[o].dir # pull'[p].dir
  BY DEF Apart
<1>2. pull[p].eng \in Writes /\ pull'[p].dir = pull[p].dir /\ pull'[p].file = pull[p].file
  BY <1>1 DEF AllGo, Goes, Lasts
<1>3. pull[p].dir \in Ids
  BY <1>2, Numbers DEF RowsOK, RowOK
<1>4. parts'[pull'[p].dir] \in {NoFile, pull'[p].file}
  BY <1>2, <1>3 DEF Apart, Tame, TameCards
<1>5. \A o \in Pull : o # p /\ pull'[o].eng \in Writes => pull'[o].dir # pull'[p].dir
  BY <1>2 DEF Apart, AllGo, Goes, Lasts
<1>6. QED
  BY <1>4, <1>5

(* A card keeps up with its pull when neither the pull's events nor the    *)
(* card's end change.                                                      *)
LEMMA FollowsKept ==
  ASSUME TypeOK, RowsOK, Follows, TameCards, CalmCards, AllLast, AllKeep
  PROVE  Follows'
<1>1. SUFFICES ASSUME NEW p \in Pull, pull'[p].at \in Lives
              PROVE LET r == pull'[p]
                        c == card'[pull'[p].card]
                    IN /\ ~r.first => c.st \notin Shows
                       /\ r.first => \A o \in Pull :
                            o # p /\ pull'[o].at \in Lives /\ pull'[o].first
                              => pull'[o].card # r.card
                       /\ r.first /\ Before(r) /\ c.st \in Shows => c.st = "pending" /\ c.eng = 0
                       /\ r.first /\ Behind(r) => c.st # "pending"
                       /\ r.first /\ r.res = "ok" /\ r.evs = <<>> => c.st \notin Shows
                       /\ r.first /\ r.eng \in Begun /\ r.evs = <<>> /\ c.st \in Shows
                            => c.eng = r.job
  BY DEF Follows, Before, Behind
<1> DEFINE q == pull[p]
           r == pull'[p]
           d == card[pull[p].card]
           c == card'[pull[p].card]
<1>2. Lasts(q, r) /\ Keeps(q, r)
  BY DEF AllLast, AllKeep
<1>3. r.card = q.card /\ r.first = q.first /\ q.at \in Lives
  BY <1>1, <1>2 DEF Lasts, Keeps
<1>4. q.card \in Ids
  BY <1>3 DEF RowsOK, RowOK
<1>5. /\ c.st \in Shows =>
           d.st \in Shows /\ c.eng = d.eng /\ (c.st = "pending" <=> d.st = "pending")
      /\ c.st = "pending" => c.st \in Shows
  BY <1>4 DEF CalmCards, TameCards, Shows
<1>6. ~r.first => c.st \notin Shows
  BY <1>3, <1>5 DEF Follows
<1>7. r.first => \A o \in Pull :
        o # p /\ pull'[o].at \in Lives /\ pull'[o].first => pull'[o].card # r.card
  BY <1>3 DEF Follows, AllLast, AllKeep, Lasts
<1>8. r.first /\ Before(r) /\ c.st \in Shows => c.st = "pending" /\ c.eng = 0
  <2>1. Before(r) => Before(q)
    BY <1>1, <1>2 DEF Lasts, Keeps
  <2>2. q.first /\ Before(q) /\ d.st \in Shows => d.st = "pending" /\ d.eng = 0
    BY <1>3 DEF Follows
  <2>3. QED
    BY <1>3, <1>5, <2>1, <2>2
<1>9. r.first /\ Behind(r) => c.st # "pending"
  <2>1. Behind(r) => Behind(q)
    BY <1>1, <1>2 DEF Lasts, Keeps
  <2>2. q.first /\ Behind(q) => d.st # "pending"
    BY <1>3 DEF Follows
  <2>3. QED
    BY <1>3, <1>5, <2>1, <2>2
<1>10. r.first /\ r.res = "ok" /\ r.evs = <<>> => c.st \notin Shows
  BY <1>1, <1>2, <1>3, <1>5 DEF Follows, Lasts, Keeps
<1>11. r.first /\ r.eng \in Begun /\ r.evs = <<>> /\ c.st \in Shows => c.eng = r.job
  BY <1>2, <1>3, <1>5 DEF Follows, Lasts, Keeps
<1>12. QED
  BY <1>3, <1>6, <1>7, <1>8, <1>9, <1>10, <1>11

(* A card that shows done has landed, and goes on having landed.           *)
LEMMA DoneKept ==
  ASSUME TypeOK, DoneMeansLanded, Calm, AllLast
  PROVE  DoneMeansLanded'
<1>1. SUFFICES ASSUME NEW i \in Ids, card'[i].st = "done"
              PROVE \E p \in Pull : pull'[p].card = i /\ pull'[p].file = card'[i].file
                                     /\ pull'[p].res = "ok"
  BY DEF DoneMeansLanded
<1>2. card[i].st = "done" /\ card'[i].file = card[i].file
  BY <1>1 DEF Calm, CalmCards, Tame, TameCards
<1>3. PICK p \in Pull : pull[p].card = i /\ pull[p].file = card[i].file /\ pull[p].res = "ok"
  BY <1>2 DEF DoneMeansLanded
<1>4. QED
  BY <1>2, <1>3 DEF AllLast, Lasts

(* A pull that landed and is told stays shown as landed, while no pull     *)
(* lands by the step.                                                      *)
LEMMA LandingKept ==
  ASSUME TypeOK, TypeOK', RowsOK, LandingShown, Follows, Tame, AllLast
  PROVE  LandingShown'
<1>1. SUFFICES ASSUME NEW p \in Pull, pull'[p].at = "over", pull'[p].card # 0, pull'[p].first,
                     pull'[p].res = "ok"
              PROVE card'[pull'[p].card].st \notin Shows
  BY DEF LandingShown, Shows
<1>2. Lasts(pull[p], pull'[p])
  BY DEF AllLast
<1>3. pull[p].card = pull'[p].card /\ pull[p].first
  BY <1>1, <1>2 DEF Lasts
<1>4. pull[p].card \in Ids
  BY <1>1, <1>3 DEF TypeOK, PullRow
<1>5. CASE pull[p].at = "over"
  <2>1. pull[p].res = "ok"
    BY <1>1, <1>2, <1>5, <1>3 DEF Lasts, RowsOK
  <2>2. QED
    BY <2>1, <1>1, <1>3, <1>4, <1>5 DEF LandingShown, Tame, TameCards, Shows
<1>6. CASE pull[p].at \in Lives /\ pull[p].res = "ok" /\ pull[p].evs = <<>>
  BY <1>3, <1>4, <1>6 DEF Follows, Tame, TameCards
<1>7. QED
  BY <1>1, <1>2, <1>5, <1>6 DEF Lasts

(* The next number of a card stays free as long as no card is added.       *)
LEMMA NewCardKept ==
  ASSUME NewCardFree, Tame, UNCHANGED nextCard
  PROVE  NewCardFree'
BY Numbers DEF NewCardFree, Tame, TameCards

-----------------------------------------------------------------------------
(* The steps of a task and its engine that take no new name.               *)

(* One pull of a peer at a time, as long as none enters the engine         *)
(* (peer_serial_locks).                                                    *)
LEMMA PeersKept ==
  ASSUME OnePerPeer, AllMove,
         \A p \in Pull : pull'[p].at \in {"engine", "drain"} => pull[p].at \in {"engine", "drain"}
  PROVE  OnePerPeer'
BY DEF OnePerPeer, Running, AllMove, Moves, Goes, Lasts, Keeps

(* A calm step whose pulls make strict moves keeps the invariant, if it    *)
(* keeps the rows and the one pull of each peer.                           *)
LEMMA Quietly ==
  ASSUME CInv, TypeOK', RowsOK', OnePerPeer', Calm, AllMove, UNCHANGED <<nextJob, nextCard>>
  PROVE  CInv'
<1>1. Tame /\ TameCards /\ CalmCards /\ AllGo /\ AllLast /\ AllKeep
  BY MoveIsGo DEF Calm, Tame
<1>2. QED
  BY <1>1, TableKept, OfCardKept, UntouchedKept, ApartKept, FollowsKept, DoneKept, LandingKept,
     NewCardKept DEF CInv

(* One task moves; the table and the directories change calmly.            *)
LEMMA OneMoves ==
  ASSUME CInv, NEW p \in Pull, NEW s \in PullRow, pull' = [pull EXCEPT ![p] = s],
         RowOK(s), Moves(pull[p], s),
         card' \in Table, parts' \in Dirs, watch' \subseteq Ids, Calm, UNCHANGED <<nextJob, quiet>>
  PROVE  /\ TypeOK' /\ RowsOK' /\ AllMove
         /\ OnePerPeer' => CInv'
         /\ (s.at \in {"engine", "drain"} => pull[p].at \in {"engine", "drain"}) => CInv'
<1>1. pull \in Rows /\ pull' \in Rows
  BY DEF CInv, TypeOK, Rows
<1>2. pull'[p] = s /\ \A o \in Pull \ {p} : pull'[o] = pull[o]
  BY <1>1 DEF Rows
<1>3. TypeOK'
  BY <1>1 DEF CInv, TypeOK, Table, Dirs, Rows, quiet
<1>4. RowsOK'
  BY <1>2 DEF CInv, RowsOK, RowOK
<1>5. AllMove
  BY <1>2, MovesSame DEF AllMove
<1>6. OnePerPeer' => CInv'
  BY <1>3, <1>4, <1>5, Quietly DEF quiet
<1>7. (s.at \in {"engine", "drain"} => pull[p].at \in {"engine", "drain"}) => OnePerPeer'
  BY <1>2, <1>5, PeersKept DEF CInv
<1>8. QED
  BY <1>3, <1>4, <1>5, <1>6, <1>7

(* A queued pull gets its permit (download_gate).                          *)
LEMMA StepTakeGate ==
  ASSUME CInv, NEW p \in Pull, TakeGate(p)
  PROVE  CInv'
<1> DEFINE s == [pull[p] EXCEPT !.at = "peer"]
<1>1. pull[p] \in PullRow /\ RowOK(pull[p]) /\ pull[p].at = "gate"
  BY DEF CInv, TypeOK, RowsOK, TakeGate
<1>2. s \in PullRow
  BY <1>1, RowParts
<1>3. RowOK(s) /\ Moves(pull[p], s)
  BY <1>1 DEF RowOK, Moves, Goes, Lasts, Keeps, PullRow, Lives, Begun, Writes, Before, Behind
<1>4. Calm
  BY CalmStays DEF TakeGate
<1>5. QED
  BY <1>1, <1>2, <1>3, <1>4, OneMoves DEF TakeGate, CInv, TypeOK, Table, Dirs, PullRow

(* The lock of the peer.                                                   *)
LEMMA StepTakePeer ==
  ASSUME CInv, NEW p \in Pull, TakePeer(p)
  PROVE  CInv'
<1> DEFINE s == [pull[p] EXCEPT !.at = "engine", !.eng = "meta"]
<1>1. pull[p] \in PullRow /\ RowOK(pull[p]) /\ pull[p].at = "peer"
  BY DEF CInv, TypeOK, RowsOK, TakePeer
<1>2. s \in PullRow
  BY <1>1, RowParts
<1>3. RowOK(s) /\ Moves(pull[p], s)
  BY <1>1 DEF RowOK, Moves, Goes, Lasts, Keeps, PullRow, Lives, Begun, Writes, Before, Behind
<1>4. Calm
  BY CalmStays DEF TakePeer
<1>5. pull' = [pull EXCEPT ![p] = s]
  BY DEF TakePeer
<1>6. OnePerPeer' => CInv'
  BY <1>1, <1>2, <1>3, <1>4, <1>5, OneMoves DEF TakePeer, CInv, TypeOK, Table, Dirs
<1>7. /\ pull'[p].file = pull[p].file
      /\ \A o \in Pull \ {p} : pull'[o] = pull[o]
  BY <1>1, <1>5 DEF CInv, TypeOK, PullRow
<1>8. OnePerPeer'
  <2>1. \A o \in Running : PeerOf[pull[o].file] # PeerOf[pull[p].file]
    BY DEF TakePeer
  <2>2. QED
    BY <1>7, <2>1 DEF CInv, OnePerPeer, Running
<1>9. QED
  BY <1>6, <1>8

(* The end of a task leaves a typed row and is an allowed move.            *)
LEMMA EndMoves ==
  ASSUME NEW r \in PullRow, RowOK(r),
         r.at \in {"gate", "peer"} \/ (r.at = "drain" /\ r.evs = <<>>)
  PROVE  Ended(r) \in PullRow /\ RowOK(Ended(r)) /\ Moves(r, Ended(r)) /\ Ended(r).at = "over"
<1>1. Ended(r) \in PullRow /\ Ended(r).at = "over"
  BY EndedRow
<1>2. RowOK(Ended(r))
  BY EndedRow DEF RowOK, Lives, Begun, Writes
<1>3. Moves(r, Ended(r))
  BY EndedRow DEF RowOK, Moves, Goes, Lasts, Keeps, Lives, Begun, Writes
<1>4. QED
  BY <1>1, <1>2, <1>3

(* A queued pull is given up after its minute in the queue.                *)
LEMMA StepQueueTimeout ==
  ASSUME CInv, NEW p \in Pull, QueueTimeout(p)
  PROVE  CInv'
<1>1. pull[p] \in PullRow /\ RowOK(pull[p]) /\ pull[p].at \in {"gate", "peer"}
  BY DEF CInv, TypeOK, RowsOK, QueueTimeout
<1>2. pull[p].card \in Ids /\ card \in Table /\ parts \in Dirs /\ watch \subseteq Ids
  BY <1>1 DEF RowOK, Lives, CInv, TypeOK, Table, Dirs
<1>3. PICK ev \in {"Failed", "QueueTimeout"} : Applied(card, pull[p].card, ev)
  BY DEF QueueTimeout
<1>4. Calm /\ card' \in Table /\ parts' \in Dirs /\ watch' \subseteq Ids
  BY <1>2, <1>3, CalmApplied, AppliedFacts
<1>5. QED
  BY <1>1, <1>4, EndMoves, OneMoves DEF QueueTimeout

(* The task of a pull ends when its events are read.                       *)
LEMMA StepFinish ==
  ASSUME CInv, NEW p \in Pull, Finish(p)
  PROVE  CInv'
<1>1. /\ pull[p] \in PullRow /\ RowOK(pull[p]) /\ pull[p].at = "drain" /\ pull[p].evs = <<>>
      /\ card \in Table /\ parts \in Dirs /\ watch \subseteq Ids
  BY DEF CInv, TypeOK, RowsOK, Finish, Table, Dirs
<1>2. Calm
  BY CalmStays DEF Finish
<1>3. QED
  BY <1>1, <1>2, EndMoves, OneMoves DEF Finish

(* The engine refuses or loses a pull before it started.                   *)
LEMMA StepEngineFails ==
  ASSUME CInv, NEW p \in Pull, EngineFails(p)
  PROVE  CInv'
<1> DEFINE s == [pull[p] EXCEPT !.eng = "over", !.res = "err"]
<1>1. /\ pull[p] \in PullRow /\ RowOK(pull[p]) /\ pull[p].eng \in {"meta", "open", "run"}
      /\ card \in Table /\ parts \in Dirs /\ watch \subseteq Ids
  BY DEF CInv, TypeOK, RowsOK, EngineFails, Table, Dirs
<1>2. s \in PullRow
  BY <1>1, RowParts
<1>3. pull[p].at = "engine" /\ pull[p].res = "none" /\ pull[p].evs \in {<<>>, <<"Started">>}
  BY <1>1 DEF RowOK, PullRow, Begun
<1>4. RowOK(s)
  BY <1>1, <1>3 DEF RowOK, PullRow, Lives, Begun, Writes
<1>5. Moves(pull[p], s)
  BY <1>1, <1>3 DEF Moves, Goes, Lasts, Keeps, PullRow, Lives, Begun, Writes, Before, Behind
<1>6. Calm
  BY CalmStays DEF EngineFails
<1>7. pull' = [pull EXCEPT ![p] = s]
  BY DEF EngineFails
<1>8. (s.at \in {"engine", "drain"} => pull[p].at \in {"engine", "drain"})
  BY <1>3
<1>9. card' = card /\ parts' = parts /\ watch' = watch /\ UNCHANGED <<nextJob, quiet>>
  BY DEF EngineFails
<1>10. QED
  BY <1>1, <1>2, <1>4, <1>5, <1>6, <1>7, <1>8, <1>9, OneMoves

Event == {"Started", "Done", "Failed"}

(* Two events in the order they were sent.                                 *)
LEMMA AppendToOne ==
  ASSUME NEW S, NEW d \in S, NEW e \in S
  PROVE  Append(<<d>>, e) = <<d, e>>
<1> DEFINE s == Append(<<d>>, e)
           t == <<d, e>>
<1>1. <<d>> \in Seq(S) /\ Len(<<d>>) = 1 /\ <<d>>[1] = d
  OBVIOUS
<1>2. t \in Seq(S) /\ Len(t) = 2 /\ t[1] = d /\ t[2] = e
  OBVIOUS
<1>3. s \in Seq(S) /\ Len(s) = 2 /\ s[1] = d /\ s[2] = e
  BY <1>1, AppendProperties
<1> HIDE DEF s, t
<1>4. Len(s) = Len(t) /\ \A i \in 1 .. Len(s) : s[i] = t[i]
  BY <1>2, <1>3
<1>5. s = t
  BY <1>2, <1>3, <1>4, SeqEqual
<1>6. QED
  BY <1>5 DEF s, t

(* The events of a pull, as the engine sends them.                         *)
LEMMA EventsSent ==
  ASSUME NEW s \in {<<>>, <<"Started">>}, NEW e \in {"Done", "Failed"}
  PROVE  /\ Append(s, e) \in Seq(Event)
         /\ Append(s, e) \in {<<e>>, <<"Started", e>>}
         /\ Append(s, e) # <<>>
         /\ Head(Append(s, e)) = "Started" => s # <<>> /\ Head(s) = "Started"
         /\ Append(s, e) = <<e>> => s = <<>>
<1>1. e \in Event /\ "Started" \in Event
  BY DEF Event
<1>2. CASE s = <<>>
  <2>1. Append(s, e) = <<e>>
    BY <1>2
  <2>2. <<e>> # <<>> /\ Head(<<e>>) = e /\ <<e>> \in Seq(Event)
    BY <1>1
  <2>3. QED
    BY <1>2, <2>1, <2>2
<1>3. CASE s = <<"Started">>
  <2>1. Append(s, e) = <<"Started", e>>
    BY <1>1, <1>3, AppendToOne
  <2>2. <<"Started", e>> # <<>> /\ <<"Started", e>> # <<e>> /\ <<"Started", e>> \in Seq(Event)
    BY <1>1
  <2>3. s # <<>> /\ Head(s) = "Started"
    BY <1>3
  <2>4. QED
    BY <2>1, <2>2, <2>3
<1>4. QED
  BY <1>2, <1>3

(* A pull that writes, as the invariant has it.                            *)
LEMMA WritingRow ==
  ASSUME NEW r \in PullRow, RowOK(r), r.eng \in Writes
  PROVE  /\ r.at = "engine" /\ r.res = "none" /\ r.evs \in {<<>>, <<"Started">>}
         /\ r.dir \in JobIds /\ r.dir < nextJob /\ r.job \in JobIds /\ r.job < nextJob
         /\ r.card \in Ids /\ r.file \in Offered
BY DEF RowOK, PullRow, Begun, Writes, Lives

(* Orders that are sent or taken change nothing else of a task.            *)
LEMMA OrderRow ==
  ASSUME NEW r \in PullRow, RowOK(r), NEW c \in Seq(Action)
  PROVE  /\ [r EXCEPT !.ctl = c] \in PullRow
         /\ RowOK([r EXCEPT !.ctl = c]) /\ Moves(r, [r EXCEPT !.ctl = c])
         /\ [r EXCEPT !.ctl = c].at = r.at
<1> DEFINE s == [r EXCEPT !.ctl = c]
<1>1. s \in PullRow
  BY RowOrders
<1>2. /\ s.at = r.at /\ s.card = r.card /\ s.file = r.file /\ s.first = r.first /\ s.eng = r.eng
      /\ s.job = r.job /\ s.dir = r.dir /\ s.evs = r.evs /\ s.res = r.res
  BY DEF PullRow
<1> HIDE DEF s
<1>3. RowOK(s)
  BY <1>2 DEF RowOK
<1>4. Moves(r, s)
  BY <1>2 DEF Moves, Goes, Lasts, Keeps, Before, Behind
<1>5. QED
  BY <1>1, <1>2, <1>3, <1>4 DEF s

(* The engine reads an order of the user.                                  *)
LEMMA StepEngineCtl ==
  ASSUME CInv, NEW p \in Pull, EngineCtl(p)
  PROVE  CInv'
<1>1. /\ pull[p] \in PullRow /\ RowOK(pull[p]) /\ pull[p].eng \in Writes /\ pull[p].ctl # <<>>
      /\ card \in Table /\ parts \in Dirs /\ watch \subseteq Ids /\ pull[p].ctl \in Seq(Action)
  BY DEF CInv, TypeOK, RowsOK, EngineCtl, Table, Dirs, Writes, PullRow
<1> DEFINE r == pull[p]
           rest == Tail(r.ctl)
           e == Append(r.evs, "Failed")
<1>2. rest \in Seq(Action)
  BY <1>1
<1>3. /\ r.at = "engine" /\ r.res = "none" /\ r.evs \in {<<>>, <<"Started">>}
      /\ r.dir \in JobIds /\ r.dir \in Ids
  BY <1>1, WritingRow, Numbers
<1>4. UNCHANGED <<nextJob, quiet>> /\ card' = card /\ watch' = watch
  BY DEF EngineCtl
<1>5. CASE /\ parts' = [parts EXCEPT ![r.dir] = NoFile]
           /\ pull' = [pull EXCEPT ![p] =
                [r EXCEPT !.ctl = rest, !.eng = "over", !.res = "err", !.evs = e]]
  <2> DEFINE s == [r EXCEPT !.ctl = rest, !.eng = "over", !.res = "err", !.evs = e]
  <2>1. /\ e \in Seq({"Started", "Done", "Failed"}) /\ e \in {<<"Failed">>, <<"Started", "Failed">>}
        /\ e # <<>> /\ (Head(e) = "Started" => r.evs # <<>> /\ Head(r.evs) = "Started")
    BY <1>3, EventsSent DEF Event
  <2>2. s \in PullRow
    BY <1>1, <1>2, <2>1, RowEvents
  <2>3. /\ s.at = r.at /\ s.card = r.card /\ s.file = r.file /\ s.first = r.first /\ s.eng = "over"
        /\ s.evs = e /\ s.res = "err"
    BY <1>1 DEF PullRow
  <2>4. parts' \in Dirs /\ Calm
    BY <1>1, <1>3, <1>4, <1>5 DEF Dirs, Calm, CalmCards, Tame, TameCards
  <2> HIDE DEF s, e
  <2>6. RowOK(s)
    BY <1>1, <1>3, <2>1, <2>3 DEF RowOK, Lives, Begun, Writes
  <2>7. Moves(r, s)
    BY <1>3, <2>1, <2>3 DEF Moves, Goes, Lasts, Keeps, Lives, Begun, Writes, Before, Behind
  <2>8. pull' = [pull EXCEPT ![p] = s]
    BY <1>5 DEF s, e
  <2>9. QED
    BY <1>1, <1>3, <1>4, <2>2, <2>4, <2>6, <2>7, <2>8, OneMoves
<1>6. CASE /\ UNCHANGED parts
           /\ \E g \in {"run", "paused"} : pull' = [pull EXCEPT ![p] = [r EXCEPT !.ctl = rest, !.eng = g]]
  <2>1. PICK g \in {"run", "paused"} : pull' = [pull EXCEPT ![p] = [r EXCEPT !.ctl = rest, !.eng = g]]
    BY <1>6
  <2> DEFINE s == [r EXCEPT !.ctl = rest, !.eng = g]
  <2>2. s \in PullRow
    BY <1>1, <1>2, RowOrders
  <2>3. /\ s.at = r.at /\ s.card = r.card /\ s.file = r.file /\ s.first = r.first /\ s.eng = g
        /\ s.evs = r.evs /\ s.res = r.res /\ s.job = r.job /\ s.dir = r.dir
    BY <1>1 DEF PullRow
  <2> HIDE DEF s
  <2>4. RowOK(s)
    BY <1>1, <1>3, <2>3 DEF RowOK, Lives, Begun, Writes
  <2>5. Moves(r, s)
    BY <1>1, <1>3, <2>3 DEF Moves, Goes, Lasts, Keeps, Lives, Begun, Writes, Before, Behind
  <2>6. Calm
    BY <1>4, <1>6, CalmStays
  <2>7. pull' = [pull EXCEPT ![p] = s]
    BY <2>1 DEF s
  <2>8. QED
    BY <1>1, <1>3, <1>4, <1>6, <2>2, <2>4, <2>5, <2>6, <2>7, OneMoves
<1>7. <1>5!1 \/ <1>6!1
  BY DEF EngineCtl, Emit
<1>8. QED
  BY <1>5, <1>6, <1>7

(* The engine lands the file and reports it.                               *)
LEMMA StepEngineLands ==
  ASSUME CInv, NEW p \in Pull, EngineLands(p)
  PROVE  CInv'
<1> DEFINE r == pull[p]
           e == Append(r.evs, "Done")
           s == [r EXCEPT !.eng = "over", !.res = "ok", !.evs = e]
<1>1. /\ r \in PullRow /\ RowOK(r) /\ r.eng = "run" /\ r.eng \in Writes
      /\ card \in Table /\ parts \in Dirs /\ watch \subseteq Ids
  BY DEF CInv, TypeOK, RowsOK, EngineLands, Table, Dirs, Writes
<1>2. /\ r.at = "engine" /\ r.res = "none" /\ r.evs \in {<<>>, <<"Started">>}
      /\ r.dir \in JobIds /\ r.dir \in Ids
  BY <1>1, WritingRow, Numbers
<1>3. UNCHANGED <<nextJob, quiet>> /\ card' = card /\ watch' = watch
  BY DEF EngineLands
<1>4. /\ e \in Seq({"Started", "Done", "Failed"}) /\ e \in {<<"Done">>, <<"Started", "Done">>}
      /\ e # <<>> /\ (Head(e) = "Started" => r.evs # <<>> /\ Head(r.evs) = "Started")
      /\ e = <<"Done">> => r.evs = <<>>
  BY <1>2, EventsSent DEF Event
<1>5. s \in PullRow
  BY <1>1, <1>4, RowEvents
<1>6. /\ s.at = r.at /\ s.card = r.card /\ s.file = r.file /\ s.first = r.first /\ s.eng = "over"
      /\ s.evs = e /\ s.res = "ok"
  BY <1>1 DEF PullRow
<1>7. parts' \in Dirs /\ Calm
  BY <1>1, <1>2, <1>3 DEF Dirs, Calm, CalmCards, Tame, TameCards, EngineLands
<1>9. pull' = [pull EXCEPT ![p] = s]
  BY DEF EngineLands, Emit
<1> HIDE DEF s, e
<1>10. RowOK(s)
  BY <1>1, <1>2, <1>4, <1>6 DEF RowOK, Lives, Begun, Writes
<1>11. Moves(r, s)
  BY <1>1, <1>2, <1>4, <1>6 DEF Moves, Goes, Lasts, Keeps, Lives, Begun, Writes, Before, Behind
<1>12. QED
  BY <1>1, <1>2, <1>3, <1>5, <1>7, <1>9, <1>10, <1>11, OneMoves

(* The engine ends without the file.                                       *)
LEMMA StepEngineOver ==
  ASSUME CInv, NEW p \in Pull, EngineOver(p)
  PROVE  CInv'
<1> DEFINE r == pull[p]
<1>1. /\ r \in PullRow /\ RowOK(r) /\ r.at = "engine" /\ r.res # "none"
      /\ card \in Table /\ parts \in Dirs /\ watch \subseteq Ids
  BY DEF CInv, TypeOK, RowsOK, EngineOver, Table, Dirs
<1>2. r.eng = "over" /\ r.card \in Ids
  BY <1>1 DEF RowOK, Lives
<1>3. PICK b \in BOOLEAN : pull' = [pull EXCEPT ![p] = [r EXCEPT !.at = "drain", !.alive = b]]
  <2>1. r.alive \in BOOLEAN
    BY <1>1 DEF PullRow
  <2> DEFINE t == r.res = "err" /\ r.first /\ r.alive
  <2>2. pull' = [pull EXCEPT ![p] = [r EXCEPT !.at = "drain", !.alive = r.alive /\ ~t]]
    BY DEF EngineOver
  <2>3. (r.alive /\ ~t) \in BOOLEAN
    BY <2>1
  <2>4. QED
    BY <2>2, <2>3
<1> DEFINE s == [r EXCEPT !.at = "drain", !.alive = b]
<1>4. s \in PullRow
  BY <1>1, RowDrains
<1>5. /\ s.at = "drain" /\ s.card = r.card /\ s.file = r.file /\ s.first = r.first /\ s.eng = r.eng
      /\ s.evs = r.evs /\ s.res = r.res
  BY <1>1 DEF PullRow
<1>6. Calm /\ card' \in Table /\ parts' \in Dirs /\ watch' \subseteq Ids
  <2>1. CASE Applied(card, r.card, "Failed")
    BY <1>1, <1>2, <2>1, CalmApplied, AppliedFacts
  <2>2. CASE UNCHANGED <<card, parts, watch>>
    BY <1>1, <2>2, CalmStays
  <2>3. QED
    BY <2>1, <2>2 DEF EngineOver
<1> HIDE DEF s
<1>7. RowOK(s)
  BY <1>1, <1>2, <1>5 DEF RowOK, Lives, Begun, Writes
<1>8. Moves(r, s)
  BY <1>1, <1>2, <1>5 DEF Moves, Goes, Lasts, Keeps, Lives, Begun, Writes, Before, Behind
<1>9. pull' = [pull EXCEPT ![p] = s] /\ UNCHANGED <<nextJob, quiet>>
  BY <1>3 DEF s, EngineOver
<1>10. QED
  BY <1>1, <1>4, <1>6, <1>7, <1>8, <1>9, OneMoves

-----------------------------------------------------------------------------
(* The events of a pull, handled.                                          *)

(* One task goes and its card changes: the other tasks of the card follow. *)
LEMMA OthersFollow ==
  ASSUME TypeOK, RowsOK, Follows, Tame, NEW p \in Pull, pull[p].at \in Lives,
         Goes(pull[p], pull'[p]), \A o \in Pull \ {p} : pull'[o] = pull[o],
         \A j \in Ids \ {pull[p].card} : card'[j] = card[j],
         NEW q \in Pull \ {p}, pull'[q].at \in Lives
  PROVE  LET r == pull'[q]
             c == card'[pull'[q].card]
         IN /\ ~r.first => c.st \notin Shows
            /\ r.first => \A o \in Pull :
                 o # q /\ pull'[o].at \in Lives /\ pull'[o].first => pull'[o].card # r.card
            /\ r.first /\ Before(r) /\ c.st \in Shows => c.st = "pending" /\ c.eng = 0
            /\ r.first /\ Behind(r) => c.st # "pending"
            /\ r.first /\ r.res = "ok" /\ r.evs = <<>> => c.st \notin Shows
            /\ r.first /\ r.eng \in Begun /\ r.evs = <<>> /\ c.st \in Shows => c.eng = r.job
<1> DEFINE r == pull[q]
           d == card[r.card]
           c == card'[r.card]
<1>1. pull'[q] = r /\ r.at \in Lives
  OBVIOUS
<1>2. r.card \in Ids
  BY <1>1 DEF RowsOK, RowOK
<1>3. c.st \in Shows => d.st \in Shows
  BY <1>2 DEF Tame, TameCards
<1>4. r.first => \A o \in Pull :
        o # q /\ pull'[o].at \in Lives /\ pull'[o].first => pull'[o].card # r.card
  <2>1. SUFFICES ASSUME r.first, NEW o \in Pull, o # q, pull'[o].at \in Lives, pull'[o].first
                PROVE pull'[o].card # r.card
    OBVIOUS
  <2>2. pull[o].at \in Lives /\ pull[o].first /\ pull'[o].card = pull[o].card
    BY <2>1 DEF Goes, Lasts
  <2>3. QED
    BY <1>1, <2>1, <2>2 DEF Follows
<1>5. CASE r.card # pull[p].card
  <2>1. c = d
    BY <1>2, <1>5
  <2>2. QED
    BY <1>1, <1>4, <2>1 DEF Follows
<1>6. CASE r.card = pull[p].card
  <2>1. d.st \notin Shows
    BY <1>1, <1>6 DEF Follows
  <2>2. c.st \notin Shows
    BY <1>3, <2>1
  <2>3. QED
    BY <1>1, <1>4, <2>2 DEF Shows
<1>7. QED
  BY <1>5, <1>6

(* What the shell takes from the channel, and what is left in it.          *)
LEMMA TakenRow ==
  ASSUME NEW r \in PullRow, RowOK(r), r.at \in {"engine", "drain"}, r.evs # <<>>
  PROVE  LET s == [r EXCEPT !.evs = Tail(r.evs), !.alive = FALSE]
         IN /\ s \in PullRow /\ RowOK(s) /\ Goes(r, s) /\ s.at = r.at /\ ~Before(s)
            /\ s.res = r.res /\ s.first = r.first /\ s.card = r.card /\ s.job = r.job
            /\ s.eng = r.eng
            /\ \/ Head(r.evs) = "Started" /\ Before(r)
                    /\ (r.res = "ok" => s.evs # <<>>) /\ (s.eng \in Begun => s.evs = <<>>)
               \/ Head(r.evs) = "Done" /\ r.evs = <<"Done">> /\ s.evs = <<>> /\ r.eng = "over"
                    /\ r.res = "ok" /\ Behind(r)
               \/ Head(r.evs) = "Failed" /\ s.evs = <<>> /\ r.eng = "over" /\ r.res = "err"
<1> DEFINE e == Tail(r.evs)
           s == [r EXCEPT !.evs = e, !.alive = FALSE]
<1>1. e \in Seq(Event)
  BY DEF PullRow, Event
<1>2. s \in PullRow
  BY <1>1, RowEvents DEF Event
<1>3. /\ s.at = r.at /\ s.card = r.card /\ s.file = r.file /\ s.first = r.first /\ s.eng = r.eng
      /\ s.evs = e /\ s.res = r.res /\ s.job = r.job /\ s.dir = r.dir
  BY DEF PullRow
<1>4. \/ r.evs = <<"Started">> /\ e = <<>> /\ Head(r.evs) = "Started"
             /\ (r.eng = "over" => r.res = "err")
      \/ r.evs = <<"Done">> /\ e = <<>> /\ Head(r.evs) = "Done" /\ r.eng = "over" /\ r.res = "ok"
      \/ r.evs = <<"Failed">> /\ e = <<>> /\ Head(r.evs) = "Failed" /\ r.eng = "over" /\ r.res = "err"
      \/ r.evs = <<"Started", "Done">> /\ e = <<"Done">> /\ Head(r.evs) = "Started"
             /\ r.eng = "over" /\ r.res = "ok"
      \/ r.evs = <<"Started", "Failed">> /\ e = <<"Failed">> /\ Head(r.evs) = "Started"
             /\ r.eng = "over" /\ r.res = "err"
  <2>1. /\ Tail(<<"Started">>) = <<>> /\ Head(<<"Started">>) = "Started"
        /\ Tail(<<"Done">>) = <<>> /\ Head(<<"Done">>) = "Done"
        /\ Tail(<<"Failed">>) = <<>> /\ Head(<<"Failed">>) = "Failed"
    OBVIOUS
  <2>2. /\ Tail(<<"Started", "Done">>) = <<"Done">> /\ Head(<<"Started", "Done">>) = "Started"
        /\ Tail(<<"Started", "Failed">>) = <<"Failed">> /\ Head(<<"Started", "Failed">>) = "Started"
    OBVIOUS
  <2>3. \/ r.eng \in Begun /\ r.evs = <<"Started">>
        \/ r.eng = "over" /\ r.res \in {"ok", "err"}
    BY DEF RowOK, PullRow, Begun
  <2>4. CASE r.eng \in Begun /\ r.evs = <<"Started">>
    BY <2>1, <2>4 DEF Begun
  <2>5. CASE r.eng = "over" /\ r.res = "ok"
    <3>1. r.evs \in {<<"Done">>, <<"Started", "Done">>}
      BY <2>5 DEF RowOK
    <3>2. QED
      BY <2>1, <2>2, <2>5, <3>1
  <2>6. CASE r.eng = "over" /\ r.res = "err"
    <3>1. r.evs \in {<<"Failed">>, <<"Started">>, <<"Started", "Failed">>}
      BY <2>6 DEF RowOK
    <3>2. QED
      BY <2>1, <2>2, <2>6, <3>1
  <2>7. QED
    BY <2>3, <2>4, <2>5, <2>6
<1>5. /\ <<"Done">> # <<>> /\ Head(<<"Done">>) # "Started"
      /\ <<"Failed">> # <<>> /\ Head(<<"Failed">>) # "Started"
  OBVIOUS
<1>6. e # <<>> => Head(e) # "Started"
  BY <1>4, <1>5
<1>7. r.eng # "meta" /\ r.at \in {"engine", "drain"}
  BY DEF RowOK
<1> HIDE DEF s, e
<1>8. RowOK(s)
  BY <1>3, <1>4 DEF RowOK, Lives, Begun, Writes
<1>9. Goes(r, s)
  BY <1>3, <1>7 DEF Goes, Lasts, Lives
<1>10. ~Before(s)
  BY <1>3, <1>6, <1>7 DEF Before
<1>11. CASE Head(r.evs) = "Started"
  <2>1. Before(r)
    BY <1>11 DEF Before
  <2>2. (r.res = "ok" => s.evs # <<>>) /\ (s.eng \in Begun => s.evs = <<>>)
    <3>1. r.res = "ok" => r.eng = "over"
      BY <1>7 DEF RowOK
    <3>2. s.eng \in Begun => r.eng # "over"
      BY <1>3 DEF Begun
    <3>3. QED
      BY <1>3, <1>4, <1>5, <1>11, <3>1, <3>2
  <2>3. QED
    BY <1>2, <1>3, <1>8, <1>9, <1>10, <1>11, <2>1, <2>2 DEF s, e
<1>12. CASE Head(r.evs) = "Done"
  <2>1. r.evs = <<"Done">> /\ e = <<>> /\ r.eng = "over" /\ r.res = "ok"
    BY <1>4, <1>12
  <2>2. Behind(r)
    BY <2>1 DEF Behind
  <2>3. QED
    BY <1>2, <1>3, <1>8, <1>9, <1>10, <1>12, <2>1, <2>2 DEF s, e
<1>13. CASE Head(r.evs) = "Failed"
  <2>1. e = <<>> /\ r.eng = "over" /\ r.res = "err"
    BY <1>4, <1>13
  <2>2. QED
    BY <1>2, <1>3, <1>8, <1>9, <1>10, <1>13, <2>1 DEF s, e
<1>14. QED
  BY <1>4, <1>11, <1>12, <1>13

(* The card of a handled event, its directory and its watchdog.            *)
LEMMA HeardApplied ==
  ASSUME card \in Table, parts \in Dirs, watch \subseteq Ids, NEW i \in Ids, NEW c \in Table,
         NEW ev \in {"Started", "Finished"}, Applied(c, i, ev),
         \A j \in Ids : c[j].st = card[j].st /\ c[j].file = card[j].file
  PROVE  Tame /\ card' \in Table /\ parts' \in Dirs /\ watch' \subseteq Ids
<1>1. /\ card' \in Table /\ parts' \in Dirs /\ watch' \subseteq Ids
      /\ \A j \in Ids \ {i} : card'[j] = c[j]
      /\ \A j \in Ids : parts'[j] \in {NoFile, parts[j]}
      /\ \/ card'[i] = NoCard
         \/ card'[i].st = After(c[i].st, ev) /\ card'[i].file = c[i].file
  BY AppliedFacts
<1>2. c[i].st \in CardState
  BY DEF Table, CardRow
<1>3. /\ card'[i].st # "none" => card[i].st # "none" /\ card'[i].file = card[i].file
      /\ card'[i].st \in Shows => card[i].st \in Shows
  <2>1. CASE card'[i] = NoCard
    BY <2>1, NoCardRow DEF Shows
  <2>2. CASE card'[i].st = After(c[i].st, ev) /\ card'[i].file = c[i].file
    BY <1>2, <2>2, AfterFacts
  <2>3. QED
    BY <1>1, <2>1, <2>2
<1>4. QED
  BY <1>1, <1>3 DEF Tame, TameCards

(* A step that moves one pull within its place keeps the invariant, if its *)
(* card keeps up with it.                                                  *)
LEMMA OneGoes ==
  ASSUME CInv, NEW p \in Pull, NEW s \in PullRow, pull' = [pull EXCEPT ![p] = s],
         RowOK(s), Goes(pull[p], s), s.at = pull[p].at,
         card' \in Table, parts' \in Dirs, watch' \subseteq Ids, Tame, UNCHANGED <<nextJob, quiet>>
  PROVE  /\ AllGo /\ pull'[p] = s /\ \A o \in Pull \ {p} : pull'[o] = pull[o]
         /\ Follows' /\ DoneMeansLanded' => CInv'
<1>1. pull \in Rows /\ pull' \in Rows
  BY DEF CInv, TypeOK, Rows
<1>2. pull'[p] = s /\ \A o \in Pull \ {p} : pull'[o] = pull[o]
  BY <1>1 DEF Rows
<1>3. TypeOK'
  BY <1>1 DEF CInv, TypeOK, Table, Dirs, Rows, quiet
<1>4. RowsOK'
  BY <1>2 DEF CInv, RowsOK, RowOK
<1>5. AllGo /\ AllLast
  <2>1. AllGo
    BY <1>2, MovesSame DEF AllGo, Moves
  <2>2. QED
    BY <2>1, GoIsLast
<1>6. OnePerPeer'
  BY <1>2, <1>5 DEF CInv, OnePerPeer, Running, AllGo, Goes, Lasts
<1>7. Follows' /\ DoneMeansLanded' => CInv'
  BY <1>3, <1>4, <1>5, <1>6, TableKept, OfCardKept, UntouchedKept, ApartKept, LandingKept,
     NewCardKept DEF CInv, quiet
<1>8. QED
  BY <1>2, <1>5, <1>7

(* The rest of what a handled Started or Done leaves to show: the task     *)
(* itself follows its card, and the card is not wrongly done.              *)
LEMMA Heard ==
  ASSUME CInv, NEW p \in Pull, NEW s \in PullRow, pull' = [pull EXCEPT ![p] = s],
         RowOK(s), Goes(pull[p], s), s.at = pull[p].at, s.at \in Lives, ~Before(s),
         card' \in Table, parts' \in Dirs, watch' \subseteq Ids, Tame, UNCHANGED <<nextJob, quiet>>,
         \A j \in Ids \ {pull[p].card} : card'[j] = card[j],
         s.first => /\ Behind(s) => card'[s.card].st # "pending"
                    /\ s.res = "ok" /\ s.evs = <<>> => card'[s.card].st \notin Shows
                    /\ s.eng \in Begun /\ s.evs = <<>> /\ card'[s.card].st \in Shows
                         => card'[s.card].eng = s.job,
         card'[s.card].st = "done" => card[s.card].st = "done" \/ s.res = "ok"
  PROVE  CInv'
<1> DEFINE i == pull[p].card
<1>1. /\ AllGo /\ pull'[p] = s /\ \A o \in Pull \ {p} : pull'[o] = pull[o]
      /\ Follows' /\ DoneMeansLanded' => CInv'
  BY OneGoes
<1>2. TypeOK /\ RowsOK /\ Follows /\ pull[p].at \in Lives
  BY DEF CInv
<1>3. i \in Ids /\ s.card = i /\ s.file = pull[p].file /\ s.first = pull[p].first
  BY <1>2 DEF RowsOK, RowOK, Goes, Lasts
<1>4. Follows'
  <2>1. SUFFICES ASSUME NEW q \in Pull, pull'[q].at \in Lives
                PROVE LET r == pull'[q]
                          c == card'[pull'[q].card]
                      IN /\ ~r.first => c.st \notin Shows
                         /\ r.first => \A o \in Pull :
                              o # q /\ pull'[o].at \in Lives /\ pull'[o].first
                                => pull'[o].card # r.card
                         /\ r.first /\ Before(r) /\ c.st \in Shows => c.st = "pending" /\ c.eng = 0
                         /\ r.first /\ Behind(r) => c.st # "pending"
                         /\ r.first /\ r.res = "ok" /\ r.evs = <<>> => c.st \notin Shows
                         /\ r.first /\ r.eng \in Begun /\ r.evs = <<>> /\ c.st \in Shows
                              => c.eng = r.job
    BY DEF Follows, Before, Behind
  <2>2. CASE q # p
    BY <1>1, <1>2, <2>1, <2>2, OthersFollow
  <2>3. CASE q = p
    <3>1. ~s.first => card'[i].st \notin Shows
      BY <1>2, <1>3 DEF Follows, Tame, TameCards
    <3>2. s.first => \A o \in Pull :
            o # p /\ pull'[o].at \in Lives /\ pull'[o].first => pull'[o].card # s.card
      <4>1. pull[p].first => \A o \in Pull \ {p} :
              pull[o].at \in Lives /\ pull[o].first => pull[o].card # pull[p].card
        BY <1>2 DEF Follows
      <4>2. QED
        BY <1>1, <1>3, <4>1
    <3>3. QED
      BY <1>1, <1>3, <2>3, <3>1, <3>2
  <2>4. QED
    BY <2>2, <2>3
<1>5. DoneMeansLanded'
  <2>1. SUFFICES ASSUME NEW j \in Ids, card'[j].st = "done"
                PROVE \E o \in Pull : pull'[o].card = j /\ pull'[o].file = card'[j].file
                                       /\ pull'[o].res = "ok"
    BY DEF DoneMeansLanded
  <2>2. card'[j].file = card[j].file /\ card[j].st # "none"
    BY <2>1 DEF Tame, TameCards
  <2>3. CASE card[j].st = "done"
    <3>1. PICK o \in Pull : pull[o].card = j /\ pull[o].file = card[j].file /\ pull[o].res = "ok"
      BY <2>3 DEF CInv, DoneMeansLanded
    <3>2. QED
      BY <1>1, <2>2, <3>1 DEF AllGo, Goes, Lasts
  <2>4. CASE card[j].st # "done"
    <3>1. j = i /\ s.res = "ok"
      BY <1>3, <2>1, <2>4
    <3>2. card[j].file = pull[p].file
      BY <1>3, <2>2, <3>1, Numbers DEF CInv, OfCard
    <3>3. QED
      BY <1>1, <1>3, <2>2, <3>1, <3>2
  <2>5. QED
    BY <2>3, <2>4
<1>6. QED
  BY <1>1, <1>4, <1>5

(* The pump reads one event of a pull and writes its card (main.rs).       *)
LEMMA StepHandleEvent ==
  ASSUME CInv, NEW p \in Pull, HandleEvent(p)
  PROVE  CInv'
<1> DEFINE r == pull[p]
           i == r.card
           s == [r EXCEPT !.evs = Tail(r.evs), !.alive = FALSE]
<1>1. /\ r \in PullRow /\ RowOK(r) /\ r.at \in {"engine", "drain"} /\ r.evs # <<>>
      /\ card \in Table /\ parts \in Dirs /\ watch \subseteq Ids
  BY DEF CInv, TypeOK, RowsOK, HandleEvent, Table, Dirs
<1>2. /\ s \in PullRow /\ RowOK(s) /\ Goes(r, s) /\ s.at = r.at /\ ~Before(s)
      /\ s.res = r.res /\ s.first = r.first /\ s.card = r.card /\ s.job = r.job /\ s.eng = r.eng
      /\ \/ Head(r.evs) = "Started" /\ Before(r)
              /\ (r.res = "ok" => s.evs # <<>>) /\ (s.eng \in Begun => s.evs = <<>>)
         \/ Head(r.evs) = "Done" /\ r.evs = <<"Done">> /\ s.evs = <<>> /\ r.eng = "over"
              /\ r.res = "ok" /\ Behind(r)
         \/ Head(r.evs) = "Failed" /\ s.evs = <<>> /\ r.eng = "over" /\ r.res = "err"
  BY <1>1, TakenRow
<1>3. pull' = [pull EXCEPT ![p] = s] /\ UNCHANGED <<nextJob, quiet>>
  BY DEF HandleEvent
<1> HIDE DEF s
<1>4. i \in Ids /\ r.at \in Lives /\ s.at \in Lives
  BY <1>1, <1>2 DEF RowOK, Lives
<1>5. card[i] \in CardRow /\ card[i].st \in CardState
  BY <1>1, <1>4 DEF Table, CardRow
<1>6. CASE Head(r.evs) = "Started"
  <2>1. Applied(Bound(p), i, "Started")
    BY <1>6 DEF HandleEvent
  <2>2. r.job \in Ids \cup {0}
    BY <1>1, Numbers DEF PullRow
  <2>3. /\ Bound(p) \in Table /\ Bound(p)[i].st = card[i].st
        /\ card[i].st # "none" /\ card[i].eng = 0 => Bound(p)[i].eng = r.job
        /\ \A j \in Ids : Bound(p)[j].st = card[j].st /\ Bound(p)[j].file = card[j].file
        /\ \A j \in Ids \ {i} : Bound(p)[j] = card[j]
    <3>1. CASE card[i].st # "none" /\ card[i].eng = 0
      <4>1. [card[i] EXCEPT !.eng = r.job] \in CardRow
        BY <1>5, <2>2 DEF CardRow
      <4>2. Bound(p) = [card EXCEPT ![i] = [card[i] EXCEPT !.eng = r.job]]
        BY <3>1 DEF Bound
      <4>3. QED
        BY <1>1, <1>4, <1>5, <4>1, <4>2 DEF Table, CardRow
    <3>2. CASE ~(card[i].st # "none" /\ card[i].eng = 0)
      BY <1>1, <3>2 DEF Bound
    <3>3. QED
      BY <3>1, <3>2
  <2> DEFINE c == Bound(p)
  <2> HIDE DEF c
  <2>4. /\ c \in Table /\ c[i].st = card[i].st /\ Applied(c, i, "Started")
        /\ card[i].st # "none" /\ card[i].eng = 0 => c[i].eng = r.job
        /\ \A j \in Ids : c[j].st = card[j].st /\ c[j].file = card[j].file
        /\ \A j \in Ids \ {i} : c[j] = card[j]
    BY <2>1, <2>3 DEF c
  <2>5. Tame /\ card' \in Table /\ parts' \in Dirs /\ watch' \subseteq Ids
    BY <1>1, <1>4, <2>4, HeardApplied
  <2>6. /\ \A j \in Ids \ {i} : card'[j] = card[j]
        /\ \/ card'[i] = NoCard
           \/ card'[i].st = After(card[i].st, "Started") /\ card'[i].eng = c[i].eng
    BY <1>1, <1>4, <2>4, AppliedFacts
  <2>7. card'[i].st # "pending" /\ (card'[i].st = "done" => card[i].st = "done")
    BY <1>5, <2>6, NoCardRow, AfterFacts
  <2>8. s.first /\ s.eng \in Begun /\ card'[i].st \in Shows => card'[i].eng = s.job
    <3>1. SUFFICES ASSUME s.first, card'[i].st \in Shows PROVE card'[i].eng = s.job
      OBVIOUS
    <3>2. card[i].st \in Shows
      BY <1>4, <2>5, <3>1 DEF Tame, TameCards
    <3>3. Before(r)
      BY <1>2, <1>6
    <3>4. card[i].eng = 0 /\ card[i].st # "none"
      BY <1>2, <1>4, <3>1, <3>2, <3>3 DEF CInv, Follows, Shows
    <3>5. card'[i] # NoCard
      BY <3>1, NoCardRow DEF Shows
    <3>6. QED
      BY <1>2, <2>4, <2>6, <3>4, <3>5
  <2>9. ~(s.res = "ok" /\ s.evs = <<>>)
    BY <1>2, <1>6
  <2>10. QED
    BY <1>2, <1>3, <1>4, <2>5, <2>6, <2>7, <2>8, <2>9, Heard
<1>7. CASE Head(r.evs) = "Done"
  <2>1. Applied(card, i, "Finished")
    BY <1>7 DEF HandleEvent
  <2>2. Tame /\ card' \in Table /\ parts' \in Dirs /\ watch' \subseteq Ids
    BY <1>1, <1>4, <2>1, HeardApplied
  <2>3. /\ \A j \in Ids \ {i} : card'[j] = card[j]
        /\ card'[i] = NoCard \/ card'[i].st = After(card[i].st, "Finished")
    BY <1>1, <1>4, <2>1, AppliedFacts
  <2>4. s.first => card[i].st # "pending"
    BY <1>2, <1>4, <1>7 DEF CInv, Follows
  <2>5. s.first => card'[i].st \notin Shows
    BY <1>5, <2>3, <2>4, NoCardRow, AfterFacts DEF Shows
  <2>6. s.first => card'[i].st # "pending"
    BY <2>5 DEF Shows
  <2>7. s.res = "ok" /\ ~(s.eng \in Begun)
    BY <1>2, <1>7 DEF Begun
  <2>8. QED
    BY <1>2, <1>3, <1>4, <2>2, <2>3, <2>5, <2>6, <2>7, Heard
<1>8. CASE Head(r.evs) = "Failed"
  <2>1. Applied(card, i, "Failed")
    BY <1>8 DEF HandleEvent
  <2>2. Calm /\ card' \in Table /\ parts' \in Dirs /\ watch' \subseteq Ids
    BY <1>1, <1>4, <2>1, CalmApplied, AppliedFacts
  <2>3. r.eng = "over" /\ r.res = "err" /\ s.evs = <<>> /\ s.eng = "over" /\ s.res = "err"
    BY <1>2, <1>8
  <2>4. Moves(r, s)
    BY <1>2, <2>3 DEF Moves, Goes, Lasts, Keeps, Behind, Begun
  <2>5. QED
    BY <1>1, <1>2, <1>3, <2>2, <2>4, OneMoves
<1>9. QED
  BY <1>2, <1>6, <1>7, <1>8

-----------------------------------------------------------------------------
(* The user's commands, the watchdog and the sessions.                     *)

(* Orders on the control channels, with a calm change of the table, keep   *)
(* the invariant.                                                          *)
LEMMA OrdersMove ==
  ASSUME CInv, pull' \in Rows,
         \A q \in Pull : \/ pull'[q] = pull[q]
                         \/ \E c \in Seq(Action) : pull'[q] = [pull[q] EXCEPT !.ctl = c],
         card' \in Table, parts' \in Dirs, watch' \subseteq Ids, Calm, UNCHANGED <<nextJob, quiet>>
  PROVE  CInv'
<1>1. TypeOK'
  BY DEF CInv, TypeOK, Table, Dirs, Rows, quiet
<1>2. ASSUME NEW q \in Pull
      PROVE  RowOK(pull'[q]) /\ Moves(pull[q], pull'[q]) /\ pull'[q].at = pull[q].at
  <2>1. pull[q] \in PullRow /\ RowOK(pull[q])
    BY DEF CInv, TypeOK, RowsOK
  <2>2. CASE pull'[q] = pull[q]
    BY <2>1, <2>2, MovesSame
  <2>3. CASE \E c \in Seq(Action) : pull'[q] = [pull[q] EXCEPT !.ctl = c]
    <3>1. PICK c \in Seq(Action) : pull'[q] = [pull[q] EXCEPT !.ctl = c]
      BY <2>3
    <3>2. QED
      BY <2>1, <3>1, OrderRow
  <2>4. QED
    BY <2>2, <2>3
<1>3. RowsOK' /\ AllMove
  BY <1>2 DEF RowsOK, RowOK, AllMove
<1>4. OnePerPeer'
  BY <1>2, <1>3, PeersKept DEF CInv
<1>5. QED
  BY <1>1, <1>3, <1>4, Quietly DEF quiet

(* Who takes the orders of a card is a typed pull with room for one more   *)
(* order.                                                                  *)
LEMMA LiveRow ==
  ASSUME CInv, NEW e, NEW p \in Live(e), NEW a \in Action
  PROVE  p \in Pull /\ pull[p] \in PullRow /\ Append(pull[p].ctl, a) \in Seq(Action)
<1>1. p \in Pull /\ pull[p] \in PullRow
  BY DEF CInv, TypeOK, Live
<1>2. pull[p].ctl \in Seq(Action)
  BY <1>1 DEF PullRow
<1>3. QED
  BY <1>1, <1>2

(* A command of the user reaches the card and the pull.                    *)
LEMMA StepControl ==
  ASSUME CInv, NEW i \in Ids, NEW a \in Action, Control(i, a)
  PROVE  CInv'
<1>1. card \in Table /\ parts \in Dirs /\ watch \subseteq Ids
  BY DEF CInv, TypeOK, Table, Dirs
<1>2. EventOf(a) \in {"Failed", "QueueTimeout", "Paused", "Resumed"}
  BY DEF EventOf, Action
<1>3. Applied(card, i, EventOf(a)) /\ UNCHANGED <<nextJob, quiet>>
  BY DEF Control
<1>4. Calm /\ card' \in Table /\ parts' \in Dirs /\ watch' \subseteq Ids
  BY <1>1, <1>2, <1>3, CalmApplied, AppliedFacts
<1>5. PICK p \in Live(DirOf(card, i)) : pull' = [pull EXCEPT ![p].ctl = Append(@, a)]
  BY DEF Control
<1>6. p \in Pull /\ pull[p] \in PullRow /\ Append(pull[p].ctl, a) \in Seq(Action)
  BY LiveRow
<1> DEFINE s == [pull[p] EXCEPT !.ctl = Append(pull[p].ctl, a)]
<1>7. s \in PullRow /\ pull' = [pull EXCEPT ![p] = s]
  BY <1>5, <1>6, RowOrders
<1>8. pull \in Rows
  BY DEF CInv, TypeOK, Rows
<1>9. pull' \in Rows /\ pull'[p] = s /\ \A o \in Pull \ {p} : pull'[o] = pull[o]
  BY <1>6, <1>7, <1>8, NewRow
<1>10. \A q \in Pull : \/ pull'[q] = pull[q]
                       \/ \E c \in Seq(Action) : pull'[q] = [pull[q] EXCEPT !.ctl = c]
  BY <1>6, <1>9
<1>11. QED
  BY <1>3, <1>4, <1>9, <1>10, OrdersMove

(* The user deletes a card: its pull is told, its watchdog starts.         *)
LEMMA StepDestroy ==
  ASSUME CInv, NEW i \in Ids, Destroy(i)
  PROVE  CInv'
<1>1. /\ card \in Table /\ parts \in Dirs /\ watch \subseteq Ids /\ pull \in Rows
      /\ UNCHANGED <<nextJob, quiet>>
  BY DEF CInv, TypeOK, Table, Dirs, Rows, Destroy
<1>2. CASE Destroyed(card, i) /\ UNCHANGED pull
  <2>1. Calm /\ card' \in Table /\ parts' \in Dirs /\ watch' \subseteq Ids
    BY <1>1, <1>2, CalmDestroyed, DestroyedFacts
  <2>2. QED
    BY <1>1, <1>2, <2>1, OrdersMove
<1>3. CASE /\ card[i].st \in DOMAIN Fsm
           /\ card' = [card EXCEPT ![i].st = "cancelling"]
           /\ watch' = watch \cup {i}
           /\ pull' = [p \in Pull |-> IF p \in Live(DirOf(card, i))
                                        THEN [pull[p] EXCEPT !.ctl = Append(@, "cancel")] ELSE pull[p]]
           /\ UNCHANGED parts
  <2>1. card[i].st # "none" /\ card[i] \in CardRow
    BY <1>1, <1>3 DEF Fsm, Table
  <2>2. [card[i] EXCEPT !.st = "cancelling"] \in CardRow
    BY <2>1, States DEF CardRow
  <2>3. card' = [card EXCEPT ![i] = [card[i] EXCEPT !.st = "cancelling"]]
    BY <1>3
  <2>4. card' \in Table /\ parts' \in Dirs /\ watch' \subseteq Ids
    BY <1>1, <1>3, <2>2, <2>3 DEF Table
  <2>5. /\ \A j \in Ids \ {i} : card'[j] = card[j]
        /\ card'[i].st = "cancelling" /\ card'[i].file = card[i].file
    BY <1>1, <2>1, <2>3 DEF Table, CardRow
  <2>6. Calm
    BY <1>3, <2>1, <2>5 DEF Calm, CalmCards, Tame, TameCards, Shows
  <2>7. ASSUME NEW q \in Pull
        PROVE  /\ pull'[q] \in PullRow
               /\ \/ pull'[q] = pull[q]
                  \/ \E c \in Seq(Action) : pull'[q] = [pull[q] EXCEPT !.ctl = c]
    <3>1. CASE q \in Live(DirOf(card, i))
      <4>1. pull[q] \in PullRow /\ Append(pull[q].ctl, "cancel") \in Seq(Action)
        BY <3>1, LiveRow DEF Action
      <4>2. pull'[q] = [pull[q] EXCEPT !.ctl = Append(pull[q].ctl, "cancel")]
        BY <1>3, <3>1
      <4>3. QED
        BY <4>1, <4>2, RowOrders
    <3>2. CASE q \notin Live(DirOf(card, i))
      BY <1>1, <1>3, <3>2 DEF Rows
    <3>3. QED
      BY <3>1, <3>2
  <2>8. pull' \in Rows
    BY <1>3, <2>7 DEF Rows
  <2>9. QED
    BY <1>1, <2>4, <2>6, <2>7, <2>8, OrdersMove
<1>4. QED
  BY <1>2, <1>3 DEF Destroy

(* The watchdog of a deleted card removes what the pull left.              *)
LEMMA StepWatchdog ==
  ASSUME CInv, NEW i \in Ids, WatchdogFires(i)
  PROVE  CInv'
<1>1. /\ card \in Table /\ parts \in Dirs /\ watch \subseteq Ids /\ pull \in Rows
      /\ UNCHANGED <<pull, nextJob, quiet>>
  BY DEF CInv, TypeOK, Table, Dirs, Rows, WatchdogFires
<1>2. Calm /\ card' \in Table /\ parts' \in Dirs /\ watch' \subseteq Ids
  <2>1. CASE Destroyed(card, i)
    BY <1>1, <2>1, CalmDestroyed, DestroyedFacts
  <2>2. CASE card' = [card EXCEPT ![i] = NoCard] /\ watch' = watch \ {i} /\ UNCHANGED parts
    <3>1. card' \in Table
      BY <1>1, <2>2, NoCardRow DEF Table
    <3>2. card'[i] = NoCard /\ \A j \in Ids \ {i} : card'[j] = card[j]
      BY <1>1, <2>2 DEF Table
    <3>3. Calm
      BY <2>2, <3>2, NoCardRow DEF Calm, CalmCards, Tame, TameCards, Shows
    <3>4. QED
      BY <1>1, <2>2, <3>1, <3>3
  <2>3. CASE watch' = watch \ {i} /\ UNCHANGED <<card, parts>>
    BY <1>1, <2>3, CalmStays
  <2>4. QED
    BY <2>1, <2>2, <2>3 DEF WatchdogFires
<1>3. QED
  BY <1>1, <1>2, OrdersMove

(* Sessions come and go, and steps that change nothing.                    *)
LEMMA NothingMoves ==
  ASSUME CInv, UNCHANGED <<card, pull, parts, watch, nextCard, nextJob>>,
         up' \in [Peers -> BOOLEAN], retried' \subseteq Ids
  PROVE  CInv'
<1>1. TypeOK' /\ RowsOK' /\ AllMove /\ Calm
  BY MovesSame, CalmStays DEF CInv, TypeOK, RowsOK, RowOK, AllMove
<1>2. OnePerPeer'
  BY <1>1, PeersKept DEF CInv
<1>3. QED
  BY <1>1, <1>2, Quietly

-----------------------------------------------------------------------------
(* New tasks.                                                              *)

(* A pull that is queued takes a row nobody used before.                   *)
LEMMA Enqueued ==
  ASSUME CInv, NEW i, NEW f, NEW b, Enqueue(i, f, b), i \in Ids, f \in Offered, b \in BOOLEAN
  PROVE  \E p \in Pull : /\ pull[p].at = "none" /\ pull[p].card = 0 /\ pull[p].eng = "none"
                         /\ pull' \in Rows /\ pull'[p] = Task(i, f, b)
                         /\ \A o \in Pull \ {p} : pull'[o] = pull[o]
<1>1. PICK p \in Pull : pull[p].at = "none" /\ pull' = [pull EXCEPT ![p] = Task(i, f, b)]
  BY QueuedRow DEF Enqueue
<1>2. Task(i, f, b) \in PullRow
  BY TaskRow
<1>3. pull \in Rows /\ RowOK(pull[p])
  BY DEF CInv, TypeOK, Rows, RowsOK
<1>4. pull' \in Rows /\ pull'[p] = Task(i, f, b) /\ \A o \in Pull \ {p} : pull'[o] = pull[o]
  BY <1>1, <1>2, <1>3, NewRow
<1>5. pull[p].card = 0 /\ pull[p].eng = "none"
  BY <1>1, <1>3 DEF RowOK
<1>6. QED
  BY <1>1, <1>4, <1>5

(* A queued pull begins in order.                                          *)
LEMMA QueuedOK ==
  ASSUME NEW i \in Ids, NEW f \in Offered, NEW b \in BOOLEAN
  PROVE  RowOK(Task(i, f, b)) /\ ~Behind(Task(i, f, b)) /\ Task(i, f, b).at \in Lives
BY TaskRow DEF RowOK, Lives, Begun, Writes, Behind

(* A task for a card that is not shown as open: resumed downloads.         *)
LEMMA ResumedStep ==
  ASSUME CInv, NEW i \in Ids, card[i].st # "none", card[i].st \notin Shows,
         NEW b \in BOOLEAN, ~b,
         Enqueue(i, card[i].file, b), UNCHANGED <<card, parts, watch, nextCard, nextJob>>,
         up' \in [Peers -> BOOLEAN], retried' \subseteq Ids
  PROVE  CInv'
<1> DEFINE f == card[i].file
           t == Task(i, f, b)
<1>1. f \in Offered
  BY DEF CInv, TableOK
<1>2. PICK p \in Pull : /\ pull[p].at = "none" /\ pull[p].card = 0 /\ pull[p].eng = "none"
                        /\ pull' \in Rows /\ pull'[p] = t
                        /\ \A o \in Pull \ {p} : pull'[o] = pull[o]
  BY <1>1, Enqueued
<1>3. /\ t.at = "gate" /\ t.card = i /\ t.file = f /\ ~t.first /\ t.res = "none" /\ t.eng = "none"
      /\ RowOK(t)
  BY <1>1, TaskRow, QueuedOK
<1> HIDE DEF t
<1>4. TypeOK' /\ RowsOK' /\ TableOK'
  BY <1>2, <1>3 DEF CInv, TypeOK, Rows, RowsOK, RowOK, TableOK
<1>5. OfCard'
  <2>1. /\ i \in CardIds => i < nextCard
        /\ i \in JobIds => i < nextJob /\ parts[i] \in {NoFile, f}
    BY DEF CInv, NewCardFree, TableOK, TypeOK, CardIds
  <2>2. QED
    BY <1>2, <1>3, <2>1 DEF CInv, OfCard
<1>6. Untouched'
  BY <1>2, <1>3 DEF CInv, Untouched, Writes
<1>7. OnePerPeer'
  BY <1>2, <1>3 DEF CInv, OnePerPeer, Running
<1>8. Apart'
  BY <1>2, <1>3 DEF CInv, Apart, Writes
<1>9. Follows'
  BY <1>2, <1>3 DEF CInv, Follows, Before, Behind
<1>10. DoneMeansLanded'
  <2>1. \A j \in Ids : j # 0
    BY Numbers
  <2>2. QED
    BY <1>2, <2>1 DEF CInv, DoneMeansLanded
<1>11. LandingShown' /\ NewCardFree'
  BY <1>2, <1>3 DEF CInv, LandingShown, NewCardFree
<1>12. QED
  BY <1>4, <1>5, <1>6, <1>7, <1>8, <1>9, <1>10, <1>11 DEF CInv

(* The user, or the return of a session, resumes a card: a new pull is     *)
(* queued for it.                                                          *)
LEMMA StepResume ==
  ASSUME CInv, NEW i \in Ids, Resume(i)
  PROVE  CInv'
<1>1. card[i].st # "none" /\ card[i].st \notin Shows
  BY DEF Resume, Shows
<1>2. up' \in [Peers -> BOOLEAN] /\ retried' \subseteq Ids
  BY DEF Resume, CInv, TypeOK, quiet
<1>3. \E b \in BOOLEAN : ~b /\ Enqueue(i, card[i].file, b)
  <2>1. FALSE \in BOOLEAN /\ Enqueue(i, card[i].file, FALSE)
    BY DEF Resume
  <2>2. QED
    BY <2>1, Zenon
<1>4. QED
  BY <1>1, <1>2, <1>3, ResumedStep DEF Resume, quiet

(* A session ends: its open cards are interrupted.                         *)
LEMMA StepSessionDown ==
  ASSUME CInv, NEW q \in Peers, SessionDown(q)
  PROVE  CInv'
BY NothingMoves DEF SessionDown, CInv, TypeOK

(* A session begins: the cards that may be resumed are.                    *)
LEMMA StepSessionUp ==
  ASSUME CInv, NEW q \in Peers, SessionUp(q)
  PROVE  CInv'
<1>1. /\ up' \in [Peers -> BOOLEAN] /\ retried' \subseteq Ids
      /\ UNCHANGED <<card, parts, watch, nextCard, nextJob>>
  BY DEF SessionUp, CInv, TypeOK, AutoResumable, Unfinished
<1>2. CASE UNCHANGED pull
  BY <1>1, <1>2, NothingMoves
<1>3. CASE AutoResumable(q) # {} /\ Fresh # {}
  <2> DEFINE i == CHOOSE i \in AutoResumable(q) : TRUE
  <2>1. i \in AutoResumable(q)
    BY <1>3
  <2>2. i \in Ids /\ card[i].st = "failed"
    BY <2>1 DEF AutoResumable, Unfinished
  <2>3. Enqueue(i, card[i].file, FALSE)
    BY <1>3 DEF SessionUp, Enqueue
  <2>4. \E b \in BOOLEAN : ~b /\ Enqueue(i, card[i].file, b)
    BY <2>3, Zenon
  <2> HIDE DEF i
  <2>5. card[i].st # "none" /\ card[i].st \notin Shows
    BY <2>2 DEF Shows
  <2>6. QED
    BY <1>1, <2>2, <2>4, <2>5, ResumedStep
<1>4. QED
  BY <1>2, <1>3 DEF SessionUp

(* A new download: nothing refers to its card yet.                         *)
LEMMA StartedStep ==
  ASSUME CInv, NEW f \in Offered, NEW b \in BOOLEAN, Enqueue(nextCard, f, b),
         nextCard \in CardIds, nextCard' = nextCard + 1,
         card' = [card EXCEPT ![nextCard] = [st |-> "pending", eng |-> 0, file |-> f]],
         UNCHANGED <<parts, up, watch, retried, nextJob>>
  PROVE  b => CInv'
<1> DEFINE n == nextCard
           new == [st |-> "pending", eng |-> 0, file |-> f]
<1>3. /\ n \in CardIds /\ n \in Ids /\ n \notin JobIds /\ n # 0 /\ nextCard' = n + 1
      /\ card' = [card EXCEPT ![n] = new]
      /\ UNCHANGED <<parts, up, watch, retried, nextJob>>
  BY Numbers
<1> DEFINE t == Task(n, f, b)
<1>4. PICK p \in Pull : /\ pull[p].at = "none" /\ pull[p].card = 0 /\ pull[p].eng = "none"
                        /\ pull' \in Rows /\ pull'[p] = t
                        /\ \A o \in Pull \ {p} : pull'[o] = pull[o]
  BY <1>3, Enqueued
<1>1. /\ t.at = "gate" /\ t.card = n /\ t.file = f /\ t.first = b /\ t.res = "none"
      /\ t.eng = "none" /\ RowOK(t) /\ ~Behind(t)
  BY <1>3, TaskRow, QueuedOK
<1>2. SUFFICES ASSUME b PROVE CInv'
  OBVIOUS
<1>5. /\ t.at = "gate" /\ t.card = n /\ t.file = f /\ t.first /\ t.res = "none" /\ t.eng = "none"
      /\ RowOK(t) /\ ~Behind(t)
  BY <1>1, <1>2
<1> HIDE DEF t
<1>6. new \in CardRow
  BY States DEF CardRow
<1>7. /\ card' \in Table /\ card'[n] = new /\ \A j \in Ids \ {n} : card'[j] = card[j]
      /\ new.st = "pending" /\ new.eng = 0 /\ new.file = f
  BY <1>3, <1>6 DEF CInv, TypeOK, Table
<1> HIDE DEF new
<1>8. \A q \in Pull : pull[q].card # n
  BY <1>3, Numbers DEF CInv, OfCard, TypeOK, CardIds
<1>9. TypeOK'
  <2>1. nextCard' \in 1 .. (Cards + 1)
    BY <1>3, BoundsAssumption DEF CardIds
  <2>2. QED
    BY <1>3, <1>4, <1>7, <2>1 DEF CInv, TypeOK, Table, Rows
<1>10. RowsOK'
  BY <1>3, <1>4, <1>5 DEF CInv, RowsOK, RowOK
<1>11. TableOK'
  BY <1>3, <1>7, Numbers DEF CInv, TableOK
<1>12. OfCard'
  <2>1. SUFFICES ASSUME NEW q \in Pull, pull'[q].card # 0
                PROVE LET i == pull'[q].card IN
                        /\ i \in CardIds => i < n + 1
                        /\ i \in JobIds => i < nextJob /\ parts[i] \in {NoFile, pull'[q].file}
                        /\ card'[i].st # "none" => card'[i].file = pull'[q].file
    BY <1>3 DEF OfCard
  <2>2. CASE q = p
    BY <1>3, <1>4, <1>5, <1>7, <2>2, Numbers
  <2>3. CASE q # p
    <3>1. pull'[q] = pull[q] /\ pull[q].card \in Ids /\ pull[q].card # n
      BY <1>4, <1>8, <2>1, <2>3 DEF CInv, TypeOK, PullRow
    <3>2. pull[q].card \in CardIds => pull[q].card < n
      BY <2>1, <3>1 DEF CInv, OfCard
    <3>3. pull[q].card \in Nat /\ n \in Nat
      BY <1>3, <3>1, Numbers
    <3>4. pull[q].card \in CardIds => pull[q].card < n + 1
      BY <3>2, <3>3
    <3>5. card'[pull[q].card] = card[pull[q].card]
      BY <1>7, <3>1
    <3>6. QED
      BY <2>1, <3>1, <3>4, <3>5 DEF CInv, OfCard
  <2>4. QED
    BY <2>2, <2>3
<1>13. Untouched'
  <2>1. SUFFICES ASSUME NEW q \in Pull, pull'[q].eng = "open"
                PROVE /\ parts'[pull'[q].job] = NoFile /\ card'[pull'[q].job].st = "none"
                      /\ \A o \in Pull :
                           /\ pull'[o].card # pull'[q].job
                           /\ pull'[o].eng \in Writes => pull'[o].dir # pull'[q].job
                           /\ o # q /\ pull'[o].eng = "open" => pull'[o].job # pull'[q].job
    BY DEF Untouched
  <2>2. q # p /\ pull'[q] = pull[q] /\ pull[q].eng = "open"
    BY <1>4, <1>5, <2>1
  <2>3. pull[q].job \in JobIds /\ pull[q].job \in Ids /\ pull[q].job # n
    BY <1>3, <2>2, Numbers DEF CInv, RowsOK, RowOK, Begun
  <2>4. parts'[pull'[q].job] = NoFile /\ card'[pull'[q].job].st = "none"
    BY <1>3, <1>7, <2>2, <2>3 DEF CInv, Untouched
  <2>5. ASSUME NEW o \in Pull
        PROVE /\ pull'[o].card # pull'[q].job
              /\ pull'[o].eng \in Writes => pull'[o].dir # pull'[q].job
              /\ o # q /\ pull'[o].eng = "open" => pull'[o].job # pull'[q].job
    BY <1>4, <1>5, <2>2, <2>3 DEF CInv, Untouched, Writes
  <2>6. QED
    BY <2>4, <2>5
<1>14. OnePerPeer'
  BY <1>4, <1>5 DEF CInv, OnePerPeer, Running
<1>15. Apart'
  BY <1>3, <1>4, <1>5 DEF CInv, Apart, Writes
<1>16. Follows'
  <2>1. SUFFICES ASSUME NEW q \in Pull, pull'[q].at \in Lives
                PROVE LET r == pull'[q]
                          c == card'[pull'[q].card]
                      IN /\ ~r.first => c.st \notin Shows
                         /\ r.first => \A o \in Pull :
                              o # q /\ pull'[o].at \in Lives /\ pull'[o].first
                                => pull'[o].card # r.card
                         /\ r.first /\ Before(r) /\ c.st \in Shows => c.st = "pending" /\ c.eng = 0
                         /\ r.first /\ Behind(r) => c.st # "pending"
                         /\ r.first /\ r.res = "ok" /\ r.evs = <<>> => c.st \notin Shows
                         /\ r.first /\ r.eng \in Begun /\ r.evs = <<>> /\ c.st \in Shows
                              => c.eng = r.job
    BY DEF Follows, Before, Behind
  <2>2. CASE q = p
    <3>1. \A o \in Pull : o # p => pull'[o].card # n
      BY <1>4, <1>8
    <3>2. QED
      BY <1>4, <1>5, <1>7, <2>2, <3>1 DEF Begun
  <2>3. CASE q # p
    <3>1. pull'[q] = pull[q] /\ pull[q].at \in Lives /\ pull[q].card # n
      BY <1>4, <1>8, <2>1, <2>3
    <3>2. pull[q].card \in Ids
      BY <3>1 DEF CInv, RowsOK, RowOK
    <3>3. card'[pull[q].card] = card[pull[q].card]
      BY <1>7, <3>1, <3>2
    <3>4. pull[q].first => \A o \in Pull :
            o # q /\ pull'[o].at \in Lives /\ pull'[o].first => pull'[o].card # pull[q].card
      BY <1>4, <1>5, <3>1 DEF CInv, Follows
    <3>5. QED
      BY <3>1, <3>3, <3>4 DEF CInv, Follows
  <2>4. QED
    BY <2>2, <2>3
<1>17. DoneMeansLanded'
  <2>1. SUFFICES ASSUME NEW j \in Ids, card'[j].st = "done"
                PROVE \E o \in Pull : pull'[o].card = j /\ pull'[o].file = card'[j].file
                                       /\ pull'[o].res = "ok"
    BY DEF DoneMeansLanded
  <2>2. card'[j] = card[j]
    BY <1>7, <2>1
  <2>3. PICK o \in Pull : pull[o].card = j /\ pull[o].file = card[j].file /\ pull[o].res = "ok"
    BY <2>1, <2>2 DEF CInv, DoneMeansLanded
  <2>4. o # p
    BY <1>4, <2>3, Numbers
  <2>5. QED
    BY <1>4, <2>2, <2>3, <2>4
<1>18. LandingShown'
  <2>1. SUFFICES ASSUME NEW q \in Pull, pull'[q].at = "over", pull'[q].card # 0, pull'[q].first,
                       pull'[q].res = "ok"
                PROVE card'[pull'[q].card].st \notin Shows
    BY DEF LandingShown, Shows
  <2>2. pull'[q] = pull[q] /\ pull[q].card # n /\ pull[q].card \in Ids
    BY <1>4, <1>5, <1>8, <2>1 DEF CInv, TypeOK, PullRow
  <2>3. QED
    BY <1>7, <2>1, <2>2 DEF CInv, LandingShown, Shows
<1>19. NewCardFree'
  <2>1. \A x \in CardIds : x \in Nat /\ x \in Ids
    BY Numbers
  <2>2. QED
    BY <1>3, <1>7, <2>1 DEF CInv, NewCardFree
<1>20. QED
  BY <1>9, <1>10, <1>11, <1>12, <1>13, <1>14, <1>15, <1>16, <1>17, <1>18, <1>19 DEF CInv

(* The user starts a download: a new card, and a pull for it               *)
(* (start_download).                                                       *)
LEMMA StepStartDownload ==
  ASSUME CInv, NEW f \in Offered, StartDownload(f)
  PROVE  CInv'
<1>1. \E b \in BOOLEAN : b /\ Enqueue(nextCard, f, b)
  <2>1. TRUE \in BOOLEAN /\ Enqueue(nextCard, f, TRUE)
    BY DEF StartDownload
  <2>2. QED
    BY <2>1, Zenon
<1>2. QED
  BY <1>1, StartedStep DEF StartDownload

-----------------------------------------------------------------------------
(* Job ids and directories.                                                *)

(* The engine has the answer to its MetaReq and knows its job and its      *)
(* directory.                                                              *)
LEMMA StepEngineMeta ==
  ASSUME CInv, NEW p \in Pull, EngineMeta(p)
  PROVE  CInv'
<1> DEFINE r == pull[p]
           n == nextJob
           s == [r EXCEPT !.eng = "open", !.job = n, !.evs = Append(r.evs, "Started")]
<1>1. /\ r \in PullRow /\ RowOK(r) /\ r.eng = "meta" /\ r.evs = <<>>
      /\ card \in Table /\ parts \in Dirs /\ watch \subseteq Ids /\ pull \in Rows
  BY DEF CInv, TypeOK, RowsOK, RowOK, EngineMeta, Table, Dirs, Rows
<1>2. /\ n \in JobIds /\ n \in Ids /\ n \in Nat /\ n \notin CardIds /\ nextJob' = n + 1
      /\ UNCHANGED <<card, parts, watch, quiet>>
  BY Numbers DEF EngineMeta
<1>3. Append(r.evs, "Started") = <<"Started">> /\ <<"Started">> \in Seq(Event)
  BY <1>1 DEF Event
<1>4. s \in PullRow
  BY <1>1, <1>2, <1>3, RowEvents DEF Event
<1>5. /\ s.at = r.at /\ s.card = r.card /\ s.file = r.file /\ s.first = r.first /\ s.eng = "open"
      /\ s.job = n /\ s.evs = <<"Started">> /\ s.res = r.res
  BY <1>1, <1>3 DEF PullRow
<1>6. pull' = [pull EXCEPT ![p] = s]
  BY DEF EngineMeta, Emit
<1> HIDE DEF s
<1>7. pull' \in Rows /\ pull'[p] = s /\ \A o \in Pull \ {p} : pull'[o] = pull[o]
  BY <1>1, <1>4, <1>6, NewRow
<1>8. TypeOK'
  <2>1. nextJob' \in (Cards + 1) .. (Cards + Pulls + 1)
    BY <1>2, BoundsAssumption DEF JobIds
  <2>2. QED
    BY <1>2, <1>7, <2>1 DEF CInv, TypeOK, Rows, quiet
<1>9. \A j \in JobIds : j \in Nat /\ (j < n => j < n + 1)
  BY <1>2, Numbers
<1>10. RowsOK'
  <2>1. SUFFICES ASSUME NEW o \in Pull PROVE RowOK(pull[o])'
    BY DEF RowsOK
  <2>2. CASE o = p
    <3>1. r.at = "engine" /\ r.res = "none" /\ r.card \in Ids /\ r.file \in Offered
      BY <1>1 DEF RowOK, PullRow, Lives
    <3>2. n \in JobIds /\ n < nextJob'
      BY <1>2
    <3>3. QED
      BY <1>5, <1>7, <2>2, <3>1, <3>2 DEF RowOK, Begun, Writes, Lives
  <2>3. CASE o # p
    <3>1. pull'[o] = pull[o] /\ RowOK(pull[o])
      BY <1>7, <2>3 DEF CInv, RowsOK
    <3>2. QED
      BY <1>2, <1>9, <3>1 DEF RowOK
  <2>4. QED
    BY <2>2, <2>3
<1>11. AllLast /\ AllKeep
  <2>1. SUFFICES ASSUME NEW o \in Pull PROVE Lasts(pull[o], pull'[o]) /\ Keeps(pull[o], pull'[o])
    BY DEF AllLast, AllKeep
  <2>2. CASE o = p
    <3>1. s.at = "engine" /\ s.evs # <<>> /\ s.res = "none"
      BY <1>1, <1>5 DEF RowOK, PullRow
    <3>2. Lasts(r, s)
      BY <1>1, <1>5, <3>1 DEF Lasts, Lives
    <3>3. Keeps(r, s)
      BY <1>1, <1>5, <3>1 DEF Keeps, Before, Behind
    <3>4. QED
      BY <1>7, <2>2, <3>2, <3>3
  <2>3. CASE o # p
    BY <1>7, <2>3, MovesSame DEF Moves, Goes
  <2>4. QED
    BY <2>2, <2>3
<1>12. Calm
  BY <1>2, CalmStays
<1>13. Follows' /\ DoneMeansLanded' /\ LandingShown'
  BY <1>8, <1>11, <1>12, FollowsKept, DoneKept, LandingKept DEF CInv, Calm, Tame
<1>14. TableOK' /\ NewCardFree'
  BY <1>2, <1>9, Numbers DEF CInv, TableOK, NewCardFree, quiet
<1>15. OfCard'
  <2>1. SUFFICES ASSUME NEW q \in Pull, pull'[q].card # 0
                PROVE LET i == pull'[q].card IN
                        /\ i \in CardIds => i < nextCard
                        /\ i \in JobIds => i < n + 1 /\ parts[i] \in {NoFile, pull'[q].file}
                        /\ card[i].st # "none" => card[i].file = pull'[q].file
    BY <1>2 DEF OfCard, quiet
  <2>2. pull'[q].card = pull[q].card /\ pull'[q].file = pull[q].file
    BY <1>5, <1>7
  <2>3. QED
    BY <1>9, <2>1, <2>2 DEF CInv, OfCard
<1>16. OnePerPeer'
  BY <1>5, <1>7 DEF CInv, OnePerPeer, Running
<1>17. Apart'
  BY <1>2, <1>5, <1>7 DEF CInv, Apart, Writes
<1>18. Untouched'
  <2>1. parts[n] = NoFile /\ card[n].st = "none"
    BY <1>2 DEF CInv, TableOK
  <2>2. \A o \in Pull : /\ pull[o].card # n
                        /\ pull[o].eng \in Writes => pull[o].dir # n
                        /\ pull[o].eng = "open" => pull[o].job # n
    <3>1. SUFFICES ASSUME NEW o \in Pull
                  PROVE /\ pull[o].card # n
                        /\ pull[o].eng \in Writes => pull[o].dir # n
                        /\ pull[o].eng = "open" => pull[o].job # n
      OBVIOUS
    <3>2. RowOK(pull[o])
      BY DEF CInv, RowsOK
    <3>3. pull[o].card # n
      BY <1>2, Numbers DEF CInv, OfCard
    <3>4. /\ pull[o].eng \in Writes => pull[o].dir # n
          /\ pull[o].eng = "open" => pull[o].job # n
      BY <1>2, <3>2 DEF RowOK, Begun
    <3>5. QED
      BY <3>3, <3>4
  <2>3. SUFFICES ASSUME NEW q \in Pull, pull'[q].eng = "open"
                PROVE /\ parts'[pull'[q].job] = NoFile /\ card'[pull'[q].job].st = "none"
                      /\ \A o \in Pull :
                           /\ pull'[o].card # pull'[q].job
                           /\ pull'[o].eng \in Writes => pull'[o].dir # pull'[q].job
                           /\ o # q /\ pull'[o].eng = "open" => pull'[o].job # pull'[q].job
    BY DEF Untouched
  <2>4. CASE q = p
    BY <1>2, <1>5, <1>7, <2>1, <2>2, <2>4 DEF Writes
  <2>5. CASE q # p
    <3>1. pull'[q] = pull[q] /\ pull[q].eng = "open" /\ pull[q].job # n
      BY <1>7, <2>2, <2>3, <2>5
    <3>2. parts'[pull'[q].job] = NoFile /\ card'[pull'[q].job].st = "none"
      BY <1>2, <3>1 DEF CInv, Untouched
    <3>3. \A o \in Pull :
            /\ pull'[o].card # pull'[q].job
            /\ pull'[o].eng \in Writes => pull'[o].dir # pull'[q].job
            /\ o # q /\ pull'[o].eng = "open" => pull'[o].job # pull'[q].job
      BY <1>5, <1>7, <3>1 DEF CInv, Untouched, Writes
    <3>4. QED
      BY <3>2, <3>3
  <2>6. QED
    BY <2>4, <2>5
<1>19. QED
  BY <1>8, <1>10, <1>13, <1>14, <1>15, <1>16, <1>17, <1>18 DEF CInv

(* An unfinished directory of the file, or the new one of the job.         *)
LEMMA StepEngineOpens ==
  ASSUME CInv, NEW p \in Pull, EngineOpens(p)
  PROVE  CInv'
<1> DEFINE r == pull[p]
           same == {d \in Unfinished : parts[d] = r.file}
<1>1. /\ r \in PullRow /\ RowOK(r) /\ r.eng = "open" /\ r.at = "engine" /\ r.res = "none"
      /\ r.job \in JobIds /\ r.job < nextJob /\ r.card \in Ids /\ r.file \in Offered
      /\ r.evs \in {<<>>, <<"Started">>}
      /\ card \in Table /\ parts \in Dirs /\ watch \subseteq Ids /\ pull \in Rows
  BY DEF CInv, TypeOK, RowsOK, RowOK, EngineOpens, Table, Dirs, Rows, Begun, Lives, PullRow
<1>2. PICK d \in IF same = {} THEN {r.job} ELSE same :
        /\ pull' = [pull EXCEPT ![p] = [r EXCEPT !.eng = "run", !.dir = d]]
        /\ parts' = [parts EXCEPT ![d] = r.file]
  BY DEF EngineOpens
<1>3. UNCHANGED <<card, watch, nextJob, quiet>>
  BY DEF EngineOpens
<1>4. \/ d = r.job
      \/ d \in Ids /\ parts[d] = r.file
  BY <1>2 DEF Unfinished
<1>5. r.file # NoFile
  BY <1>1, PeerAssumption
<1>6. d \in JobIds /\ d \in Ids /\ d < nextJob
  BY <1>1, <1>4, <1>5, Numbers DEF CInv, TableOK
<1> DEFINE s == [r EXCEPT !.eng = "run", !.dir = d]
<1>7. s \in PullRow
  BY <1>1, <1>6, RowParts
<1>8. /\ s.at = r.at /\ s.card = r.card /\ s.file = r.file /\ s.first = r.first /\ s.eng = "run"
      /\ s.job = r.job /\ s.dir = d /\ s.evs = r.evs /\ s.res = r.res
  BY <1>1 DEF PullRow
<1>9. pull' = [pull EXCEPT ![p] = s]
  BY <1>2
<1> HIDE DEF s, same
<1>10. pull' \in Rows /\ pull'[p] = s /\ \A o \in Pull \ {p} : pull'[o] = pull[o]
  BY <1>1, <1>7, <1>9, NewRow
<1>11. /\ parts' \in Dirs /\ parts'[d] = r.file /\ \A j \in Ids \ {d} : parts'[j] = parts[j]
       /\ parts[d] \in {NoFile, r.file}
  BY <1>1, <1>2, <1>4, <1>6 DEF Dirs, CInv, Untouched
<1>12. TypeOK'
  BY <1>3, <1>10, <1>11 DEF CInv, TypeOK, Rows, Dirs, quiet
<1>13. RowsOK'
  <2>1. SUFFICES ASSUME NEW o \in Pull PROVE RowOK(pull[o])'
    BY DEF RowsOK
  <2>2. CASE o = p
    BY <1>1, <1>3, <1>6, <1>8, <1>10, <2>2 DEF RowOK, Begun, Writes, Lives
  <2>3. CASE o # p
    BY <1>3, <1>10, <2>3 DEF CInv, RowsOK, RowOK
  <2>4. QED
    BY <2>2, <2>3
<1>14. TableOK'
  <2>1. card[d].st # "none" => card[d].file = r.file
    <3>1. CASE d = r.job
      BY <1>1, <3>1 DEF CInv, Untouched
    <3>2. CASE parts[d] = r.file
      BY <1>5, <1>6, <3>2 DEF CInv, TableOK
    <3>3. QED
      BY <1>4, <3>1, <3>2
  <2>2. \A i \in JobIds : i \in Ids
    BY Numbers
  <2>3. QED
    BY <1>3, <1>6, <1>11, <2>1, <2>2 DEF CInv, TableOK
<1>15. OfCard'
  <2>1. \A q \in Pull : pull[q].card = d => pull[q].file = r.file
    <3>1. SUFFICES ASSUME NEW q \in Pull, pull[q].card = d PROVE pull[q].file = r.file
      OBVIOUS
    <3>2. d # r.job
      BY <1>1, <3>1 DEF CInv, Untouched
    <3>3. parts[d] = r.file
      BY <1>4, <3>2
    <3>4. d # 0
      BY <1>6, Numbers
    <3>5. QED
      BY <1>5, <1>6, <3>1, <3>3, <3>4 DEF CInv, OfCard
  <2>2. \A i \in JobIds : i \in Ids
    BY Numbers
  <2>3. SUFFICES ASSUME NEW q \in Pull, pull'[q].card # 0
                PROVE LET i == pull'[q].card IN
                        /\ i \in CardIds => i < nextCard
                        /\ i \in JobIds => i < nextJob /\ parts'[i] \in {NoFile, pull'[q].file}
                        /\ card[i].st # "none" => card[i].file = pull'[q].file
    BY <1>3 DEF OfCard, quiet
  <2>4. pull'[q].card = pull[q].card /\ pull'[q].file = pull[q].file
    BY <1>8, <1>10
  <2>5. pull[q].card \in JobIds => parts'[pull[q].card] \in {NoFile, pull[q].file}
    BY <1>11, <2>1, <2>2, <2>3, <2>4 DEF CInv, OfCard
  <2>6. QED
    BY <2>3, <2>4, <2>5 DEF CInv, OfCard
<1>16. ASSUME NEW q \in Pull, q # p, pull[q].eng = "open"
       PROVE  pull[q].job # d /\ pull[q].job \in Ids
  <2>1. pull[q].job \in Ids
    BY <1>16, Numbers DEF CInv, RowsOK, RowOK, Begun
  <2>2. parts[pull[q].job] = NoFile /\ pull[q].job # r.job
    BY <1>1, <1>16 DEF CInv, Untouched
  <2>3. QED
    BY <1>4, <1>5, <2>1, <2>2
<1>17. Untouched'
  <2>1. SUFFICES ASSUME NEW q \in Pull, pull'[q].eng = "open"
                PROVE /\ parts'[pull'[q].job] = NoFile /\ card'[pull'[q].job].st = "none"
                      /\ \A o \in Pull :
                           /\ pull'[o].card # pull'[q].job
                           /\ pull'[o].eng \in Writes => pull'[o].dir # pull'[q].job
                           /\ o # q /\ pull'[o].eng = "open" => pull'[o].job # pull'[q].job
    BY DEF Untouched
  <2>2. q # p /\ pull'[q] = pull[q] /\ pull[q].eng = "open"
    BY <1>8, <1>10, <2>1
  <2>3. pull[q].job # d /\ pull[q].job \in Ids
    BY <1>16, <2>2
  <2>4. parts'[pull'[q].job] = NoFile /\ card'[pull'[q].job].st = "none"
    BY <1>3, <1>11, <2>2, <2>3 DEF CInv, Untouched
  <2>5. ASSUME NEW o \in Pull
        PROVE /\ pull'[o].card # pull'[q].job
              /\ pull'[o].eng \in Writes => pull'[o].dir # pull'[q].job
              /\ o # q /\ pull'[o].eng = "open" => pull'[o].job # pull'[q].job
    BY <1>1, <1>8, <1>10, <2>2, <2>3 DEF CInv, Untouched
  <2>6. QED
    BY <2>4, <2>5
<1>18. OnePerPeer'
  BY <1>8, <1>10 DEF CInv, OnePerPeer, Running
<1>19. \A o \in Pull : o # p /\ pull[o].eng \in Writes => pull[o].dir # d
  <2>1. SUFFICES ASSUME NEW o \in Pull, o # p, pull[o].eng \in Writes PROVE pull[o].dir # d
    OBVIOUS
  <2>2. CASE d = r.job
    BY <1>1, <2>1, <2>2 DEF CInv, Untouched
  <2>3. CASE parts[d] = r.file
    <3>1. pull[o].at = "engine"
      BY <2>1, WritingRow DEF CInv, TypeOK, RowsOK
    <3>2. PeerOf[pull[o].file] # PeerOf[r.file]
      BY <1>1, <2>1, <3>1 DEF CInv, OnePerPeer, Running
    <3>3. pull[o].dir = d => r.file = pull[o].file
      BY <1>5, <2>1, <2>3 DEF CInv, Apart
    <3>4. QED
      BY <3>2, <3>3
  <2>4. QED
    BY <1>4, <2>2, <2>3
<1>20. Apart'
  <2>1. SUFFICES ASSUME NEW q \in Pull, pull'[q].eng \in Writes
                PROVE /\ parts'[pull'[q].dir] \in {NoFile, pull'[q].file}
                      /\ \A o \in Pull :
                           o # q /\ pull'[o].eng \in Writes => pull'[o].dir # pull'[q].dir
    BY DEF Apart
  <2>2. CASE q = p
    BY <1>8, <1>10, <1>11, <1>19, <2>2
  <2>3. CASE q # p
    <3>1. pull'[q] = pull[q] /\ pull[q].eng \in Writes /\ pull[q].dir # d
      BY <1>10, <1>19, <2>1, <2>3
    <3>2. pull[q].dir \in Ids
      BY <3>1, WritingRow, Numbers DEF CInv, TypeOK, RowsOK
    <3>3. parts'[pull'[q].dir] \in {NoFile, pull'[q].file}
      BY <1>11, <3>1, <3>2 DEF CInv, Apart
    <3>4. \A o \in Pull : o # q /\ pull'[o].eng \in Writes => pull'[o].dir # pull'[q].dir
      BY <1>8, <1>10, <3>1 DEF CInv, Apart
    <3>5. QED
      BY <3>3, <3>4
  <2>4. QED
    BY <2>2, <2>3
<1>21. AllLast /\ AllKeep
  <2>1. SUFFICES ASSUME NEW o \in Pull PROVE Lasts(pull[o], pull'[o]) /\ Keeps(pull[o], pull'[o])
    BY DEF AllLast, AllKeep
  <2>2. CASE o = p
    <3>1. Lasts(r, s)
      BY <1>1, <1>8 DEF Lasts, Lives
    <3>2. Keeps(r, s)
      BY <1>1, <1>8 DEF Keeps, Before, Behind, Begun
    <3>3. QED
      BY <1>10, <2>2, <3>1, <3>2
  <2>3. CASE o # p
    BY <1>10, <2>3, MovesSame DEF Moves, Goes
  <2>4. QED
    BY <2>2, <2>3
<1>22. Follows' /\ DoneMeansLanded' /\ LandingShown' /\ NewCardFree'
  <2>1. NewCardFree'
    BY <1>3 DEF CInv, NewCardFree, quiet
  <2>2. DoneMeansLanded'
    BY <1>3, <1>21 DEF CInv, DoneMeansLanded, AllLast, Lasts
  <2>3. Follows'
    <3>1. TameCards /\ CalmCards
      BY <1>3 DEF TameCards, CalmCards
    <3>2. QED
      BY <1>21, <3>1, FollowsKept DEF CInv
  <2>4. LandingShown'
    BY <1>3, <1>8, <1>10, <1>1 DEF CInv, LandingShown
  <2>5. QED
    BY <2>1, <2>2, <2>3, <2>4
<1>23. QED
  BY <1>12, <1>13, <1>14, <1>15, <1>17, <1>18, <1>20, <1>22 DEF CInv

-----------------------------------------------------------------------------
(* The application starts again: no task is left, and the table is that of *)
(* the directories and of the cards that were over.                        *)

(* What was saved before a restart says of a card what the card says, or   *)
(* that it was interrupted.                                                *)
LEMMA SavedCards ==
  ASSUME CInv, NEW saved \in {card, ShutDown}, NEW i \in Ids
  PROVE  /\ saved[i] \in CardRow /\ saved[i].file = card[i].file
         /\ saved[i].st = "none" <=> card[i].st = "none"
         /\ saved[i].st = "done" => card[i].st = "done"
<1>1. card[i] \in CardRow
  BY DEF CInv, TypeOK
<1>2. CASE saved = card
  BY <1>1, <1>2
<1>3. CASE saved = ShutDown
  <2> DEFINE to == After(card[i].st, "Interrupted")
  <2>1. /\ to \in CardState /\ (to = "none" <=> card[i].st = "none")
        /\ to = "done" => card[i].st = "done"
    BY <1>1, AfterFacts DEF CardRow
  <2>2. CASE card[i].st \in {"active", "paused", "pending"}
    <3>1. saved[i] = [card[i] EXCEPT !.st = to]
      BY <1>3, <2>2 DEF ShutDown
    <3>2. QED
      BY <1>1, <2>1, <3>1 DEF CardRow
  <2>3. CASE card[i].st \notin {"active", "paused", "pending"}
    BY <1>1, <1>3, <2>3 DEF ShutDown
  <2>4. QED
    BY <2>2, <2>3
<1>4. QED
  BY <1>2, <1>3

(* A rebuilt card is over or waits to be resumed, and has the file of its  *)
(* directory or of its saved card.                                         *)
LEMMA RebuiltCards ==
  ASSUME CInv, NEW saved \in {card, ShutDown}, NEW i \in Ids
  PROVE  LET c == Rebuilt(saved, i)
         IN /\ c \in CardRow /\ c.st \notin Shows
            /\ c.st = "done" => card[i].st = "done" /\ c.file = card[i].file
            /\ c.st # "none" => \/ parts[i] # NoFile /\ c.file = parts[i]
                                \/ parts[i] = NoFile /\ card[i].st # "none" /\ c.file = card[i].file
<1> DEFINE c == Rebuilt(saved, i)
<1>1. /\ saved[i] \in CardRow /\ saved[i].file = card[i].file
      /\ saved[i].st = "none" <=> card[i].st = "none"
      /\ saved[i].st = "done" => card[i].st = "done"
  BY SavedCards
<1>2. CASE i \in Unfinished
  <2>1. c = [st |-> "interrupted", eng |-> i, file |-> parts[i]]
    BY <1>2 DEF Rebuilt
  <2>2. parts[i] # NoFile /\ parts[i] \in Offered \cup {NoFile}
    BY <1>2 DEF Unfinished, CInv, TypeOK
  <2>3. QED
    BY <2>1, <2>2, States DEF CardRow, Shows, Terminal
<1>3. CASE i \notin Unfinished /\ saved[i].st \in Terminal \cup {"cancelling"}
  <2>1. c = [saved[i] EXCEPT !.eng = i] /\ parts[i] = NoFile
    BY <1>3 DEF Rebuilt, Unfinished
  <2>2. c \in CardRow /\ c.st = saved[i].st /\ c.file = saved[i].file
    BY <1>1, <2>1 DEF CardRow
  <2> HIDE DEF c
  <2>3. QED
    BY <1>1, <1>3, <2>1, <2>2 DEF Shows, Terminal, c
<1>4. CASE i \notin Unfinished /\ saved[i].st \notin Terminal \cup {"cancelling"}
  <2>1. c = NoCard
    BY <1>4 DEF Rebuilt
  <2>2. QED
    BY <2>1, NoCardRow DEF Shows
<1>5. QED
  BY <1>2, <1>3, <1>4

(* The application is closed and started again.                            *)
LEMMA StepRestart ==
  ASSUME CInv, Restart
  PROVE  CInv'
<1>1. PICK saved \in {card, ShutDown} : card' = [i \in Ids |-> Rebuilt(saved, i)]
  BY DEF Restart
<1>2. \A i \in Ids :
        /\ card'[i] \in CardRow /\ card'[i].st \notin Shows
        /\ card'[i].st = "done" => card[i].st = "done" /\ card'[i].file = card[i].file
        /\ card'[i].st # "none" =>
             \/ parts[i] # NoFile /\ card'[i].file = parts[i]
             \/ parts[i] = NoFile /\ card[i].st # "none" /\ card'[i].file = card[i].file
  BY <1>1, RebuiltCards
<1>3. UNCHANGED <<parts, nextJob>>
  BY DEF Restart
<1>4. /\ nextCard' \in 1 .. (Cards + 1)
      /\ \A i \in CardIds : card'[i].st # "none" => i < nextCard'
  BY NextFreeFacts DEF Restart
<1>5. ASSUME NEW p \in Pull
      PROVE  /\ pull'[p] \in PullRow /\ pull'[p].at \in {"none", "over"} /\ pull'[p].eng = "none"
             /\ pull'[p].evs = <<>> /\ pull'[p].card \in {0, pull[p].card}
             /\ pull'[p].card # 0 => card'[pull[p].card].st # "none"
             /\ pull'[p].file = pull[p].file /\ pull'[p].res = pull[p].res
             /\ pull'[p].at = "none" => pull'[p] = pull[p] /\ pull[p].card = 0 /\ pull[p].res = "none"
             /\ pull[p].card # 0 /\ card'[pull[p].card].st # "none" => pull'[p].card = pull[p].card
  <2> DEFINE r == pull[p]
  <2>1. r \in PullRow /\ RowOK(r)
    BY DEF CInv, TypeOK, RowsOK
  <2>2. CASE r.at = "none"
    <3>1. pull'[p] = r
      BY <2>2 DEF Restart
    <3>2. QED
      BY <2>1, <2>2, <3>1 DEF RowOK
  <2>3. CASE r.at # "none"
    <3> DEFINE e == Ended(r)
               k == IF Kept(r.card) THEN r.card ELSE 0
    <3>1. /\ e \in PullRow /\ e.at = "over" /\ e.card = r.card /\ e.file = r.file /\ e.res = r.res
          /\ e.eng = "none" /\ e.evs = <<>>
      BY <2>1, EndedRow
    <3>2. pull'[p] = [e EXCEPT !.card = IF Kept(e.card) THEN e.card ELSE 0]
      BY <2>3 DEF Restart
    <3>3. pull'[p] = [e EXCEPT !.card = k]
      BY <3>1, <3>2
    <3>4. k \in Ids \cup {0} /\ k \in {0, r.card}
      BY <2>1 DEF PullRow
    <3>5. /\ k # 0 => card'[r.card].st # "none"
          /\ r.card # 0 /\ card'[r.card].st # "none" => k = r.card
      BY DEF Kept
    <3> HIDE DEF e, k
    <3>6. [e EXCEPT !.card = k] \in PullRow
      BY <3>1, <3>4 DEF PullRow
    <3>7. /\ pull'[p] \in PullRow /\ pull'[p].card = k /\ pull'[p].at = e.at /\ pull'[p].eng = e.eng
          /\ pull'[p].evs = e.evs /\ pull'[p].file = e.file /\ pull'[p].res = e.res
      BY <3>1, <3>3, <3>6 DEF PullRow
    <3>8. QED
      BY <3>1, <3>4, <3>5, <3>7
  <2>4. QED
    BY <2>2, <2>3
<1>6. TypeOK'
  <2>1. card' \in [Ids -> CardRow]
    BY <1>1, <1>2
  <2>2. pull' \in [Pull -> PullRow]
    BY <1>5 DEF Restart
  <2>3. up' \in [Peers -> BOOLEAN] /\ watch' \subseteq Ids /\ retried' \subseteq Ids
    BY DEF Restart
  <2>4. QED
    BY <1>3, <1>4, <2>1, <2>2, <2>3 DEF CInv, TypeOK
<1>7. RowsOK'
  BY <1>5 DEF RowsOK, RowOK, Lives, Begun, Writes
<1>8. TableOK'
  <2>1. \A i \in Ids : parts[i] \in Offered \cup {NoFile}
    BY DEF CInv, TypeOK
  <2>2. \A i \in JobIds : i \in Ids
    BY Numbers
  <2>3. QED
    BY <1>2, <1>3, <2>1, <2>2 DEF CInv, TableOK
<1>9. OfCard'
  <2>1. SUFFICES ASSUME NEW p \in Pull, pull'[p].card # 0
                PROVE LET i == pull'[p].card IN
                        /\ i \in CardIds => i < nextCard'
                        /\ i \in JobIds => i < nextJob /\ parts[i] \in {NoFile, pull'[p].file}
                        /\ card'[i].st # "none" => card'[i].file = pull'[p].file
    BY <1>3 DEF OfCard
  <2> DEFINE i == pull[p].card
  <2>2. pull'[p].card = i /\ i # 0 /\ card'[i].st # "none" /\ pull'[p].file = pull[p].file
    BY <1>5, <2>1
  <2>3. i \in Ids
    BY <2>2 DEF CInv, TypeOK, PullRow
  <2>4. i \in CardIds => i < nextCard'
    BY <1>4, <2>2
  <2>5. i \in JobIds => i < nextJob /\ parts[i] \in {NoFile, pull[p].file}
    BY <2>2 DEF CInv, OfCard
  <2>6. card'[i].file = pull[p].file
    <3>1. CASE parts[i] # NoFile /\ card'[i].file = parts[i]
      BY <2>3, <2>5, <3>1 DEF CInv, TableOK
    <3>2. CASE card[i].st # "none" /\ card'[i].file = card[i].file
      BY <2>2, <3>2 DEF CInv, OfCard
    <3>3. QED
      BY <1>2, <2>2, <2>3, <3>1, <3>2
  <2>7. QED
    BY <2>2, <2>4, <2>5, <2>6
<1>10. Untouched' /\ Apart' /\ OnePerPeer' /\ Follows'
  BY <1>5 DEF Untouched, Apart, OnePerPeer, Running, Follows, Writes, Lives
<1>11. NewCardFree'
  <2>1. \A i \in CardIds : i \in Nat
    BY Numbers
  <2>2. nextCard' \in Nat
    BY <1>4, BoundsAssumption
  <2>3. QED
    BY <1>4, <2>1, <2>2 DEF NewCardFree
<1>12. DoneMeansLanded'
  <2>1. SUFFICES ASSUME NEW i \in Ids, card'[i].st = "done"
                PROVE \E p \in Pull : pull'[p].card = i /\ pull'[p].file = card'[i].file
                                       /\ pull'[p].res = "ok"
    BY DEF DoneMeansLanded
  <2>2. card[i].st = "done" /\ card'[i].file = card[i].file
    BY <1>2, <2>1
  <2>3. PICK p \in Pull : pull[p].card = i /\ pull[p].file = card[i].file /\ pull[p].res = "ok"
    BY <2>2 DEF CInv, DoneMeansLanded
  <2>4. i # 0
    BY Numbers
  <2>5. QED
    BY <1>5, <2>1, <2>2, <2>3, <2>4
<1>13. LandingShown'
  <2>1. SUFFICES ASSUME NEW p \in Pull, pull'[p].card # 0
                PROVE card'[pull'[p].card].st \notin Shows
    BY DEF LandingShown, Shows
  <2>2. pull'[p].card \in Ids
    BY <1>6, <2>1 DEF TypeOK, PullRow
  <2>3. QED
    BY <1>2, <2>2
<1>14. QED
  BY <1>6, <1>7, <1>8, <1>9, <1>10, <1>11, <1>12, <1>13 DEF CInv

-----------------------------------------------------------------------------
(* The theorems.                                                           *)

(* The invariant holds before anything was downloaded.                     *)
LEMMA AtFirst == Init => CInv
<1>1. SUFFICES ASSUME Init PROVE CInv
  OBVIOUS
<1>2. /\ \A i \in Ids : card[i] = NoCard /\ parts[i] = NoFile
      /\ \A p \in Pull : pull[p] = NoPull
  BY <1>1 DEF Init
<1>3. TypeOK
  BY <1>1, NoCardRow, NoPullRow, BoundsAssumption DEF Init, TypeOK
<1>4. RowsOK
  BY <1>2, NoPullRow DEF RowsOK, RowOK, Lives, Begun, Writes
<1>5. TableOK /\ NewCardFree /\ DoneMeansLanded
  BY <1>2, NoCardRow, Numbers DEF TableOK, NewCardFree, DoneMeansLanded
<1>6. OfCard /\ Untouched /\ OnePerPeer /\ Apart /\ Follows /\ LandingShown
  BY <1>2, NoPullRow
     DEF OfCard, Untouched, OnePerPeer, Running, Apart, Writes, Follows, Lives, LandingShown
<1>7. QED
  BY <1>3, <1>4, <1>5, <1>6 DEF CInv

(* Every step keeps the invariant.                                         *)
LEMMA EachStep == CInv /\ [Next]_vars => CInv'
<1>1. SUFFICES ASSUME CInv, [Next]_vars PROVE CInv'
  OBVIOUS
<1>2. CASE UNCHANGED vars
  BY <1>1, <1>2, NothingMoves DEF vars, CInv, TypeOK
<1>3. ASSUME NEW f \in Offered, StartDownload(f) PROVE CInv'
  BY <1>1, <1>3, StepStartDownload
<1>4. ASSUME NEW p \in Pull, Shell(p) \/ QueueTimeout(p) PROVE CInv'
  BY <1>1, <1>4, StepTakeGate, StepTakePeer, StepHandleEvent, StepEngineOver, StepFinish,
     StepQueueTimeout DEF Shell
<1>5. ASSUME NEW p \in Pull, Engine(p) PROVE CInv'
  BY <1>1, <1>5, StepEngineMeta, StepEngineOpens, StepEngineCtl, StepEngineFails, StepEngineLands
     DEF Engine
<1>6. ASSUME NEW i \in Ids, Resume(i) \/ Destroy(i) \/ WatchdogFires(i) PROVE CInv'
  BY <1>1, <1>6, StepResume, StepDestroy, StepWatchdog
<1>7. ASSUME NEW i \in Ids, NEW a \in Action, Control(i, a) PROVE CInv'
  BY <1>1, <1>7, StepControl
<1>8. ASSUME NEW q \in Peers, SessionDown(q) \/ SessionUp(q) PROVE CInv'
  BY <1>1, <1>8, StepSessionDown, StepSessionUp
<1>9. CASE Restart
  BY <1>1, <1>9, StepRestart
<1>10. QED
  BY <1>1, <1>2, <1>3, <1>4, <1>5, <1>6, <1>7, <1>8, <1>9 DEF Next

(* The invariant holds in every reachable state: tasks, cards and          *)
(* directories fit each other, whatever the order in which the tasks run,  *)
(* the user commands, sessions break and the application restarts.         *)
THEOREM CardsInvariant == Spec => []CInv
BY AtFirst, EachStep, PTL DEF Spec

(* While the first pull of a card writes, its card is bound to its job     *)
(* (bind_engine_id in the handler of Started).                             *)
LEMMA Reached == CInv => Controllable
<1>1. SUFFICES ASSUME CInv, NEW p \in Pull, pull[p].first, pull[p].eng \in Writes,
                     card[pull[p].card].st \in {"active", "paused"}
              PROVE card[pull[p].card].eng = pull[p].job
  BY DEF Controllable, Writes
<1>2. pull[p].at = "engine" /\ pull[p].evs \in {<<>>, <<"Started">>}
  BY <1>1, WritingRow DEF CInv, TypeOK, RowsOK
<1>3. pull[p].at \in Lives /\ card[pull[p].card].st \in Shows /\ pull[p].eng \in Begun
  BY <1>1, <1>2 DEF Lives, Shows, Begun, Writes
<1>4. CASE pull[p].evs = <<"Started">>
  <2>1. Before(pull[p])
    BY <1>4 DEF Before
  <2>2. QED
    BY <1>1, <1>3, <2>1 DEF CInv, Follows
<1>5. CASE pull[p].evs = <<>>
  BY <1>1, <1>3, <1>5 DEF CInv, Follows
<1>6. QED
  BY <1>2, <1>4, <1>5

(* What a card shows is what its pulls do: done only after a landing of    *)
(* its own, never running after one, a new card never over an old one, and *)
(* an open card always within reach of the user's commands.                *)
THEOREM CardsAlwaysSound == Spec => []CardsSound
<1>1. CInv => CardsSound
  BY Reached DEF CInv, CardsSound
<1>2. QED
  BY <1>1, CardsInvariant, PTL

(* No download directory ever has two pulls that write into it.            *)
THEOREM OneWriter == Spec => []OneWriterPerDir
<1>1. CInv => OneWriterPerDir
  <2>1. SUFFICES ASSUME CInv, NEW d \in JobIds PROVE Cardinality(Writers(d)) <= 1
    BY DEF OneWriterPerDir
  <2>2. \A p, o \in Writers(d) : p = o
    BY <2>1 DEF CInv, Apart, Writers, Writes
  <2>3. CASE Writers(d) = {}
    BY <2>3, FS_EmptySet
  <2>4. CASE Writers(d) # {}
    <3>1. PICK p \in Writers(d) : TRUE
      BY <2>4
    <3>2. Writers(d) = {p}
      BY <2>2, <3>1
    <3>3. QED
      BY <3>2, FS_Singleton
  <2>5. QED
    BY <2>3, <2>4
<1>2. QED
  BY <1>1, CardsInvariant, PTL

-----------------------------------------------------------------------------
(* Pushes. The offers that the messages of a queue with one word name, and  *)
(* a word that a queue has at most once for an offer.                       *)
Of(s, w) == {s[i].o : i \in {j \in 1 .. Len(s) : s[j].k = w}}
Single(s, w) ==
  \A i, j \in 1 .. Len(s) : s[i].k = w /\ s[j].k = w /\ s[i].o = s[j].o => i = j
Owned(s) == \A i \in 1 .. Len(s) : s[i].k # "resp" => s[i].o \in Offer

(* An offer reaches a receiver that has not begun with it, once.            *)
Offers ==
  /\ Single(toRcv, "offer") /\ \A o \in Of(toRcv, "offer") : rcv[o] = "none"
  /\ \A o \in Offer : snd[o] = "idle" => rcv[o] = "none" /\ o \notin Of(toRcv, "offer")

(* The list of a large file's chunks is asked for once; while the question  *)
(* or the answer is under way, the receiver waits or has given up.          *)
Lists ==
  /\ Single(toSnd, "metareq") /\ Single(toRcv, "meta")
  /\ Of(toSnd, "metareq") \cap Of(toRcv, "meta") = {}
  /\ \A o \in Of(toSnd, "metareq") \cup Of(toRcv, "meta") : rcv[o] \in {"meta", "failed"}

(* What is confirmed is there, and the row of a large file goes before the  *)
(* confirmation is read.                                                    *)
Confirms ==
  \A i \in 1 .. Len(toSnd) : toSnd[i].k = "jobdone" =>
    /\ rcv[toSnd[i].o] = "done"
    /\ toSnd[i].o \in WithLarge =>
         /\ <<toSnd[i].o, "large">> \in arrived
         /\ toSnd[i].o \in rows =>
              \E j \in 1 .. Len(toSnd) : j < i /\ toSnd[j].k = "ack" /\ toSnd[j].o = toSnd[i].o

(* A push that is about to clean up its rows has taken its registration     *)
(* back.                                                                    *)
Taken == \A o \in Offer : snd[o] = "ending" => o \notin registry

PInv ==
  /\ OTypeOK /\ Owned(toRcv) /\ Owned(toSnd)
  /\ Offers /\ Lists /\ Confirms /\ DoneConfirmed /\ Taken /\ NoRowLeft

LEMMA Put ==
  ASSUME NEW s \in Seq(Sent), NEW e \in Sent
  PROVE  /\ Append(s, e) \in Seq(Sent) /\ Len(Append(s, e)) = Len(s) + 1 /\ Append(s, e)[Len(s) + 1] = e
         /\ \A i \in 1 .. Len(s) : Append(s, e)[i] = s[i]
         /\ Of(Append(s, e), e.k) = Of(s, e.k) \cup {e.o}
         /\ \A w : w # e.k => Of(Append(s, e), w) = Of(s, w) /\ (Single(s, w) => Single(Append(s, e), w))
         /\ Single(s, e.k) /\ e.o \notin Of(s, e.k) => Single(Append(s, e), e.k)
         /\ Owned(s) /\ (e.k # "resp" => e.o \in Offer) => Owned(Append(s, e))
<1>1. /\ Append(s, e) \in Seq(Sent) /\ Len(Append(s, e)) = Len(s) + 1 /\ Len(s) \in Nat
      /\ Append(s, e)[Len(s) + 1] = e
      /\ \A i \in 1 .. Len(s) : Append(s, e)[i] = s[i]
  OBVIOUS
<1>2. \A i \in 1 .. Len(s) + 1 : i \in 1 .. Len(s) \/ i = Len(s) + 1
  BY <1>1
<1>3. 1 .. Len(s) \subseteq 1 .. Len(s) + 1 /\ Len(s) + 1 \in 1 .. Len(s) + 1 /\ Len(s) + 1 \notin 1 .. Len(s)
  BY <1>1
<1>4. Of(Append(s, e), e.k) = Of(s, e.k) \cup {e.o}
  BY <1>1, <1>2, <1>3 DEF Of
<1>5. ASSUME NEW w, w # e.k PROVE Of(Append(s, e), w) = Of(s, w) /\ (Single(s, w) => Single(Append(s, e), w))
  BY <1>1, <1>2, <1>3, <1>5 DEF Of, Single
<1>6. Single(s, e.k) /\ e.o \notin Of(s, e.k) => Single(Append(s, e), e.k)
  BY <1>1, <1>2, <1>3 DEF Of, Single
<1>7. Owned(s) /\ (e.k # "resp" => e.o \in Offer) => Owned(Append(s, e))
  BY <1>1, <1>2 DEF Owned
<1> QED
  BY <1>1, <1>4, <1>5, <1>6, <1>7

LEMMA Took ==
  ASSUME NEW s \in Seq(Sent), s # <<>>
  PROVE  /\ Tail(s) \in Seq(Sent) /\ Head(s) \in Sent /\ Head(s) = s[1] /\ 1 \in 1 .. Len(s)
         /\ Len(Tail(s)) = Len(s) - 1
         /\ \A i \in 1 .. Len(Tail(s)) : i + 1 \in 1 .. Len(s) /\ Tail(s)[i] = s[i + 1]
         /\ \A i \in 1 .. Len(s) : i # 1 => i - 1 \in 1 .. Len(Tail(s)) /\ Tail(s)[i - 1] = s[i]
         /\ Head(s).o \in Of(s, Head(s).k)
         /\ \A w : Of(Tail(s), w) \subseteq Of(s, w) /\ (Single(s, w) => Single(Tail(s), w))
         /\ Single(s, Head(s).k) => Head(s).o \notin Of(Tail(s), Head(s).k)
         /\ Owned(s) => Owned(Tail(s)) /\ (Head(s).k # "resp" => Head(s).o \in Offer)
<1>1. /\ Tail(s) \in Seq(Sent) /\ Head(s) \in Sent /\ Head(s) = s[1]
      /\ Len(s) \in Nat /\ Len(s) >= 1 /\ Len(Tail(s)) = Len(s) - 1
      /\ \A i \in 1 .. Len(Tail(s)) : Tail(s)[i] = s[i + 1]
  OBVIOUS
<1>2. 1 \in 1 .. Len(s) /\ \A i \in 1 .. Len(Tail(s)) : i + 1 \in 1 .. Len(s) /\ i + 1 # 1
  BY <1>1
<1>3. \A i \in 1 .. Len(s) : i # 1 => i - 1 \in 1 .. Len(Tail(s)) /\ Tail(s)[i - 1] = s[i]
  BY <1>1
<1>4. Head(s).o \in Of(s, Head(s).k)
  BY <1>1, <1>2 DEF Of
<1>5. ASSUME NEW w PROVE Of(Tail(s), w) \subseteq Of(s, w) /\ (Single(s, w) => Single(Tail(s), w))
  <2>1. Of(Tail(s), w) \subseteq Of(s, w)
    BY <1>1, <1>2 DEF Of
  <2>2. Single(s, w) => Single(Tail(s), w)
    BY <1>1, <1>2 DEF Single
  <2> QED
    BY <2>1, <2>2
<1>6. Single(s, Head(s).k) => Head(s).o \notin Of(Tail(s), Head(s).k)
  BY <1>1, <1>2 DEF Of, Single
<1>7. Owned(s) => Owned(Tail(s)) /\ (Head(s).k # "resp" => Head(s).o \in Offer)
  BY <1>1, <1>2 DEF Owned
<1> QED
  BY <1>1, <1>2, <1>3, <1>4, <1>5, <1>6, <1>7

LEMMA PushBegins == OInit => PInv
<1> SUFFICES ASSUME OInit PROVE PInv
  OBVIOUS
<1>1. /\ toRcv = <<>> /\ toSnd = <<>> /\ Len(<<>>) = 0 /\ <<>> \in Seq(Sent) /\ Owned(<<>>)
      /\ \A w : Of(<<>>, w) = {} /\ Single(<<>>, w)
  BY DEF OInit, Of, Single, Owned
<1>2. OTypeOK
  BY <1>1, PushAssumption DEF OInit, OTypeOK, Over, Part
<1>3. Offers /\ Lists /\ Confirms
  BY <1>1 DEF OInit, Offers, Lists, Confirms
<1>4. DoneConfirmed /\ Taken /\ NoRowLeft
  BY DEF OInit, DoneConfirmed, Taken, NoRowLeft
<1> QED
  BY <1>1, <1>2, <1>3, <1>4 DEF PInv

(* A push moves on by itself.                                               *)
LEMMA SenderStep ==
  ASSUME PInv, NEW o \in Offer, Cancelled(o) \/ SndStep(o)
  PROVE  PInv'
<1>1. /\ UNCHANGED <<skip, toRcv, toSnd, rcv, snap, index, arrived, misled, astray, uncopied>>
      /\ snd[o] \notin {"idle"} \cup Over
      /\ \E st \in {"waiting", "batched", "confirm", "ending", "leaving", "failed", "left", "done"} :
           /\ snd' = [snd EXCEPT ![o] = st]
           /\ st = "done" => Small(o) = {} /\ o \notin WithLarge
           /\ st = "failed" => snd[o] = "ending"
           /\ rows' = IF st \in {"failed", "left"} THEN rows \ {o} ELSE rows
           /\ registry' = IF st = "ending" THEN registry \ {o} ELSE registry
  BY DEF Cancelled, SndStep, Subscribe, Unanswered, NoSession, Unconfirmed, CleanedUp, Batch, BatchFails, Fails,
         receiver, Over
<1>2. streams' \subseteq [o : Offer, parts : SUBSET Part]
  <2>1. \A ps \in {{}, Small(o) \cap {"new"}, Small(o)} : [o |-> o, parts |-> ps] \in [o : Offer, parts : SUBSET Part]
    BY DEF Small, Part
  <2> QED
    BY <2>1 DEF Cancelled, SndStep, Subscribe, Unanswered, NoSession, Unconfirmed, CleanedUp, Batch, BatchFails, Fails,
       PInv, OTypeOK
<1>3. OTypeOK'
  BY <1>1, <1>2 DEF PInv, OTypeOK, Over
<1>4. Offers'
  BY <1>1 DEF PInv, OTypeOK, Offers
<1>5. Lists' /\ Owned(toRcv)' /\ Owned(toSnd)'
  BY <1>1 DEF PInv, Lists
<1>6. Confirms'
  <2>1. rows' \subseteq rows
    BY <1>1
  <2> QED
    BY <1>1, <2>1 DEF PInv, Confirms
<1>7. DoneConfirmed'
  <2>1. \A x : Small(x)' = Small(x)
    BY <1>1 DEF Small
  <2> QED
    BY <1>1, <2>1 DEF PInv, OTypeOK, DoneConfirmed
<1>8. Taken' /\ NoRowLeft'
  BY <1>1 DEF PInv, OTypeOK, Taken, NoRowLeft, Over
<1> QED
  BY <1>3, <1>4, <1>5, <1>6, <1>7, <1>8 DEF PInv

(* An offer goes out.                                                       *)
LEMMA OfferStep ==
  ASSUME PInv, NEW o \in Offer, Push(o)
  PROVE  PInv'
<1> DEFINE e == Msg("offer", o)
<1>1. /\ UNCHANGED <<skip, rows, toSnd, streams, rcv, snap, index, arrived, misled, astray, uncopied>>
      /\ snd[o] = "idle" /\ registry' = registry \cup ({o} \cap WithLarge)
      /\ \/ snd' = [snd EXCEPT ![o] = "sent"] /\ toRcv' = Append(toRcv, e)
         \/ snd' = [snd EXCEPT ![o] = "leaving"] /\ toRcv' = toRcv
      /\ toRcv \in Seq(Sent) /\ e \in Sent /\ e.k = "offer" /\ e.o = o
  BY DEF Push, Msg, Sent, PInv, OTypeOK, receiver
<1> HIDE DEF e
<1>2. /\ toRcv' \in Seq(Sent)
      /\ Of(toRcv', "offer") \subseteq Of(toRcv, "offer") \cup {o}
      /\ Single(toRcv, "offer") /\ o \notin Of(toRcv, "offer") => Single(toRcv', "offer")
      /\ Of(toRcv', "meta") = Of(toRcv, "meta") /\ (Single(toRcv, "meta") => Single(toRcv', "meta"))
      /\ Owned(toRcv) => Owned(toRcv')
  <2>1. CASE toRcv' = Append(toRcv, e)
    <3>1. /\ Append(toRcv, e) \in Seq(Sent)
          /\ Of(Append(toRcv, e), e.k) = Of(toRcv, e.k) \cup {e.o}
          /\ \A w : w # e.k => Of(Append(toRcv, e), w) = Of(toRcv, w) /\ (Single(toRcv, w) => Single(Append(toRcv, e), w))
          /\ Single(toRcv, e.k) /\ e.o \notin Of(toRcv, e.k) => Single(Append(toRcv, e), e.k)
          /\ Owned(toRcv) /\ (e.k # "resp" => e.o \in Offer) => Owned(Append(toRcv, e))
      BY <1>1, Put
    <3> QED
      BY <1>1, <2>1, <3>1
  <2>2. CASE toRcv' = toRcv
    BY <1>1, <2>2
  <2> QED
    BY <1>1, <2>1, <2>2
<1>3. OTypeOK'
  BY <1>1, <1>2 DEF PInv, OTypeOK, Over
<1>4. Offers' /\ Lists' /\ Owned(toRcv)' /\ Owned(toSnd)'
  BY <1>1, <1>2 DEF PInv, OTypeOK, Offers, Lists
<1>5. Confirms'
  <2>1. UNCHANGED <<toSnd, rcv, rows, arrived>> /\ Confirms
    BY <1>1 DEF PInv
  <2> QED
    BY <2>1 DEF Confirms
<1>6. DoneConfirmed'
  <2>1. \A x : Small(x)' = Small(x)
    BY <1>1 DEF Small
  <2> QED
    BY <1>1, <2>1 DEF PInv, OTypeOK, DoneConfirmed
<1>7. Taken' /\ NoRowLeft'
  BY <1>1 DEF PInv, OTypeOK, Taken, NoRowLeft
<1> QED
  BY <1>3, <1>4, <1>5, <1>6, <1>7 DEF PInv

(* The sender reads a message: what follows it in the queue moves up.       *)
LEMMA ReadConfirms ==
  ASSUME PInv, toSnd # <<>>, toSnd' = Tail(toSnd), UNCHANGED <<rcv, arrived>>,
         \A x \in rows' : \/ x \in rows /\ (Head(toSnd).k = "ack" => x # Head(toSnd).o)
                          \/ rcv[x] # "done"
  PROVE  Confirms'
<1>0. toSnd \in Seq(Sent)
  BY DEF PInv, OTypeOK
<1>1. /\ toSnd[1] = Head(toSnd)
      /\ \A i \in 1 .. Len(toSnd') : i + 1 \in 1 .. Len(toSnd) /\ toSnd'[i] = toSnd[i + 1]
      /\ \A i \in 1 .. Len(toSnd) : i # 1 => i - 1 \in 1 .. Len(toSnd') /\ toSnd'[i - 1] = toSnd[i]
  BY <1>0, Took
<1> SUFFICES ASSUME NEW i \in 1 .. Len(toSnd'), toSnd'[i].k = "jobdone"
             PROVE  /\ rcv[toSnd'[i].o] = "done"
                    /\ toSnd'[i].o \in WithLarge =>
                         /\ <<toSnd'[i].o, "large">> \in arrived
                         /\ toSnd'[i].o \in rows' =>
                              \E j \in 1 .. Len(toSnd') : j < i /\ toSnd'[j].k = "ack" /\ toSnd'[j].o = toSnd'[i].o
  BY DEF Confirms
<1>2. /\ i + 1 \in 1 .. Len(toSnd) /\ toSnd'[i] = toSnd[i + 1] /\ rcv[toSnd'[i].o] = "done"
      /\ toSnd'[i].o \in WithLarge =>
           /\ <<toSnd'[i].o, "large">> \in arrived
           /\ toSnd'[i].o \in rows =>
                \E j \in 1 .. Len(toSnd) : j < i + 1 /\ toSnd[j].k = "ack" /\ toSnd[j].o = toSnd'[i].o
  BY <1>1 DEF PInv, Confirms
<1>3. ASSUME toSnd'[i].o \in WithLarge, toSnd'[i].o \in rows'
      PROVE  \E j \in 1 .. Len(toSnd') : j < i /\ toSnd'[j].k = "ack" /\ toSnd'[j].o = toSnd'[i].o
  <2>1. toSnd'[i].o \in rows /\ (Head(toSnd).k = "ack" => toSnd'[i].o # Head(toSnd).o)
    BY <1>2, <1>3
  <2>2. PICK j \in 1 .. Len(toSnd) : j < i + 1 /\ toSnd[j].k = "ack" /\ toSnd[j].o = toSnd'[i].o
    BY <1>2, <1>3, <2>1
  <2>3. j # 1
    BY <1>1, <2>1, <2>2
  <2>4. j - 1 \in 1 .. Len(toSnd') /\ toSnd'[j - 1] = toSnd[j]
    BY <1>1, <2>3
  <2>5. j - 1 < i
    BY <2>2
  <2>6. toSnd'[j - 1].k = "ack" /\ toSnd'[j - 1].o = toSnd'[i].o
    BY <2>2, <2>4
  <2> QED
    BY <2>4, <2>5, <2>6
<1> QED
  BY <1>2, <1>3

LEMMA SenderReadsStep ==
  ASSUME PInv, SenderReads
  PROVE  PInv'
<1> DEFINE m == Head(toSnd)
<1>0. toSnd # <<>> /\ toSnd' = Tail(toSnd) /\ toSnd \in Seq(Sent) /\ toRcv \in Seq(Sent)
      /\ UNCHANGED <<rcv, snap, index, arrived, streams, astray, uncopied>>
  BY DEF SenderReads, receiver, PInv, OTypeOK
<1>1. /\ toSnd' \in Seq(Sent) /\ m \in Sent /\ m = toSnd[1] /\ 1 \in 1 .. Len(toSnd)
      /\ m.o \in Of(toSnd, m.k)
      /\ \A w : Of(toSnd', w) \subseteq Of(toSnd, w) /\ (Single(toSnd, w) => Single(toSnd', w))
      /\ Single(toSnd, m.k) => m.o \notin Of(toSnd', m.k)
      /\ Owned(toSnd') /\ (m.k # "resp" => m.o \in Offer)
  BY <1>0, Took DEF PInv
<1> HIDE DEF m
<1>2. CASE HearsResp(m) \/ HearsEnd(m)
  <2> DEFINE those == IF m.k = "resp" THEN {o \in Offer : snd[o] = "waiting"}
                                      ELSE {o \in Offer : snd[o] = "confirm" /\ o = m.o}
             st == IF m.k = "resp" THEN IF m.ok THEN "going" ELSE "ending"
                                   ELSE IF m.k = "jobdone" THEN "done" ELSE "ending"
  <2>1. /\ snd' = [o \in Offer |-> IF o \in those THEN st ELSE snd[o]]
        /\ skip' \in [Offer -> SUBSET Part] /\ \A o \in Offer : o \notin those \/ m.k # "resp" => skip'[o] = skip[o]
        /\ registry' = IF st = "going" THEN registry ELSE registry \ those
        /\ misled \subseteq misled' /\ misled' \subseteq Offer
        /\ UNCHANGED <<rows, toRcv>> /\ m.k \in {"resp", "jobdone", "jobfailed"}
    <3>1. CASE HearsResp(m)
      BY <3>1 DEF HearsResp, PInv, OTypeOK
    <3>2. CASE HearsEnd(m)
      BY <3>2 DEF HearsEnd, PInv, OTypeOK
    <3> QED
      BY <1>2, <3>1, <3>2
  <2>2. /\ those \subseteq Offer /\ \A o \in those : snd[o] \in {"waiting", "confirm"}
        /\ st \in {"going", "ending", "done"} /\ (st = "done" => m.k = "jobdone" /\ \A o \in those : o = m.o)
        /\ \A o \in those : m.k = "resp" => snd[o] = "waiting"
    OBVIOUS
  <2> HIDE DEF those, st
  <2>3. OTypeOK'
    <3>1. snd' \in [Offer -> {"idle", "sent", "waiting", "going", "batched", "confirm", "ending", "leaving"} \cup Over]
      BY <2>1, <2>2 DEF PInv, OTypeOK, Over
    <3> QED
      BY <1>0, <1>1, <2>1, <3>1 DEF PInv, OTypeOK
  <2>4. Offers'
    BY <1>0, <2>1, <2>2 DEF PInv, Offers
  <2>5. Lists' /\ Owned(toRcv)' /\ Owned(toSnd)'
    BY <1>0, <1>1, <2>1 DEF PInv, Lists
  <2>6. Confirms'
    BY <1>0, <2>1, ReadConfirms DEF m
  <2>7. st = "done" => \A o \in those : rcv[o] = "done" /\ (o \in WithLarge => <<o, "large">> \in arrived /\ o \notin rows)
    <3>1. ASSUME m.k = "jobdone"
          PROVE  rcv[m.o] = "done" /\ (m.o \in WithLarge => <<m.o, "large">> \in arrived /\ m.o \notin rows)
      <4>1. ~\E j \in 1 .. Len(toSnd) : j < 1
        BY <1>0
      <4> QED
        BY <1>1, <3>1, <4>1 DEF PInv, Confirms
    <3> QED
      BY <2>2, <3>1
  <2>8. DoneConfirmed'
    <3> SUFFICES ASSUME NEW o \in Offer, snd'[o] = "done", Small(o)' # {} \/ o \in WithLarge
                 PROVE  rcv[o] = "done" /\ (o \in WithLarge => <<o, "large">> \in arrived)
      BY <1>0 DEF DoneConfirmed
    <3>1. CASE o \in those
      BY <2>1, <2>7, <3>1
    <3>2. CASE o \notin those
      <4>1. snd[o] = "done" /\ skip'[o] = skip[o]
        BY <2>1, <3>2
      <4>2. Small(o)' = Small(o)
        BY <4>1 DEF Small
      <4> QED
        BY <4>1, <4>2 DEF PInv, DoneConfirmed
    <3> QED
      BY <3>1, <3>2
  <2>9. Taken' /\ NoRowLeft'
    <3>1. ASSUME NEW o \in Offer, o \in those
          PROVE  /\ snd'[o] = st /\ (st # "going" => o \notin registry')
                 /\ st = "done" => o \notin rows
      <4>1. st = "done" => o \notin rows
        BY <2>7, <3>1 DEF PInv, OTypeOK
      <4> QED
        BY <2>1, <3>1, <4>1
    <3>2. ASSUME NEW o \in Offer, o \notin those
          PROVE  snd'[o] = snd[o] /\ (o \notin registry => o \notin registry')
      BY <2>1, <3>2
    <3> QED
      BY <2>1, <2>2, <3>1, <3>2 DEF PInv, Taken, NoRowLeft
  <2> QED
    BY <2>3, <2>4, <2>5, <2>6, <2>8, <2>9 DEF PInv
<1>3. CASE HearsAck(m)
  <2>1. m.k = "ack" /\ rows' = rows \ {m.o} /\ UNCHANGED <<snd, skip, registry, misled, toRcv>>
    BY <1>3 DEF HearsAck
  <2>2. OTypeOK'
    BY <1>0, <1>1, <2>1 DEF PInv, OTypeOK
  <2>3. Offers' /\ Lists' /\ Owned(toRcv)' /\ Owned(toSnd)'
    BY <1>0, <1>1, <2>1 DEF PInv, Offers, Lists
  <2>4. Confirms'
    BY <1>0, <2>1, ReadConfirms DEF m
  <2>5. DoneConfirmed' /\ Taken' /\ NoRowLeft'
    BY <1>0, <2>1 DEF PInv, DoneConfirmed, Taken, NoRowLeft, Small
  <2> QED
    BY <2>2, <2>3, <2>4, <2>5 DEF PInv
<1>4. CASE ServesMeta(m)
  <2> DEFINE e == Msg("meta", m.o)
  <2>1. /\ m.k = "metareq" /\ UNCHANGED <<snd, skip, registry, misled>> /\ m.o \in Offer
        /\ \/ m.o \in registry /\ rows' = rows \cup {m.o} /\ toRcv' = Append(toRcv, e)
           \/ UNCHANGED <<rows, toRcv>>
    BY <1>1, <1>4 DEF ServesMeta
  <2>2. e \in Sent /\ e.k = "meta" /\ e.o = m.o
    BY <2>1 DEF Msg, Sent
  <2> HIDE DEF e
  <2>3. /\ m.o \notin Of(toSnd', "metareq") /\ m.o \notin Of(toRcv, "meta") /\ rcv[m.o] \in {"meta", "failed"}
    BY <1>1, <2>1 DEF PInv, Lists
  <2>11. /\ Append(toRcv, e) \in Seq(Sent)
         /\ Of(Append(toRcv, e), e.k) = Of(toRcv, e.k) \cup {e.o}
         /\ \A w : w # e.k => Of(Append(toRcv, e), w) = Of(toRcv, w) /\ (Single(toRcv, w) => Single(Append(toRcv, e), w))
         /\ Single(toRcv, e.k) /\ e.o \notin Of(toRcv, e.k) => Single(Append(toRcv, e), e.k)
         /\ Owned(toRcv) /\ (e.k # "resp" => e.o \in Offer) => Owned(Append(toRcv, e))
    BY <1>0, <2>2, Put
  <2>4. /\ Append(toRcv, e) \in Seq(Sent)
        /\ Of(Append(toRcv, e), "meta") = Of(toRcv, "meta") \cup {m.o}
        /\ Of(Append(toRcv, e), "offer") = Of(toRcv, "offer")
        /\ Single(toRcv, "offer") => Single(Append(toRcv, e), "offer")
        /\ Single(toRcv, "meta") /\ m.o \notin Of(toRcv, "meta") => Single(Append(toRcv, e), "meta")
        /\ Owned(toRcv) => Owned(Append(toRcv, e))
    BY <2>1, <2>2, <2>11
  <2>5. /\ toRcv' \in Seq(Sent) /\ Of(toRcv', "meta") \subseteq Of(toRcv, "meta") \cup {m.o}
        /\ Of(toRcv', "offer") = Of(toRcv, "offer")
        /\ Single(toRcv', "offer") /\ Single(toRcv', "meta") /\ Owned(toRcv')
    BY <1>0, <2>1, <2>3, <2>4 DEF PInv, Offers, Lists
  <2>6. OTypeOK'
    BY <1>0, <1>1, <2>1, <2>5 DEF PInv, OTypeOK
  <2>7. Offers'
    BY <1>0, <2>1, <2>5 DEF PInv, Offers
  <2>8. Lists' /\ Owned(toRcv)' /\ Owned(toSnd)'
    BY <1>0, <1>1, <2>3, <2>5 DEF PInv, Lists
  <2>9. Confirms'
    <3>1. \A x \in rows' : x \in rows \/ rcv[x] # "done"
      BY <2>1, <2>3
    <3> QED
      BY <1>0, <2>1, <3>1, ReadConfirms DEF m
  <2>10. DoneConfirmed' /\ Taken' /\ NoRowLeft'
    BY <1>0, <2>1 DEF PInv, DoneConfirmed, Taken, NoRowLeft, Small
  <2> QED
    BY <2>6, <2>7, <2>8, <2>9, <2>10 DEF PInv
<1> QED
  BY <1>2, <1>3, <1>4 DEF SenderReads, m

(* The receiver moves on with one offer, and its answer goes out.           *)
LEMMA ReceiverMoves ==
  ASSUME PInv, NEW o \in Offer, UNCHANGED sender, OTypeOK', Owned(toRcv)', Owned(toSnd)',
         rcv[o] # "done", \A x \in Offer : x # o => rcv'[x] = rcv[x],
         arrived \subseteq arrived', snd[o] # "idle",
         Single(toRcv, "offer")', Of(toRcv', "offer") \subseteq Of(toRcv, "offer"), o \notin Of(toRcv', "offer"),
         Lists', Confirms'
  PROVE  PInv'
<1>1. Offers'
  <2>1. \A x \in Of(toRcv, "offer")' : x \in Offer
    BY DEF Of, Owned
  <2> QED
    BY <2>1 DEF PInv, Offers, sender
<1>2. DoneConfirmed'
  <2>1. \A x : Small(x)' = Small(x)
    BY DEF Small, sender
  <2> QED
    BY <2>1 DEF PInv, DoneConfirmed, sender
<1>3. Taken' /\ NoRowLeft'
  BY DEF PInv, Taken, NoRowLeft, sender
<1> QED
  BY <1>1, <1>2, <1>3 DEF PInv

LEMMA Answered ==
  ASSUME PInv, NEW e \in Sent, toSnd' = Append(toSnd, e), UNCHANGED rows, arrived \subseteq arrived',
         \A x \in Offer : rcv[x] = "done" => rcv'[x] = "done",
         e.k = "jobdone" => rcv'[e.o] = "done" /\ e.o \notin WithLarge
  PROVE  Confirms'
<1>1. /\ Len(toSnd') = Len(toSnd) + 1 /\ toSnd'[Len(toSnd) + 1] = e /\ Len(toSnd) \in Nat
      /\ \A i \in 1 .. Len(toSnd) : toSnd'[i] = toSnd[i]
  <2>1. toSnd \in Seq(Sent)
    BY DEF PInv, OTypeOK
  <2> QED
    BY <2>1, Put
<1>2. \A i \in 1 .. Len(toSnd') : i \in 1 .. Len(toSnd) \/ i = Len(toSnd) + 1
  BY <1>1
<1>3. \A i \in 1 .. Len(toSnd) : i \in 1 .. Len(toSnd')
  BY <1>1
<1>4. \A i \in 1 .. Len(toSnd) : toSnd[i].k = "jobdone" => toSnd[i].o \in Offer
  BY DEF PInv, Owned
<1> QED
  BY <1>1, <1>2, <1>3, <1>4 DEF PInv, Confirms

LEMMA Unread ==
  ASSUME PInv, UNCHANGED <<rows, toSnd>>, arrived \subseteq arrived',
         \A x \in Offer : rcv[x] = "done" => rcv'[x] = "done"
  PROVE  Confirms'
<1>1. \A i \in 1 .. Len(toSnd) : toSnd[i].k = "jobdone" => toSnd[i].o \in Offer
  BY DEF PInv, Owned
<1> QED
  BY <1>1 DEF PInv, Confirms

LEMMA DecidesWell ==
  ASSUME PInv, NEW o \in Offer, NEW ok \in BOOLEAN, Decided(o, ok)
  PROVE  /\ toSnd' = Append(toSnd, Resp(o, ok, ok /\ Held(o))) /\ Resp(o, ok, ok /\ Held(o)) \in Sent
         /\ Resp(o, ok, ok /\ Held(o)).k = "resp"
         /\ toSnd' \in Seq(Sent) /\ Owned(toSnd)'
         /\ Of(toSnd', "metareq") = Of(toSnd, "metareq") /\ Single(toSnd', "metareq")
         /\ \E st \in {"small", "refused"} : rcv' = [rcv EXCEPT ![o] = st]
         /\ snap' \in [Offer -> SUBSET (Offer \X Part)]
<1> DEFINE e == Resp(o, ok, ok /\ Held(o))
<1>1. toSnd' = Append(toSnd, e) /\ e \in Sent /\ e.k = "resp" /\ toSnd \in Seq(Sent)
  BY DEF Decided, Resp, Sent, PInv, OTypeOK
<1>2. /\ \E st \in {"small", "refused"} : rcv' = [rcv EXCEPT ![o] = st]
      /\ snap' \in [Offer -> SUBSET (Offer \X Part)]
  BY DEF Decided, PInv, OTypeOK
<1> HIDE DEF e
<1>3. /\ Append(toSnd, e) \in Seq(Sent)
      /\ \A w : w # e.k => Of(Append(toSnd, e), w) = Of(toSnd, w) /\ (Single(toSnd, w) => Single(Append(toSnd, e), w))
      /\ Owned(toSnd) /\ (e.k # "resp" => e.o \in Offer) => Owned(Append(toSnd, e))
  BY <1>1, Put
<1>4. /\ toSnd' \in Seq(Sent) /\ Owned(toSnd)'
      /\ Of(toSnd', "metareq") = Of(toSnd, "metareq") /\ Single(toSnd', "metareq")
  BY <1>1, <1>3 DEF PInv, Lists
<1> QED
  BY <1>1, <1>2, <1>4 DEF e

(* The receiver's own steps.                                                *)
LEMMA ReceiverStep ==
  ASSUME PInv, NEW o \in Offer, RcvStep(o)
  PROVE  PInv'
<1>0. /\ UNCHANGED <<sender, toRcv>> /\ toSnd \in Seq(Sent) /\ rcv[o] \in {"asked", "small", "place", "large", "meta", "fetch"}
      /\ rcv[o] # "done" /\ snd[o] # "idle" /\ o \notin Of(toRcv, "offer")
  BY DEF RcvStep, Answers, RcvSmall, RcvPlace, RcvLarge, RcvFetched, RcvTimeout, RcvFails, PInv, OTypeOK, Offers
<1>1. Single(toRcv, "offer")' /\ Owned(toRcv)' /\ Of(toRcv', "offer") \subseteq Of(toRcv, "offer") /\ o \notin Of(toRcv', "offer")
  BY <1>0 DEF PInv, Offers
<1>2. CASE Answers(o)
  <2>1. PICK ok \in BOOLEAN : Decided(o, ok)
    BY <1>2 DEF Answers
  <2>2. rcv[o] = "asked" /\ UNCHANGED <<streams, index, arrived, astray, uncopied>>
    BY <1>2 DEF Answers
  <2>3. PICK st \in {"small", "refused"} : rcv' = [rcv EXCEPT ![o] = st]
    BY <2>1, DecidesWell
  <2> DEFINE e == Resp(o, ok, ok /\ Held(o))
  <2>4. /\ toSnd' = Append(toSnd, e) /\ e \in Sent /\ e.k = "resp"
        /\ toSnd' \in Seq(Sent) /\ Owned(toSnd)'
        /\ Of(toSnd', "metareq") = Of(toSnd, "metareq") /\ Single(toSnd', "metareq")
        /\ snap' \in [Offer -> SUBSET (Offer \X Part)]
    BY <2>1, DecidesWell
  <2> HIDE DEF e
  <2>5. \A x \in Offer : x # o => rcv'[x] = rcv[x]
    BY <2>3 DEF PInv, OTypeOK
  <2>6. OTypeOK'
    BY <1>0, <2>2, <2>3, <2>4 DEF PInv, OTypeOK, sender
  <2>7. Lists'
    BY <1>0, <2>2, <2>3, <2>4 DEF PInv, Lists, OTypeOK
  <2>8. Confirms'
    <3>1. UNCHANGED rows /\ arrived \subseteq arrived' /\ \A x \in Offer : rcv[x] = "done" => rcv'[x] = "done"
      BY <1>0, <2>2, <2>5 DEF sender
    <3> QED
      BY <2>4, <3>1, Answered
  <2> QED
    BY <1>0, <1>1, <2>2, <2>4, <2>5, <2>6, <2>7, <2>8, ReceiverMoves
<1>3. CASE RcvSmall(o) \/ RcvPlace(o)
  <2>1. UNCHANGED <<toSnd, snap>> /\ rcv[o] \in {"small", "place"} /\ \E st \in {"place", "large"} : rcv' = [rcv EXCEPT ![o] = st]
    BY <1>3 DEF RcvSmall, RcvPlace
  <2>2. /\ arrived \subseteq arrived' /\ streams' \subseteq streams
        /\ arrived' \subseteq Offer \X Part /\ index' \subseteq Offer \X Part
        /\ astray' \subseteq Offer /\ uncopied' \subseteq Offer
    <3>1. CASE RcvSmall(o)
      <4>1. \A s \in streams : {s.o} \X s.parts \subseteq Offer \X Part
        BY DEF PInv, OTypeOK
      <4> QED
        BY <3>1, <4>1 DEF RcvSmall, PInv, OTypeOK
    <3>2. CASE RcvPlace(o)
      <4>1. <<o, "held">> \in Offer \X Part
        BY DEF Part
      <4> QED
        BY <3>2, <4>1 DEF RcvPlace, PInv, OTypeOK
    <3> QED
      BY <1>3, <3>1, <3>2
  <2>3. \A x \in Offer : x # o => rcv'[x] = rcv[x]
    BY <2>1 DEF PInv, OTypeOK
  <2>4. OTypeOK' /\ Owned(toSnd)'
    BY <1>0, <2>1, <2>2 DEF PInv, OTypeOK, sender
  <2>5. Lists'
    BY <1>0, <2>1 DEF PInv, Lists, OTypeOK
  <2>6. Confirms'
    <3>1. UNCHANGED rows /\ \A x \in Offer : rcv[x] = "done" => rcv'[x] = "done"
      BY <1>0, <2>3 DEF sender
    <3> QED
      BY <2>1, <2>2, <3>1, Unread
  <2> QED
    BY <1>0, <1>1, <2>2, <2>3, <2>4, <2>5, <2>6, ReceiverMoves
<1>4. CASE RcvLarge(o) \/ RcvTimeout(o)
  <2>1. /\ UNCHANGED <<streams, snap, index, arrived, astray, uncopied>>
        /\ \E w \in {"metareq", "jobdone", "jobfailed"} :
             /\ toSnd' = Append(toSnd, Msg(w, o))
             /\ rcv' = [rcv EXCEPT ![o] = IF w = "metareq" THEN "meta" ELSE IF w = "jobdone" THEN "done" ELSE "failed"]
             /\ w # "jobfailed" => rcv[o] = "large"
             /\ w = "jobdone" => o \notin WithLarge
    BY <1>4 DEF RcvLarge, RcvTimeout, RcvFails
  <2>2. PICK w \in {"metareq", "jobdone", "jobfailed"} :
             /\ toSnd' = Append(toSnd, Msg(w, o))
             /\ rcv' = [rcv EXCEPT ![o] = IF w = "metareq" THEN "meta" ELSE IF w = "jobdone" THEN "done" ELSE "failed"]
             /\ w # "jobfailed" => rcv[o] = "large"
             /\ w = "jobdone" => o \notin WithLarge
    BY <2>1
  <2> DEFINE e == Msg(w, o)
  <2>3. toSnd' = Append(toSnd, e) /\ e \in Sent /\ e.k = w /\ e.o = o
    BY <2>2 DEF Msg, Sent
  <2> HIDE DEF e
  <2>4. /\ Append(toSnd, e) \in Seq(Sent)
        /\ Of(Append(toSnd, e), e.k) = Of(toSnd, e.k) \cup {e.o}
        /\ \A v : v # e.k => Of(Append(toSnd, e), v) = Of(toSnd, v) /\ (Single(toSnd, v) => Single(Append(toSnd, e), v))
        /\ Single(toSnd, e.k) /\ e.o \notin Of(toSnd, e.k) => Single(Append(toSnd, e), e.k)
        /\ Owned(toSnd) /\ (e.k # "resp" => e.o \in Offer) => Owned(Append(toSnd, e))
    BY <1>0, <2>3, Put
  <2>5. toSnd' \in Seq(Sent) /\ Owned(toSnd)'
    BY <2>3, <2>4 DEF PInv
  <2>6. \A x \in Offer : x # o => rcv'[x] = rcv[x]
    BY <2>2 DEF PInv, OTypeOK
  <2>7. OTypeOK'
    BY <1>0, <2>1, <2>2, <2>5 DEF PInv, OTypeOK, sender, Over
  <2>8. Lists'
    <3>1. rcv'[o] = IF w = "metareq" THEN "meta" ELSE IF w = "jobdone" THEN "done" ELSE "failed"
      BY <2>2 DEF PInv, OTypeOK
    <3>2. CASE w = "metareq"
      <4>1. o \notin Of(toSnd, "metareq") \cup Of(toRcv, "meta")
        BY <2>2, <3>2 DEF PInv, Lists
      <4>2. Of(toSnd', "metareq") = Of(toSnd, "metareq") \cup {o} /\ Single(toSnd', "metareq")
        BY <2>3, <2>4, <3>2, <4>1 DEF PInv, Lists
      <4>3. \A x \in Of(toSnd, "metareq") \cup Of(toRcv, "meta") : x \in Offer
        BY DEF PInv, Owned, Of
      <4> QED
        BY <1>0, <2>6, <3>1, <3>2, <4>1, <4>2, <4>3 DEF PInv, Lists
    <3>3. CASE w # "metareq"
      <4>1. Of(toSnd', "metareq") = Of(toSnd, "metareq") /\ Single(toSnd', "metareq")
        BY <2>3, <2>4, <3>3 DEF PInv, Lists
      <4>2. \A x \in Of(toSnd, "metareq") \cup Of(toRcv, "meta") : x \in Offer
        BY DEF PInv, Owned, Of
      <4>3. w = "jobdone" => o \notin Of(toSnd, "metareq") \cup Of(toRcv, "meta")
        BY <2>2 DEF PInv, Lists
      <4> QED
        BY <1>0, <2>6, <3>1, <3>3, <4>1, <4>2, <4>3 DEF PInv, Lists
    <3> QED
      BY <3>2, <3>3
  <2>9. Confirms'
    <3>1. UNCHANGED rows /\ arrived \subseteq arrived' /\ \A x \in Offer : rcv[x] = "done" => rcv'[x] = "done"
      BY <1>0, <2>1, <2>6 DEF sender
    <3>2. e.k = "jobdone" => rcv'[e.o] = "done" /\ e.o \notin WithLarge
      BY <2>2, <2>3 DEF PInv, OTypeOK
    <3> QED
      BY <2>3, <3>1, <3>2, Answered
  <2> QED
    BY <1>0, <1>1, <2>1, <2>5, <2>6, <2>7, <2>8, <2>9, ReceiverMoves
<1>5. CASE RcvFetched(o)
  <2> DEFINE a == Msg("ack", o)
             d == Msg("jobdone", o)
             s == Append(toSnd, a)
             n == Len(toSnd)
  <2>1. /\ UNCHANGED <<streams, snap, index, astray, uncopied>> /\ rcv' = [rcv EXCEPT ![o] = "done"] /\ rcv[o] = "fetch"
        /\ arrived' = arrived \cup {<<o, "large">>} /\ toSnd' = Append(s, d)
        /\ a \in Sent /\ a.k = "ack" /\ a.o = o /\ d \in Sent /\ d.k = "jobdone" /\ d.o = o
    BY <1>5 DEF RcvFetched, Msg, Sent
  <2> HIDE DEF a, d
  <2>2. /\ s \in Seq(Sent) /\ Len(s) = n + 1 /\ s[n + 1] = a /\ \A i \in 1 .. n : s[i] = toSnd[i]
        /\ \A v : v # a.k => Of(s, v) = Of(toSnd, v) /\ (Single(toSnd, v) => Single(s, v))
        /\ Owned(toSnd) /\ (a.k # "resp" => a.o \in Offer) => Owned(s)
    BY <1>0, <2>1, Put
  <2>3. Of(s, "metareq") = Of(toSnd, "metareq") /\ Single(s, "metareq") /\ Owned(s) /\ n \in Nat
    BY <1>0, <2>1, <2>2 DEF PInv, Lists
  <2> HIDE DEF s
  <2>4. /\ toSnd' \in Seq(Sent) /\ Len(toSnd') = Len(s) + 1 /\ toSnd'[Len(s) + 1] = d /\ \A i \in 1 .. Len(s) : toSnd'[i] = s[i]
        /\ \A v : v # d.k => Of(toSnd', v) = Of(s, v) /\ (Single(s, v) => Single(toSnd', v))
        /\ Owned(s) /\ (d.k # "resp" => d.o \in Offer) => Owned(toSnd')
    BY <2>1, <2>2, Put
  <2>5. Of(toSnd', "metareq") = Of(toSnd, "metareq") /\ Single(toSnd', "metareq") /\ Owned(toSnd)'
    BY <2>1, <2>3, <2>4
  <2>6. \A x \in Offer : x # o => rcv'[x] = rcv[x]
    BY <2>1 DEF PInv, OTypeOK
  <2>7. OTypeOK'
    <3>1. arrived' \subseteq Offer \X Part
      BY <2>1 DEF PInv, OTypeOK, Part
    <3> QED
      BY <1>0, <2>1, <2>4, <3>1 DEF PInv, OTypeOK, sender, Over
  <2>8. Lists'
    <3>1. o \notin Of(toSnd, "metareq") \cup Of(toRcv, "meta")
      BY <2>1 DEF PInv, Lists
    <3>2. \A x \in Of(toSnd, "metareq") \cup Of(toRcv, "meta") : x \in Offer
      BY DEF PInv, Owned, Of
    <3> QED
      BY <1>0, <2>5, <2>6, <3>1, <3>2 DEF PInv, Lists
  <2>9. Confirms'
    <3> SUFFICES ASSUME NEW i \in 1 .. Len(toSnd'), toSnd'[i].k = "jobdone"
                 PROVE  /\ rcv'[toSnd'[i].o] = "done"
                        /\ toSnd'[i].o \in WithLarge =>
                             /\ <<toSnd'[i].o, "large">> \in arrived'
                             /\ toSnd'[i].o \in rows' =>
                                  \E j \in 1 .. Len(toSnd') : j < i /\ toSnd'[j].k = "ack" /\ toSnd'[j].o = toSnd'[i].o
      BY DEF Confirms
    <3>1. /\ Len(toSnd') = n + 2 /\ toSnd'[n + 1] = a /\ toSnd'[n + 2] = d
          /\ \A j \in 1 .. n : toSnd'[j] = toSnd[j] /\ j \in 1 .. Len(toSnd')
      BY <2>2, <2>3, <2>4
    <3>2. i \in 1 .. n \/ i = n + 1 \/ i = n + 2
      BY <2>3, <3>1
    <3>3. CASE i \in 1 .. n
      <4>1. toSnd[i].o \in Offer
        BY <3>1, <3>3 DEF PInv, Owned
      <4>2. toSnd'[i] = toSnd[i] /\ rows' = rows /\ rcv'[toSnd[i].o] = IF toSnd[i].o = o THEN "done" ELSE rcv[toSnd[i].o]
        BY <1>0, <2>1, <2>6, <3>1, <3>3, <4>1 DEF PInv, OTypeOK, sender
      <4>3. /\ rcv[toSnd[i].o] = "done"
            /\ toSnd[i].o \in WithLarge =>
                 /\ <<toSnd[i].o, "large">> \in arrived
                 /\ toSnd[i].o \in rows => \E j \in 1 .. n : j < i /\ toSnd[j].k = "ack" /\ toSnd[j].o = toSnd[i].o
        BY <3>3, <3>1, <4>2 DEF PInv, Confirms
      <4>4. toSnd[i].o \in WithLarge /\ toSnd[i].o \in rows =>
              \E j \in 1 .. Len(toSnd') : j < i /\ toSnd'[j].k = "ack" /\ toSnd'[j].o = toSnd[i].o
        BY <3>1, <4>3
      <4> QED
        BY <2>1, <4>2, <4>3, <4>4
    <3>4. CASE i = n + 1
      BY <2>1, <3>1, <3>4
    <3>5. CASE i = n + 2
      <4>1. n + 1 \in 1 .. Len(toSnd') /\ n + 1 < i /\ toSnd'[n + 1].k = "ack" /\ toSnd'[n + 1].o = o
        BY <2>1, <2>3, <3>1, <3>5
      <4>2. rcv'[o] = "done" /\ <<o, "large">> \in arrived' /\ toSnd'[i].o = o
        BY <2>1, <3>1, <3>5 DEF PInv, OTypeOK
      <4> QED
        BY <4>1, <4>2
    <3> QED
      BY <3>2, <3>3, <3>4, <3>5
  <2> QED
    BY <1>0, <1>1, <2>1, <2>5, <2>6, <2>7, <2>8, <2>9, ReceiverMoves
<1> QED
  BY <1>2, <1>3, <1>4, <1>5 DEF RcvStep

(* It reads a message.                                                      *)
LEMMA ReceiverReadsStep ==
  ASSUME PInv, ReceiverReads
  PROVE  PInv'
<1> DEFINE m == Head(toRcv)
           o == m.o
<1>0. toRcv # <<>> /\ toRcv' = Tail(toRcv) /\ toRcv \in Seq(Sent) /\ UNCHANGED <<sender, streams, index, arrived, astray, uncopied>>
  BY DEF ReceiverReads, PInv, OTypeOK
<1>1. /\ toRcv' \in Seq(Sent) /\ m \in Sent /\ m.o \in Of(toRcv, m.k)
      /\ \A w : Of(toRcv', w) \subseteq Of(toRcv, w) /\ (Single(toRcv, w) => Single(toRcv', w))
      /\ Single(toRcv, m.k) => m.o \notin Of(toRcv', m.k)
      /\ Owned(toRcv') /\ (m.k # "resp" => m.o \in Offer)
  BY <1>0, Took DEF PInv
<1>2. Single(toRcv, "offer")' /\ Of(toRcv', "offer") \subseteq Of(toRcv, "offer")
      /\ Single(toRcv, "meta")' /\ Of(toRcv', "meta") \subseteq Of(toRcv, "meta") /\ Owned(toRcv)'
  BY <1>1 DEF PInv, Offers, Lists
<1>3. CASE m.k = "offer"
  <2>1. o \in Offer /\ rcv[o] = "none" /\ snd[o] # "idle" /\ o \notin Of(toRcv', "offer")
    BY <1>1, <1>3 DEF PInv, Offers
  <2>2. /\ o \notin Of(toSnd, "metareq") \cup Of(toRcv, "meta")
        /\ \A x \in Of(toSnd, "metareq") \cup Of(toRcv, "meta") : x \in Offer
    BY <2>1 DEF PInv, Lists, Owned, Of
  <2>3. CASE rcv' = [rcv EXCEPT ![o] = "asked"] /\ UNCHANGED <<snap, toSnd>>
    <3>1. \A x \in Offer : x # o => rcv'[x] = rcv[x]
      BY <2>1, <2>3 DEF PInv, OTypeOK
    <3>2. OTypeOK' /\ Owned(toSnd)'
      BY <1>0, <1>1, <2>1, <2>3 DEF PInv, OTypeOK, sender
    <3>3. Lists'
      BY <1>2, <2>2, <2>3, <3>1 DEF PInv, Lists
    <3>4. Confirms'
      <4>1. UNCHANGED <<rows, toSnd>> /\ arrived \subseteq arrived' /\ \A x \in Offer : rcv[x] = "done" => rcv'[x] = "done"
        BY <1>0, <2>1, <2>3, <3>1 DEF sender
      <4> QED
        BY <4>1, Unread
    <3>5. rcv[o] # "done" /\ arrived \subseteq arrived'
      BY <1>0, <2>1
    <3> HIDE DEF o
    <3> QED
      BY <1>0, <1>2, <2>1, <3>1, <3>2, <3>3, <3>4, <3>5, ReceiverMoves
  <2>4. ASSUME NEW ok \in BOOLEAN, Decided(o, ok)
        PROVE  PInv'
    <3> HIDE DEF o
    <3> DEFINE e == Resp(o, ok, ok /\ Held(o))
    <3>1. PICK st \in {"small", "refused"} : rcv' = [rcv EXCEPT ![o] = st]
      BY <2>1, <2>4, DecidesWell
    <3>2. /\ toSnd' = Append(toSnd, e) /\ e \in Sent /\ e.k = "resp"
          /\ toSnd' \in Seq(Sent) /\ Owned(toSnd)'
          /\ Of(toSnd', "metareq") = Of(toSnd, "metareq") /\ Single(toSnd', "metareq")
          /\ snap' \in [Offer -> SUBSET (Offer \X Part)]
      BY <2>1, <2>4, DecidesWell
    <3> HIDE DEF e
    <3>3. \A x \in Offer : x # o => rcv'[x] = rcv[x]
      BY <2>1, <3>1 DEF PInv, OTypeOK
    <3>4. OTypeOK'
      BY <1>0, <1>1, <2>1, <3>1, <3>2 DEF PInv, OTypeOK, sender
    <3>5. Lists'
      BY <1>2, <2>2, <3>2, <3>3 DEF PInv, Lists
    <3>6. UNCHANGED rows /\ arrived \subseteq arrived' /\ rcv[o] # "done" /\ \A x \in Offer : rcv[x] = "done" => rcv'[x] = "done"
      BY <1>0, <2>1, <3>3 DEF sender
    <3>7. Confirms'
      BY <3>2, <3>6, Answered
    <3> QED
      BY <1>0, <1>2, <2>1, <3>2, <3>3, <3>4, <3>5, <3>6, <3>7, ReceiverMoves
  <2> QED
    BY <1>3, <2>3, <2>4 DEF ReceiverReads
<1>4. CASE m.k = "meta"
  <2>1. /\ o \in Offer /\ rcv[o] \in {"meta", "failed"} /\ o \notin Of(toRcv', "meta") /\ o \notin Of(toSnd, "metareq")
        /\ UNCHANGED <<snap, toSnd>>
    BY <1>1, <1>4 DEF PInv, Lists, ReceiverReads
  <2>2. rcv' = [rcv EXCEPT ![o] = IF rcv[o] = "meta" THEN "fetch" ELSE "failed"]
    BY <1>4, <2>1 DEF ReceiverReads, PInv, OTypeOK
  <2> HIDE DEF o
  <2>3. \A x \in Offer : x # o => rcv'[x] = rcv[x]
    BY <2>1, <2>2 DEF PInv, OTypeOK
  <2>4. OTypeOK' /\ Owned(toSnd)'
    BY <1>0, <1>1, <2>1, <2>2 DEF PInv, OTypeOK, sender, Over
  <2>5. Lists'
    <3>1. \A x \in Of(toSnd, "metareq") \cup Of(toRcv, "meta") : x \in Offer
      BY DEF PInv, Owned, Of
    <3> QED
      BY <1>2, <2>1, <2>3, <3>1 DEF PInv, Lists
  <2>6. Confirms'
    <3>1. UNCHANGED <<rows, toSnd>> /\ arrived \subseteq arrived' /\ \A x \in Offer : rcv[x] = "done" => rcv'[x] = "done"
      BY <1>0, <2>1, <2>3 DEF sender
    <3> QED
      BY <3>1, Unread
  <2>7. rcv[o] # "done" /\ arrived \subseteq arrived' /\ snd[o] # "idle" /\ o \notin Of(toRcv', "offer")
    BY <1>0, <1>2, <2>1 DEF PInv, Offers
  <2> QED
    BY <1>0, <1>2, <2>1, <2>3, <2>4, <2>5, <2>6, <2>7, ReceiverMoves
<1> QED
  BY <1>3, <1>4 DEF ReceiverReads

LEMMA PushStays == PInv /\ UNCHANGED ovars => PInv'
<1>1. ASSUME UNCHANGED ovars PROVE \A x : Small(x)' = Small(x)
  BY <1>1 DEF ovars, sender, Small
<1> QED
  BY <1>1 DEF ovars, sender, receiver, PInv, OTypeOK, Offers, Lists, Confirms, DoneConfirmed, Taken, NoRowLeft

(* What the files of a finished push rest on. The steps of a push before its *)
(* batch, and those after a whole one.                                      *)
Early == {"idle", "sent", "waiting", "going"}
Whole == {"batched", "confirm", "done"}
Works == {"small", "place", "large", "meta", "fetch", "done", "failed"}

(* Who is told to skip a file has an offer the receiver works on with a copy *)
(* of its index.                                                            *)
Told == \A i \in 1 .. Len(toSnd) : toSnd[i].k = "resp" /\ toSnd[i].skip => snap[toSnd[i].o] # {}
Skipped == \A o \in Offer : o \notin misled => skip[o] \subseteq {"held"} /\ (skip[o] # {} => snap[o] # {})
WorksOn ==
  \A o \in Offer :
    /\ snap[o] # {} => rcv[o] \in Works
    /\ rcv[o] \in {"meta", "fetch"} => o \in WithLarge
    /\ rcv[o] = "failed" => o \in WithLarge \/ Expects(o)

(* A stream is of a push that has sent it, and whole unless that push broke *)
(* off; so is what the receiver has taken for the same offer.               *)
StreamsFit == \A s \in streams : snd[s.o] \notin Early /\ (snd[s.o] \in Whole => s.parts = Small(s.o))
Received ==
  \A o \in Offer : o \notin astray /\ rcv[o] \in {"place", "large", "meta", "fetch", "done"} /\ Expects(o) =>
    snd[o] \notin Early /\ (snd[o] \in Whole => {o} \X Small(o) \subseteq arrived)

(* The held file is copied, or that failed.                                 *)
Copied ==
  \A o \in Offer : rcv[o] \in {"large", "meta", "fetch", "done"} /\ snap[o] # {} =>
    <<o, "held">> \in arrived \/ o \in uncopied

FilesInv == Told /\ Skipped /\ WorksOn /\ StreamsFit /\ Received /\ Copied

LEMMA FilesBegin == OInit => FilesInv
<1> SUFFICES ASSUME OInit PROVE FilesInv
  OBVIOUS
<1>1. Told /\ StreamsFit
  BY DEF OInit, Told, StreamsFit
<1>2. Skipped /\ WorksOn /\ Received /\ Copied
  BY DEF OInit, Skipped, WorksOn, Received, Copied
<1> QED
  BY <1>1, <1>2 DEF FilesInv

(* The sender's steps, which skip nothing anew.                             *)
LEMMA FilesSent ==
  ASSUME PInv, FilesInv, NEW o \in Offer, Push(o) \/ Cancelled(o) \/ SndStep(o)
  PROVE  FilesInv'
<1>1. /\ UNCHANGED <<skip, toSnd, rcv, snap, arrived, misled, astray, uncopied>>
      /\ \E st \in {"sent", "waiting", "batched", "confirm", "ending", "leaving", "failed", "left", "done"} :
           /\ snd' = [snd EXCEPT ![o] = st]
           /\ snd[o] \notin Early => st \notin Early /\ (st \in Whole => snd[o] \in Whole)
      /\ \/ streams' = streams
         \/ \E ps \in SUBSET Part :
              /\ streams' = streams \cup {[o |-> o, parts |-> ps]}
              /\ snd'[o] \notin Early /\ (snd'[o] \in Whole => ps = Small(o))
  <2>1. CASE Batch(o)
    <3>1. Small(o) \in SUBSET Part
      BY DEF Small, Part
    <3> QED
      BY <2>1, <3>1 DEF Batch, receiver, Early, Whole, PInv, OTypeOK
  <2>2. CASE BatchFails(o)
    <3>1. {} \in SUBSET Part /\ Small(o) \cap {"new"} \in SUBSET Part
      BY DEF Small, Part
    <3> QED
      BY <2>2, <3>1 DEF BatchFails, receiver, Early, Whole, PInv, OTypeOK
  <2>3. CASE Push(o) \/ Cancelled(o) \/ Subscribe(o) \/ Unanswered(o) \/ NoSession(o) \/ Unconfirmed(o) \/ CleanedUp(o)
    BY <2>3 DEF Push, Cancelled, Subscribe, Unanswered, NoSession, Unconfirmed, CleanedUp, Fails, receiver, Early, Whole
  <2> QED
    BY <2>1, <2>2, <2>3 DEF SndStep
<1>2. \A x : Small(x)' = Small(x) /\ (Expects(x)' <=> Expects(x))
  BY <1>1 DEF Small, Expects
<1>3. \A x \in Offer : snd[x] \notin Early => snd'[x] \notin Early /\ (snd'[x] \in Whole => snd[x] \in Whole)
  BY <1>1 DEF PInv, OTypeOK
<1>4. Told' /\ Skipped' /\ WorksOn' /\ Copied'
  BY <1>1, <1>2 DEF FilesInv, Told, Skipped, WorksOn, Copied
<1>5. StreamsFit'
  <2>1. ASSUME NEW s \in streams PROVE snd'[s.o] \notin Early /\ (snd'[s.o] \in Whole => s.parts = Small(s.o))
    <3>1. s.o \in Offer
      BY DEF PInv, OTypeOK
    <3> QED
      BY <1>3, <3>1 DEF FilesInv, StreamsFit
  <2> QED
    BY <1>1, <1>2, <2>1 DEF StreamsFit
<1>6. Received'
  BY <1>1, <1>2, <1>3 DEF FilesInv, Received
<1> QED
  BY <1>4, <1>5, <1>6 DEF FilesInv

(* The sender reads: only an answer makes it skip anything.                 *)
LEMMA FilesRead ==
  ASSUME PInv, FilesInv, SenderReads
  PROVE  FilesInv'
<1> DEFINE m == Head(toSnd)
<1>1. /\ toSnd # <<>> /\ toSnd' = Tail(toSnd) /\ toSnd \in Seq(Sent)
      /\ UNCHANGED <<rcv, snap, arrived, streams, astray, uncopied>>
  BY DEF SenderReads, receiver, PInv, OTypeOK
<1>2. /\ m = toSnd[1] /\ 1 \in 1 .. Len(toSnd) /\ m \in Sent
      /\ \A i \in 1 .. Len(toSnd') : i + 1 \in 1 .. Len(toSnd) /\ toSnd'[i] = toSnd[i + 1]
  BY <1>1, Took
<1>3. Told'
  BY <1>1, <1>2 DEF FilesInv, Told
<1>4. m.k = "resp" /\ m.skip => snap[m.o] # {}
  BY <1>2 DEF FilesInv, Told
<1> HIDE DEF m
<1>5. /\ Skipped'
      /\ \A x \in Offer : snd[x] \notin Early =>
           snd'[x] \notin Early /\ (snd'[x] \in Whole => snd[x] \in Whole) /\ skip'[x] = skip[x]
  <2>1. CASE HearsResp(m)
    <3>1. ASSUME NEW x \in Offer
          PROVE  /\ snd[x] \notin Early => snd'[x] = snd[x] /\ skip'[x] = skip[x]
                 /\ \/ skip'[x] = skip[x] /\ (x \in misled => x \in misled')
                    \/ skip'[x] = {} \/ x \in misled'
                    \/ skip'[x] = {"held"} /\ m.skip /\ m.o = x
      <4>1. CASE snd[x] = "waiting"
        <5>1. skip'[x] \in Skips(x, m) /\ (m.skip /\ x # m.o => x \in misled')
          BY <2>1, <4>1 DEF HearsResp
        <5> QED
          BY <4>1, <5>1 DEF Skips, Early
      <4>2. CASE snd[x] # "waiting"
        BY <2>1, <4>2 DEF HearsResp
      <4> QED
        BY <4>1, <4>2
    <3>2. Skipped'
      <4> SUFFICES ASSUME NEW x \in Offer, x \notin misled'
                   PROVE  skip'[x] \subseteq {"held"} /\ (skip'[x] # {} => snap[x] # {})
        BY <1>1 DEF Skipped
      <4>1. m.k = "resp" /\ (x \in misled => x \in misled')
        BY <2>1 DEF HearsResp
      <4> QED
        BY <1>4, <3>1, <4>1 DEF FilesInv, Skipped
    <3> QED
      BY <3>1, <3>2
  <2>2. CASE HearsEnd(m)
    <3>1. UNCHANGED <<skip, misled>>
      BY <2>2 DEF HearsEnd
    <3>2. \A x \in Offer : snd[x] \notin Early => snd'[x] \notin Early /\ (snd'[x] \in Whole => snd[x] \in Whole)
      BY <2>2 DEF HearsEnd, Early, Whole
    <3> QED
      BY <1>1, <3>1, <3>2 DEF FilesInv, Skipped
  <2>3. CASE ServesMeta(m) \/ HearsAck(m)
    <3>1. UNCHANGED <<snd, skip, misled>>
      BY <2>3 DEF ServesMeta, HearsAck
    <3> QED
      BY <1>1, <3>1 DEF FilesInv, Skipped
  <2> QED
    BY <2>1, <2>2, <2>3 DEF SenderReads, m
<1>6. \A x \in Offer : (Expects(x)' <=> Expects(x)) /\ (snd[x] \notin Early => Small(x)' = Small(x))
  BY <1>1, <1>5 DEF Expects, Small
<1>7. WorksOn' /\ Copied'
  BY <1>1, <1>6 DEF FilesInv, WorksOn, Copied
<1>8. StreamsFit'
  <2> SUFFICES ASSUME NEW s \in streams PROVE snd'[s.o] \notin Early /\ (snd'[s.o] \in Whole => s.parts = Small(s.o)')
    BY <1>1 DEF StreamsFit
  <2>1. s.o \in Offer
    BY DEF PInv, OTypeOK
  <2> QED
    BY <1>5, <1>6, <2>1 DEF FilesInv, StreamsFit
<1>9. Received'
  BY <1>1, <1>5, <1>6 DEF FilesInv, Received
<1> QED
  BY <1>3, <1>5, <1>7, <1>8, <1>9 DEF FilesInv

(* The receiver decides about an offer it has not begun with.               *)
LEMMA FilesDecided ==
  ASSUME PInv, FilesInv, NEW o \in Offer, NEW ok \in BOOLEAN, Decided(o, ok), rcv[o] \in {"none", "asked"},
         UNCHANGED <<sender, streams, arrived, astray, uncopied>>
  PROVE  FilesInv'
<1> DEFINE e == Resp(o, ok, ok /\ Held(o))
<1>1. /\ rcv' = [rcv EXCEPT ![o] = IF ok THEN "small" ELSE "refused"]
      /\ snap' = [snap EXCEPT ![o] = IF ok /\ Held(o) THEN index ELSE {}]
      /\ toSnd' = Append(toSnd, e) /\ e \in Sent /\ e.o = o /\ (e.skip => ok /\ Held(o))
      /\ toSnd \in Seq(Sent)
  BY DEF Decided, Resp, Sent, PInv, OTypeOK
<1>2. snap[o] = {}
  BY DEF FilesInv, WorksOn, Works
<1>3. \A x \in Offer : /\ x # o => rcv'[x] = rcv[x] /\ snap'[x] = snap[x]
                       /\ x = o => rcv'[x] \in {"small", "refused"} /\ (snap'[x] # {} => rcv'[x] = "small")
  BY <1>1 DEF PInv, OTypeOK
<1>4. ok /\ Held(o) => snap'[o] # {}
  BY <1>1 DEF Held, PInv, OTypeOK
<1>5. Told'
  <2> HIDE DEF e
  <2>1. /\ Len(toSnd') = Len(toSnd) + 1 /\ toSnd'[Len(toSnd) + 1] = e
        /\ \A i \in 1 .. Len(toSnd) : toSnd'[i] = toSnd[i] /\ toSnd[i] \in Sent
    BY <1>1
  <2>2. \A i \in 1 .. Len(toSnd') : i \in 1 .. Len(toSnd) \/ i = Len(toSnd) + 1
    BY <1>1, <2>1
  <2>3. ASSUME NEW i \in 1 .. Len(toSnd), toSnd[i].k = "resp", toSnd[i].skip PROVE snap'[toSnd[i].o] # {}
    <3>1. toSnd[i].o \in Offer /\ snap[toSnd[i].o] # {}
      BY <2>1, <2>3 DEF FilesInv, Told, Sent
    <3> QED
      BY <1>2, <1>3, <3>1
  <2> QED
    BY <1>1, <1>4, <2>1, <2>2, <2>3 DEF Told
<1>6. Skipped'
  BY <1>2, <1>3 DEF FilesInv, Skipped, sender
<1>7. \A x \in Offer : x # o => (Expects(x)' <=> Expects(x))
  BY <1>3 DEF Expects
<1>8. WorksOn' /\ Copied'
  BY <1>3, <1>7 DEF FilesInv, WorksOn, Copied, Works
<1>9. \A x : Small(x)' = Small(x)
  BY DEF Small, sender
<1>10. StreamsFit' /\ Received'
  BY <1>3, <1>7, <1>9 DEF FilesInv, StreamsFit, Received, sender
<1> QED
  BY <1>5, <1>6, <1>8, <1>10 DEF FilesInv

(* It works on one.                                                         *)
LEMMA FilesWorked ==
  ASSUME PInv, FilesInv, NEW o \in Offer, RcvStep(o)
  PROVE  FilesInv'
<1>1. CASE Answers(o)
  <2>1. PICK ok \in BOOLEAN : Decided(o, ok)
    BY <1>1 DEF Answers
  <2> QED
    BY <1>1, <2>1, FilesDecided DEF Answers
<1>2. CASE RcvSmall(o) \/ RcvPlace(o) \/ RcvLarge(o) \/ RcvFetched(o) \/ RcvTimeout(o)
  <2>1. UNCHANGED <<sender, snap>> /\ toSnd \in Seq(Sent)
    BY <1>2 DEF RcvSmall, RcvPlace, RcvLarge, RcvFetched, RcvTimeout, RcvFails, PInv, OTypeOK
  <2>2. \A x : Small(x)' = Small(x) /\ (Expects(x)' <=> Expects(x))
    BY <2>1 DEF Small, Expects, sender
  <2>3. arrived \subseteq arrived' /\ streams' \subseteq streams /\ astray \subseteq astray' /\ uncopied \subseteq uncopied'
    BY <1>2 DEF RcvSmall, RcvPlace, RcvLarge, RcvFetched, RcvTimeout, RcvFails
  <2>4. Skipped' /\ StreamsFit'
    BY <2>1, <2>2, <2>3 DEF FilesInv, Skipped, StreamsFit, sender
  <2>5. Told'
    <3>1. ASSUME NEW e \in Sent, e.k # "resp", NEW s \in Seq(Sent),
                 \A i \in 1 .. Len(s) : s[i].k = "resp" /\ s[i].skip => snap[s[i].o] # {}
          PROVE  /\ Append(s, e) \in Seq(Sent)
                 /\ \A i \in 1 .. Len(Append(s, e)) :
                      Append(s, e)[i].k = "resp" /\ Append(s, e)[i].skip => snap[Append(s, e)[i].o] # {}
      <4>1. /\ Append(s, e) \in Seq(Sent) /\ Len(Append(s, e)) = Len(s) + 1 /\ Append(s, e)[Len(s) + 1] = e
            /\ \A i \in 1 .. Len(s) : Append(s, e)[i] = s[i]
            /\ \A i \in 1 .. Len(s) + 1 : i \in 1 .. Len(s) \/ i = Len(s) + 1
        OBVIOUS
      <4> QED
        BY <3>1, <4>1
    <3>2. \A w \in {"metareq", "jobdone", "jobfailed", "ack"} : Msg(w, o) \in Sent /\ Msg(w, o).k # "resp"
      BY DEF Msg, Sent
    <3>3. CASE RcvSmall(o) \/ RcvPlace(o)
      BY <2>1, <3>3 DEF RcvSmall, RcvPlace, FilesInv, Told
    <3>4. CASE RcvLarge(o) \/ RcvTimeout(o)
      <4>1. \E w \in {"metareq", "jobdone", "jobfailed"} : toSnd' = Append(toSnd, Msg(w, o))
        BY <3>4 DEF RcvLarge, RcvTimeout, RcvFails
      <4> QED
        BY <2>1, <3>1, <3>2, <4>1 DEF FilesInv, Told
    <3>5. CASE RcvFetched(o)
      <4>1. toSnd' = Append(Append(toSnd, Msg("ack", o)), Msg("jobdone", o))
        BY <3>5 DEF RcvFetched
      <4> DEFINE s == Append(toSnd, Msg("ack", o))
      <4>2. s \in Seq(Sent) /\ \A i \in 1 .. Len(s) : s[i].k = "resp" /\ s[i].skip => snap[s[i].o] # {}
        BY <2>1, <3>1, <3>2 DEF FilesInv, Told
      <4> HIDE DEF s
      <4>3. \A i \in 1 .. Len(Append(s, Msg("jobdone", o))) :
              Append(s, Msg("jobdone", o))[i].k = "resp" /\ Append(s, Msg("jobdone", o))[i].skip
                => snap[Append(s, Msg("jobdone", o))[i].o] # {}
        BY <3>1, <3>2, <4>2
      <4> QED
        BY <2>1, <4>1, <4>3 DEF Told, s
    <3> QED
      BY <1>2, <3>3, <3>4, <3>5
  <2>6. /\ \A x \in Offer : x # o => rcv'[x] = rcv[x]
        /\ rcv[o] \in {"small", "place", "large", "meta", "fetch"} /\ rcv'[o] \in Works \ {"small"}
        /\ rcv'[o] = "meta" => o \in WithLarge
        /\ rcv'[o] = "failed" => o \in WithLarge \/ Expects(o)
        /\ rcv'[o] # "fetch"
        /\ rcv[o] = "small" => rcv'[o] \in {"place", "failed"}
        /\ rcv[o] = "place" => rcv'[o] = "large"
    BY <1>2 DEF RcvSmall, RcvPlace, RcvLarge, RcvFetched, RcvTimeout, RcvFails, Works, PInv, OTypeOK, FilesInv, WorksOn
  <2>7. WorksOn'
    BY <2>1, <2>2, <2>6 DEF FilesInv, WorksOn
  <2>8. Received'
    <3> SUFFICES ASSUME NEW x \in Offer, x \notin astray', rcv'[x] \in {"place", "large", "meta", "fetch", "done"}, Expects(x)
                 PROVE  snd[x] \notin Early /\ (snd[x] \in Whole => {x} \X Small(x) \subseteq arrived')
      BY <2>1, <2>2 DEF Received, sender
    <3>1. CASE x = o /\ rcv[o] = "small"
      <4>1. RcvSmall(o)
        BY <1>2, <2>6, <3>1 DEF RcvPlace, RcvLarge, RcvFetched, RcvTimeout, RcvFails, PInv, OTypeOK
      <4>2. PICK s \in streams : arrived' = arrived \cup ({s.o} \X s.parts) /\ astray' = astray \cup ({o} \ {s.o})
        BY <3>1, <4>1 DEF RcvSmall
      <4>3. s.o = o
        BY <3>1, <4>2
      <4> QED
        BY <3>1, <4>2, <4>3 DEF FilesInv, StreamsFit
    <3>2. CASE ~(x = o /\ rcv[o] = "small")
      <4>1. x \notin astray /\ rcv[x] \in {"place", "large", "meta", "fetch", "done"}
        BY <2>3, <2>6, <3>2
      <4>2. snd[x] \notin Early /\ (snd[x] \in Whole => {x} \X Small(x) \subseteq arrived)
        BY <4>1 DEF FilesInv, Received
      <4> QED
        BY <2>3, <4>2
    <3> QED
      BY <3>1, <3>2
  <2>9. Copied'
    <3> SUFFICES ASSUME NEW x \in Offer, rcv'[x] \in {"large", "meta", "fetch", "done"}, snap[x] # {}
                 PROVE  <<x, "held">> \in arrived' \/ x \in uncopied'
      BY <2>1 DEF Copied
    <3>1. CASE x = o /\ rcv[o] = "place"
      <4>1. RcvPlace(o)
        BY <1>2, <3>1 DEF RcvSmall, RcvLarge, RcvFetched, RcvTimeout, RcvFails
      <4> QED
        BY <3>1, <4>1 DEF RcvPlace
    <3>2. CASE ~(x = o /\ rcv[o] = "place")
      <4>1. rcv[x] \in {"large", "meta", "fetch", "done"}
        BY <2>6, <3>2
      <4> QED
        BY <2>3, <4>1 DEF FilesInv, Copied
    <3> QED
      BY <3>1, <3>2
  <2> QED
    BY <2>4, <2>5, <2>7, <2>8, <2>9 DEF FilesInv
<1> QED
  BY <1>1, <1>2 DEF RcvStep

(* It reads a message.                                                      *)
LEMMA FilesHeard ==
  ASSUME PInv, FilesInv, ReceiverReads
  PROVE  FilesInv'
<1> DEFINE m == Head(toRcv)
<1>0. toRcv # <<>> /\ toRcv \in Seq(Sent) /\ UNCHANGED <<sender, streams, arrived, astray, uncopied>>
  BY DEF ReceiverReads, PInv, OTypeOK
<1>1. m \in Sent /\ m.o \in Of(toRcv, m.k)
  BY <1>0, Took
<1> HIDE DEF m
<1>2. m.o \in Offer
  BY <1>1 DEF Sent
<1>3. CASE m.k = "offer" /\ \E ok \in BOOLEAN : Decided(m.o, ok)
  <2>1. rcv[m.o] = "none"
    BY <1>1, <1>3 DEF PInv, Offers
  <2>2. PICK ok \in BOOLEAN : Decided(m.o, ok)
    BY <1>3
  <2> QED
    BY <1>0, <1>2, <2>1, <2>2, FilesDecided
<1>4. CASE ~(m.k = "offer" /\ \E ok \in BOOLEAN : Decided(m.o, ok))
  <2>1. /\ UNCHANGED <<snap, toSnd>>
        /\ \/ m.k = "offer" /\ rcv' = [rcv EXCEPT ![m.o] = "asked"]
           \/ m.k = "meta" /\ rcv' = IF rcv[m.o] = "meta" THEN [rcv EXCEPT ![m.o] = "fetch"] ELSE rcv
    BY <1>4 DEF ReceiverReads, m
  <2>2. \A x \in Offer : \/ rcv'[x] = rcv[x]
                         \/ rcv[x] = "none" /\ rcv'[x] = "asked"
                         \/ rcv[x] = "meta" /\ rcv'[x] = "fetch"
    <3>1. m.k = "offer" => rcv[m.o] = "none"
      BY <1>1 DEF PInv, Offers
    <3> QED
      BY <1>2, <2>1, <3>1 DEF PInv, OTypeOK
  <2>3. \A x : Small(x)' = Small(x) /\ (Expects(x)' <=> Expects(x))
    BY <1>0, <2>1 DEF Small, Expects, sender
  <2>4. Told' /\ Skipped' /\ StreamsFit'
    BY <1>0, <2>1, <2>3 DEF FilesInv, Told, Skipped, StreamsFit, sender
  <2>5. WorksOn'
    BY <2>1, <2>2, <2>3 DEF FilesInv, WorksOn, Works
  <2>6. Received'
    BY <1>0, <2>2, <2>3 DEF FilesInv, Received, sender
  <2>7. Copied'
    BY <1>0, <2>1, <2>2 DEF FilesInv, Copied
  <2> QED
    BY <2>4, <2>5, <2>6, <2>7 DEF FilesInv
<1> QED
  BY <1>3, <1>4

LEMMA FilesStay == FilesInv /\ UNCHANGED ovars => FilesInv'
<1>1. ASSUME UNCHANGED ovars PROVE \A x : Small(x)' = Small(x) /\ (Expects(x)' <=> Expects(x))
  BY <1>1 DEF ovars, sender, receiver, Small, Expects
<1> QED
  BY <1>1 DEF ovars, sender, receiver, FilesInv, Told, Skipped, WorksOn, StreamsFit, Received, Copied

(* What a push that is done has brought to the receiver.                    *)
LEMMA FilesArrived == PInv /\ FilesInv => DoneComplete /\ DoneAccepted
<1> SUFFICES ASSUME PInv, FilesInv PROVE DoneComplete /\ DoneAccepted
  OBVIOUS
<1>1. DoneComplete
  <2> SUFFICES ASSUME NEW o \in Offer, snd[o] = "done", rcv[o] = "done", o \notin astray, o \notin misled
               PROVE  /\ o \in WithNew => <<o, "new">> \in arrived
                      /\ o \in WithHeld /\ o \notin uncopied => <<o, "held">> \in arrived
    BY DEF DoneComplete
  <2>1. skip[o] \subseteq {"held"} /\ (skip[o] # {} => snap[o] # {})
    BY DEF FilesInv, Skipped
  <2>2. Expects(o) => \A p \in Small(o) : <<o, p>> \in arrived
    BY DEF FilesInv, Received, Whole
  <2>3. ASSUME o \in WithNew PROVE <<o, "new">> \in arrived
    <3>1. "new" \in Small(o) /\ Expects(o)
      BY <2>1, <2>3 DEF Small, Expects
    <3> QED
      BY <2>2, <3>1
  <2>4. ASSUME o \in WithHeld, o \notin uncopied PROVE <<o, "held">> \in arrived
    <3>1. CASE snap[o] # {}
      BY <2>4, <3>1 DEF FilesInv, Copied
    <3>2. CASE snap[o] = {}
      <4>1. "held" \in Small(o) /\ Expects(o)
        BY <2>1, <2>4, <3>2 DEF Small, Expects
      <4> QED
        BY <2>2, <4>1
    <3> QED
      BY <3>1, <3>2
  <2> QED
    BY <2>3, <2>4
<1>2. DoneAccepted
  <2> SUFFICES ASSUME NEW o \in Offer, snd[o] = "done", rcv[o] # "done", o \notin misled
               PROVE  o \notin WithNew \cup WithLarge /\ rcv[o] \in {"small", "place", "large"}
    BY DEF DoneAccepted
  <2>1. Small(o) = {} /\ o \notin WithLarge
    BY DEF PInv, DoneConfirmed
  <2>2. skip[o] \subseteq {"held"} /\ (skip[o] # {} => snap[o] # {})
    BY DEF FilesInv, Skipped
  <2>3. o \notin WithNew
    BY <2>1, <2>2 DEF Small
  <2>4. o \in WithHeld
    BY <2>1, <2>3, PushAssumption
  <2>5. "held" \in skip[o]
    BY <2>1, <2>4 DEF Small
  <2>6. snap[o] # {} /\ ~Expects(o)
    BY <2>2, <2>3, <2>5 DEF Expects
  <2> QED
    BY <2>1, <2>3, <2>6 DEF FilesInv, WorksOn, Works
<1> QED
  BY <1>1, <1>2

(* What a push that is over says of itself is true: it is done only after a *)
(* yes to its offer, and only when the receiver has gone through that very  *)
(* offer and has every file of it - unless the copy of a file it held       *)
(* failed, or the receiver took another offer's batch, or the sender went   *)
(* by another offer's answer - and no row or registration outlives a push   *)
(* that is done, refused, cancelled or unconfirmed                          *)
(* (engine.rs:855, 1056-1066, 1121-1150).                                   *)
THEOREM PushAlwaysTruthful == OSpec => []PushTruthful
<1>1. PInv /\ [ONext]_ovars => PInv'
  <2> SUFFICES ASSUME PInv, [ONext]_ovars PROVE PInv'
    OBVIOUS
  <2>1. ASSUME NEW o \in Offer, Push(o) \/ Cancelled(o) \/ SndStep(o) \/ RcvStep(o) PROVE PInv'
    BY <2>1, OfferStep, SenderStep, ReceiverStep
  <2>2. CASE SenderReads \/ ReceiverReads
    BY <2>2, SenderReadsStep, ReceiverReadsStep
  <2>3. CASE UNCHANGED ovars
    BY <2>3, PushStays
  <2> QED
    BY <2>1, <2>2, <2>3 DEF ONext
<1>2. PInv /\ FilesInv /\ [ONext]_ovars => FilesInv'
  <2> SUFFICES ASSUME PInv, FilesInv, [ONext]_ovars PROVE FilesInv'
    OBVIOUS
  <2>1. ASSUME NEW o \in Offer, Push(o) \/ Cancelled(o) \/ SndStep(o) \/ RcvStep(o) PROVE FilesInv'
    BY <2>1, FilesSent, FilesWorked
  <2>2. CASE SenderReads \/ ReceiverReads
    BY <2>2, FilesRead, FilesHeard
  <2>3. CASE UNCHANGED ovars
    BY <2>3, FilesStay
  <2> QED
    BY <2>1, <2>2, <2>3 DEF ONext
<1>3. PInv /\ FilesInv => PushTruthful
  BY FilesArrived DEF PInv, PushTruthful
<1> QED
  BY <1>1, <1>2, <1>3, PushBegins, FilesBegin, PTL DEF OSpec

-----------------------------------------------------------------------------
(* Cards with children (BatchCards).                                        *)

PushSteps == {"offer", "accepted", "stream", "confirm", "drain"}
AllHandled(t) == Handled(t) = SeqSet(SmallOf[t])
FolderEvs == {"Enumerated", "FileDone", "FileFailed", "AllDone"}

(* Who finds a card by the device or by a job finds one of a push.          *)
OwnersInv ==
  /\ \A k \in PushKind : reg[k] # 0 => Kind[reg[k]] = IF k = "single" THEN "single" ELSE "batch"
  /\ \A j \in SourceJob : pend[j] # 0 => Kind[pend[j]] = "batch"
  /\ \A j \in SourceJob : route[j] # 0 => Kind[route[j]] = "single"
  /\ \A w \in {"task", "bridge"} : recheck[w].c # 0 => Kind[recheck[w].c] = "batch"

(* A task goes through the steps of its kind, its card begins with it, and  *)
(* it says that a folder is through when it is.                             *)
StepsInv ==
  \A t \in Errand :
    /\ worker[t] \in PushSteps => Kind[t] \in PushKind
    /\ worker[t] \in {"pull", "file"} => Kind[t] = "pull"
    /\ worker[t] \in {"dir", "files", "agg"} => Kind[t] = "dir"
    /\ worker[t] = "idle" /\ Kind[t] # "retry" => bcard[t].st = "none"
    /\ \A i \in DOMAIN evs[t] :
         /\ evs[t][i].ev = "AllDone" => AllHandled(t) /\ worker[t] \in {"agg", "over"}
         /\ Kind[t] = "dir" => evs[t][i].ev \in FolderEvs

(* A push of one file has registered its card before anybody asks for it.   *)
SinglesInv ==
  reg["single"] = 0 =>
    /\ \A t \in Errand : Kind[t] = "single" => worker[t] \notin PushSteps
    /\ \A j \in senders : Kind[j[1]] # "single"
    /\ \A i \in DOMAIN src : Kind[src[i].job[1]] # "single"

BInv ==
  /\ BTypeOK /\ CountsMatch /\ DoneHasAll /\ OneCard
  /\ \A t \in Errand : IsFiniteSet(Bytes(bcard[t].kids))
  /\ OwnersInv /\ StepsInv /\ SinglesInv

(* The bytes of one child, and what a longer child adds.                    *)
LEMMA Stretch ==
  ASSUME NEW i \in Nat, NEW a \in Nat, NEW b \in Nat, a <= b + 1
  PROVE  /\ IsFiniteSet({i} \X (a .. b))
         /\ Cardinality({i} \X (a .. b)) = b - a + 1
<1> DEFINE f == [n \in a .. b |-> <<i, n>>]
<1>1. f \in Bijection(a .. b, {i} \X (a .. b))
  <2>1. f \in [a .. b -> {i} \X (a .. b)]
    OBVIOUS
  <2>2. \A m, n \in a .. b : f[m] = f[n] => m = n
    OBVIOUS
  <2>3. \A x \in {i} \X (a .. b) : \E n \in a .. b : f[n] = x
    OBVIOUS
  <2> QED
    BY <2>1, <2>2, <2>3 DEF Bijection, Injection, Surjection, IsInjective
<1>2. ExistsBijection(a .. b, {i} \X (a .. b))
  BY <1>1 DEF ExistsBijection
<1>3. IsFiniteSet(a .. b) /\ Cardinality(a .. b) = IF a > b THEN 0 ELSE b - a + 1
  BY FS_Interval
<1>4. Cardinality(a .. b) = b - a + 1
  BY <1>3
<1> QED
  BY <1>2, <1>3, <1>4, FS_Bijection

LEMMA ChildDone == \A k \in Child : k.done \in Nat
BY DEF Child

(* A child that is new, or has more bytes than before, adds just these.     *)
LEMMA BytesAppend ==
  ASSUME NEW s \in Seq(Child), NEW k \in Child, IsFiniteSet(Bytes(s))
  PROVE  /\ IsFiniteSet(Bytes(Append(s, k)))
         /\ Cardinality(Bytes(Append(s, k))) = Cardinality(Bytes(s)) + k.done
<1> DEFINE new == {Len(s) + 1} \X (1 .. k.done)
<1>1. k.done \in Nat /\ Len(s) \in Nat /\ DOMAIN s = 1 .. Len(s)
  BY ChildDone
<1>2. DOMAIN Append(s, k) = 1 .. Len(s) + 1
  BY <1>1
<1>3. \A i \in 1 .. Len(s) + 1 : Append(s, k)[i] = IF i <= Len(s) THEN s[i] ELSE k
  BY <1>1
<1>4. Bytes(Append(s, k)) = Bytes(s) \cup new
  <2>1. \A x \in Bytes(Append(s, k)) : x \in Bytes(s) \cup new
    BY <1>1, <1>2, <1>3 DEF Bytes
  <2>2. \A x \in Bytes(s) \cup new : x \in Bytes(Append(s, k))
    BY <1>1, <1>2, <1>3 DEF Bytes
  <2> QED
    BY <2>1, <2>2
<1>5. Bytes(s) \cap new = {}
  BY <1>1 DEF Bytes
<1>6. IsFiniteSet(new) /\ Cardinality(new) = k.done
  <2>1. 1 <= k.done + 1 /\ k.done - 1 + 1 = k.done /\ Len(s) + 1 \in Nat
    BY <1>1
  <2> QED
    BY <1>1, <2>1, Stretch
<1>7. Cardinality(Bytes(s)) \in Nat
  BY FS_CardinalityType
<1>8. /\ IsFiniteSet(Bytes(s) \cup new)
      /\ Cardinality(Bytes(s) \cup new) = Cardinality(Bytes(s)) + Cardinality(new) - Cardinality({})
  <2> HIDE DEF new
  <2>1. /\ IsFiniteSet(Bytes(s) \cup new)
        /\ Cardinality(Bytes(s) \cup new) =
             Cardinality(Bytes(s)) + Cardinality(new) - Cardinality(Bytes(s) \cap new)
    BY <1>6, FS_Union
  <2> QED
    BY <1>5, <2>1
<1> HIDE DEF new
<1> QED
  BY <1>1, <1>4, <1>6, <1>7, <1>8, FS_EmptySet

LEMMA BytesGrow ==
  ASSUME NEW s \in Seq(Child), NEW i \in DOMAIN s, NEW k \in Child, s[i].done <= k.done,
         IsFiniteSet(Bytes(s))
  PROVE  /\ IsFiniteSet(Bytes([s EXCEPT ![i] = k]))
         /\ Cardinality(Bytes([s EXCEPT ![i] = k])) = Cardinality(Bytes(s)) + k.done - s[i].done
<1> DEFINE new == {i} \X (s[i].done + 1 .. k.done)
           w   == [s EXCEPT ![i] = k]
<1>1. k.done \in Nat /\ DOMAIN s = 1 .. Len(s) /\ i \in Nat /\ s[i].done \in Nat
  BY ChildDone
<1>2. DOMAIN w = DOMAIN s /\ w[i] = k /\ \A j \in DOMAIN s : j # i => w[j] = s[j]
  OBVIOUS
<1>3. \A j \in DOMAIN s : s[j].done \in Nat
  BY <1>1, ChildDone
<1>4. Bytes(w) = Bytes(s) \cup new
  <2> HIDE DEF w
  <2>1. \A x \in Bytes(w) : x \in Bytes(s) \cup new
    BY <1>1, <1>2, <1>3 DEF Bytes
  <2>2. \A x \in Bytes(s) \cup new : x \in Bytes(w)
    BY <1>1, <1>2, <1>3 DEF Bytes
  <2> QED
    BY <2>1, <2>2
<1>5. Bytes(s) \cap new = {}
  BY <1>1, <1>3 DEF Bytes
<1>6. IsFiniteSet(new) /\ Cardinality(new) = k.done - s[i].done
  <2>1. /\ s[i].done + 1 <= k.done + 1 /\ s[i].done + 1 \in Nat
        /\ k.done - (s[i].done + 1) + 1 = k.done - s[i].done
    BY <1>1
  <2> QED
    BY <1>1, <2>1, Stretch
<1>7. Cardinality(Bytes(s)) \in Nat
  BY FS_CardinalityType
<1>8. /\ IsFiniteSet(Bytes(s) \cup new)
      /\ Cardinality(Bytes(s) \cup new) = Cardinality(Bytes(s)) + Cardinality(new) - Cardinality({})
  <2> HIDE DEF new
  <2>1. /\ IsFiniteSet(Bytes(s) \cup new)
        /\ Cardinality(Bytes(s) \cup new) =
             Cardinality(Bytes(s)) + Cardinality(new) - Cardinality(Bytes(s) \cap new)
    BY <1>6, FS_Union
  <2> QED
    BY <1>5, <2>1
<1>9. k.done \in Nat /\ s[i].done \in Nat /\ Cardinality({}) = 0
  BY <1>1, FS_EmptySet
<1> HIDE DEF new, w
<1>10. Cardinality(Bytes(w)) = Cardinality(Bytes(s)) + k.done - s[i].done
  BY <1>4, <1>6, <1>7, <1>8, <1>9
<1>11. IsFiniteSet(Bytes(w))
  BY <1>4, <1>8
<1> QED
  BY <1>10, <1>11 DEF w

(* A card is written by its state (Turned) or by its children (Upsert), and *)
(* a card that is not at its end counts what its children have.             *)
Card == [st : Status, kids : Seq(Child), tot : Nat, done : Nat]
Counts(c) == c.done = Cardinality(Bytes(c.kids))

LEMMA TurnedIs ==
  ASSUME NEW c \in Card, NEW ev
  PROVE  /\ Turned(c, ev) \in Card /\ Turned(c, ev).kids = c.kids
         /\ Turned(c, ev).st \notin AtEnd => c.st \notin AtEnd /\ Turned(c, ev).done = c.done
         /\ Turned(c, ev).st = "done" => c.st = "done" \/ ev = "Finished"
         /\ c.st = "none" => Turned(c, ev).st = "none"
<1> DEFINE to == IF c.st \in DOMAIN Turn /\ ev \in DOMAIN Turn[c.st] THEN Turn[c.st][ev] ELSE c.st
<1>1. DOMAIN Turn = {"pending", "active"}
  BY DEF Turn
<1>2. /\ DOMAIN Turn["pending"] = {"Started", "Failed"} /\ DOMAIN Turn["active"] = {"Finished", "Failed"}
      /\ Turn["pending"]["Started"] = "active" /\ Turn["pending"]["Failed"] = "failed"
      /\ Turn["active"]["Finished"] = "done" /\ Turn["active"]["Failed"] = "failed"
  BY DEF Turn
<1>3. /\ to \in Status
      /\ c.st \in AtEnd => to = c.st
      /\ to = "done" => c.st = "done" \/ ev = "Finished"
      /\ c.st = "none" => to = "none"
  BY <1>1, <1>2 DEF Card, Status, AtEnd
<1>4. /\ Turned(c, ev) = [c EXCEPT !.st = to, !.done = IF to = "done" /\ c.st # "done" THEN c.tot ELSE c.done]
  BY DEF Turned
<1>5. c.st \in Status /\ c.tot \in Nat /\ c.done \in Nat
  BY DEF Card
<1> HIDE DEF to
<1>6. /\ Turned(c, ev) \in Card /\ Turned(c, ev).kids = c.kids /\ Turned(c, ev).st = to
      /\ to # "done" => Turned(c, ev).done = c.done
  BY <1>3, <1>4, <1>5 DEF Card
<1> QED
  BY <1>3, <1>5, <1>6 DEF AtEnd, Status

LEMMA ForemostIn ==
  ASSUME NEW I \in SUBSET Nat, I # {}
  PROVE  Foremost(I) \in I
<1>1. PICK x \in I : \A y \in I : ~(<<y, x>> \in OpToRel(<, Nat))
  BY NatLessThanWellFounded, WFMin
<1>2. \A y \in I : x <= y
  <2>1. SUFFICES ASSUME NEW y \in I PROVE x <= y
    OBVIOUS
  <2>2. x \in Nat /\ y \in Nat /\ ~(y < x)
    BY <1>1 DEF OpToRel
  <2> QED
    BY <2>2
<1> QED
  BY <1>2 DEF Foremost

(* What child_upsert makes of a card: its bytes follow its children's.      *)
Grown(c, d) ==
  /\ d \in Card /\ d.st = c.st /\ IsFiniteSet(Bytes(d.kids))
  /\ Counts(c) => Counts(d)

LEMMA UpsertIs ==
  ASSUME NEW c \in Card, NEW k \in Child, IsFiniteSet(Bytes(c.kids))
  PROVE  Grown(c, Upsert(c, k))
<1> DEFINE at == Slot(c.kids, k)
           i  == Foremost(at)
<1>1. /\ c.kids \in Seq(Child) /\ c.done \in Nat /\ c.tot \in Nat /\ c.st \in Status
      /\ k.done \in Nat /\ k.tot \in Nat
  BY DEF Card, Child
<1>2. at \subseteq DOMAIN c.kids
  BY DEF Slot
<1>3. CASE at = {}
  <2> DEFINE s == Append(c.kids, k)
  <2>1. Upsert(c, k) = [c EXCEPT !.kids = s, !.tot = c.tot + k.tot, !.done = c.done + k.done]
    BY <1>3 DEF Upsert
  <2>2. /\ s \in Seq(Child) /\ IsFiniteSet(Bytes(s))
        /\ Cardinality(Bytes(s)) = Cardinality(Bytes(c.kids)) + k.done
    BY <1>1, BytesAppend
  <2> HIDE DEF s
  <2>3. /\ Upsert(c, k) \in Card /\ Upsert(c, k).st = c.st /\ Upsert(c, k).kids = s
        /\ Upsert(c, k).done = c.done + k.done
    <3>1. c.tot + k.tot \in Nat /\ c.done + k.done \in Nat
      BY <1>1
    <3> QED
      BY <1>1, <2>1, <2>2, <3>1 DEF Card
  <2> QED
    BY <2>2, <2>3 DEF Grown, Counts
<1>4. CASE at # {}
  <2> DEFINE d == IF k.done > c.kids[i].done THEN k.done ELSE c.kids[i].done
             e == [k EXCEPT !.done = d]
             s == [c.kids EXCEPT ![i] = e]
  <2>1. i \in DOMAIN c.kids
    <3>1. at \in SUBSET Nat
      BY <1>1, <1>2
    <3> QED
      BY <1>2, <1>4, <3>1, ForemostIn
  <2>2. c.kids[i].done \in Nat
    BY <1>1, <2>1, ChildDone
  <2>3. d \in Nat /\ c.kids[i].done <= d
    BY <1>1, <2>2
  <2>4. Upsert(c, k) = [c EXCEPT !.kids = s, !.done = c.done - c.kids[i].done + d]
    BY <1>4 DEF Upsert
  <2> HIDE DEF d, i
  <2>5. e \in Child /\ e.done = d
    BY <2>3 DEF Child
  <2> HIDE DEF e
  <2>6. /\ s \in Seq(Child) /\ IsFiniteSet(Bytes(s))
        /\ Cardinality(Bytes(s)) = Cardinality(Bytes(c.kids)) + d - c.kids[i].done
    BY <1>1, <2>1, <2>3, <2>5, BytesGrow
  <2> HIDE DEF s
  <2>7. c.done - c.kids[i].done + d \in Nat
    BY <1>1, <2>2, <2>3
  <2>8. /\ Upsert(c, k) \in Card /\ Upsert(c, k).st = c.st /\ Upsert(c, k).kids = s
        /\ Upsert(c, k).done = c.done - c.kids[i].done + d
    BY <1>1, <2>4, <2>6, <2>7 DEF Card
  <2>9. Cardinality(Bytes(c.kids)) \in Nat
    BY FS_CardinalityType
  <2> QED
    BY <1>1, <2>2, <2>3, <2>6, <2>8, <2>9 DEF Grown, Counts
<1> QED
  BY <1>3, <1>4

LEMMA OldestEndsIs ==
  ASSUME NEW c \in Card, NEW st \in AtEnd, IsFiniteSet(Bytes(c.kids))
  PROVE  Grown(c, OldestEnds(c, st))
<1> DEFINE open == {i \in DOMAIN c.kids : c.kids[i].st = "active" /\ c.kids[i].job = NoJob}
           i    == Foremost(open)
           e    == c.kids[i]
           k    == [e EXCEPT !.done = e.tot, !.st = st]
<1>1. c.kids \in Seq(Child)
  BY DEF Card
<1>2. CASE open = {}
  BY <1>2 DEF OldestEnds, Grown
<1>3. CASE open # {}
  <2>1. open \in SUBSET Nat /\ open \subseteq DOMAIN c.kids
    BY <1>1
  <2>2. i \in DOMAIN c.kids
    <3> HIDE DEF open
    <3> QED
      BY <1>3, <2>1, ForemostIn
  <2>3. OldestEnds(c, st) = Upsert(c, k)
    BY <1>3 DEF OldestEnds
  <2> HIDE DEF i
  <2>4. e \in Child
    BY <1>1, <2>2
  <2> HIDE DEF e
  <2>5. k \in Child
    <3>1. e.tot \in Nat
      BY <2>4 DEF Child
    <3> QED
      BY <2>4, <3>1 DEF Child, AtEnd
  <2> QED
    BY <2>3, <2>5, UpsertIs DEF e
<1> QED
  BY <1>2, <1>3

LEMMA JobKid ==
  ASSUME NEW c \in Card, NEW j, ByJob(c, j) # {}
  PROVE  Foremost(ByJob(c, j)) \in DOMAIN c.kids /\ c.kids[Foremost(ByJob(c, j))] \in Child
<1>1. c.kids \in Seq(Child)
  BY DEF Card
<1>2. ByJob(c, j) \in SUBSET Nat /\ ByJob(c, j) \subseteq DOMAIN c.kids
  BY <1>1 DEF ByJob
<1> QED
  BY <1>1, <1>2, ForemostIn

LEMMA JobEndsIs ==
  ASSUME NEW c \in Card, NEW j \in SourceJob, NEW st \in AtEnd, IsFiniteSet(Bytes(c.kids))
  PROVE  Grown(c, JobEnds(c, j, st))
<1>1. [Kid(j, "", st) EXCEPT !.tot = 0] \in Child
  BY DEF Kid, Child, AtEnd
<1>2. CASE ByJob(c, j) = {}
  BY <1>1, <1>2, UpsertIs DEF JobEnds
<1>3. CASE ByJob(c, j) # {}
  <2> DEFINE e == c.kids[Foremost(ByJob(c, j))]
  <2>1. e \in Child
    BY <1>3, JobKid
  <2> HIDE DEF e
  <2>2. [e EXCEPT !.st = st] \in Child
    BY <2>1 DEF Child, AtEnd
  <2>3. JobEnds(c, j, st) = Upsert(c, [e EXCEPT !.st = st])
    BY <1>3 DEF JobEnds, e
  <2> QED
    BY <2>2, <2>3, UpsertIs
<1> QED
  BY <1>2, <1>3

LEMMA JobChunkIs ==
  ASSUME NEW c \in Card, NEW j \in SourceJob, IsFiniteSet(Bytes(c.kids))
  PROVE  Grown(c, JobChunk(c, j))
<1>1. CASE ByJob(c, j) = {}
  BY <1>1 DEF JobChunk, Grown
<1>2. CASE ByJob(c, j) # {}
  <2> DEFINE e == c.kids[Foremost(ByJob(c, j))]
             k == [e EXCEPT !.done = e.done + 1, !.st = "active"]
  <2>1. e \in Child
    BY <1>2, JobKid
  <2>2. JobChunk(c, j) = Upsert(c, k)
    BY <1>2 DEF JobChunk
  <2> HIDE DEF e
  <2>3. k \in Child
    <3>1. e.done + 1 \in Nat
      BY <2>1, ChildDone
    <3> QED
      BY <2>1, <3>1 DEF Child
  <2> QED
    BY <2>2, <2>3, UpsertIs
<1> QED
  BY <1>1, <1>2

-----------------------------------------------------------------------------
(* What a step may do to a card: Ensues keeps the count of its children,   *)
(* Quiet moreover does not end it as done.                                  *)
Ensues(c, d) ==
  /\ d \in Card /\ IsFiniteSet(Bytes(d.kids)) /\ (c.st = "none" => d.st = "none")
  /\ d.st \notin AtEnd => c.st \notin AtEnd /\ (Counts(c) => Counts(d))
Quiet(c, d) == Ensues(c, d) /\ (d.st = "done" => c.st = "done")

LEMMA GrownQuiet ==
  ASSUME NEW c, NEW d, Grown(c, d)
  PROVE  Quiet(c, d)
BY DEF Grown, Quiet, Ensues

LEMMA TurnedEnsues ==
  ASSUME NEW c \in Card, NEW ev, IsFiniteSet(Bytes(c.kids))
  PROVE  /\ Ensues(c, Turned(c, ev))
         /\ ev # "Finished" => Quiet(c, Turned(c, ev))
BY TurnedIs DEF Ensues, Quiet, Counts

LEMMA QuietQuiet ==
  ASSUME NEW c, NEW d, NEW e, Quiet(c, d), Quiet(d, e)
  PROVE  Quiet(c, e)
BY DEF Quiet, Ensues

LEMMA EnsuesEnsues ==
  ASSUME NEW c, NEW d, NEW e, Ensues(c, d), Ensues(d, e)
  PROVE  Ensues(c, e)
BY DEF Ensues

(* A step that leaves all cards but one alone.                              *)
HasAll(t) == \A f \in FilesOf(t) : <<t, f>> \in got
CardsMove ==
  /\ got \subseteq got' /\ bcard' \in [Errand -> Card]
  /\ \A t \in Errand :
       /\ IsFiniteSet(Bytes(bcard'[t].kids))
       /\ bcard[t].st = "none" /\ worker'[t] = "idle" => bcard'[t].st = "none"
       /\ Kind[t] \in {"batch", "pull"} /\ bcard'[t].st \notin AtEnd =>
            bcard[t].st \notin AtEnd /\ (Counts(bcard[t]) => Counts(bcard'[t]))
       /\ Kind[t] \in {"pull", "dir"} /\ bcard'[t].st = "done" => bcard[t].st = "done" \/ HasAll(t)'

LEMMA CardTyped ==
  ASSUME BInv, NEW t \in Errand
  PROVE  bcard[t] \in Card /\ IsFiniteSet(Bytes(bcard[t].kids))
BY DEF BInv, BTypeOK, Card

LEMMA CardsStay ==
  ASSUME BInv, bcard' = bcard, got \subseteq got'
  PROVE  CardsMove
BY CardTyped DEF CardsMove, BInv, BTypeOK, Card

LEMMA OneWrite ==
  ASSUME BInv, NEW p \in Errand, NEW d, bcard' = [bcard EXCEPT ![p] = d], got \subseteq got',
         \/ Quiet(bcard[p], d)
         \/ Kind[p] \notin {"pull", "dir"} /\ Ensues(bcard[p], d)
         \/ Kind[p] = "pull" /\ Ensues(bcard[p], d) /\ (d.st = "done" => HasAll(p)')
         \/ /\ Kind[p] \in {"single", "dir"} /\ d \in Card /\ IsFiniteSet(Bytes(d.kids))
            /\ bcard[p].st = "none" => d.st = "none"
            /\ Kind[p] = "dir" /\ d.st = "done" => bcard[p].st = "done" \/ HasAll(p)'
  PROVE  CardsMove
<1>1. bcard \in [Errand -> Card]
  BY DEF BInv, BTypeOK, Card
<1>2. d \in Card /\ bcard' \in [Errand -> Card]
  BY <1>1 DEF Quiet, Ensues
<1>3. ASSUME NEW t \in Errand
      PROVE  /\ IsFiniteSet(Bytes(bcard'[t].kids))
             /\ bcard[t].st = "none" /\ worker'[t] = "idle" => bcard'[t].st = "none"
             /\ Kind[t] \in {"batch", "pull"} /\ bcard'[t].st \notin AtEnd =>
                  bcard[t].st \notin AtEnd /\ (Counts(bcard[t]) => Counts(bcard'[t]))
             /\ Kind[t] \in {"pull", "dir"} /\ bcard'[t].st = "done" => bcard[t].st = "done" \/ HasAll(t)'
  <2>1. CASE t # p
    BY <1>1, <2>1, CardTyped
  <2>2. CASE t = p
    BY <1>1, <2>2 DEF Quiet, Ensues
  <2> QED
    BY <2>1, <2>2
<1> QED
  BY <1>2, <1>3 DEF CardsMove

LEMMA CardsKept ==
  ASSUME BInv, CardsMove
  PROVE  /\ CountsMatch' /\ DoneHasAll' /\ \A t \in Errand : IsFiniteSet(Bytes(bcard'[t].kids))
         /\ bcard' \in [Errand -> [st : Status, kids : Seq(Child), tot : Nat, done : Nat]]
<1>1. CountsMatch'
  BY DEF BInv, CardsMove, CountsMatch, Counts
<1>2. DoneHasAll'
  BY DEF BInv, CardsMove, DoneHasAll, HasAll
<1> QED
  BY <1>1, <1>2 DEF CardsMove, Card

-----------------------------------------------------------------------------
(* The files of a download.                                                 *)
LEMMA FilesTyped ==
  ASSUME NEW t \in Errand
  PROVE  /\ SeqSet(SmallOf[t]) \subseteq AllFiles /\ SeqSet(LargeOf[t]) \subseteq AllFiles
         /\ FilesOf(t) = SeqSet(SmallOf[t]) \cup SeqSet(LargeOf[t])
         /\ Kind[t] \in {"pull", "dir"} => SeqSet(LargeOf[t]) = {}
<1>1. Kind[t] \in {"pull", "dir"} => SeqSet(LargeOf[t]) = {}
  <2>1. Kind[t] \in {"pull", "dir"} => LargeOf[t] = <<>>
    BY BatchAssumption
  <2>2. SeqSet(<<>>) = {}
    BY DEF SeqSet
  <2> QED
    BY <2>1, <2>2
<1> QED
  BY <1>1 DEF AllFiles, FilesOf

LEMMA JobTyped ==
  ASSUME NEW j \in SourceJob
  PROVE  /\ j[1] \in Errand /\ j[2] \in SeqSet(LargeOf[j[1]]) /\ j[2] \in AllFiles
         /\ j = <<j[1], j[2]>> /\ Kind[j[1]] \notin {"pull", "dir"}
<1>1. j[1] \in Errand /\ j[2] \in SeqSet(LargeOf[j[1]]) /\ j = <<j[1], j[2]>>
  BY DEF SourceJob
<1> QED
  BY <1>1, FilesTyped

LEMMA HandledIs ==
  ASSUME NEW t \in Errand
  PROVE  /\ Finished(t) => AllHandled(t)
         /\ ~Finished(t) => NextFile(t) \in SeqSet(SmallOf[t]) /\ NextFile(t) \in AllFiles
<1> DEFINE S == SeqSet(SmallOf[t])  n == Len(SmallOf[t])  H == Handled(t)
<1>1. SmallOf[t] \in Seq(S) /\ n \in Nat /\ DOMAIN SmallOf[t] = 1 .. n
  BY BatchAssumption
<1>2. IsFiniteSet(S) /\ Cardinality(S) <= n
  <2>1. SmallOf[t] \in Surjection(1 .. n, S)
    BY <1>1 DEF Surjection, SeqSet
  <2>2. IsFiniteSet(1 .. n) /\ Cardinality(1 .. n) = n
    BY <1>1, FS_Interval
  <2> QED
    BY <2>1, <2>2, FS_Surjection
<1>3. H \in SUBSET S
  BY DEF Handled
<1>4. /\ IsFiniteSet(H) /\ Cardinality(H) <= Cardinality(S)
      /\ Cardinality(S) = Cardinality(H) => S = H
  <2> HIDE DEF S, H
  <2> QED
    BY <1>2, <1>3, FS_Subset
<1>5. Cardinality(H) \in Nat /\ Cardinality(S) \in Nat
  BY <1>2, <1>4, FS_CardinalityType
<1>6. Finished(t) => AllHandled(t)
  BY <1>1, <1>2, <1>4, <1>5 DEF Finished, AllHandled
<1>7. ASSUME ~Finished(t) PROVE NextFile(t) \in S
  <2>1. Cardinality(H) + 1 \in 1 .. n
    BY <1>1, <1>2, <1>4, <1>5, <1>7 DEF Finished
  <2> QED
    BY <1>1, <2>1 DEF NextFile, SeqSet
<1> QED
  BY <1>6, <1>7, FilesTyped

LEMMA HandledStays ==
  ASSUME got \subseteq got', \A t \in Errand : missed[t] \subseteq missed'[t], NEW t \in Errand,
         AllHandled(t)
  PROVE  AllHandled(t)'
BY DEF AllHandled, Handled

-----------------------------------------------------------------------------
(* One case for each action.                                                *)
OtherTypes ==
  /\ reg \in [PushKind -> Errand \cup {0}] /\ extra \subseteq SourceJob
  /\ pend \in [SourceJob -> Errand \cup {0}] /\ route \in [SourceJob -> Errand \cup {0}]
  /\ worker \in [Errand -> Step] /\ evs \in [Errand -> Seq(TaskEvent)] /\ src \in Seq(Report)
  /\ recheck \in [{"task", "bridge"} ->
                    [c : Errand \cup {0}, to : {"none", "Finished", "Failed"}]]
  /\ heard \cup bad \cup flag \subseteq Errand /\ missed \in [Errand -> SUBSET AllFiles]
  /\ senders \subseteq SourceJob /\ got \subseteq Errand \X AllFiles /\ cancels \in 0 .. Cancels

LEMMA TypesOf == BInv => OtherTypes /\ bcard \in [Errand -> Card]
BY DEF BInv, BTypeOK, OtherTypes, Card

LEMMA Assembled ==
  ASSUME BInv, CardsMove, OtherTypes', OneCard', OwnersInv', StepsInv', SinglesInv'
  PROVE  BInv'
BY CardsKept DEF BInv, BTypeOK, OtherTypes

LEMMA OwnCard ==
  ASSUME NEW t \in Errand
  PROVE  /\ CardOf[t] \in Errand /\ t # 0 /\ CardOf[t] # 0
         /\ Kind[t] # "retry" => CardOf[t] = t
         /\ Kind[t] \in {"batch", "retry"} => Kind[CardOf[t]] = "batch"
<1>1. IF Kind[t] = "retry" THEN CardOf[t] \in Errand /\ Kind[CardOf[t]] = "batch" ELSE CardOf[t] = t
  BY BatchAssumption
<1>2. 0 \notin Errand
  BY BatchAssumption
<1> QED
  BY <1>1, <1>2

LEMMA LaunchStep ==
  ASSUME BInv, NEW t \in Errand, Launch(t)
  PROVE  BInv'
<1> USE DEF Launch, NewCard, Retried
<1>1. CardsMove
  <2>1. CASE NewCard(t)
    <3>1. /\ bcard[t].st = "none" /\ bcard' = [bcard EXCEPT ![t].st = "pending"] /\ got' = got
          /\ worker' = [worker EXCEPT ![t] = "queued"] /\ worker \in [Errand -> Step]
      BY <2>1, TypesOf DEF BInv, StepsInv, engine, OtherTypes
    <3>2. bcard \in [Errand -> Card]
      BY TypesOf
    <3>3. \A p \in Errand : bcard[p] \in Card /\ IsFiniteSet(Bytes(bcard[p].kids))
      BY CardTyped
    <3>4. [bcard[t] EXCEPT !.st = "pending"] \in Card
      BY <3>2 DEF Card, Status
    <3>5. /\ bcard' \in [Errand -> Card] /\ bcard'[t].kids = bcard[t].kids /\ bcard'[t].done = bcard[t].done
          /\ bcard'[t].st = "pending" /\ \A p \in Errand : p # t => bcard'[p] = bcard[p]
      BY <3>1, <3>2, <3>4 DEF Card
    <3> QED
      BY <3>1, <3>3, <3>5 DEF CardsMove, Counts, AtEnd
  <2>2. CASE Retried(t)
    BY <2>2, CardsStay DEF engine
  <2> QED
    BY <2>1, <2>2
<1>2. OtherTypes'
  <2>1. reg' \in [PushKind -> Errand \cup {0}]
    <3>1. reg' = reg \/ reg' = [reg EXCEPT !["retry"] = CardOf[t]]
      OBVIOUS
    <3>2. reg \in [PushKind -> Errand \cup {0}] /\ CardOf[t] \in Errand
      BY TypesOf, OwnCard DEF OtherTypes
    <3> QED
      BY <3>1, <3>2
  <2>2. worker' \in [Errand -> Step]
    BY TypesOf DEF OtherTypes, Step
  <2> QED
    BY TypesOf, <2>1, <2>2 DEF OtherTypes, engine
<1>3. OneCard' /\ OwnersInv'
  BY TypesOf, BatchAssumption DEF BInv, OneCard, OwnersInv, OtherTypes, PushKind
<1>4. StepsInv' /\ SinglesInv'
  <2>1. \A p \in Errand : AllHandled(p) => AllHandled(p)'
    BY HandledStays DEF engine
  <2>2. StepsInv'
    BY <1>1, <2>1, TypesOf DEF BInv, StepsInv, OtherTypes, PushSteps, CardsMove
  <2>3. SinglesInv'
    BY TypesOf DEF BInv, SinglesInv, OtherTypes, PushSteps, PushKind, engine
  <2> QED
    BY <2>2, <2>3
<1> QED
  BY <1>1, <1>2, <1>3, <1>4, Assembled

LEMMA QueueStep ==
  ASSUME BInv, NEW t \in Errand, WaitTimeout(t) \/ Acquire(t)
  PROVE  BInv'
<1> USE DEF WaitTimeout, Acquire
<1>1. CardsMove
  <2>1. CASE bcard' = bcard
    BY <2>1, CardsStay DEF engine
  <2>2. CASE bcard' = [bcard EXCEPT ![t] = Turned(@, "Failed")]
    <3>1. Quiet(bcard[t], Turned(bcard[t], "Failed"))
      BY CardTyped, TurnedEnsues
    <3>2. bcard' = [bcard EXCEPT ![t] = Turned(bcard[t], "Failed")] /\ got \subseteq got'
      BY <2>2, TypesOf DEF engine
    <3> QED
      BY <3>1, <3>2, OneWrite
  <2> QED
    BY <2>1, <2>2
<1>2. Kind[t] \in {"batch", "single", "retry", "pull", "dir"}
  BY BatchAssumption
<1>3. OtherTypes'
  <2>1. reg' \in [PushKind -> Errand \cup {0}]
    <3>1. reg' = reg \/ (Kind[t] \in {"batch", "single"} /\ reg' = [reg EXCEPT ![Kind[t]] = t])
      OBVIOUS
    <3> QED
      BY <3>1, TypesOf DEF OtherTypes
  <2>2. worker' \in [Errand -> Step]
    BY <1>2, TypesOf DEF OtherTypes, Step, PushKind
  <2> QED
    BY TypesOf, <2>1, <2>2 DEF OtherTypes, engine
<1>4. OneCard' /\ OwnersInv'
  BY <1>2, TypesOf, OwnCard DEF BInv, OneCard, OwnersInv, OtherTypes, PushKind
<1>5. StepsInv'
  <2>1. \A p \in Errand : AllHandled(p) => AllHandled(p)'
    BY HandledStays DEF engine
  <2> QED
    BY <1>1, <1>2, <2>1, TypesOf DEF BInv, StepsInv, OtherTypes, PushSteps, CardsMove, PushKind
<1>6. SinglesInv'
  BY <1>2, OwnCard, TypesOf DEF BInv, SinglesInv, OtherTypes, PushSteps, PushKind, engine
<1> QED
  BY <1>1, <1>3, <1>4, <1>5, <1>6, Assembled

LEMMA CancelStep ==
  ASSUME BInv, NEW t \in Errand, CancelRun(t)
  PROVE  BInv'
<1> USE DEF CancelRun
<1>1. CardsMove
  <2>1. CASE bcard' = bcard
    BY <2>1, CardsStay DEF engine
  <2>2. CASE bcard' = [bcard EXCEPT ![t] = Turned(@, "Failed")]
    <3>1. Quiet(bcard[t], Turned(bcard[t], "Failed"))
      BY CardTyped, TurnedEnsues
    <3>2. bcard' = [bcard EXCEPT ![t] = Turned(bcard[t], "Failed")] /\ got \subseteq got'
      BY <2>2, TypesOf DEF engine
    <3> QED
      BY <3>1, <3>2, OneWrite
  <2> QED
    BY <2>1, <2>2
<1>2. OtherTypes'
  BY TypesOf, BatchAssumption DEF OtherTypes, engine
<1>3. OneCard' /\ OwnersInv'
  BY DEF BInv, OneCard, OwnersInv
<1>4. StepsInv' /\ SinglesInv'
  <2>1. \A p \in Errand : AllHandled(p) => AllHandled(p)'
    BY HandledStays DEF engine
  <2> QED
    BY <1>1, <2>1 DEF BInv, StepsInv, SinglesInv, CardsMove, engine
<1> QED
  BY <1>1, <1>2, <1>3, <1>4, Assembled

(* The events of a push's engine.                                           *)
NoAllDone(out) == out \in Seq(TaskEvent) /\ \A i \in DOMAIN out : out[i].ev # "AllDone"

LEMMA StartedTyped ==
  ASSUME NEW t \in Errand
  PROVE  NoAllDone(StartedEvs(SmallOf[t])) /\ NoAllDone(StartedEvs(LargeOf[t]))
<1>1. ASSUME NEW s, s \in Seq(SeqSet(s)), SeqSet(s) \subseteq AllFiles
      PROVE  NoAllDone(StartedEvs(s))
  <2>1. DOMAIN s = 1 .. Len(s) /\ Len(s) \in Nat /\ \A i \in 1 .. Len(s) : s[i] \in AllFiles
    BY <1>1 DEF SeqSet
  <2>2. \A i \in 1 .. Len(s) : Ev("Started", s[i]) \in TaskEvent
    BY <2>1 DEF Ev, TaskEvent
  <2>3. StartedEvs(s) = [i \in 1 .. Len(s) |-> Ev("Started", s[i])]
    BY <2>1 DEF StartedEvs
  <2>4. StartedEvs(s) \in Seq(TaskEvent) /\ DOMAIN StartedEvs(s) = 1 .. Len(s)
    BY <2>1, <2>2, <2>3
  <2> QED
    BY <2>3, <2>4 DEF NoAllDone, Ev
<1>2. SmallOf[t] \in Seq(SeqSet(SmallOf[t])) /\ LargeOf[t] \in Seq(SeqSet(LargeOf[t]))
  BY BatchAssumption
<1> QED
  BY <1>1, <1>2, FilesTyped

LEMMA DoneTyped ==
  ASSUME NEW n \in Nat
  PROVE  NoAllDone(DoneEvs(n))
<1> DEFINE e == Ev("Done", "")
<1>1. e \in TaskEvent /\ e.ev = "Done"
  BY DEF Ev, TaskEvent
<1>2. DoneEvs(n) = [i \in 1 .. n |-> e]
  BY DEF DoneEvs
<1> HIDE DEF e
<1>3. DoneEvs(n) \in Seq(TaskEvent) /\ DOMAIN DoneEvs(n) = 1 .. n
  BY <1>1, <1>2
<1> QED
  BY <1>1, <1>2, <1>3 DEF NoAllDone

(* The engine of a push goes on: only its own step and events change.       *)
LEMMA EngineGoes ==
  ASSUME BInv, NEW t \in Errand, NEW at \in PushSteps, NEW out, NoAllDone(out), CardsMove,
         worker[t] \in PushSteps, EngineAt(t, at, out)
  PROVE  /\ worker' \in [Errand -> Step] /\ evs' \in [Errand -> Seq(TaskEvent)] /\ StepsInv'
         /\ \A p \in Errand : worker'[p] \in PushSteps <=> worker[p] \in PushSteps
<1>1. worker \in [Errand -> Step] /\ evs \in [Errand -> Seq(TaskEvent)] /\ at \in Step
  BY TypesOf DEF OtherTypes, PushSteps, Step
<1>2. worker' = [worker EXCEPT ![t] = at] /\ evs' = [evs EXCEPT ![t] = out] /\ missed' = missed
  BY DEF EngineAt
<1>3. worker' \in [Errand -> Step] /\ evs' \in [Errand -> Seq(TaskEvent)]
  BY <1>1, <1>2 DEF NoAllDone
<1>4. \A p \in Errand : AllHandled(p) => AllHandled(p)'
  BY <1>2, HandledStays DEF CardsMove
<1>5. StepsInv'
  BY <1>1, <1>2, <1>4 DEF BInv, StepsInv, NoAllDone, CardsMove, PushSteps, PushKind
<1> QED
  BY <1>1, <1>2, <1>3, <1>5

LEMMA GoingStep ==
  ASSUME BInv, NEW t \in Errand, Going(t) \/ JobDone(t)
  PROVE  BInv'
<1>1. PICK at, out : at \in PushSteps /\ EngineAt(t, at, out) /\ NoAllDone(out)
  <2>1. CASE Going(t)
    BY <2>1, StartedTyped DEF Going, PushSteps
  <2>2. CASE JobDone(t)
    <3>1. Len(SmallOf[t]) + 1 \in Nat
      BY BatchAssumption
    <3> QED
      BY <2>2, <3>1, DoneTyped DEF JobDone, PushSteps
  <2> QED
    BY <2>1, <2>2
<1>2. worker[t] \in PushSteps /\ bcard' = bcard /\ UNCHANGED <<bad, src, senders, got>>
  BY DEF Going, JobDone, PushSteps, engine
<1>3. /\ UNCHANGED <<reg, pend, route, extra, recheck, heard, flag, missed, cancels>>
  BY <1>1 DEF EngineAt
<1>4. CardsMove
  BY <1>2, CardsStay
<1>5. /\ worker' \in [Errand -> Step] /\ evs' \in [Errand -> Seq(TaskEvent)] /\ StepsInv'
      /\ \A p \in Errand : worker'[p] \in PushSteps <=> worker[p] \in PushSteps
  BY <1>1, <1>2, <1>4, EngineGoes
<1>6. OtherTypes'
  BY <1>2, <1>3, <1>5, TypesOf DEF OtherTypes
<1>7. OneCard' /\ OwnersInv' /\ SinglesInv'
  BY <1>2, <1>3, <1>5 DEF BInv, OneCard, OwnersInv, SinglesInv
<1> QED
  BY <1>4, <1>5, <1>6, <1>7, Assembled

LEMMA StreamedStep ==
  ASSUME BInv, NEW t \in Errand, Streamed(t)
  PROVE  BInv'
<1> USE DEF Streamed
<1>1. EngineAt(t, "confirm", StartedEvs(LargeOf[t])) /\ NoAllDone(StartedEvs(LargeOf[t]))
  BY StartedTyped
<1>2. worker[t] \in PushSteps /\ "confirm" \in PushSteps /\ bcard' = bcard /\ UNCHANGED <<bad, src, senders>>
  BY DEF PushSteps
<1>3. UNCHANGED <<reg, pend, route, extra, recheck, heard, flag, missed, cancels>>
  BY <1>1 DEF EngineAt
<1>4. got \subseteq got' /\ got' \subseteq Errand \X AllFiles
  BY TypesOf, FilesTyped DEF OtherTypes
<1>5. CardsMove
  BY <1>2, <1>4, CardsStay
<1>6. /\ worker' \in [Errand -> Step] /\ evs' \in [Errand -> Seq(TaskEvent)] /\ StepsInv'
      /\ \A p \in Errand : worker'[p] \in PushSteps <=> worker[p] \in PushSteps
  BY <1>1, <1>2, <1>5, EngineGoes
<1>7. OtherTypes'
  BY <1>2, <1>3, <1>4, <1>6, TypesOf DEF OtherTypes
<1>8. OneCard' /\ OwnersInv' /\ SinglesInv'
  BY <1>2, <1>3, <1>6 DEF BInv, OneCard, OwnersInv, SinglesInv
<1> QED
  BY <1>5, <1>6, <1>7, <1>8, Assembled

LEMMA ErrStep ==
  ASSUME BInv, NEW t \in Errand, Refused(t) \/ StreamLost(t) \/ JobFailed(t)
  PROVE  BInv'
<1>1. PICK out : PushErr(t, out) /\ NoAllDone(out)
  <2>1. NoAllDone(<<>>)
    BY DEF NoAllDone
  <2>2. NoAllDone(<<Ev("Failed", "")>>)
    <3> DEFINE e == Ev("Failed", "")
    <3>1. e \in TaskEvent /\ e.ev = "Failed"
      BY DEF Ev, TaskEvent
    <3> HIDE DEF e
    <3>2. <<e>> \in Seq(TaskEvent) /\ \A i \in DOMAIN <<e>> : <<e>>[i] = e
      BY <3>1
    <3> QED
      BY <3>1, <3>2 DEF NoAllDone, e
  <2> QED
    BY <2>1, <2>2 DEF Refused, StreamLost, JobFailed
<1>2. worker[t] \in PushSteps /\ "drain" \in PushSteps
  BY DEF Refused, StreamLost, JobFailed, PushSteps
<1>3. EngineAt(t, "drain", out) /\ got' = got
  BY <1>1 DEF PushErr
<1>4. UNCHANGED <<reg, pend, route, extra, recheck, heard, flag, missed, cancels>>
  BY <1>3 DEF EngineAt
<1>5. CardsMove
  <2>1. CASE bcard' = bcard
    BY <1>3, <2>1, CardsStay
  <2>2. CASE bcard' = [bcard EXCEPT ![t] = Turned(@, "Failed")]
    <3>1. Quiet(bcard[t], Turned(bcard[t], "Failed"))
      BY CardTyped, TurnedEnsues
    <3>2. bcard' = [bcard EXCEPT ![t] = Turned(bcard[t], "Failed")] /\ got \subseteq got'
      BY <1>3, <2>2, TypesOf
    <3> QED
      BY <3>1, <3>2, OneWrite
  <2> QED
    BY <1>1, <2>1, <2>2 DEF PushErr
<1>6. /\ worker' \in [Errand -> Step] /\ evs' \in [Errand -> Seq(TaskEvent)] /\ StepsInv'
      /\ \A p \in Errand : worker'[p] \in PushSteps <=> worker[p] \in PushSteps
  BY <1>1, <1>2, <1>3, <1>5, EngineGoes
<1>7. senders' \subseteq senders /\ bad' \subseteq Errand
  BY <1>1, TypesOf DEF PushErr, OtherTypes
<1>8. src' = src \/ \E j \in senders : src' = Append(src, SrcEv("Failed", j))
  BY <1>1 DEF PushErr, SourceRow
<1>9. src' \in Seq(Report)
  <2>1. src \in Seq(Report) /\ senders \subseteq SourceJob
    BY TypesOf DEF OtherTypes
  <2>2. \A j \in SourceJob : SrcEv("Failed", j) \in Report
    BY JobTyped DEF SrcEv, Report
  <2> QED
    BY <1>8, <2>1, <2>2
<1>10. OtherTypes'
  BY <1>3, <1>4, <1>6, <1>7, <1>9, TypesOf DEF OtherTypes
<1>11. SinglesInv'
  <2>1. \A j : SrcEv("Failed", j).job = j
    BY DEF SrcEv
  <2>2. src \in Seq(Report)
    BY TypesOf DEF OtherTypes
  <2>3. \A i \in DOMAIN src' : (i \in DOMAIN src /\ src'[i] = src[i]) \/ src'[i].job \in senders
    BY <1>8, <2>1, <2>2
  <2> QED
    BY <1>4, <1>6, <1>7, <2>3 DEF BInv, SinglesInv
<1>12. OneCard' /\ OwnersInv'
  BY <1>4 DEF BInv, OneCard, OwnersInv
<1> QED
  BY <1>5, <1>6, <1>10, <1>11, <1>12, Assembled

LEMMA TaskStep ==
  ASSUME BInv, NEW t \in Errand, Accepted(t) \/ PushOver(t)
  PROVE  BInv'
<1> USE DEF Accepted, PushOver, shell, engine
<1>1. CardsMove
  BY CardsStay
<1>2. \A p \in Errand : AllHandled(p) => AllHandled(p)'
  BY HandledStays
<1>3. worker' \in [Errand -> Step]
  BY TypesOf DEF OtherTypes, Step
<1>4. OtherTypes'
  BY <1>3, TypesOf DEF OtherTypes
<1>5. StepsInv' /\ SinglesInv'
  BY <1>2, TypesOf DEF BInv, StepsInv, SinglesInv, OtherTypes, PushSteps
<1>6. OneCard' /\ OwnersInv'
  BY DEF BInv, OneCard, OwnersInv
<1> QED
  BY <1>1, <1>4, <1>5, <1>6, Assembled

(* What is reported to the source bridge, and what it takes.                *)
LEMMA ReportTyped ==
  ASSUME NEW j \in SourceJob, NEW k \in {"Started", "Chunk", "Done", "Failed"}
  PROVE  SrcEv(k, j) \in Report /\ SrcEv(k, j).job = j /\ SrcEv(k, j).ev = k
BY JobTyped DEF SrcEv, Report

LEMMA MetaStep ==
  ASSUME BInv, NEW t \in Errand, NEW f, Meta(t, f)
  PROVE  BInv'
<1> USE DEF Meta, shell
<1> DEFINE j == <<t, f>>
           e == SrcEv("Started", j)
<1>1. j \in SourceJob /\ worker[t] \in PushSteps
  BY DEF SourceJob, PushSteps
<1>2. e \in Report /\ e.job = j /\ j[1] = t
  BY <1>1, ReportTyped
<1>3. src' = Append(src, e) /\ senders' = senders \cup {j} /\ src \in Seq(Report)
  BY TypesOf DEF OtherTypes
<1> HIDE DEF e, j
<1>4. CardsMove
  BY CardsStay
<1>5. \A p \in Errand : AllHandled(p) => AllHandled(p)'
  BY HandledStays
<1>6. OtherTypes'
  <2>1. src' \in Seq(Report) /\ senders' \subseteq SourceJob
    BY <1>1, <1>2, <1>3, TypesOf DEF OtherTypes
  <2> QED
    BY <2>1, TypesOf DEF OtherTypes
<1>7. StepsInv' /\ OneCard' /\ OwnersInv'
  BY <1>5 DEF BInv, StepsInv, OneCard, OwnersInv
<1>8. SinglesInv'
  <2>1. \A i \in DOMAIN src' : (i \in DOMAIN src /\ src'[i] = src[i]) \/ src'[i] = e
    BY <1>2, <1>3
  <2>2. reg["single"] = 0 => Kind[j[1]] # "single"
    BY <1>1, <1>2 DEF BInv, SinglesInv
  <2> QED
    BY <1>2, <1>3, <2>1, <2>2 DEF BInv, SinglesInv
<1> QED
  BY <1>4, <1>6, <1>7, <1>8, Assembled

LEMMA ArrivesStep ==
  ASSUME BInv, NEW j \in SourceJob, Arrives(j)
  PROVE  BInv'
<1> USE DEF Arrives, shell
<1> DEFINE a == SrcEv("Chunk", j)
           b == SrcEv("Done", j)
<1>1. a \in Report /\ b \in Report /\ a.job = j /\ b.job = j
  BY ReportTyped
<1>2. src' = src \o <<a, b>> /\ src \in Seq(Report) /\ senders' = senders \ {j} /\ got' = got \cup {j}
  BY TypesOf DEF OtherTypes
<1> HIDE DEF a, b
<1>3. CardsMove
  BY <1>2, CardsStay
<1>4. \A p \in Errand : AllHandled(p) => AllHandled(p)'
  BY <1>2, HandledStays
<1>5. OtherTypes'
  <2>1. <<a, b>> \in Seq(Report)
    BY <1>1
  <2>2. src' \in Seq(Report)
    BY <1>2, <2>1
  <2>3. j \in Errand \X AllFiles
    BY JobTyped
  <2> QED
    BY <1>2, <2>2, <2>3, TypesOf DEF OtherTypes
<1>6. StepsInv' /\ OneCard' /\ OwnersInv'
  BY <1>4 DEF BInv, StepsInv, OneCard, OwnersInv
<1>7. SinglesInv'
  <2>1. \A i \in DOMAIN src' : (i \in DOMAIN src /\ src'[i] = src[i]) \/ src'[i] = a \/ src'[i] = b
    <3>1. Len(<<a, b>>) = 2 /\ <<a, b>>[1] = a /\ <<a, b>>[2] = b /\ <<a, b>> \in Seq(Report)
      BY <1>1
    <3> QED
      BY <1>2, <3>1
  <2>2. reg["single"] = 0 => Kind[j[1]] # "single"
    BY DEF BInv, SinglesInv
  <2> QED
    BY <1>1, <1>2, <2>1, <2>2 DEF BInv, SinglesInv
<1> QED
  BY <1>3, <1>5, <1>6, <1>7, Assembled

(* The recheck of a card reads its children and takes back a registration.  *)
RegMoves ==
  /\ reg' = reg \/ reg' = [reg EXCEPT !["batch"] = 0]
  /\ recheck' \in [{"task", "bridge"} -> [c : Errand \cup {0}, to : {"none", "Finished", "Failed"}]]
  /\ \A v \in {"task", "bridge"} :
       recheck'[v] = recheck[v] \/ recheck'[v].c = 0 \/ Kind[recheck'[v].c] = "batch"

LEMMA RecheckIs ==
  ASSUME BInv, NEW w \in {"task", "bridge"}, NEW p \in Errand, Kind[p] = "batch", NEW c, Recheck(w, p, c)
  PROVE  RegMoves
<1> DEFINE d == IF AllOver(c) /\ c.st \notin AtEnd
                  THEN [c |-> p, to |-> IF AnyFailed(c) THEN "Failed" ELSE "Finished"] ELSE NoDue
<1>1. recheck' = [recheck EXCEPT ![w] = d]
  BY DEF Recheck
<1>2. d \in [c : Errand \cup {0}, to : {"none", "Finished", "Failed"}] /\ d.c \in {0, p}
  BY DEF NoDue
<1>3. recheck \in [{"task", "bridge"} -> [c : Errand \cup {0}, to : {"none", "Finished", "Failed"}]]
  BY TypesOf DEF OtherTypes
<1> HIDE DEF d
<1>4. reg' = reg \/ reg' = [reg EXCEPT !["batch"] = 0]
  BY DEF Recheck
<1> QED
  BY <1>1, <1>2, <1>3, <1>4 DEF RegMoves

LEMMA RegStays ==
  ASSUME BInv, UNCHANGED <<reg, recheck>>
  PROVE  RegMoves
BY TypesOf DEF RegMoves, OtherTypes

LEMMA RegKept ==
  ASSUME BInv, RegMoves, UNCHANGED <<pend, route>>
  PROVE  OwnersInv' /\ reg' \in [PushKind -> Errand \cup {0}] /\ reg'["single"] = reg["single"]
<1>1. reg \in [PushKind -> Errand \cup {0}] /\ "batch" \in PushKind /\ "single" \in PushKind
  BY TypesOf DEF OtherTypes, PushKind
<1>2. /\ reg' \in [PushKind -> Errand \cup {0}] /\ reg'["single"] = reg["single"]
      /\ \A k \in PushKind : reg'[k] = reg[k] \/ reg'[k] = 0
  BY <1>1 DEF RegMoves
<1> QED
  BY <1>2 DEF RegMoves, BInv, OwnersInv

LEMMA ConvergeStep ==
  ASSUME BInv, NEW w \in {"task", "bridge"}, Converge(w)
  PROVE  BInv'
<1> DEFINE p == recheck[w].c
           d == Turned(IF recheck[w].to = "Finished" THEN Turned(bcard[p], "Started") ELSE bcard[p],
                       recheck[w].to)
<1> USE DEF engine
<1>1. p \in Errand /\ Kind[p] = "batch" /\ bcard' = [bcard EXCEPT ![p] = d]
  BY TypesOf DEF Converge, OtherTypes, BInv, OwnersInv
<1>2. Ensues(bcard[p], d)
  <2>1. bcard[p] \in Card /\ IsFiniteSet(Bytes(bcard[p].kids))
    BY <1>1, CardTyped
  <2>2. Ensues(bcard[p], Turned(bcard[p], "Started")) /\ Turned(bcard[p], "Started") \in Card
        /\ IsFiniteSet(Bytes(Turned(bcard[p], "Started").kids))
    BY <2>1, TurnedEnsues DEF Ensues
  <2>3. \A ev : Ensues(Turned(bcard[p], "Started"), Turned(Turned(bcard[p], "Started"), ev))
    BY <2>2, TurnedEnsues
  <2> QED
    BY <2>1, <2>2, <2>3, TurnedEnsues, EnsuesEnsues
<1>3. CardsMove
  <2> HIDE DEF d, p
  <2> QED
    BY <1>1, <1>2, OneWrite DEF Converge
<1>4. OtherTypes'
  <2>1. recheck' \in [{"task", "bridge"} -> [c : Errand \cup {0}, to : {"none", "Finished", "Failed"}]]
    BY TypesOf DEF Converge, OtherTypes, NoDue
  <2> QED
    BY <2>1, TypesOf DEF Converge, OtherTypes
<1>5. OneCard' /\ OwnersInv'
  <2>1. \A v \in {"task", "bridge"} : recheck'[v] = recheck[v] \/ recheck'[v].c = 0
    BY TypesOf DEF Converge, OtherTypes, NoDue
  <2> QED
    BY <2>1 DEF Converge, BInv, OneCard, OwnersInv
<1>6. StepsInv' /\ SinglesInv'
  <2>1. \A t \in Errand : AllHandled(t) => AllHandled(t)'
    BY HandledStays DEF Converge
  <2> QED
    BY <1>3, <2>1 DEF Converge, BInv, StepsInv, SinglesInv, CardsMove
<1> QED
  BY <1>3, <1>4, <1>5, <1>6, Assembled

(* An event is taken from a task's queue.                                   *)
LEMMA EventTaken ==
  ASSUME BInv, NEW t \in Errand, evs[t] # <<>>, evs' = [evs EXCEPT ![t] = Tail(@)]
  PROVE  /\ Head(evs[t]) \in TaskEvent /\ evs' \in [Errand -> Seq(TaskEvent)]
         /\ \A p \in Errand : \A i \in DOMAIN evs'[p] : \E k \in DOMAIN evs[p] : evs'[p][i] = evs[p][k]
         /\ 1 \in DOMAIN evs[t] /\ Head(evs[t]) = evs[t][1]
<1>1. evs \in [Errand -> Seq(TaskEvent)] /\ evs[t] \in Seq(TaskEvent)
  BY TypesOf DEF OtherTypes
<1>2. /\ Head(evs[t]) \in TaskEvent /\ Tail(evs[t]) \in Seq(TaskEvent)
      /\ 1 \in DOMAIN evs[t] /\ Head(evs[t]) = evs[t][1]
  BY <1>1
<1>3. evs' \in [Errand -> Seq(TaskEvent)]
  BY <1>1, <1>2
<1>4. \A i \in DOMAIN Tail(evs[t]) : i + 1 \in DOMAIN evs[t] /\ Tail(evs[t])[i] = evs[t][i + 1]
  BY <1>1
<1>5. \A p \in Errand : evs'[p] = IF p = t THEN Tail(evs[t]) ELSE evs[p]
  BY <1>1
<1>6. \A p \in Errand : \A i \in DOMAIN evs'[p] : \E k \in DOMAIN evs[p] : evs'[p][i] = evs[p][k]
  BY <1>4, <1>5
<1> QED
  BY <1>2, <1>3, <1>6

LEMMA PushEventStep ==
  ASSUME BInv, NEW t \in Errand, PushEvent(t)
  PROVE  BInv'
<1> DEFINE p == CardOf[t]
           e == Head(evs[t])
           ended == OldestEnds(bcard[p], IF e.ev = "Done" THEN "done" ELSE "failed")
<1>1. /\ Kind[t] \in PushKind /\ evs[t] # <<>> /\ evs' = [evs EXCEPT ![t] = Tail(@)]
      /\ heard' \subseteq heard \cup {t}
      /\ UNCHANGED <<pend, route, extra, worker, bad, flag, missed, src, senders, got, cancels>>
  BY DEF PushEvent, engine
<1>2. p \in Errand /\ bcard[p] \in Card /\ IsFiniteSet(Bytes(bcard[p].kids))
  BY CardTyped, OwnCard
<1>3. AsBatch(t) => Kind[p] = "batch"
  BY <1>1, OwnCard DEF AsBatch, PushKind
<1>4. Kind[p] \notin {"pull", "dir"}
  BY <1>1, OwnCard DEF PushKind
<1>5. e \in TaskEvent
  BY <1>1, EventTaken
<1>6. got \subseteq got'
  BY <1>1
<1>7. ASSUME AsBatch(t), e.ev = "Started" PROVE CardsMove /\ RegMoves
  <2> DEFINE k == Kid(NoJob, e.f, "active")
             d == Turned(Upsert(bcard[p], k), "Started")
  <2>1. bcard' = [bcard EXCEPT ![p] = d] /\ UNCHANGED <<recheck, reg>>
    BY <1>7 DEF PushEvent
  <2>2. k \in Child
    BY <1>5 DEF Kid, Child, TaskEvent
  <2>3. Quiet(bcard[p], Upsert(bcard[p], k)) /\ Upsert(bcard[p], k) \in Card
        /\ IsFiniteSet(Bytes(Upsert(bcard[p], k).kids))
    BY <1>2, <2>2, UpsertIs, GrownQuiet DEF Grown
  <2>4. Quiet(Upsert(bcard[p], k), d)
    BY <2>3, TurnedEnsues
  <2> HIDE DEF k
  <2>5. Quiet(bcard[p], d)
    BY <2>3, <2>4, QuietQuiet
  <2>6. RegMoves
    BY <2>1, RegStays
  <2> HIDE DEF d, p
  <2> QED
    BY <1>2, <1>6, <2>1, <2>5, <2>6, OneWrite
<1>8. ASSUME AsBatch(t), e.ev # "Started" PROVE CardsMove /\ RegMoves
  <2>1. bcard' = [bcard EXCEPT ![p] = ended] /\ Recheck("task", p, ended)
    BY <1>8 DEF PushEvent
  <2>2. Quiet(bcard[p], ended)
    BY <1>2, OldestEndsIs, GrownQuiet DEF AtEnd
  <2>3. RegMoves
    BY <1>2, <1>3, <1>8, <2>1, RecheckIs
  <2> HIDE DEF ended, p
  <2> QED
    BY <1>2, <1>6, <2>1, <2>2, <2>3, OneWrite
<1>9. ASSUME ~AsBatch(t) PROVE CardsMove /\ RegMoves
  <2> DEFINE c == IF e.ev = "Started" THEN [bcard[p] EXCEPT !.tot = 1] ELSE bcard[p]
             d == Turned(c, IF e.ev = "Done" THEN "Finished" ELSE e.ev)
  <2>1. bcard' = [bcard EXCEPT ![p] = d] /\ UNCHANGED <<recheck, reg>>
    BY <1>9 DEF PushEvent
  <2>2. Ensues(bcard[p], c) /\ c \in Card /\ IsFiniteSet(Bytes(c.kids))
    <3>1. /\ c \in Card /\ c.st = bcard[p].st /\ c.kids = bcard[p].kids
          /\ c.done = bcard[p].done
      BY <1>2 DEF Card
    <3> QED
      BY <1>2, <3>1 DEF Ensues, Counts
  <2> HIDE DEF c
  <2>3. Ensues(bcard[p], d)
    BY <2>2, TurnedEnsues, EnsuesEnsues
  <2>4. RegMoves
    BY <2>1, RegStays
  <2> HIDE DEF d, p
  <2> QED
    BY <1>2, <1>4, <1>6, <2>1, <2>3, <2>4, OneWrite
<1>10. CardsMove /\ RegMoves
  BY <1>7, <1>8, <1>9
<1>11. OtherTypes'
  BY <1>1, <1>10, EventTaken, RegKept, TypesOf DEF OtherTypes, RegMoves
<1>12. StepsInv'
  <2>1. \A q \in Errand : AllHandled(q) => AllHandled(q)'
    BY <1>1, HandledStays
  <2>2. \A q \in Errand : \A i \in DOMAIN evs'[q] : \E k \in DOMAIN evs[q] : evs'[q][i] = evs[q][k]
    BY <1>1, EventTaken
  <2> QED
    BY <1>1, <1>10, <2>1, <2>2 DEF BInv, StepsInv, CardsMove
<1>13. OneCard' /\ OwnersInv' /\ SinglesInv'
  BY <1>1, <1>10, RegKept DEF BInv, OneCard, SinglesInv
<1> QED
  BY <1>10, <1>11, <1>12, <1>13, Assembled

(* A source job finds the card it is attached to.                           *)
LEMMA AttachIs ==
  ASSUME BInv, NEW j \in SourceJob, Attach(j), UNCHANGED <<reg, recheck, got>>,
         reg["single"] = 0 => Kind[j[1]] # "single"
  PROVE  /\ CardsMove /\ OwnersInv' /\ OneCard' /\ extra' \subseteq SourceJob
         /\ pend' \in [SourceJob -> Errand \cup {0}] /\ route' \in [SourceJob -> Errand \cup {0}]
<1> DEFINE q == reg["single"]
<1>1. /\ reg \in [PushKind -> Errand \cup {0}] /\ extra \subseteq SourceJob /\ q \in Errand \cup {0}
      /\ pend \in [SourceJob -> Errand \cup {0}] /\ route \in [SourceJob -> Errand \cup {0}]
  BY TypesOf DEF OtherTypes, PushKind
<1>2. /\ Parent \in Errand \cup {0} /\ (Parent # 0 => Kind[Parent] = "batch")
      /\ q # 0 => Kind[q] = "single"
  BY <1>1 DEF Parent, BInv, OwnersInv, PushKind
<1>3. CASE Parent # 0 /\ bcard[Parent].st \notin AtEnd
  <2> DEFINE k == Kid(j, j[2], "active")
  <2>1. /\ bcard' = [bcard EXCEPT ![Parent] = Upsert(bcard[Parent], k)]
        /\ pend' = [pend EXCEPT ![j] = Parent] /\ UNCHANGED <<route, extra>>
    BY <1>3 DEF Attach
  <2>2. Parent \in Errand /\ bcard[Parent] \in Card /\ IsFiniteSet(Bytes(bcard[Parent].kids))
    BY <1>2, <1>3, CardTyped
  <2>3. k \in Child
    BY JobTyped DEF Kid, Child
  <2>4. Quiet(bcard[Parent], Upsert(bcard[Parent], k))
    BY <2>2, <2>3, UpsertIs, GrownQuiet
  <2>5. CardsMove
    <3> HIDE DEF k
    <3> QED
      BY <2>1, <2>2, <2>4, OneWrite
  <2> QED
    BY <1>1, <1>2, <2>1, <2>2, <2>5 DEF BInv, OwnersInv, OneCard
<1>4. CASE ~(Parent # 0 /\ bcard[Parent].st \notin AtEnd) /\ q # 0
  <2>1. /\ bcard' = [bcard EXCEPT ![q] = Turned(bcard[q], "Started")]
        /\ route' = IF bcard[q].st \in AtEnd THEN route ELSE [route EXCEPT ![j] = q]
        /\ UNCHANGED <<pend, extra>>
    BY <1>4 DEF Attach
  <2>2. q \in Errand /\ bcard[q] \in Card /\ IsFiniteSet(Bytes(bcard[q].kids))
    BY <1>1, <1>4, CardTyped
  <2>3. Quiet(bcard[q], Turned(bcard[q], "Started"))
    BY <2>2, TurnedEnsues
  <2>4. CardsMove
    BY <2>1, <2>2, <2>3, OneWrite
  <2> QED
    BY <1>1, <1>2, <2>1, <2>2, <2>4 DEF BInv, OwnersInv, OneCard
<1>5. CASE ~(Parent # 0 /\ bcard[Parent].st \notin AtEnd) /\ q = 0
  <2>1. extra' = extra \cup {j} /\ UNCHANGED <<bcard, pend, route>>
    BY <1>5 DEF Attach
  <2>2. CardsMove
    BY <2>1, CardsStay
  <2>3. OneCard'
    BY <1>5, <2>1 DEF BInv, OneCard
  <2> QED
    BY <1>1, <2>1, <2>2, <2>3 DEF BInv, OwnersInv
<1> QED
  BY <1>3, <1>4, <1>5

LEMMA BridgeStep ==
  ASSUME BInv, Bridge
  PROVE  BInv'
<1> DEFINE e == Head(src)
           j == e.job
           p == pend[j]
           q == route[j]
           to == IF e.ev = "Done" THEN "done" ELSE "failed"
<1>1. /\ src # <<>> /\ src' = Tail(src)
      /\ UNCHANGED <<worker, evs, heard, bad, flag, missed, senders, got, cancels>>
  BY DEF Bridge
<1>2. /\ src \in Seq(Report) /\ src' \in Seq(Report) /\ e \in Report /\ j \in SourceJob
      /\ 1 \in DOMAIN src /\ e = src[1]
      /\ \A i \in DOMAIN src' : i + 1 \in DOMAIN src /\ src'[i] = src[i + 1]
  <2>1. src \in Seq(Report)
    BY TypesOf DEF OtherTypes
  <2>2. src' \in Seq(Report) /\ e \in Report /\ 1 \in DOMAIN src /\ e = src[1]
        /\ \A i \in DOMAIN src' : i + 1 \in DOMAIN src /\ src'[i] = src[i + 1]
    BY <1>1, <2>1
  <2> QED
    BY <2>1, <2>2 DEF Report
<1>3. /\ p \in Errand \cup {0} /\ (p # 0 => Kind[p] = "batch")
      /\ q \in Errand \cup {0} /\ (q # 0 => Kind[q] = "single")
  BY <1>2, TypesOf DEF OtherTypes, BInv, OwnersInv
<1>4. reg["single"] = 0 => Kind[j[1]] # "single"
  BY <1>2 DEF BInv, SinglesInv
<1> DEFINE Result == /\ CardsMove /\ OwnersInv' /\ OneCard' /\ RegMoves /\ extra' \subseteq SourceJob
                     /\ reg' \in [PushKind -> Errand \cup {0}] /\ reg'["single"] = reg["single"]
                     /\ pend' \in [SourceJob -> Errand \cup {0}]
                     /\ route' \in [SourceJob -> Errand \cup {0}]
<1>5. ASSUME e.ev = "Started" PROVE Result
  <2>1. Attach(j) /\ UNCHANGED <<reg, recheck>>
    BY <1>5 DEF Bridge
  <2>2. RegMoves
    BY <2>1, RegStays
  <2> QED
    BY <1>1, <1>2, <1>4, <2>1, <2>2, AttachIs, TypesOf DEF OtherTypes
<1>6. ASSUME e.ev # "Started", CardsMove, RegMoves, UNCHANGED <<pend, route, extra>> PROVE Result
  BY <1>6, RegKept, TypesOf DEF OtherTypes, BInv, OneCard
<1>7. ASSUME e.ev = "Chunk" PROVE Result
  <2>1. /\ bcard' = IF p # 0 THEN [bcard EXCEPT ![p] = JobChunk(bcard[p], j)]
                    ELSE IF q # 0 THEN [bcard EXCEPT ![q].done = @ + 1] ELSE bcard
        /\ UNCHANGED <<reg, pend, route, extra, recheck>>
    BY <1>7 DEF Bridge
  <2>2. CASE p # 0
    <3>1. p \in Errand /\ Quiet(bcard[p], JobChunk(bcard[p], j))
      BY <1>2, <1>3, <2>2, CardTyped, JobChunkIs, GrownQuiet
    <3>2. CardsMove
      BY <1>1, <2>1, <2>2, <3>1, OneWrite
    <3> QED
      BY <1>6, <1>7, <2>1, <3>2, RegStays
  <2>3. CASE p = 0 /\ q # 0
    <3> DEFINE d == [bcard[q] EXCEPT !.done = bcard[q].done + 1]
    <3>1. q \in Errand /\ bcard[q] \in Card /\ IsFiniteSet(Bytes(bcard[q].kids)) /\ Kind[q] = "single"
      BY <1>3, <2>3, CardTyped
    <3>2. bcard' = [bcard EXCEPT ![q] = d]
      BY <2>1, <2>3
    <3>3. d \in Card /\ d.kids = bcard[q].kids /\ d.st = bcard[q].st
      <4>1. bcard[q].done + 1 \in Nat
        BY <3>1 DEF Card
      <4> QED
        BY <3>1, <4>1 DEF Card
    <3> HIDE DEF d, q
    <3>4. CardsMove
      BY <1>1, <3>1, <3>2, <3>3, OneWrite
    <3> QED
      BY <1>6, <1>7, <2>1, <3>4, RegStays
  <2>4. CASE p = 0 /\ q = 0
    <3>1. CardsMove
      BY <1>1, <2>1, <2>4, CardsStay
    <3> QED
      BY <1>6, <1>7, <2>1, <3>1, RegStays
  <2> QED
    BY <2>2, <2>3, <2>4
<1>8. ASSUME e.ev \notin {"Started", "Chunk"} PROVE Result
  <2>1. /\ UNCHANGED <<pend, route, extra>>
        /\ IF p # 0
             THEN /\ bcard' = [bcard EXCEPT ![p] = JobEnds(bcard[p], j, to)]
                  /\ Recheck("bridge", p, JobEnds(bcard[p], j, to))
             ELSE /\ bcard' = IF q = 0 THEN bcard ELSE [bcard EXCEPT ![q] =
                                  Turned(bcard[q], IF to = "done" THEN "Finished" ELSE "Failed")]
                  /\ UNCHANGED <<reg, recheck>>
    BY <1>8 DEF Bridge
  <2>2. CASE p # 0
    <3>1. p \in Errand /\ Quiet(bcard[p], JobEnds(bcard[p], j, to))
      BY <1>2, <1>3, <2>2, CardTyped, JobEndsIs, GrownQuiet DEF AtEnd
    <3>2. CardsMove
      BY <1>1, <2>1, <2>2, <3>1, OneWrite
    <3>3. RegMoves
      BY <1>3, <2>1, <2>2, RecheckIs
    <3> QED
      BY <1>6, <1>8, <2>1, <3>2, <3>3
  <2>3. CASE p = 0 /\ q # 0
    <3> DEFINE d == Turned(bcard[q], IF to = "done" THEN "Finished" ELSE "Failed")
    <3>1. q \in Errand /\ Kind[q] = "single" /\ Ensues(bcard[q], d)
      BY <1>3, <2>3, CardTyped, TurnedEnsues
    <3>2. bcard' = [bcard EXCEPT ![q] = d] /\ UNCHANGED <<reg, recheck>>
      BY <2>1, <2>3
    <3> HIDE DEF d, q
    <3>3. CardsMove
      BY <1>1, <3>1, <3>2, OneWrite
    <3> QED
      BY <1>6, <1>8, <2>1, <3>2, <3>3, RegStays
  <2>4. CASE p = 0 /\ q = 0
    <3>1. CardsMove
      BY <1>1, <2>1, <2>4, CardsStay
    <3> QED
      BY <1>6, <1>8, <2>1, <2>4, <3>1, RegStays
  <2> QED
    BY <2>2, <2>3, <2>4
<1>9. Result
  BY <1>5, <1>7, <1>8
<1>10. OtherTypes'
  BY <1>1, <1>2, <1>9, TypesOf DEF OtherTypes, RegMoves
<1>11. StepsInv'
  <2>1. \A t \in Errand : AllHandled(t) => AllHandled(t)'
    BY <1>1, HandledStays
  <2> QED
    BY <1>1, <1>9, <2>1 DEF BInv, StepsInv, CardsMove
<1>12. SinglesInv'
  BY <1>1, <1>2, <1>9 DEF BInv, SinglesInv
<1> QED
  BY <1>9, <1>10, <1>11, <1>12, Assembled

-----------------------------------------------------------------------------
(* The task of a download goes on.                                          *)
PullSteps == {"pull", "file"}
DirSteps  == {"dir", "files", "agg"}
GoesTo(t, at) ==
  /\ worker' = [worker EXCEPT ![t] = at] /\ at \in Step
  /\ \/ worker[t] \in PullSteps /\ at \in {"pull", "file", "over"}
     \/ worker[t] \in {"dir", "files"} /\ at \in {"files", "agg"}
     \/ worker[t] = "agg" /\ at = "over"
Says(t, at, e) ==
  /\ evs' = [evs EXCEPT ![t] = Append(@, e)] /\ e \in TaskEvent /\ e.ev \in FolderEvs
  /\ e.ev = "AllDone" => AllHandled(t) /\ at = "agg"

LEMMA DownGoes ==
  ASSUME BInv, CardsMove, UNCHANGED download, NEW t \in Errand, NEW at, GoesTo(t, at),
         evs' = evs \/ \E e : Says(t, at, e),
         got' \subseteq Errand \X AllFiles, missed' \in [Errand -> SUBSET AllFiles],
         \A p \in Errand : missed[p] \subseteq missed'[p]
  PROVE  BInv'
<1> USE DEF download
<1>1. worker \in [Errand -> Step] /\ evs \in [Errand -> Seq(TaskEvent)]
  BY TypesOf DEF OtherTypes
<1>2. worker' \in [Errand -> Step]
  BY <1>1 DEF GoesTo
<1>3. evs' \in [Errand -> Seq(TaskEvent)]
  <2>1. ASSUME NEW e, Says(t, at, e) PROVE evs' \in [Errand -> Seq(TaskEvent)]
    <3>1. evs' = [evs EXCEPT ![t] = Append(evs[t], e)] /\ e \in TaskEvent
      BY <1>1, <2>1 DEF Says
    <3>2. Append(evs[t], e) \in Seq(TaskEvent)
      BY <1>1, <3>1
    <3> QED
      BY <1>1, <3>1, <3>2
  <2> QED
    BY <1>1, <2>1
<1>4. OtherTypes'
  BY <1>2, <1>3, TypesOf DEF OtherTypes
<1>5. \A p \in Errand : AllHandled(p) => AllHandled(p)'
  BY HandledStays DEF CardsMove
<1>6. StepsInv'
  <2> SUFFICES ASSUME NEW p \in Errand
               PROVE  /\ worker'[p] \in PushSteps => Kind[p] \in PushKind
                      /\ worker'[p] \in {"pull", "file"} => Kind[p] = "pull"
                      /\ worker'[p] \in {"dir", "files", "agg"} => Kind[p] = "dir"
                      /\ worker'[p] = "idle" /\ Kind[p] # "retry" => bcard'[p].st = "none"
                      /\ \A i \in DOMAIN evs'[p] :
                           /\ evs'[p][i].ev = "AllDone" => AllHandled(p)' /\ worker'[p] \in {"agg", "over"}
                           /\ Kind[p] = "dir" => evs'[p][i].ev \in FolderEvs
    BY DEF StepsInv
  <2>1. /\ worker'[p] \in PushSteps => Kind[p] \in PushKind
        /\ worker'[p] \in {"pull", "file"} => Kind[p] = "pull"
        /\ worker'[p] \in {"dir", "files", "agg"} => Kind[p] = "dir"
    BY <1>1 DEF BInv, StepsInv, GoesTo, PushSteps, PullSteps
  <2>2. worker'[p] = "idle" /\ Kind[p] # "retry" => bcard'[p].st = "none"
    BY <1>1 DEF BInv, StepsInv, GoesTo, CardsMove
  <2>3. worker[p] \in {"agg", "over"} => worker'[p] \in {"agg", "over"}
    BY <1>1 DEF GoesTo, PullSteps
  <2>4. ASSUME NEW i \in DOMAIN evs'[p]
        PROVE  /\ evs'[p][i].ev = "AllDone" => AllHandled(p)' /\ worker'[p] \in {"agg", "over"}
               /\ Kind[p] = "dir" => evs'[p][i].ev \in FolderEvs
    <3>1. CASE i \in DOMAIN evs[p] /\ evs'[p][i] = evs[p][i]
      BY <1>5, <2>3, <2>4, <3>1 DEF BInv, StepsInv
    <3>2. CASE ~(i \in DOMAIN evs[p] /\ evs'[p][i] = evs[p][i])
      <4>1. PICK e : Says(t, at, e)
        BY <2>4, <3>2
      <4>2. p = t /\ evs'[p][i] = e
        BY <1>1, <2>4, <3>2, <4>1 DEF Says
      <4> QED
        BY <1>1, <1>5, <2>4, <4>1, <4>2 DEF Says, GoesTo
    <3> QED
      BY <3>1, <3>2
  <2> QED
    BY <2>1, <2>2, <2>4
<1>7. SinglesInv'
  BY <1>1 DEF BInv, SinglesInv, GoesTo, PushSteps
<1>8. OneCard' /\ OwnersInv'
  BY DEF BInv, OneCard, OwnersInv
<1> QED
  BY <1>4, <1>6, <1>7, <1>8, Assembled

LEMMA DownKind ==
  ASSUME BInv, NEW t \in Errand
  PROVE  /\ worker[t] \in PullSteps => Kind[t] = "pull"
         /\ worker[t] \in DirSteps => Kind[t] = "dir"
         /\ worker[t] \in PullSteps \cup DirSteps => bcard[t] \in Card /\ IsFiniteSet(Bytes(bcard[t].kids))
BY CardTyped DEF BInv, StepsInv, PullSteps, DirSteps

(* The child of a file, and a card that gets it after it has begun.         *)
LEMMA FileChild ==
  ASSUME NEW f \in AllFiles \cup {""}
  PROVE  /\ Kid(NoJob, f, "active") \in Child
         /\ [Kid(NoJob, f, "done") EXCEPT !.done = 1] \in Child
         /\ [Kid(NoJob, f, "failed") EXCEPT !.tot = 0] \in Child
BY DEF Kid, Child

LEMMA BegunGrows ==
  ASSUME NEW c \in Card, IsFiniteSet(Bytes(c.kids)), NEW k \in Child
  PROVE  Quiet(c, Upsert(Turned(c, "Started"), k)) /\ Quiet(c, Upsert(c, k))
<1> DEFINE d == Turned(c, "Started")
<1>1. Quiet(c, d) /\ d \in Card /\ IsFiniteSet(Bytes(d.kids))
  BY TurnedEnsues DEF Quiet, Ensues
<1> HIDE DEF d
<1>2. Quiet(d, Upsert(d, k)) /\ Quiet(c, Upsert(c, k))
  BY <1>1, UpsertIs, GrownQuiet
<1>3. Quiet(c, Upsert(d, k))
  BY <1>1, <1>2, QuietQuiet
<1> QED
  BY <1>2, <1>3 DEF d

LEMMA AllLanded ==
  ASSUME NEW t \in Errand, Kind[t] \in {"pull", "dir"}, AllHandled(t), missed[t] = {}
  PROVE  HasAll(t)
BY FilesTyped DEF AllHandled, Handled, HasAll

LEMMA PullFileStep ==
  ASSUME BInv, NEW t \in Errand, PullBegins(t) \/ PullLands(t) \/ PullFails(t)
  PROVE  BInv'
<1> USE DEF PullBegins, PullLands, PullFails
<1>1. worker[t] \in PullSteps /\ UNCHANGED <<download, evs>>
  BY DEF PullSteps
<1>2. PICK at : GoesTo(t, at)
  BY <1>1 DEF GoesTo, Step
<1>3. bcard[t] \in Card /\ IsFiniteSet(Bytes(bcard[t].kids))
  BY <1>1, DownKind
<1>4. NextFile(t) \in AllFiles
  BY HandledIs
<1>5. PICK d : bcard' = [bcard EXCEPT ![t] = d] /\ Quiet(bcard[t], d)
  <2> DEFINE f == NextFile(t)
  <2>1. \/ bcard' = [bcard EXCEPT ![t] = Upsert(Turned(bcard[t], "Started"), Kid(NoJob, f, "active"))]
        \/ bcard' = [bcard EXCEPT ![t] =
             Upsert(Turned(bcard[t], "Started"), [Kid(NoJob, f, "done") EXCEPT !.done = 1])]
        \/ bcard' = [bcard EXCEPT ![t] = Upsert(bcard[t], [Kid(NoJob, f, "failed") EXCEPT !.tot = 0])]
    OBVIOUS
  <2>2. f \in AllFiles \cup {""}
    BY <1>4
  <2> HIDE DEF f
  <2> QED
    BY <1>3, <2>1, <2>2, FileChild, BegunGrows
<1>6. /\ got \subseteq got' /\ got' \subseteq Errand \X AllFiles
      /\ missed' \in [Errand -> SUBSET AllFiles] /\ \A p \in Errand : missed[p] \subseteq missed'[p]
  <2> DEFINE f == NextFile(t)
  <2>1. got' = got \/ got' = got \cup {<<t, f>>}
    OBVIOUS
  <2>2. missed' = missed \/ missed' = [missed EXCEPT ![t] = missed[t] \cup {f}]
    OBVIOUS
  <2>3. f \in AllFiles
    BY <1>4
  <2>4. got \subseteq Errand \X AllFiles /\ missed \in [Errand -> SUBSET AllFiles]
    BY TypesOf DEF OtherTypes
  <2> HIDE DEF f, PullBegins, PullLands, PullFails
  <2> QED
    BY <2>1, <2>2, <2>3, <2>4
<1>7. CardsMove
  BY <1>5, <1>6, OneWrite
<1> QED
  BY <1>1, <1>2, <1>6, <1>7, DownGoes

LEMMA PullOverStep ==
  ASSUME BInv, NEW t \in Errand, PullCancelled(t) \/ PullEnds(t)
  PROVE  BInv'
<1> USE DEF PullCancelled, PullEnds
<1>1. worker[t] \in PullSteps /\ UNCHANGED <<download, evs, missed, got>>
  BY DEF PullSteps
<1>2. GoesTo(t, "over")
  BY <1>1 DEF GoesTo, Step
<1>3. bcard[t] \in Card /\ IsFiniteSet(Bytes(bcard[t].kids)) /\ Kind[t] = "pull"
  BY <1>1, DownKind
<1>4. CardsMove
  <2>1. CASE PullCancelled(t)
    BY <1>1, <2>1, CardsStay
  <2>2. CASE PullEnds(t)
    <3> DEFINE ev == IF missed[t] = {} THEN "Finished" ELSE "Failed"
               d  == Turned(bcard[t], ev)
    <3>1. bcard' = [bcard EXCEPT ![t] = d]
      BY <2>2
    <3>2. Ensues(bcard[t], d) /\ (missed[t] # {} => Quiet(bcard[t], d))
      BY <1>3, TurnedEnsues
    <3>3. missed[t] = {} => HasAll(t)'
      BY <1>1, <1>3, <2>2, HandledIs, AllLanded DEF HasAll
    <3> HIDE DEF d
    <3> QED
      BY <1>1, <1>3, <3>1, <3>2, <3>3, OneWrite
  <2> QED
    BY <2>1, <2>2
<1>5. missed \in [Errand -> SUBSET AllFiles] /\ got \subseteq Errand \X AllFiles
  BY TypesOf DEF OtherTypes
<1> QED
  BY <1>1, <1>2, <1>4, <1>5, DownGoes

LEMMA DirTaskStep ==
  ASSUME BInv, NEW t \in Errand,
         DirEnumerated(t) \/ DirFile(t) \/ DirAll(t) \/ DirError(t) \/ DirOver(t)
  PROVE  BInv'
<1> DEFINE f == NextFile(t)
<1>1. worker[t] \in DirSteps /\ UNCHANGED download
  BY DEF DirEnumerated, DirFile, DirAll, DirError, DirOver, DirSend, DirSteps
<1>2. got \subseteq Errand \X AllFiles /\ missed \in [Errand -> SUBSET AllFiles]
  BY TypesOf DEF OtherTypes
<1>3. ASSUME DirFile(t) PROVE f \in AllFiles
  BY <1>3, HandledIs DEF DirFile
<1>4. /\ got' = got \/ (DirFile(t) /\ got' = got \cup {<<t, f>>})
      /\ missed' = missed \/ (DirFile(t) /\ missed' = [missed EXCEPT ![t] = missed[t] \cup {f}])
  <2>1. ASSUME DirFile(t)
        PROVE  /\ got' = got \/ got' = got \cup {<<t, f>>}
               /\ missed' = missed \/ missed' = [missed EXCEPT ![t] = missed[t] \cup {f}]
    BY <2>1 DEF DirFile
  <2>2. CASE DirFile(t)
    BY <2>1, <2>2
  <2>3. CASE ~DirFile(t)
    BY <2>3 DEF DirEnumerated, DirAll, DirError, DirOver
  <2> QED
    BY <2>2, <2>3
<1>5. PICK at : GoesTo(t, at) /\ (evs' = evs \/ \E e : Says(t, at, e))
  <2>1. ASSUME NEW k \in {"Enumerated", "FileDone", "FileFailed", "AllDone"}, NEW g \in AllFiles \cup {""}
        PROVE  Ev(k, g) \in TaskEvent /\ Ev(k, g).ev = k /\ k \in FolderEvs
    BY DEF Ev, TaskEvent, FolderEvs
  <2>2. CASE DirEnumerated(t)
    <3>1. evs' = [evs EXCEPT ![t] = Append(@, Ev("Enumerated", ""))] /\ worker' = [worker EXCEPT ![t] = "files"]
          /\ worker[t] = "dir"
      BY <2>2 DEF DirEnumerated, DirSend
    <3>2. Says(t, "files", Ev("Enumerated", ""))
      BY <2>1, <3>1 DEF Says
    <3> QED
      BY <3>1, <3>2 DEF GoesTo, Step
  <2>3. CASE DirFile(t)
    <3>1. PICK k \in {"FileDone", "FileFailed"} :
            evs' = [evs EXCEPT ![t] = Append(@, Ev(k, f))] /\ worker' = [worker EXCEPT ![t] = "files"]
            /\ worker[t] = "files"
      BY <2>3 DEF DirFile, DirSend
    <3>2. Ev(k, f) \in TaskEvent /\ Ev(k, f).ev = k /\ k \in FolderEvs
      BY <1>3, <2>1, <2>3
    <3>3. Says(t, "files", Ev(k, f))
      BY <3>1, <3>2 DEF Says
    <3> QED
      BY <3>1, <3>3 DEF GoesTo, Step
  <2>4. CASE DirAll(t)
    <3>1. evs' = [evs EXCEPT ![t] = Append(@, Ev("AllDone", ""))] /\ worker' = [worker EXCEPT ![t] = "agg"]
          /\ worker[t] = "files" /\ AllHandled(t)
      BY <2>4, HandledIs DEF DirAll, DirSend
    <3>2. Says(t, "agg", Ev("AllDone", ""))
      BY <2>1, <3>1 DEF Says
    <3> QED
      BY <3>1, <3>2 DEF GoesTo, Step
  <2>5. CASE DirError(t)
    BY <2>5 DEF DirError, GoesTo, Step
  <2>6. CASE DirOver(t)
    BY <2>6 DEF DirOver, GoesTo, Step
  <2> QED
    BY <2>2, <2>3, <2>4, <2>5, <2>6
<1>6. /\ got \subseteq got' /\ got' \subseteq Errand \X AllFiles
      /\ missed' \in [Errand -> SUBSET AllFiles] /\ \A p \in Errand : missed[p] \subseteq missed'[p]
  <2> HIDE DEF f
  <2> QED
    BY <1>2, <1>3, <1>4
<1>7. CardsMove
  <2>1. CASE bcard' = bcard
    BY <1>6, <2>1, CardsStay
  <2>2. CASE DirError(t)
    <3>1. bcard' = [bcard EXCEPT ![t] = Turned(bcard[t], "Failed")]
      BY <2>2 DEF DirError
    <3>2. Quiet(bcard[t], Turned(bcard[t], "Failed"))
      BY <1>1, DownKind, TurnedEnsues
    <3> QED
      BY <1>6, <3>1, <3>2, OneWrite
  <2> QED
    BY <2>1, <2>2 DEF DirEnumerated, DirFile, DirAll, DirOver, DirSend
<1> QED
  BY <1>1, <1>5, <1>6, <1>7, DownGoes

LEMMA DirEventStep ==
  ASSUME BInv, NEW t \in Errand, DirEvent(t)
  PROVE  BInv'
<1> DEFINE e == Head(evs[t])
           c == bcard[t]
           f == e.f
<1>1. /\ Kind[t] = "dir" /\ evs[t] # <<>> /\ evs' = [evs EXCEPT ![t] = Tail(@)]
      /\ UNCHANGED <<download, worker, missed, got>>
  BY DEF DirEvent
<1>2. c \in Card /\ IsFiniteSet(Bytes(c.kids))
  BY CardTyped
<1>3. /\ e \in TaskEvent /\ e.ev \in FolderEvs /\ f \in AllFiles \cup {""}
      /\ e.ev = "AllDone" => AllHandled(t)
  <2>1. e \in TaskEvent /\ 1 \in DOMAIN evs[t] /\ e = evs[t][1]
    BY <1>1, EventTaken
  <2>2. \A i \in DOMAIN evs[t] :
          /\ evs[t][i].ev = "AllDone" => AllHandled(t)
          /\ evs[t][i].ev \in FolderEvs
    BY <1>1 DEF BInv, StepsInv
  <2> HIDE DEF e
  <2> QED
    BY <2>1, <2>2 DEF TaskEvent
<1>4. PICK d :
        /\ bcard' = [bcard EXCEPT ![t] = d] /\ d \in Card /\ IsFiniteSet(Bytes(d.kids))
        /\ c.st = "none" => d.st = "none"
        /\ d.st = "done" => c.st = "done" \/ HasAll(t)
  <2>1. CASE e.ev = "Enumerated"
    <3> DEFINE a == Turned(c, "Started")
               d == [a EXCEPT !.tot = Len(SmallOf[t])]
    <3>1. bcard' = [bcard EXCEPT ![t] = d]
      BY <2>1 DEF DirEvent
    <3>2. Quiet(c, a)
      BY <1>2, TurnedEnsues
    <3>3. Len(SmallOf[t]) \in Nat
      BY BatchAssumption
    <3> HIDE DEF a
    <3>4. d \in Card /\ d.st = a.st /\ d.kids = a.kids
      BY <3>2, <3>3 DEF Card, Quiet, Ensues
    <3> HIDE DEF d
    <3> QED
      BY <3>1, <3>2, <3>4 DEF Quiet, Ensues
  <2>2. CASE e.ev = "FileDone"
    <3> DEFINE a == [c EXCEPT !.done = c.done + 1]
               k == [Kid(NoJob, f, "done") EXCEPT !.done = 1]
    <3>1. bcard' = [bcard EXCEPT ![t] = Upsert(a, k)]
      <4>1. bcard' = [bcard EXCEPT ![t] =
                        Upsert([bcard[t] EXCEPT !.done = bcard[t].done + 1],
                               [Kid(NoJob, Head(evs[t]).f, "done") EXCEPT !.done = 1])]
        <5> HIDE DEF c, a, k
        <5> QED
          BY <2>2 DEF DirEvent
      <4> QED
        BY <4>1
    <3>2. a \in Card /\ a.st = c.st /\ IsFiniteSet(Bytes(a.kids)) /\ k \in Child
      <4>1. k \in Child
        BY <1>3, FileChild
      <4>2. a \in Card /\ a.st = c.st /\ a.kids = c.kids
        <5> HIDE DEF c
        <5> QED
          BY <1>2 DEF Card
      <4> QED
        BY <1>2, <4>1, <4>2
    <3> HIDE DEF a, k
    <3>3. Quiet(a, Upsert(a, k))
      BY <3>2, UpsertIs, GrownQuiet
    <3> QED
      BY <3>1, <3>2, <3>3 DEF Quiet, Ensues
  <2>3. CASE e.ev = "FileFailed"
    <3> DEFINE k == [Kid(NoJob, f, "failed") EXCEPT !.tot = 0]
    <3>1. bcard' = [bcard EXCEPT ![t] = Upsert(c, k)]
      BY <2>3 DEF DirEvent
    <3>2. k \in Child
      BY <1>3, FileChild
    <3> HIDE DEF k
    <3>3. Quiet(c, Upsert(c, k))
      BY <1>2, <3>2, UpsertIs, GrownQuiet
    <3> QED
      BY <3>1, <3>3 DEF Quiet, Ensues
  <2>4. CASE e.ev = "AllDone"
    <3> DEFINE ev == IF missed[t] = {} THEN "Finished" ELSE "Failed"
               d  == Turned(c, ev)
    <3>1. bcard' = [bcard EXCEPT ![t] = d]
      BY <2>4 DEF DirEvent
    <3>2. Ensues(c, d) /\ (missed[t] # {} => Quiet(c, d))
      BY <1>2, TurnedEnsues
    <3>3. missed[t] = {} => HasAll(t)
      BY <1>1, <1>3, <2>4, AllLanded
    <3> HIDE DEF d
    <3> QED
      BY <3>1, <3>2, <3>3 DEF Quiet, Ensues
  <2> QED
    BY <1>3, <2>1, <2>2, <2>3, <2>4 DEF FolderEvs
<1>5. CardsMove
  <2>1. HasAll(t) => HasAll(t)'
    BY <1>1 DEF HasAll
  <2> QED
    BY <1>1, <1>4, <2>1, OneWrite
<1>6. OtherTypes'
  BY <1>1, EventTaken, TypesOf DEF OtherTypes, download
<1>7. StepsInv'
  <2>1. \A q \in Errand : AllHandled(q) => AllHandled(q)'
    BY <1>1, HandledStays
  <2>2. \A q \in Errand : \A i \in DOMAIN evs'[q] : \E k \in DOMAIN evs[q] : evs'[q][i] = evs[q][k]
    BY <1>1, EventTaken
  <2> QED
    BY <1>1, <1>5, <2>1, <2>2 DEF BInv, StepsInv, CardsMove
<1>8. OneCard' /\ OwnersInv' /\ SinglesInv'
  BY <1>1 DEF BInv, OneCard, OwnersInv, SinglesInv, download
<1> QED
  BY <1>5, <1>6, <1>7, <1>8, Assembled

-----------------------------------------------------------------------------
(* The theorem.                                                             *)
LEMMA BatchInit == BInit => BInv
<1> SUFFICES ASSUME BInit PROVE BInv
  OBVIOUS
<1> USE DEF BInit
<1>1. BTypeOK
  <2>1. /\ evs \in [Errand -> Seq(TaskEvent)] /\ src \in Seq(Report)
        /\ bcard \in [Errand -> [st : Status, kids : Seq(Child), tot : Nat, done : Nat]]
    BY DEF Status
  <2>2. Cancels \in Nat
    BY BatchAssumption
  <2> QED
    BY <2>1, <2>2 DEF BTypeOK, Step, NoDue
<1>2. \A t \in Errand : bcard[t].kids = <<>> /\ bcard[t].done = 0 /\ bcard[t].st = "none"
  OBVIOUS
<1>3. Bytes(<<>>) = {}
  BY DEF Bytes
<1>4. CountsMatch /\ \A t \in Errand : IsFiniteSet(Bytes(bcard[t].kids))
  BY <1>2, <1>3, FS_EmptySet DEF CountsMatch
<1>5. DoneHasAll /\ OneCard /\ OwnersInv
  BY DEF DoneHasAll, OneCard, OwnersInv, NoDue
<1>6. StepsInv /\ SinglesInv
  BY DEF StepsInv, SinglesInv, PushSteps
<1> QED
  BY <1>1, <1>4, <1>5, <1>6 DEF BInv

LEMMA BatchStep == BInv /\ [BNext]_bvars => BInv'
<1> SUFFICES ASSUME BInv, [BNext]_bvars PROVE BInv'
  OBVIOUS
<1>1. CASE UNCHANGED bvars
  <2> USE <1>1 DEF bvars, shell, engine
  <2>1. CardsMove
    BY CardsStay
  <2>2. OtherTypes'
    BY TypesOf DEF OtherTypes
  <2>3. \A q \in Errand : AllHandled(q) => AllHandled(q)'
    BY HandledStays
  <2>4. OneCard' /\ OwnersInv' /\ SinglesInv'
    BY DEF BInv, OneCard, OwnersInv, SinglesInv
  <2>5. StepsInv'
    BY <2>3 DEF BInv, StepsInv
  <2> QED
    BY <2>1, <2>2, <2>4, <2>5, Assembled
<1>2. ASSUME NEW t \in Errand, Launch(t) \/ WaitTimeout(t) \/ Acquire(t) \/ CancelRun(t)
      PROVE  BInv'
  BY <1>2, LaunchStep, QueueStep, CancelStep
<1>3. ASSUME NEW t \in Errand, PushStep(t) PROVE BInv'
  BY <1>3, GoingStep, StreamedStep, ErrStep, TaskStep, PushEventStep, MetaStep DEF PushStep
<1>4. ASSUME NEW t \in Errand, PullStep(t) PROVE BInv'
  BY <1>4, PullFileStep, PullOverStep DEF PullStep
<1>5. ASSUME NEW t \in Errand, DirStep(t) PROVE BInv'
  BY <1>5, DirTaskStep, DirEventStep DEF DirStep
<1> QED
  BY <1>1, <1>2, <1>3, <1>4, <1>5, ArrivesStep, BridgeStep, ConvergeStep DEF BNext

(* The cards with children are right, for any commands, files and cancels   *)
(* (main.rs: child_upsert, recheck_parent_terminal): an open card shows the *)
(* bytes of its children, done means that every file arrived, and a push of *)
(* one file is one card.                                                    *)
THEOREM BatchAlwaysSound == BSpec => []BatchSound
<1>1. BInv => BatchSound
  BY DEF BInv, BatchSound
<1> QED
  BY <1>1, BatchInit, BatchStep, PTL DEF BSpec
=============================================================================

----------------------------- MODULE TableFile -----------------------------
(* The desktop shell's table of cards on disk, transfers.json: the saver's   *)
(* ticks, the save at closing, the removal of cards from view and from disk, *)
(* and the table rebuilt at the start from the directories and the file.     *)
(* How a download runs is DownloadCards'.                                    *)
EXTENDS Integers, FiniteSets

CONSTANTS Cards,    \* bound: cards created
          Dirs,     \* bound: directories of downloads
          HistoryCap, \* 150: finished cards that are saved
          Commands, \* bound: commands of the user
          Failures, \* bound: writes that fail
          Rebuilds  \* bound: restarts

ASSUME TableAssumption == {Cards, Dirs, HistoryCap, Commands, Failures, Rebuilds} \subseteq Nat

CardId == 1 .. Cards
JobId  == (Cards + 1) .. (Cards + Dirs)
RowId  == CardId \cup JobId
NoRow  == [st |-> "none", eng |-> 0, removed |-> FALSE, push |-> FALSE]
Over   == {"done", "failed"}
Closed == Over \cup {"interrupted"}

VARIABLES
  row,       \* the transfers table
  parts,     \* [JobId -> "none" | "some" | "full"]: directories on disk
  cardOf,    \* engine_to_card (0: no card), in memory only
  nextCard,  \* next_card_id
  owed,      \* changes whose dirty mark is not set yet
  dirty,
  saver, closing, \* [at, rows]: the saver's tick and prepare_shutdown
  tmp, file, \* transfers.json.tmp and transfers.json: saved rows, by id
  commands, failures, rebuilds,
  due,       \* ghost: a change since the start, and no write lost after it
  asked      \* ghost: [JobId -> what the user last asked of its card's view]
tvars == <<row, parts, cardOf, nextCard, owed, dirty, saver, closing, tmp, file, commands, failures,
           rebuilds, due, asked>>
saving == <<saver, closing, tmp, file, failures, rebuilds>>

Nothing == [at |-> "idle", rows |-> {}]
Absent  == {<<0, NoRow>>}    \* a file that is not there

TInit ==
  /\ row = [i \in RowId |-> NoRow] /\ parts = [e \in JobId |-> "none"]
  /\ cardOf = [e \in JobId |-> 0] /\ nextCard = 1 /\ owed = 0 /\ dirty = FALSE
  /\ saver = Nothing /\ closing = Nothing /\ tmp = Absent /\ file = {}
  /\ commands = 0 /\ failures = 0 /\ rebuilds = 0
  /\ due = FALSE /\ asked = [e \in JobId |-> "none"]

Rows == {i \in RowId : row[i].st # "none"}

(* Every change of the table leaves its lock and then sets the dirty mark. *)
TableChanged == owed' = owed + 1 /\ due' = TRUE /\ UNCHANGED <<dirty, saving>>
Marked ==
  /\ owed > 0 /\ owed' = owed - 1 /\ dirty' = TRUE
  /\ UNCHANGED <<row, parts, cardOf, nextCard, commands, due, asked, saving>>

(* card_create and, for a download, bind_engine_id when its directory is there *)
Created(i, push) ==
  /\ closing.at = "idle" /\ owed < 2
  /\ i = nextCard /\ i \in CardId /\ nextCard' = i + 1
  /\ IF push
       THEN /\ row' = [row EXCEPT ![i] = [NoRow EXCEPT !.st = "active", !.push = TRUE]]
            /\ UNCHANGED <<parts, cardOf>>
       ELSE \E e \in JobId :
              /\ parts[e] = "none" /\ \A k \in RowId : row[k].eng # e
              /\ row' = [row EXCEPT ![i] = [NoRow EXCEPT !.st = "active", !.eng = e]]
              /\ parts' = [parts EXCEPT ![e] = "some"]
              /\ cardOf' = [cardOf EXCEPT ![e] = i]
  /\ TableChanged /\ UNCHANGED <<commands, asked>>

(* The download's last chunk, and a terminal event through card_apply *)
Filled(e) ==
  /\ parts[e] = "some" /\ cardOf[e] # 0 /\ row[cardOf[e]].st = "active"
  /\ parts' = [parts EXCEPT ![e] = "full"]
  /\ UNCHANGED <<row, cardOf, nextCard, owed, dirty, commands, due, asked, saving>>
CardEnds(i, to) ==
  /\ row[i].st = "active" /\ owed < 2
  /\ \A e \in JobId : to = "done" /\ e = row[i].eng => parts[e] = "full"
  /\ row' = [row EXCEPT ![i].st = to]
  /\ parts' = IF to = "done" /\ ~row[i].push THEN [parts EXCEPT ![row[i].eng] = "none"] ELSE parts
  /\ TableChanged /\ UNCHANGED <<cardOf, nextCard, commands, asked>>

OnCommand ==
  /\ closing.at = "idle" /\ commands < Commands /\ owed < 2
  /\ commands' = commands + 1 /\ UNCHANGED nextCard
Ask(e, what) == asked' = IF e \in JobId THEN [asked EXCEPT ![e] = what] ELSE asked

(* remove_transfer at level view, alone or card after card by clear_completed *)
RemoveFromView(i) ==
  /\ row[i].st \in Closed /\ OnCommand
  /\ row' = [row EXCEPT ![i].removed = TRUE]
  /\ Ask(row[i].eng, "removed") /\ TableChanged /\ UNCHANGED <<parts, cardOf>>

(* finalize_destroy: the row, then the directory of its engine id or its own *)
DirOf(i) == IF row[i].eng # 0 THEN row[i].eng ELSE i
Destroy(i) ==
  /\ row' = [row EXCEPT ![i] = NoRow]
  /\ parts' = [e \in JobId |-> IF e = DirOf(i) THEN "none" ELSE parts[e]]
  /\ Ask(DirOf(i), "none") /\ TableChanged /\ UNCHANGED cardOf
RemoveForGood(i) == row[i].st \in Closed /\ OnCommand /\ Destroy(i)

(* restore_disk_job: a card the engine's map leads to, even to none, only    *)
(* loses its mark; otherwise a card is made if the table has none.           *)
OrphanRow(e) ==
  [NoRow EXCEPT !.st = IF parts[e] = "full" THEN "failed" ELSE "interrupted", !.eng = e]
Restore(e) ==
  /\ OnCommand
  /\ IF cardOf[e] # 0
       THEN row' = IF row[cardOf[e]].st = "none" THEN row
                   ELSE [row EXCEPT ![cardOf[e]].removed = FALSE]
       ELSE /\ parts[e] # "none"
            /\ row' = IF row[e].st = "none" THEN [row EXCEPT ![e] = OrphanRow(e)] ELSE row
  /\ Ask(e, "restored") /\ TableChanged /\ UNCHANGED <<parts, cardOf>>

(* destroy_disk_job: with a card in the map as above, else the directory only *)
DestroyOnDisk(e) ==
  /\ OnCommand
  /\ IF cardOf[e] # 0
       THEN row[cardOf[e]].st # "none" /\ Destroy(cardOf[e])
       ELSE /\ parts[e] # "none"
            /\ parts' = [parts EXCEPT ![e] = "none"] /\ Ask(e, "none")
            /\ UNCHANGED <<row, cardOf, owed, dirty, due, saving>>

------------------------------------------------------------------------------
(* collect_persist_list: open cards and removed ones, and the history up to  *)
(* the cap, which cards is up to the order of the map.                       *)
Limited == {i \in Rows : row[i].st \in Over /\ ~row[i].removed}
PersistLists ==
  LET some == {h \in SUBSET Limited : IF Cardinality(Limited) <= HistoryCap THEN h = Limited
                                      ELSE Cardinality(h) = HistoryCap}
  IN {{<<i, row[i]>> : i \in (Rows \ Limited) \cup h} : h \in some}

(* prepare_shutdown's own list: cards in view, without their marks *)
ShutdownLists ==
  {{r \in l : ~r[2].removed} : l \in PersistLists}

(* The saver clears the mark first, and reads the table after it. *)
Clears_late(step) == step = "rename"
Clears(step) == step = "tick"
DirtyAfter(step) == dirty' = IF Clears(step) THEN FALSE ELSE dirty
SaverTick ==
  /\ saver.at = "idle" /\ dirty /\ DirtyAfter("tick") /\ saver' = [Nothing EXCEPT !.at = "read"]
  /\ UNCHANGED <<row, parts, cardOf, nextCard, owed, closing, tmp, file, commands, failures,
                 rebuilds, due, asked>>
SaverReads ==
  /\ saver.at = "read"
  /\ \E l \in PersistLists : saver' = [at |-> "write", rows |-> l]
  /\ UNCHANGED <<row, parts, cardOf, nextCard, owed, dirty, closing, tmp, file, commands,
                 failures, rebuilds, due, asked>>

(* Both write the same temporary file; a rename takes what is there. A write *)
(* that failed is not repeated before the next change.                       *)
Writes(w) == w.at = "write" /\ tmp' = w.rows
Renames(w) == w.at = "rename" /\ tmp # Absent /\ file' = tmp /\ tmp' = Absent
GivesUp(w) ==
  /\ \/ w.at \in {"write", "rename"} /\ failures < Failures /\ failures' = failures + 1
     \/ w.at = "rename" /\ tmp = Absent /\ UNCHANGED failures
  /\ UNCHANGED <<tmp, file>>
SaverWrites ==
  /\ \/ Writes(saver) /\ saver' = [saver EXCEPT !.at = "rename"]
        /\ UNCHANGED <<file, failures, dirty, due>>
     \/ Renames(saver) /\ saver' = Nothing /\ DirtyAfter("rename") /\ UNCHANGED <<failures, due>>
     \/ GivesUp(saver) /\ saver' = Nothing /\ DirtyAfter("rename") /\ due' = (dirty' \/ owed > 0)
  /\ UNCHANGED <<row, parts, cardOf, nextCard, owed, closing, commands, rebuilds, asked>>

(* prepare_shutdown: open cards are interrupted, then the table is written. *)
Interrupts ==
  /\ closing.at = "idle" /\ Rows # {} /\ owed < 2
  /\ row' = [i \in RowId |-> IF row[i].st = "active" THEN [row[i] EXCEPT !.st = "interrupted"]
                             ELSE row[i]]
  /\ owed' = owed + 1 /\ due' = TRUE /\ closing' = [Nothing EXCEPT !.at = "read"]
  /\ UNCHANGED <<parts, cardOf, nextCard, dirty, saver, tmp, file, commands, failures,
                 rebuilds, asked>>
ClosingWrites ==
  /\ \/ /\ closing.at = "read"
        /\ \E l \in ShutdownLists : closing' = [at |-> "write", rows |-> l]
        /\ UNCHANGED <<tmp, file, failures>>
     \/ /\ Writes(closing) /\ closing' = [closing EXCEPT !.at = "rename"]
        /\ UNCHANGED <<file, failures>>
     \/ Renames(closing) /\ closing' = [Nothing EXCEPT !.at = "over"] /\ UNCHANGED failures
     \/ GivesUp(closing) /\ closing' = [Nothing EXCEPT !.at = "over"]
  /\ UNCHANGED <<row, parts, cardOf, nextCard, owed, dirty, saver, commands, rebuilds, due, asked>>

------------------------------------------------------------------------------
(* rebuild_cards: directories first; of the file the rows that are over or   *)
(* stopped, pushes, and the marks of rows whose id is a directory's; the     *)
(* full directories are deleted last.                                        *)
Scanned == {e \in JobId : parts[e] # "none"}
InFile(i)  == {r[2] : r \in {r \in file : r[1] = i}}
Loaded(i)  == {r \in InFile(i) : r.st \in Closed \/ r.push}
Rebuilt(i) ==
  IF i \in Scanned
    THEN [OrphanRow(i) EXCEPT !.removed = \E r \in InFile(i) : r.removed]
  ELSE IF Loaded(i) # {}
    THEN LET r == CHOOSE r \in Loaded(i) : TRUE
         IN [r EXCEPT !.st = IF @ \in Closed THEN @ ELSE "interrupted",
                      !.eng = IF r.push THEN 0 ELSE i]
  ELSE NoRow

(* Above every loaded id of the cards' space. *)
NextFree ==
  LET loaded == {i \in CardId : Rebuilt(i).st # "none"}
  IN CHOOSE n \in 1 .. (Cards + 1) :
       (\A i \in loaded : i < n) /\ (n = 1 \/ n - 1 \in loaded)

(* The process ends, closed or not, and starts again. *)
Rebuild ==
  /\ rebuilds < Rebuilds /\ rebuilds' = rebuilds + 1
  /\ row' = [i \in RowId |-> Rebuilt(i)]
  /\ parts' = [e \in JobId |-> IF parts[e] = "full" THEN "none" ELSE parts[e]]
  /\ nextCard' = NextFree /\ cardOf' = [e \in JobId |-> 0]
  /\ owed' = 0 /\ dirty' = FALSE /\ due' = FALSE
  /\ saver' = Nothing /\ closing' = Nothing
  /\ UNCHANGED <<tmp, file, commands, failures, asked>>

TNext ==
  \/ Marked \/ SaverTick \/ SaverReads \/ SaverWrites \/ Interrupts \/ ClosingWrites \/ Rebuild
  \/ \E i \in RowId : \/ \E push \in BOOLEAN : Created(i, push)
                   \/ \E to \in Closed : CardEnds(i, to)
                   \/ RemoveFromView(i) \/ RemoveForGood(i)
  \/ \E e \in JobId : Filled(e) \/ Restore(e) \/ DestroyOnDisk(e)
TSpec == TInit /\ [][TNext]_tvars

------------------------------------------------------------------------------
(* Once everything is marked, read and written, the file has every card that *)
(* is open or removed from view, as it is, and no card that is gone          *)
(* (main.rs:2137-2168): a change that comes while the saver works is not     *)
(* lost, and the cap never takes a mark of removal.                          *)
FileCurrent ==
  /\ due /\ owed = 0 /\ ~dirty /\ saver.at = "idle" /\ closing.at = "idle"
  => /\ \A i \in Rows : row[i].st \notin Over \/ row[i].removed => <<i, row[i]>> \in file
     /\ \A r \in file : row[r[1]] = r[2]

(* After a start every directory that was found has a card, the full ones    *)
(* that are deleted at the start too (main.rs:684-760).                      *)
DirsShown ==
  [][rebuilds' # rebuilds => \A e \in JobId : parts[e] # "none" => row'[e].st # "none"]_tvars

Shown(e) == \E i \in Rows : row[i].eng = e /\ ~row[i].removed

(* "A card removed from view has its mark in the file and does not come back *)
(* at the next start" (main.rs:2151-2153).                                   *)
(* The code does not keep this: see the README.                              *)
RemovedStays ==
  [][rebuilds' # rebuilds =>
       \A e \in JobId :
         /\ asked[e] = "removed" /\ \E r \in file : r[2].eng = e /\ r[2].removed
         => ~Shown(e)']_tvars

(* A card restored from the history is in view (commands.rs:2622-2623).      *)
(* The code does not keep this: see the README.                              *)
RestoreShows ==
  \A e \in JobId : asked[e] = "restored" /\ parts[e] # "none" => Shown(e)
=============================================================================

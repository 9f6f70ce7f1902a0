----------------------------- MODULE DownloadCards -----------------------------
(***************************************************************************)
(* The desktop shell's view of downloads: one card per download with its   *)
(* state machine (src-tauri/transfer_state.rs), the task that queues for a *)
(* slot, runs the pull and applies its events (commands.rs start_download, *)
(* resume_pending), and the user's commands (transfer_action,              *)
(* destroy_transfer). The pull itself is reduced to what the shell sees of *)
(* it: job id, events, control channel, parts directory and result         *)
(* (FetchPipeline and PartStore have the rest).                            *)
(*                                                                         *)
(* Cards, job ids and directory names are numbers of one space: a card id  *)
(* is below every job id (0x4000... and 0x8000... in the code), and after  *)
(* a restart the card of an unfinished directory has the directory's id.   *)
(***************************************************************************)
EXTENDS Integers, Sequences, FiniteSets

CONSTANTS
  Offered,  \* files the sources offer
  PeerOf,    \* the source of each
  NoFile,
  Cards,     \* bound: downloads started
  Pulls,     \* bound: pulls run, first ones and resumed ones
  Permits,   \* permits of the global gate, max_active_transfers
  Commands,  \* bound: pause, resume, cancel and destroy commands of the user
  CtlCap,    \* capacity of a pull's control channel, 8 in the code
  Restarts   \* bound: restarts of the application

ASSUME PeerAssumption   == NoFile \notin Offered /\ DOMAIN PeerOf = Offered
ASSUME BoundsAssumption ==
  Cards \in Nat \ {0} /\ Pulls \in Nat \ {0} /\ Permits \in Nat \ {0}
    /\ Commands \in Nat /\ CtlCap \in Nat \ {0} /\ Restarts \in Nat

Pull    == 1 .. Pulls
CardIds == 1 .. Cards
JobIds  == (Cards + 1) .. (Cards + Pulls)
Ids     == CardIds \cup JobIds
Peers   == {PeerOf[f] : f \in Offered}

Terminal == {"done", "failed", "interrupted"}
Action   == {"pause", "resume", "cancel"}
NoCard   == [st |-> "none", eng |-> 0, file |-> NoFile]
NoPull   == [at |-> "none", card |-> 0, file |-> NoFile, first |-> TRUE, alive |-> TRUE,
             eng |-> "none", job |-> 0, dir |-> 0, ctl |-> <<>>, evs |-> <<>>, res |-> "none"]

(* A task that has ended, and what is remembered of it.                    *)
Ended(r) ==
  [NoPull EXCEPT !.at = "over", !.card = r.card, !.file = r.file, !.first = r.first, !.res = r.res]

VARIABLES
  card,      \* the transfers table: state, engine id (0: not bound) and file
  pull,      \* the task of each pull
  parts,     \* content whose unfinished download directory i holds
  up,        \* a session with the source
  watch,     \* cards whose destroy watchdog is armed
  retried,   \* cards that were resumed automatically
  nextCard, nextJob,
  commands, restarts

vars == <<card, pull, parts, up, watch, retried, nextCard, nextJob, commands, restarts>>
quiet == <<up, retried, nextCard, restarts>>

Init ==
  /\ card = [i \in Ids |-> NoCard] /\ pull = [p \in Pull |-> NoPull]
  /\ parts = [i \in Ids |-> NoFile] /\ up = [q \in Peers |-> TRUE]
  /\ watch = {} /\ retried = {}
  /\ nextCard = 1 /\ nextJob = Cards + 1 /\ commands = 0 /\ restarts = 0

-----------------------------------------------------------------------------

(* The card's state machine: what is not in the table is refused, and so   *)
(* is everything in a terminal state.                                      *)
Fsm ==
  [pending    |-> [Started |-> "active", QueueTimeout |-> "failed", Failed |-> "failed",
                   CancelRequested |-> "cancelling"],
   active     |-> [Paused |-> "paused", Failed |-> "failed", Finished |-> "done",
                   Interrupted |-> "interrupted", CancelRequested |-> "cancelling"],
   paused     |-> [Resumed |-> "active", Failed |-> "failed", Finished |-> "done",
                   Interrupted |-> "interrupted", CancelRequested |-> "cancelling"],
   cancelling |-> [Failed |-> "failed", Finished |-> "done", Interrupted |-> "interrupted"]]

After(st, ev) ==
  IF st \in DOMAIN Fsm /\ ev \in DOMAIN Fsm[st] THEN Fsm[st][ev] ELSE st

(* The directory a card stands for: engine id first, else its own id.      *)
DirOf(c, i) == IF c[i].eng # 0 THEN c[i].eng ELSE i

(* finalize_destroy: the row goes, its directory and its watchdog.         *)
Destroyed(c, i) ==
  /\ card' = [c EXCEPT ![i] = NoCard]
  /\ parts' = [parts EXCEPT ![DirOf(c, i)] = NoFile]
  /\ watch' = watch \ {i}

(* card_apply on table c: a cancelling card that reaches a terminal state  *)
(* is destroyed.                                                           *)
Applied(c, i, ev) ==
  LET to == After(c[i].st, ev)
  IN IF c[i].st = "cancelling" /\ to \in Terminal
       THEN Destroyed(c, i)
       ELSE card' = [c EXCEPT ![i].st = to] /\ UNCHANGED <<parts, watch>>

-----------------------------------------------------------------------------
Fresh == {p \in Pull : pull[p].at = "none"}
Task(i, f, first) == [NoPull EXCEPT !.at = "gate", !.card = i, !.file = f, !.first = first]
Queued(i, f, first) ==
  [pull EXCEPT ![CHOOSE p \in Fresh : \A o \in Fresh : p <= o] = Task(i, f, first)]
Enqueue(i, f, first) == Fresh # {} /\ pull' = Queued(i, f, first)

(* start_download: a card at once, then a task that queues.                *)
StartDownload(f) ==
  /\ nextCard \in CardIds /\ nextCard' = nextCard + 1
  /\ card' = [card EXCEPT ![nextCard] = [st |-> "pending", eng |-> 0, file |-> f]]
  /\ Enqueue(nextCard, f, TRUE)
  /\ UNCHANGED <<parts, up, watch, retried, nextJob, commands, restarts>>

(* Unfinished directories, and whether card i has one: that of its engine  *)
(* id, or one of the same file from the same source.                       *)
Unfinished   == {d \in Ids : parts[d] # NoFile}
Resumable(i) == DirOf(card, i) \in Unfinished \/ \E d \in Unfinished : parts[d] = card[i].file

(* resume_pending, on a failed or interrupted card; the card's state is    *)
(* left alone.                                                             *)
Resume(i) ==
  /\ card[i].st \in {"failed", "interrupted"} /\ Resumable(i)
  /\ up[PeerOf[card[i].file]]
  /\ Enqueue(i, card[i].file, FALSE)
  /\ UNCHANGED <<card, parts, watch, nextJob, commands, quiet>>

(* acquire_slot: the global gate first, then the lock of the peer.         *)
Holders == {p \in Pull : pull[p].at \in {"peer", "engine", "drain"}}
Running == {p \in Pull : pull[p].at \in {"engine", "drain"}}

TakeGate(p) ==
  /\ pull[p].at = "gate" /\ Cardinality(Holders) < Permits
  /\ pull' = [pull EXCEPT ![p].at = "peer"]
  /\ UNCHANGED <<card, parts, watch, nextJob, commands, quiet>>

(* Mutant: the gate is the only limit.                                     *)
TakePeer_gateOnly(p) ==
  /\ pull[p].at = "peer"
  /\ pull' = [pull EXCEPT ![p] = [@ EXCEPT !.at = "engine", !.eng = "meta"]]
  /\ UNCHANGED <<card, parts, watch, nextJob, commands, quiet>>

TakePeer(p) ==
  /\ pull[p].at = "peer"
  /\ \A o \in Running : PeerOf[pull[o].file] # PeerOf[pull[p].file]
  /\ pull' = [pull EXCEPT ![p] = [@ EXCEPT !.at = "engine", !.eng = "meta"]]
  /\ UNCHANGED <<card, parts, watch, nextJob, commands, quiet>>

(* 60 s in the queue.                                                      *)
QueueTimeout(p) ==
  /\ pull[p].at \in {"gate", "peer"}
  /\ pull' = [pull EXCEPT ![p] = Ended(@)]
  /\ Applied(card, pull[p].card, IF pull[p].first THEN "Failed" ELSE "QueueTimeout")
  /\ UNCHANGED <<nextJob, commands, quiet>>

-----------------------------------------------------------------------------
(* The engine, as start_pull shows itself to its caller.                   *)
Emit(p, ev) == Append(pull[p].evs, ev)

(* MetaResp: job id and Started.                                           *)
EngineMeta(p) ==
  /\ pull[p].eng = "meta" /\ nextJob \in JobIds /\ up[PeerOf[pull[p].file]]
  /\ nextJob' = nextJob + 1
  /\ pull' = [pull EXCEPT ![p] =
               [@ EXCEPT !.eng = "open", !.job = nextJob, !.evs = Emit(p, "Started")]]
  /\ UNCHANGED <<card, parts, watch, commands, quiet>>

(* An unfinished directory of the file, or a new one; the control channel  *)
(* is registered under the job id.                                         *)
EngineOpens(p) ==
  /\ pull[p].eng = "open"
  /\ LET same == {d \in Unfinished : parts[d] = pull[p].file}
     IN \E d \in IF same = {} THEN {pull[p].job} ELSE same :
          /\ pull' = [pull EXCEPT ![p] = [@ EXCEPT !.eng = "run", !.dir = d]]
          /\ parts' = [parts EXCEPT ![d] = pull[p].file]
  /\ UNCHANGED <<card, watch, nextJob, commands, quiet>>

(* Pause, Resume and Cancel, consumed between batches. Cancel removes the  *)
(* directory and is the only way to fail that is reported as an event.     *)
EngineCtl(p) ==
  /\ pull[p].eng \in {"run", "paused"} /\ pull[p].ctl # <<>>
  /\ LET c == Head(pull[p].ctl)
         rest == Tail(pull[p].ctl)
     IN \/ /\ c = "cancel"
           /\ parts' = [parts EXCEPT ![pull[p].dir] = NoFile]
           /\ pull' = [pull EXCEPT ![p] =
                [@ EXCEPT !.ctl = rest, !.eng = "over", !.res = "err", !.evs = Emit(p, "Failed")]]
        \/ /\ c # "cancel" /\ UNCHANGED parts
           /\ pull' = [pull EXCEPT ![p] = [@ EXCEPT !.ctl = rest, !.eng =
                IF c = "pause" /\ pull[p].eng = "run" THEN "paused" ELSE "run"]]
  /\ UNCHANGED <<card, watch, nextJob, commands, quiet>>

(* Timeout, lost connection, disk, hash: an Err and no event.              *)
EngineFails(p) ==
  /\ pull[p].eng \in {"meta", "open", "run"}
  /\ pull' = [pull EXCEPT ![p] = [@ EXCEPT !.eng = "over", !.res = "err"]]
  /\ UNCHANGED <<card, parts, watch, nextJob, commands, quiet>>

EngineLands(p) ==
  /\ pull[p].eng = "run" /\ parts[pull[p].dir] = pull[p].file
  /\ parts' = [parts EXCEPT ![pull[p].dir] = NoFile]
  /\ pull' = [pull EXCEPT ![p] = [@ EXCEPT !.eng = "over", !.res = "ok", !.evs = Emit(p, "Done")]]
  /\ UNCHANGED <<card, watch, nextJob, commands, quiet>>

-----------------------------------------------------------------------------

(* The first Started of a card binds its engine id (bind_engine_id).       *)
Bound(p) ==
  LET i == pull[p].card
  IN IF card[i].st # "none" /\ card[i].eng = 0 THEN [card EXCEPT ![i].eng = pull[p].job]
     ELSE card

(* handle_pull_progress_event.                                             *)
HandleEvent(p) ==
  /\ pull[p].at \in {"engine", "drain"} /\ pull[p].evs # <<>>
  /\ pull' = [pull EXCEPT ![p] = [@ EXCEPT !.evs = Tail(pull[p].evs), !.alive = FALSE]]
  /\ LET i == pull[p].card
     IN CASE Head(pull[p].evs) = "Started" -> Applied(Bound(p), i, "Started")
          [] Head(pull[p].evs) = "Done"    -> Applied(card, i, "Finished")
          [] Head(pull[p].evs) = "Failed"  -> Applied(card, i, "Failed")
  /\ UNCHANGED <<nextJob, commands, quiet>>

(* Mutant: an Ok finishes the card whether or not it has started.          *)
EngineOver_always(p) ==
  /\ pull[p].at = "engine" /\ pull[p].res # "none"
  /\ pull' = [pull EXCEPT ![p] = [@ EXCEPT !.at = "drain", !.alive = FALSE]]
  /\ Applied(card, pull[p].card, "Finished")
  /\ UNCHANGED <<nextJob, commands, quiet>>

(* start_pull has returned. Only a first pull whose Started has not been   *)
(* handled tells its card of an Err.                                       *)
EngineOver(p) ==
  /\ pull[p].at = "engine" /\ pull[p].res # "none"
  /\ LET tells == pull[p].res = "err" /\ pull[p].first /\ pull[p].alive
     IN /\ pull' = [pull EXCEPT ![p] =
                      [@ EXCEPT !.at = "drain", !.alive = pull[p].alive /\ ~tells]]
        /\ \/ tells /\ Applied(card, pull[p].card, "Failed")
           \/ ~tells /\ UNCHANGED <<card, parts, watch>>
  /\ UNCHANGED <<nextJob, commands, quiet>>

(* The channel is drained and closed: the task ends, its slot is free.     *)
Finish(p) ==
  /\ pull[p].at = "drain" /\ pull[p].evs = <<>>
  /\ pull' = [pull EXCEPT ![p] = Ended(@)]
  /\ UNCHANGED <<card, parts, watch, nextJob, commands, quiet>>

-----------------------------------------------------------------------------
(* The control channel registered for job e, if there is room in it.       *)
Live(e) ==
  {p \in Pull : pull[p].job = e /\ pull[p].eng \in {"run", "paused"} /\ Len(pull[p].ctl) < CtlCap}

EventOf(a) == CASE a = "pause" -> "Paused" [] a = "resume" -> "Resumed" [] a = "cancel" -> "Failed"

Command == commands < Commands /\ commands' = commands + 1

(* transfer_action on a download: refused unless the engine id's control   *)
(* channel is registered; the card changes at once.                        *)
Control(i, a) ==
  /\ Command
  /\ card[i].st # "none" /\ ~(card[i].st = "pending" /\ a = "pause")
  /\ \E p \in Live(DirOf(card, i)) : pull' = [pull EXCEPT ![p].ctl = Append(@, a)]
  /\ Applied(card, i, EventOf(a))
  /\ UNCHANGED <<nextJob, quiet>>

(* destroy_transfer: a terminal card goes at once; any other is cancelling,*)
(* the engine is told, and a watchdog of 5 s is armed.                     *)
Destroy(i) ==
  /\ Command
  /\ \/ card[i].st \in Terminal /\ Destroyed(card, i) /\ UNCHANGED pull
     \/ /\ card[i].st \in DOMAIN Fsm /\ i \notin watch
        /\ card' = [card EXCEPT ![i].st = "cancelling"]
        /\ watch' = watch \cup {i}
        /\ pull' = [p \in Pull |-> IF p \in Live(DirOf(card, i))
                                     THEN [pull[p] EXCEPT !.ctl = Append(@, "cancel")] ELSE pull[p]]
        /\ UNCHANGED parts
  /\ UNCHANGED <<nextJob, quiet>>

(* The watchdog aborts its own task handle inside finalize_destroy, which  *)
(* ends it at the next await that has to wait: before the row is removed,  *)
(* before the directory is, or not at all.                                 *)
WatchdogFires(i) ==
  /\ i \in watch
  /\ \/ card[i].st = "cancelling" /\ Destroyed(card, i)
     \/ /\ card[i].st = "cancelling" /\ card' = [card EXCEPT ![i] = NoCard]
        /\ watch' = watch \ {i} /\ UNCHANGED parts
     \/ watch' = watch \ {i} /\ UNCHANGED <<card, parts>>
  /\ UNCHANGED <<pull, nextJob, commands, quiet>>

-----------------------------------------------------------------------------
SessionDown(q) ==
  /\ up[q] /\ up' = [up EXCEPT ![q] = FALSE]
  /\ UNCHANGED <<card, pull, parts, watch, retried, nextCard, nextJob, commands, restarts>>

(* auto_resumable_jobs: failed cards of the peer whose id is the name of an*)
(* unfinished directory, once each.                                        *)
AutoResumable(q) ==
  {i \in Unfinished \ retried : card[i].st = "failed" /\ PeerOf[card[i].file] = q}

(* A session is up again; what can be resumed automatically is.            *)
SessionUp(q) ==
  /\ ~up[q] /\ up' = [up EXCEPT ![q] = TRUE]
  /\ retried' = retried \cup AutoResumable(q)
  /\ pull' = IF AutoResumable(q) = {} \/ Fresh = {} THEN pull
              ELSE LET i == CHOOSE i \in AutoResumable(q) : TRUE
                   IN Queued(i, card[i].file, FALSE)
  /\ UNCHANGED <<card, parts, watch, nextCard, nextJob, commands, restarts>>

(* prepare_shutdown interrupts what the state machine lets it interrupt.   *)
ShutDown ==
  [i \in Ids |-> IF card[i].st \in {"active", "paused", "pending"}
                   THEN [card[i] EXCEPT !.st = After(@, "Interrupted")] ELSE card[i]]

(* rebuild_cards: a card for every unfinished directory, under the         *)
(* directory's id; of the saved cards the terminal ones and those that     *)
(* were being cancelled, now with their own id for an engine id.           *)
Rebuilt(saved, i) ==
  IF i \in Unfinished THEN [st |-> "interrupted", eng |-> i, file |-> parts[i]]
  ELSE IF saved[i].st \in Terminal \cup {"cancelling"} THEN [saved[i] EXCEPT !.eng = i]
  ELSE NoCard

(* The counter starts above every card that was loaded.                    *)
NextFree(c) ==
  CHOOSE n \in 1 .. (Cards + 1) :
    /\ \A i \in CardIds : c[i].st # "none" => i < n
    /\ n = 1 \/ c[n - 1].st # "none"

Kept(i) == i # 0 /\ card'[i].st # "none"

(* The application ends, by the user or by a crash, and starts again.      *)
Restart ==
  /\ restarts < Restarts /\ restarts' = restarts + 1
  /\ \E saved \in {card, ShutDown} : card' = [i \in Ids |-> Rebuilt(saved, i)]
  /\ nextCard' = NextFree(card')
  /\ pull' = [p \in Pull |-> IF pull[p].at = "none" THEN pull[p]
                             ELSE [Ended(pull[p]) EXCEPT !.card = IF Kept(@) THEN @ ELSE 0]]
  /\ watch' = {} /\ retried' = {} /\ up' = [q \in Peers |-> FALSE]
  /\ UNCHANGED <<parts, nextJob, commands>>

Shell(p)  == TakeGate(p) \/ TakePeer(p) \/ HandleEvent(p) \/ EngineOver(p) \/ Finish(p)
Engine(p) ==
  EngineMeta(p) \/ EngineOpens(p) \/ EngineCtl(p) \/ EngineFails(p) \/ EngineLands(p)

Next ==
  \/ \E f \in Offered : StartDownload(f)
  \/ \E p \in Pull : Shell(p) \/ QueueTimeout(p) \/ Engine(p)
  \/ \E i \in Ids : Resume(i) \/ Destroy(i) \/ WatchdogFires(i) \/ \E a \in Action : Control(i, a)
  \/ \E q \in Peers : SessionDown(q) \/ SessionUp(q)
  \/ Restart

Spec == Init /\ [][Next]_vars

(* Tasks that can go on do, the 60 s timer of the queue fires, and a pull  *)
(* that is not paused ends, by its own timeouts if need be.                *)
Fairness ==
  /\ \A p \in Pull : WF_vars(QueueTimeout(p)) /\ WF_vars(HandleEvent(p))
                     /\ WF_vars(EngineOver(p)) /\ WF_vars(Finish(p)) /\ WF_vars(Engine(p))
  /\ \A i \in Ids : WF_vars(WatchdogFires(i))

FairSpec == Spec /\ Fairness
-----------------------------------------------------------------------------
CardState == DOMAIN Fsm \cup Terminal \cup {"none"}
CardRow   == [st : CardState, eng : Ids \cup {0}, file : Offered \cup {NoFile}]
PullRow   == [at : {"none", "gate", "peer", "engine", "drain", "over"},
              card : Ids \cup {0}, file : Offered \cup {NoFile}, first : BOOLEAN, alive : BOOLEAN,
              eng : {"none", "meta", "open", "run", "paused", "over"},
              job : JobIds \cup {0}, dir : JobIds \cup {0}, ctl : Seq(Action),
              evs : Seq({"Started", "Done", "Failed"}), res : {"none", "ok", "err"}]

(* Every variable holds what the program can store there; a card has the   *)
(* id of a card, or after a restart that of a directory.                   *)
TypeOK ==
  /\ card \in [Ids -> CardRow] /\ pull \in [Pull -> PullRow]
  /\ parts \in [Ids -> Offered \cup {NoFile}]
  /\ up \in [Peers -> BOOLEAN] /\ watch \subseteq Ids /\ retried \subseteq Ids
  /\ nextCard \in 1 .. (Cards + 1) /\ nextJob \in (Cards + 1) .. (Cards + Pulls + 1)

(* A card shows "done" only if one of its own pulls has landed the file.   *)
DoneMeansLanded ==
  \A i \in Ids : card[i].st = "done" =>
    \E p \in Pull : pull[p].card = i /\ pull[p].file = card[i].file /\ pull[p].res = "ok"

(* A download whose task is over does not stay behind as running: if it    *)
(* landed, its card does not show it as queued, running or paused.         *)
LandingShown ==
  \A p \in Pull :
    pull[p].at = "over" /\ pull[p].card # 0 /\ pull[p].first /\ pull[p].res = "ok" =>
      card[pull[p].card].st \notin {"pending", "active", "paused"}

(* Two pulls never write into the same directory at the same time: the     *)
(* lock of the peer is all that keeps them apart.                          *)
Writers(d) == {p \in Pull : pull[p].dir = d /\ pull[p].eng \in {"run", "paused"}}
OneWriterPerDir == \A d \in JobIds : Cardinality(Writers(d)) <= 1

(* A new card never takes the id of a card in the table, across restarts.  *)
NewCardFree == \A i \in CardIds : i >= nextCard => card[i].st = "none"

(* While the first pull of a card runs and the card shows it, the user's   *)
(* commands reach it: the card is bound to the job the control channel is  *)
(* registered under.                                                       *)
Controllable ==
  \A p \in Pull :
    /\ pull[p].first /\ pull[p].eng \in {"run", "paused"}
    /\ card[pull[p].card].st \in {"active", "paused"}
    => card[pull[p].card].eng = pull[p].job

(* What a card shows is what its pulls do (commands.rs, main.rs).          *)
CardsSound == TypeOK /\ DoneMeansLanded /\ LandingShown /\ NewCardFree /\ Controllable

(* A queued download always gets somewhere: it starts, fails or is removed.*)
PendingEnds == \A i \in Ids : (card[i].st = "pending") ~> (card[i].st # "pending")
=============================================================================

------------------------------ MODULE MobileCards ------------------------------
(***************************************************************************)
(* The transfers of the mobile shell (localtrans-ffi): the table of cards, *)
(* the tasks that push, pull and retry, the cards of what other devices    *)
(* push to this one or fetch from it, and the user's commands.             *)
(*                                                                         *)
(* A task has a placeholder card. A pull keeps it to the end; a push drops *)
(* it for a card of the engine's job with the first Started. The card of a *)
(* push or pull is created by a spawned task of its own, in no order with  *)
(* the task of the transfer. Handlers are single steps; amounts, speeds and*)
(* events to the user interface are left out. A retry encodes a peer id    *)
(* that is encoded already, and its task ends when it cannot be decoded:   *)
(* the event pump behind that point is never reached and not modelled.     *)
(***************************************************************************)
EXTENDS Integers, FiniteSets

CONSTANTS
  Tasks,     \* bound: transfers the user starts; their placeholders are 1 .. Tasks
  Inbound,   \* bound: jobs the other devices start
  Jobs,      \* bound: jobs of both kinds in one behaviour
  Files,     \* bound: files of a pull, of a batch received
  Peer,      \* devices
  Permits,   \* max_active_transfers
  Commands   \* bound: commands of the user

ASSUME MobileAssumption ==
  /\ Tasks \in Nat /\ Inbound \in Nat /\ Jobs \in Nat /\ Files \in Nat \ {0}
  /\ Permits \in Nat \ {0} /\ Commands \in Nat

Transfer == 1 .. Tasks
JobOf(t) == Tasks + t
In == (2 * Tasks + 1) .. (2 * Tasks + Inbound)
Id == Transfer \cup {JobOf(t) : t \in Transfer} \cup In

Terminal == {"done", "failed", "interrupted"}
Open     == {"pending", "active", "paused", "cancelling"}

VARIABLES
  card,      \* the transfers table: the state of each card, "none" without one
  hidden,    \* cards the user removed from view
  creating,  \* placeholders whose card_create is spawned and has not run
  task,      \* the task of each placeholder
  inb,       \* what the router does with each inbound job
  watch,     \* cancel_watchdogs
  commands

mvars == <<card, hidden, creating, task, inb, watch, commands>>

NoTask == [kind |-> "none", peer |-> "none", at |-> "none", alive |-> TRUE, left |-> 0, bad |-> FALSE]
NoJob  == [kind |-> "none", at |-> "none", left |-> 0, open |-> FALSE]

MInit ==
  /\ card = [i \in Id |-> "none"] /\ hidden = {} /\ creating = {}
  /\ task = [t \in Transfer |-> NoTask] /\ inb = [j \in In |-> NoJob]
  /\ watch = {} /\ commands = 0

(* TransferCard::apply: what is not in the table is refused.               *)
Fsm ==
  [pending    |-> [Started |-> "active", QueueTimeout |-> "failed", Failed |-> "failed",
                   CancelRequested |-> "cancelling"],
   active     |-> [Paused |-> "paused", Failed |-> "failed", Finished |-> "done",
                   CancelRequested |-> "cancelling"],
   paused     |-> [Resumed |-> "active", Failed |-> "failed", Finished |-> "done",
                   CancelRequested |-> "cancelling"],
   cancelling |-> [Failed |-> "failed", Finished |-> "done"]]

After(st, ev) == IF st \in DOMAIN Fsm /\ ev \in DOMAIN Fsm[st] THEN Fsm[st][ev] ELSE st

(* card_apply, card_create and card_remove on the table c.                 *)
Applied(c, i, ev) == [c EXCEPT ![i] = After(@, ev)]
Created(c, i)     == [c EXCEPT ![i] = "pending"]
Without(c, i)     == [c EXCEPT ![i] = "none"]
Live(c, i)        == Applied(Created(c, i), i, "Started")

Shown(c) == hidden' = {i \in hidden : c[i] \in Terminal}

(* finalize_remove: the row goes with its watchdog.                        *)
Finalized(i) == card' = Without(card, i) /\ Shown(Without(card, i)) /\ watch' = watch \ {i}

(* A handler that leaves the table as c and no watchdog disturbed.         *)
Table(c) == card' = c /\ Shown(c) /\ UNCHANGED watch

(* apply_card_event: a cancelling card that reaches an end is removed.     *)
SettledIn(c, i, ev) ==
  IF c[i] = "cancelling" /\ After(c[i], ev) \in Terminal
    THEN card' = Without(c, i) /\ Shown(Without(c, i)) /\ watch' = watch \ {i}
    ELSE Table(Applied(c, i, ev))

(***************************************************************************)
(* The tasks of the user.                                                  *)
(***************************************************************************)

At(t, where) == task' = [task EXCEPT ![t].at = where]

Room ==
  Cardinality({t \in Transfer : task[t].at # "none"}) + Cardinality({j \in In : inb[j].at # "none"}) < Jobs

Fresh(t) == Room /\ task[t].at = "none" /\ \A u \in Transfer : u < t => task[u].at # "none"

\* push_files, push_files_rel, pull_files: the card is created apart.
Start(t, k, p, n) ==
  /\ Fresh(t) /\ k \in {"push", "pull"} /\ (k = "push" => n = 1)
  /\ task' = [task EXCEPT ![t] = [NoTask EXCEPT !.kind = k, !.peer = p, !.at = "queued", !.left = n]]
  /\ creating' = creating \cup {t}
  /\ UNCHANGED <<card, hidden, inb, watch, commands>>

Create(t) ==
  /\ t \in creating /\ creating' = creating \ {t}
  /\ Table(Created(card, t)) /\ UNCHANGED <<task, inb, commands>>

\* spawn_retry_transfer: the card first, then the queue.
StartRetry(t, p) ==
  /\ Fresh(t)
  /\ task' = [task EXCEPT ![t] = [NoTask EXCEPT !.kind = "retry", !.peer = p, !.at = "queued"]]
  /\ Table(Created(card, t)) /\ UNCHANGED <<creating, inb, commands>>

\* acquire_slot: a permit of the gate, then the lock of the peer.
Permit(t) ==
  /\ task[t].at = "queued"
  /\ Cardinality({u \in Transfer : task[u].at \in {"permit", "run"}}) < Permits
  /\ At(t, "permit") /\ UNCHANGED <<card, hidden, creating, inb, watch, commands>>

Lock(t) ==
  /\ task[t].at = "permit"
  /\ \A u \in Transfer : task[u].at = "run" => task[u].peer # task[t].peer
  /\ At(t, "run") /\ UNCHANGED <<card, hidden, creating, inb, watch, commands>>

\* 60 s in the queue; a cancelling card refuses the event.
QueueTimeout(t) ==
  /\ task[t].at \in {"queued", "permit"}
  /\ Table(Applied(card, t, "QueueTimeout"))
  /\ At(t, "over") /\ UNCHANGED <<creating, inb, commands>>

\* The peer's id in a manifest is hexadecimal, and is encoded again.
Hex(p) == <<"hex", p>>
Manifest(p) == Hex(p)
Decodes(s) == \E p \in Peer : s = Hex(p)

RetryRuns(t) ==
  /\ task[t].kind = "retry" /\ task[t].at = "run"
  /\ IF Decodes(Hex(Manifest(task[t].peer)))
       THEN At(t, "pulling") /\ UNCHANGED <<card, hidden, watch>>
       ELSE At(t, "over") /\ Table(Applied(card, t, "Failed"))
  /\ UNCHANGED <<creating, inb, commands>>

(***************************************************************************)
(* A push: Started for each file, Done when the receiver confirmed.        *)
(***************************************************************************)

Pushing(t) == task[t].kind = "push" /\ task[t].at = "run"

\* The placeholder makes way for the card of the job.
PushStarted(t) ==
  /\ Pushing(t)
  /\ LET c == IF task[t].alive THEN Without(card, t) ELSE card
         j == JobOf(t)
     IN Table(IF c[j] = "none" THEN Live(c, j) ELSE c)
  /\ task' = [task EXCEPT ![t].alive = FALSE]
  /\ UNCHANGED <<creating, inb, commands>>

\* An end that comes without Started moves the placeholder to the job's id.
Rekeyed(t, ev) ==
  LET c == Live(Without(card, t), JobOf(t))
  IN /\ card[t] # "none"
     /\ SettledIn(IF ev = "Finished" THEN c ELSE Created(c, JobOf(t)), JobOf(t), ev)

\* The last event of a push: Done, or Failed when the batch stream broke.
PushEvent(t, ev) ==
  /\ Pushing(t) /\ ev \in {"Finished", "Failed"}
  /\ ev = "Failed" => ~task[t].alive
  /\ \/ card[JobOf(t)] # "none" /\ SettledIn(card, JobOf(t), ev)
     \/ card[JobOf(t)] = "none" /\ task[t].alive /\ Rekeyed(t, ev)
     \/ card[JobOf(t)] = "none" /\ ~(task[t].alive /\ card[t] # "none")
        /\ UNCHANGED <<card, hidden, watch>>
  /\ At(t, "over") /\ UNCHANGED <<creating, inb, commands>>

\* push_files returns an error and sent no event for it: refused, no session,
\* JobFailed, no answer. Only a placeholder that is alive hears of it.
PushErr(t) ==
  /\ Pushing(t)
  /\ IF task[t].alive THEN SettledIn(card, t, "Failed") ELSE UNCHANGED <<card, hidden, watch>>
  /\ At(t, "over") /\ UNCHANGED <<creating, inb, commands>>

(***************************************************************************)
(* A pull: its files one after the other, on the placeholder.              *)
(***************************************************************************)

Pulling(t) == task[t].kind = "pull" /\ task[t].at = "run"

\* Started or InstantHit of a file; Resumed and progress change amounts.
PullStarted(t) ==
  /\ Pulling(t) /\ task[t].left > 0
  /\ Table(IF card[t] = "pending" THEN Applied(card, t, "Started") ELSE card)
  /\ UNCHANGED <<creating, task, inb, commands>>

\* A file is there, or it failed, before or after it started.
PullFile(t, ok) ==
  /\ Pulling(t) /\ task[t].left > 0
  /\ task' = [task EXCEPT ![t] = [task[t] EXCEPT !.left = @ - 1, !.bad = @ \/ ~ok]]
  /\ UNCHANGED <<card, hidden, creating, inb, watch, commands>>

\* The end of the batch; a card that no event started is started first.
PullEnds(t) ==
  /\ Pulling(t) /\ task[t].left = 0
  /\ LET c == IF card[t] = "pending" THEN Applied(card, t, "Started") ELSE card
     IN Table(Applied(c, t, IF task[t].bad THEN "Failed" ELSE "Finished"))
  /\ At(t, "over") /\ UNCHANGED <<creating, inb, commands>>

(***************************************************************************)
(* Jobs of other devices: handle_recv_progress_event and                   *)
(* handle_source_progress_event.                                           *)
(***************************************************************************)

Opens(j, k, n) ==
  /\ Room /\ inb[j].at = "none" /\ k \in {"recv", "source"} /\ (k = "source" => n = 1)
  /\ inb' = [inb EXCEPT ![j] = [NoJob EXCEPT !.kind = k, !.at = "run", !.left = n]]
  /\ UNCHANGED <<card, hidden, creating, task, watch, commands>>

Next1(j) ==
  inb' = [inb EXCEPT ![j] = [inb[j] EXCEPT !.left = @ - 1, !.open = FALSE, !.at = IF inb[j].left = 1 THEN "over" ELSE "run"]]

\* A file of a received batch begins: a finished card starts anew.
RecvStarted(j) ==
  /\ inb[j].kind = "recv" /\ inb[j].at = "run" /\ ~inb[j].open
  /\ inb' = [inb EXCEPT ![j].open = TRUE]
  /\ LET anew == card[j] \in Terminal \cup {"none"}
     IN /\ card' = IF anew THEN Live(card, j) ELSE Applied(card, j, "Started")
        /\ hidden' = hidden \ {j} /\ UNCHANGED watch
  /\ UNCHANGED <<creating, task, commands>>

RecvDone(j) ==
  /\ inb[j].kind = "recv" /\ inb[j].at = "run" /\ inb[j].open
  /\ Next1(j) /\ SettledIn(card, j, "Finished") /\ UNCHANGED <<creating, task, commands>>

RecvInstant_direct(j) ==
  /\ inb[j].kind = "recv" /\ inb[j].at = "run" /\ ~inb[j].open
  /\ SettledIn(IF card[j] = "none" THEN Created(card, j) ELSE card, j, "Finished")
  /\ Next1(j) /\ UNCHANGED <<creating, task, commands>>

\* InstantHit: the row, if it is missing, is made and finished at once.
RecvInstant(j) ==
  /\ inb[j].kind = "recv" /\ inb[j].at = "run" /\ ~inb[j].open
  /\ LET c == IF card[j] = "none" THEN Created(card, j) ELSE card
         d == IF c[j] = "pending" THEN Applied(c, j, "Started") ELSE c
     IN SettledIn(d, j, "Finished")
  /\ Next1(j) /\ UNCHANGED <<creating, task, commands>>

RecvFailed(j) ==
  /\ inb[j].kind = "recv" /\ inb[j].at = "run"
  /\ inb' = [inb EXCEPT ![j] = [@ EXCEPT !.at = "over", !.open = FALSE]]
  /\ SettledIn(card, j, "Failed") /\ UNCHANGED <<creating, task, commands>>

SourceStarted(j) ==
  /\ inb[j].kind = "source" /\ inb[j].at = "run" /\ ~inb[j].open
  /\ inb' = [inb EXCEPT ![j].open = TRUE]
  /\ Table(IF card[j] = "none" THEN Live(card, j) ELSE card)
  /\ UNCHANGED <<creating, task, commands>>

SourceEnds(j, ev) ==
  /\ inb[j].kind = "source" /\ inb[j].at = "run" /\ inb[j].open /\ ev \in {"Finished", "Failed"}
  /\ Next1(j) /\ SettledIn(card, j, ev) /\ UNCHANGED <<creating, task, commands>>

(***************************************************************************)
(* The user.                                                               *)
(***************************************************************************)

Command == commands < Commands /\ commands' = commands + 1

\* The jobs a running engine has in its registries (get_push_control,
\* control_task). A placeholder is never among them.
Controlled == {JobOf(t) : t \in {u \in Transfer : Pushing(u)}} \cup {j \in In : inb[j].at = "run"}

Pause(i)  == i \in Controlled /\ card[i] = "active" /\ Table(Applied(card, i, "Paused"))
Resume(i) == i \in Controlled /\ card[i] = "paused" /\ Table(Applied(card, i, "Resumed"))

Cancel_unwatched(i) ==
  /\ card[i] \in Open /\ Table(Applied(card, i, "CancelRequested"))

\* cancel_transfer_arbitrate: what a running engine makes of it is one of the
\* events above; the watchdog is armed once.
Cancel(i) ==
  /\ card[i] \in Open
  /\ card' = Applied(card, i, "CancelRequested") /\ watch' = watch \cup {i} /\ UNCHANGED hidden

\* Levels "view" and "destroy" of a finished card, clear_finished of all of
\* them, and destroy_disk_job, which takes an open card as well.
Hide(i)          == card[i] \in Terminal /\ hidden' = hidden \cup {i} /\ UNCHANGED <<card, watch>>
Restore(i)       == i \in hidden /\ hidden' = hidden \ {i} /\ UNCHANGED <<card, watch>>
Destroy(i)       == card[i] # "none" /\ Finalized(i)
ClearFinished ==
  /\ card' = [i \in Id |-> IF card[i] \in Terminal THEN "none" ELSE card[i]]
  /\ watch' = {i \in watch : card[i] \notin Terminal} /\ hidden' = {}

Commanded ==
  /\ Command
  /\ \/ \E i \in Id : Pause(i)
     \/ \E i \in Id : Resume(i)
     \/ \E i \in Id : Cancel(i)
     \/ \E i \in Id : Hide(i)
     \/ \E i \in Id : Restore(i)
     \/ \E i \in Id : Destroy(i)
     \/ (\E i \in Id : card[i] \in Terminal) /\ ClearFinished
  /\ UNCHANGED <<creating, task, inb>>

\* The watchdog, after 5 s.
Watchdog(i) ==
  /\ i \in watch
  /\ IF card[i] = "cancelling" THEN Finalized(i) ELSE watch' = watch \ {i} /\ UNCHANGED <<card, hidden>>
  /\ UNCHANGED <<creating, task, inb, commands>>

Runs(t) ==
  \/ RetryRuns(t)
  \/ \E ev \in {"Finished", "Failed"} : PushEvent(t, ev)
  \/ PushErr(t) \/ PullEnds(t)
  \/ \E ok \in BOOLEAN : PullFile(t, ok)

MNext ==
  \/ \E t \in Transfer, k \in {"push", "pull"}, p \in Peer, n \in 1 .. Files : Start(t, k, p, n)
  \/ \E t \in Transfer, p \in Peer : StartRetry(t, p)
  \/ \E t \in Transfer : Create(t) \/ Permit(t) \/ Lock(t) \/ QueueTimeout(t)
  \/ \E t \in Transfer : PushStarted(t) \/ PullStarted(t) \/ Runs(t)
  \/ \E j \in In, k \in {"recv", "source"}, n \in 1 .. Files : Opens(j, k, n)
  \/ \E j \in In : RecvStarted(j) \/ RecvDone(j) \/ RecvInstant(j) \/ RecvFailed(j) \/ SourceStarted(j)
  \/ \E j \in In, ev \in {"Finished", "Failed"} : SourceEnds(j, ev)
  \/ Commanded
  \/ \E i \in Id : Watchdog(i)

\* Spawned tasks and timers run; an engine's pull or push comes to an end (its
\* waits are timed). Nothing obliges the queue to move before the 60 s are over.
MFair ==
  /\ \A t \in Transfer : WF_mvars(Create(t)) /\ WF_mvars(QueueTimeout(t)) /\ WF_mvars(Runs(t))
  /\ \A i \in Id : WF_mvars(Watchdog(i))

MSpec == MInit /\ [][MNext]_mvars /\ MFair

(***************************************************************************)
(* Properties.                                                             *)
(***************************************************************************)

\* The type of the state (state.rs:95-190, transfer_state.rs:60-118).
MTypeOK ==
  /\ card \in [Id -> Open \cup Terminal \cup {"none"}]
  /\ hidden \subseteq {i \in Id : card[i] \in Terminal}
  /\ creating \subseteq Transfer /\ watch \subseteq Id
  /\ task \in [Transfer -> [kind : {"none", "push", "pull", "retry"}, peer : Peer \cup {"none"}, alive : BOOLEAN,
                            at : {"none", "queued", "permit", "run", "over", "pulling"},
                            left : Nat, bad : BOOLEAN]]
  /\ inb \in [In -> [kind : {"none", "recv", "source"}, at : {"none", "run", "over"},
                     left : 0 .. Files, open : BOOLEAN]]

\* When a job of another device is over its card is not open, unless the user
\* is cancelling it: whatever the user did to the card meanwhile
\* (lib.rs:3031-3282).
ClosedWhenOver ==
  \A j \in In : inb[j].at = "over" => card[j] \in Terminal \cup {"none"} \/ (card[j] = "cancelling" /\ j \in watch)

\* The cards have their types, and those of other devices' jobs are closed
\* with the job (lib.rs:3031-3282).
InboundClosed == MTypeOK /\ ClosedWhenOver

\* Nobody waits for a card that is being cancelled (lib.rs:2790-2839).
CancelEnds == \A i \in Id : card[i] = "cancelling" ~> card[i] # "cancelling"

\* A placeholder that was in the table before its task was done with it does
\* not stay pending (lib.rs:1600-1680, 1895-1990, 2640-2720).
PlaceholderEnds ==
  \A t \in Transfer : (card[t] = "pending" /\ task[t].alive /\ task[t].at # "over") ~> card[t] # "pending"

\* A task that is over leaves no card it can no longer close: push_files says
\* that rows do not stay active for ever (engine.rs:916-921).
\* The code does not keep this: see the README.
NoOpenCard ==
  \A t \in Transfer : task[t].at = "over" /\ task[t].kind = "push" => card[JobOf(t)] \notin {"active", "paused"}

\* A retried download is fetched in the end or the user ends it
\* (lib.rs:968, 2597).
\* The code does not keep this: see the README.
RetryFetches ==
  \A t \in Transfer : (task[t].kind = "retry" /\ task[t].at = "run") ~> (task[t].at = "pulling" \/ commands > 0)
================================================================================

------------------------------- MODULE BatchCards -------------------------------
(***************************************************************************)
(* The desktop shell's cards with children (commands.rs, main.rs): a push  *)
(* of several files, the retry of one of them, a push of one file, the     *)
(* download of several files and that of a folder, all of one device, whose *)
(* transfers run one after the other (acquire_slot).                       *)
(*                                                                         *)
(* Two tasks write the cards of a push. The push's own task polls the      *)
(* engine and handles its events in one select!, the events first (biased):*)
(* the engine moves on only when they are consumed. The source bridge      *)
(* handles the events of the large files, which the receiver fetches, and  *)
(* finds the card by the device alone (pending_children). A file is one    *)
(* unit of bytes. PushOffer has the protocol, DownloadCards the card's     *)
(* other states and commands.                                              *)
(***************************************************************************)
EXTENDS Integers, Sequences, FiniteSets

CONSTANTS
  Errand,   \* bound: commands of one run, numbers from 1
  Kind,     \* of each: "batch", "single", "retry", "pull", "dir"
  SmallOf,  \* its files up to 1 MiB (pull, dir: all of its files), a sequence
  LargeOf,  \* its larger files, a sequence
  CardOf,   \* the card it works on: its own, or for a retry that of the batch
  Plain,    \* pushes made by push_files; the others by push_files_rel
  Meet,     \* bound: sets of commands that one run has
  Cancels   \* bound: cancel commands

SeqSet(s) == {s[i] : i \in DOMAIN s}

ASSUME BatchAssumption ==
  /\ Errand \subseteq Nat \ {0} /\ Plain \subseteq Errand /\ Cancels \in Nat
  /\ Kind \in [Errand -> {"batch", "single", "retry", "pull", "dir"}]
  /\ \A t \in Errand :
       /\ SmallOf[t] \in Seq(SeqSet(SmallOf[t])) /\ LargeOf[t] \in Seq(SeqSet(LargeOf[t]))
       /\ Kind[t] \in {"pull", "dir"} => LargeOf[t] = <<>>
       /\ IF Kind[t] = "retry" THEN CardOf[t] \in Errand /\ Kind[CardOf[t]] = "batch"
                              ELSE CardOf[t] = t

FilesOf(t) == SeqSet(SmallOf[t]) \cup SeqSet(LargeOf[t])
SourceJob == UNION {{t} \X SeqSet(LargeOf[t]) : t \in Errand}
NoJob == <<>>
PushKind == {"batch", "single", "retry"}

VARIABLES
  bcard,     \* [st, kids, tot, done] of each card
  reg,       \* pending_children by device: the card for "batch", "retry", "single" (0: none)
  pend,      \* pending_children by job: the parent card of a source job (0: none)
  route,     \* engine_to_card: the card a source job is bound to (0: none)
  extra,     \* source jobs that got a card of their own
  worker,    \* each command's task
  evs,       \* events of its engine not handled
  heard,     \* its first Started has been handled (placeholder_alive is false)
  bad,       \* its engine has failed
  flag,      \* its cancel signal
  missed,    \* files of a download that have failed
  src,       \* events for the source bridge
  recheck,   \* a recheck that has read the children and not yet written the card
  senders,   \* sender_jobs
  got,       \* files the other side has, or this one for downloads
  cancels

shell  == <<bcard, reg, pend, route, extra, recheck>>
engine == <<src, senders, got>>
bvars  == <<shell, worker, evs, heard, bad, flag, missed, engine, cancels>>

NoDue == [c |-> 0, to |-> "none"]

BInit ==
  /\ bcard = [t \in Errand |-> [st |-> "none", kids |-> <<>>, tot |-> 0, done |-> 0]]
  /\ reg = [k \in PushKind |-> 0]
  /\ pend = [j \in SourceJob |-> 0] /\ route = [j \in SourceJob |-> 0]
  /\ extra = {} /\ worker = [t \in Errand |-> "idle"] /\ evs = [t \in Errand |-> <<>>]
  /\ heard = {} /\ bad = {} /\ flag = {} /\ missed = [t \in Errand |-> {}]
  /\ src = <<>> /\ recheck = [w \in {"task", "bridge"} |-> NoDue]
  /\ senders = {} /\ got = {} /\ cancels = 0

AtEnd == {"done", "failed"}

Turn == [pending |-> [Started |-> "active", Failed |-> "failed"],
         active  |-> [Finished |-> "done", Failed |-> "failed"]]

\* card_apply; a finished card shows its total as done.
Turned(c, ev) ==
  LET to == IF c.st \in DOMAIN Turn /\ ev \in DOMAIN Turn[c.st] THEN Turn[c.st][ev] ELSE c.st
  IN [c EXCEPT !.st = to, !.done = IF to = "done" /\ c.st # "done" THEN c.tot ELSE @]

-----------------------------------------------------------------------------
(* Children.                                                               *)

Kid(j, f, st) == [job |-> j, name |-> f, tot |-> 1, done |-> 0, st |-> st]
Foremost(I) == CHOOSE i \in I : \A k \in I : i <= k

\* The child a new one replaces: by job, else by name one without a job.
Slot(kids, k) ==
  LET named == {i \in DOMAIN kids : kids[i].name = k.name}
      same  == {i \in DOMAIN kids : kids[i].job = k.job}
      open  == {i \in named : kids[i].job = NoJob}
  IN IF k.job = NoJob THEN named ELSE IF same # {} THEN same ELSE open

\* child_upsert: a child's bytes never go back, the card's follow them.
Upsert(c, k) ==
  LET at == Slot(c.kids, k)
      i  == Foremost(at)
      d  == IF k.done > c.kids[i].done THEN k.done ELSE c.kids[i].done
  IN IF at = {} THEN [c EXCEPT !.kids = Append(@, k), !.tot = @ + k.tot, !.done = @ + k.done]
     ELSE [c EXCEPT !.kids[i] = [k EXCEPT !.done = d], !.done = @ - c.kids[i].done + d]

\* batch_child_oldest_active: the oldest open child without a job ends.
OldestEnds(c, st) ==
  LET open == {i \in DOMAIN c.kids : c.kids[i].st = "active" /\ c.kids[i].job = NoJob}
  IN IF open = {} THEN c
     ELSE Upsert(c, [c.kids[Foremost(open)] EXCEPT !.done = c.kids[Foremost(open)].tot, !.st = st])

\* batch_child_finish and batch_child_chunk, by job; a job nobody knows ends as
\* a child without a name.
ByJob(c, j) == {i \in DOMAIN c.kids : c.kids[i].job = j}
JobEnds(c, j, st) ==
  IF ByJob(c, j) = {} THEN Upsert(c, [Kid(j, "", st) EXCEPT !.tot = 0])
  ELSE Upsert(c, [c.kids[Foremost(ByJob(c, j))] EXCEPT !.st = st])
JobChunk(c, j) ==
  IF ByJob(c, j) = {} THEN c
  ELSE Upsert(c, [c.kids[Foremost(ByJob(c, j))] EXCEPT !.done = @ + 1, !.st = "active"])

AllOver(c) == c.kids # <<>> /\ \A i \in DOMAIN c.kids : c.kids[i].st \in AtEnd
AnyFailed(c) == \E i \in DOMAIN c.kids : c.kids[i].st = "failed"

\* recheck_parent_terminal, first half: the children are read, and the device's
\* batch registration is taken back.
Recheck(w, p, c) ==
  /\ recheck' = [recheck EXCEPT ![w] =
       IF AllOver(c) /\ c.st \notin AtEnd
         THEN [c |-> p, to |-> IF AnyFailed(c) THEN "Failed" ELSE "Finished"] ELSE NoDue]
  /\ reg' = IF AllOver(c) /\ reg["batch"] = p THEN [reg EXCEPT !["batch"] = 0] ELSE reg

\* Second half: the card is written.
Converge(w) ==
  LET p == recheck[w].c
  IN /\ p # 0 /\ recheck' = [recheck EXCEPT ![w] = NoDue]
     /\ bcard' = [bcard EXCEPT ![p] =
          Turned(IF recheck[w].to = "Finished" THEN Turned(@, "Started") ELSE @, recheck[w].to)]
     /\ UNCHANGED <<reg, pend, route, extra, worker, evs, heard, bad, flag, missed, engine, cancels>>

-----------------------------------------------------------------------------
(* Commands.                                                               *)

NewCard(t) ==
  Kind[t] # "retry" /\ bcard' = [bcard EXCEPT ![t].st = "pending"] /\ UNCHANGED reg

\* A retry works on the batch's card, unless that is done.
Retried(t) ==
  /\ Kind[t] = "retry" /\ bcard[CardOf[t]].st \notin {"none", "done"}
  /\ reg' = [reg EXCEPT !["retry"] = CardOf[t]] /\ UNCHANGED bcard

\* A card at once, then a task that queues.
Launch(t) ==
  /\ worker[t] = "idle" /\ worker' = [worker EXCEPT ![t] = "queued"]
  /\ \E c \in Meet : t \in c /\ {o \in Errand : worker[o] # "idle"} \subseteq c
  /\ NewCard(t) \/ Retried(t)
  /\ UNCHANGED <<pend, route, extra, recheck, evs, heard, bad, flag, missed, engine, cancels>>

\* Sixty seconds without the slot; a retry ends without a word.
WaitTimeout(t) ==
  /\ worker[t] = "queued" /\ worker' = [worker EXCEPT ![t] = "over"]
  /\ bcard' = IF Kind[t] = "retry" THEN bcard ELSE [bcard EXCEPT ![t] = Turned(@, "Failed")]
  /\ UNCHANGED <<reg, pend, route, extra, recheck, evs, heard, bad, flag, missed, engine, cancels>>

Free == \A t \in Errand : worker[t] \in {"idle", "queued", "over"}

\* The slot; a push registers its card for the source bridge.
Acquire(t) ==
  /\ worker[t] = "queued" /\ Free
  /\ worker' = [worker EXCEPT ![t] = IF Kind[t] \in PushKind THEN "offer" ELSE Kind[t]]
  /\ reg' = IF Kind[t] \in {"batch", "single"} THEN [reg EXCEPT ![Kind[t]] = t] ELSE reg
  /\ UNCHANGED <<bcard, pend, route, extra, recheck, evs, heard, bad, flag, missed, engine, cancels>>

Working(t) == worker[t] \notin {"idle", "over"}
Signalled(t) == Working(t) /\ worker[t] # "drain" /\ Kind[t] \in {"batch", "single", "pull"}

\* transfer_action(cancel): the signal, while the task has one; else a card with
\* open children is failed.
CancelRun(t) ==
  /\ cancels < Cancels /\ cancels' = cancels + 1 /\ bcard[t].st \in {"pending", "active"}
  /\ \/ Signalled(t) /\ flag' = flag \cup {t} /\ UNCHANGED bcard
     \/ /\ ~Signalled(t) /\ \E i \in DOMAIN bcard[t].kids : bcard[t].kids[i].st = "active"
        /\ bcard' = [bcard EXCEPT ![t] = Turned(@, "Failed")] /\ UNCHANGED flag
  /\ UNCHANGED <<reg, pend, route, extra, recheck, worker, evs, heard, bad, missed, engine>>

-----------------------------------------------------------------------------
(* The engine of a push, polled when its events are consumed.              *)

Ev(k, f)    == [ev |-> k, f |-> f, job |-> NoJob]
SrcEv(k, j) == [ev |-> k, f |-> j[2], job |-> j]
Polled(t)   == evs[t] = <<>> /\ recheck["task"] = NoDue
StartedEvs(fs) == [i \in DOMAIN fs |-> Ev("Started", fs[i])]
DoneEvs(n)  == [i \in 1 .. n |-> Ev("Done", "")]

EngineAt(t, at, out) ==
  /\ worker' = [worker EXCEPT ![t] = at] /\ evs' = [evs EXCEPT ![t] = out]
  /\ UNCHANGED <<reg, pend, route, extra, recheck, heard, flag, missed, cancels>>

\* The other side accepts and may fetch large files from then on.
Accepted(t) ==
  /\ worker[t] = "offer" /\ worker' = [worker EXCEPT ![t] = "accepted"]
  /\ UNCHANGED <<shell, evs, heard, bad, flag, missed, engine, cancels>>

\* The answer: small files in one stream, then the large ones.
Going(t) ==
  /\ worker[t] = "accepted" /\ Polled(t)
  /\ IF SmallOf[t] # <<>> THEN EngineAt(t, "stream", StartedEvs(SmallOf[t]))
     ELSE EngineAt(t, "confirm", StartedEvs(LargeOf[t]))
  /\ UNCHANGED <<bcard, bad, engine>>

Streamed(t) ==
  /\ worker[t] = "stream" /\ Polled(t) /\ EngineAt(t, "confirm", StartedEvs(LargeOf[t]))
  /\ got' = got \cup {<<t, f>> : f \in SeqSet(SmallOf[t])}
  /\ UNCHANGED <<bcard, bad, src, senders>>

\* JobDone: a Done for each small file and one more.
JobDone(t) ==
  /\ worker[t] = "confirm" /\ Polled(t) /\ \A f \in FilesOf(t) : <<t, f>> \in got
  /\ EngineAt(t, "drain", DoneEvs(Len(SmallOf[t]) + 1))
  /\ UNCHANGED <<bcard, bad, engine>>

\* The engine returns an error: the card fails if no Started was heard, and the
\* source row the receiver has brought about ends.
SourceRow(t) == {j \in senders : j[1] = t}

PushErr(t, out) ==
  /\ EngineAt(t, "drain", out) /\ bad' = bad \cup {t}
  /\ bcard' = IF Kind[t] = "retry" \/ t \in heard THEN bcard
             ELSE [bcard EXCEPT ![t] = Turned(@, "Failed")]
  /\ senders' = senders \ SourceRow(t)
  /\ src' = IF SourceRow(t) = {} THEN src
            ELSE Append(src, SrcEv("Failed", CHOOSE j \in SourceRow(t) : TRUE))
  /\ UNCHANGED got

\* Refused, unanswered, cancelled; the stream broken; JobFailed, cancelled, or
\* half an hour without either.
Refused(t)    == worker[t] \in {"offer", "accepted"} /\ Polled(t) /\ PushErr(t, <<>>)
StreamLost(t) == worker[t] = "stream" /\ Polled(t) /\ PushErr(t, <<Ev("Failed", "")>>)
JobFailed(t)  == worker[t] = "confirm" /\ Polled(t) /\ PushErr(t, <<>>)

\* The receiver asks for a large file, one after the other, once it has the
\* small ones: a source row, if the push is still registered.
Meta(t, f) ==
  /\ worker[t] \in {"accepted", "confirm"} /\ SourceRow(t) = {} /\ <<t, f>> \notin got
  /\ f \in SeqSet(LargeOf[t]) /\ \A s \in SeqSet(SmallOf[t]) : <<t, s>> \in got
  /\ senders' = senders \cup {<<t, f>>} /\ src' = Append(src, SrcEv("Started", <<t, f>>))
  /\ UNCHANGED <<shell, worker, evs, heard, bad, flag, missed, got, cancels>>

\* RecvAck: the file is at the receiver, the row ends.
Arrives(j) ==
  /\ j \in senders /\ senders' = senders \ {j} /\ got' = got \cup {j}
  /\ src' = src \o <<SrcEv("Chunk", j), SrcEv("Done", j)>>
  /\ UNCHANGED <<shell, worker, evs, heard, bad, flag, missed, cancels>>

-----------------------------------------------------------------------------
(* The two writers.                                                        *)

\* After an error push_files handles what is left as for a single file.
AsBatch(t) == Kind[t] # "single" /\ ~(t \in bad /\ t \in Plain)

\* handle_push_progress_event_mode.
PushEvent(t) ==
  LET p == CardOf[t]
      e == Head(evs[t])
      c == bcard[p]
      ended == OldestEnds(c, IF e.ev = "Done" THEN "done" ELSE "failed")
  IN /\ Kind[t] \in PushKind /\ evs[t] # <<>> /\ recheck["task"] = NoDue
     /\ evs' = [evs EXCEPT ![t] = Tail(@)]
     /\ heard' = IF e.ev = "Started" THEN heard \cup {t} ELSE heard
     /\ IF AsBatch(t)
          THEN IF e.ev = "Started"
                 THEN /\ bcard' = [bcard EXCEPT ![p] =
                           Turned(Upsert(c, Kid(NoJob, e.f, "active")), "Started")]
                      /\ UNCHANGED <<recheck, reg>>
                 ELSE bcard' = [bcard EXCEPT ![p] = ended] /\ Recheck("task", p, ended)
          ELSE /\ bcard' = [bcard EXCEPT ![p] =
                    Turned(IF e.ev = "Started" THEN [c EXCEPT !.tot = 1] ELSE c,
                            IF e.ev = "Done" THEN "Finished" ELSE e.ev)]
               /\ UNCHANGED <<recheck, reg>>
     /\ UNCHANGED <<pend, route, extra, worker, bad, flag, missed, engine, cancels>>

PushOver(t) ==
  /\ worker[t] = "drain" /\ evs[t] = <<>> /\ recheck["task"] = NoDue
  /\ worker' = [worker EXCEPT ![t] = "over"]
  /\ UNCHANGED <<shell, evs, heard, bad, flag, missed, engine, cancels>>

\* source_push_attach: the device's batch, else its retry, else its single push;
\* with none of them a card of its own.
Parent == IF reg["batch"] # 0 THEN reg["batch"] ELSE reg["retry"]

Attach(j) ==
  LET q == reg["single"]
  IN IF Parent # 0 /\ bcard[Parent].st \notin AtEnd
       THEN /\ bcard' = [bcard EXCEPT ![Parent] = Upsert(@, Kid(j, j[2], "active"))]
            /\ pend' = [pend EXCEPT ![j] = Parent] /\ UNCHANGED <<route, extra>>
     ELSE IF q # 0
       THEN /\ bcard' = [bcard EXCEPT ![q] = Turned(@, "Started")]
            /\ route' = IF bcard[q].st \in AtEnd THEN route ELSE [route EXCEPT ![j] = q]
            /\ UNCHANGED <<pend, extra>>
     ELSE extra' = extra \cup {j} /\ UNCHANGED <<bcard, pend, route>>

\* The source bridge: SourceStarted, SourceChunkDone, SourceDone, SourceFailed.
Bridge ==
  LET e == Head(src)
      p == pend[e.job]
      q == route[e.job]
      to == IF e.ev = "Done" THEN "done" ELSE "failed"
  IN /\ src # <<>> /\ src' = Tail(src) /\ recheck["bridge"] = NoDue
     /\ CASE e.ev = "Started" -> Attach(e.job) /\ UNCHANGED <<reg, recheck>>
          [] e.ev = "Chunk" ->
               /\ bcard' = IF p # 0 THEN [bcard EXCEPT ![p] = JobChunk(@, e.job)]
                          ELSE IF q # 0 THEN [bcard EXCEPT ![q].done = @ + 1] ELSE bcard
               /\ UNCHANGED <<reg, pend, route, extra, recheck>>
          [] OTHER ->
               /\ UNCHANGED <<pend, route, extra>>
               /\ IF p # 0
                    THEN LET c == JobEnds(bcard[p], e.job, to)
                         IN bcard' = [bcard EXCEPT ![p] = c] /\ Recheck("bridge", p, c)
                    ELSE /\ bcard' = IF q = 0 THEN bcard ELSE [bcard EXCEPT ![q] =
                              Turned(@, IF to = "done" THEN "Finished" ELSE "Failed")]
                         /\ UNCHANGED <<reg, recheck>>
     /\ UNCHANGED <<worker, evs, heard, bad, flag, missed, senders, got, cancels>>

-----------------------------------------------------------------------------
(* Downloads of several files: one after the other.                        *)

Handled(t)  == {f \in SeqSet(SmallOf[t]) : <<t, f>> \in got \/ f \in missed[t]}
NextFile(t) == SmallOf[t][Cardinality(Handled(t)) + 1]
Finished(t) == Cardinality(Handled(t)) = Len(SmallOf[t])
download    == <<reg, pend, route, extra, recheck, heard, bad, flag, src, senders, cancels>>

\* Started or Resumed.
PullBegins(t) ==
  /\ worker[t] = "pull" /\ ~Finished(t) /\ worker' = [worker EXCEPT ![t] = "file"]
  /\ bcard' = [bcard EXCEPT ![t] = Upsert(Turned(@, "Started"), Kid(NoJob, NextFile(t), "active"))]
  /\ UNCHANGED <<download, evs, missed, got>>

\* Done, after Started; InstantHit, without.
PullLands(t) ==
  /\ worker[t] \in {"pull", "file"} /\ ~Finished(t) /\ worker' = [worker EXCEPT ![t] = "pull"]
  /\ got' = got \cup {<<t, NextFile(t)>>}
  /\ bcard' = [bcard EXCEPT ![t] =
       Upsert(Turned(@, "Started"), [Kid(NoJob, NextFile(t), "done") EXCEPT !.done = 1])]
  /\ UNCHANGED <<download, evs, missed>>

PullFails(t) ==
  /\ worker[t] \in {"pull", "file"} /\ ~Finished(t) /\ worker' = [worker EXCEPT ![t] = "pull"]
  /\ missed' = [missed EXCEPT ![t] = @ \cup {NextFile(t)}]
  /\ bcard' = [bcard EXCEPT ![t] = Upsert(@, [Kid(NoJob, NextFile(t), "failed") EXCEPT !.tot = 0])]
  /\ UNCHANGED <<download, evs, got>>

\* The signal is looked at between files and twice a second.
PullCancelled(t) ==
  /\ worker[t] \in {"pull", "file"} /\ t \in flag /\ worker' = [worker EXCEPT ![t] = "over"]
  /\ UNCHANGED <<download, bcard, evs, missed, got>>

PullEnds_anyLanded(t) ==
  /\ worker[t] = "pull" /\ Finished(t) /\ worker' = [worker EXCEPT ![t] = "over"]
  /\ bcard' = [bcard EXCEPT ![t] =
       Turned(@, IF \E f \in FilesOf(t) : <<t, f>> \in got THEN "Finished" ELSE "Failed")]
  /\ UNCHANGED <<download, evs, missed, got>>

PullEnds(t) ==
  /\ worker[t] = "pull" /\ Finished(t) /\ worker' = [worker EXCEPT ![t] = "over"]
  /\ bcard' = [bcard EXCEPT ![t] = Turned(@, IF missed[t] = {} THEN "Finished" ELSE "Failed")]
  /\ UNCHANGED <<download, evs, missed, got>>

\* A folder: enumerated first (start_pull_dir), its events handled by a task of
\* their own (run_dir_pull_task).
DirSend(t, e, at) ==
  /\ evs' = [evs EXCEPT ![t] = Append(@, e)] /\ worker' = [worker EXCEPT ![t] = at]
  /\ UNCHANGED <<download, bcard>>

DirEnumerated(t) ==
  worker[t] = "dir" /\ DirSend(t, Ev("Enumerated", ""), "files") /\ UNCHANGED <<missed, got>>

DirFile(t) ==
  /\ worker[t] = "files" /\ ~Finished(t)
  /\ \/ /\ DirSend(t, Ev("FileDone", NextFile(t)), "files")
        /\ got' = got \cup {<<t, NextFile(t)>>} /\ UNCHANGED missed
     \/ /\ DirSend(t, Ev("FileFailed", NextFile(t)), "files")
        /\ missed' = [missed EXCEPT ![t] = @ \cup {NextFile(t)}] /\ UNCHANGED got

DirAll(t) ==
  /\ worker[t] = "files" /\ Finished(t) /\ DirSend(t, Ev("AllDone", ""), "agg")
  /\ UNCHANGED <<missed, got>>

\* Enumeration fails, or a path that may not be written.
DirError(t) ==
  /\ worker[t] \in {"dir", "files"} /\ worker' = [worker EXCEPT ![t] = "agg"]
  /\ bcard' = [bcard EXCEPT ![t] = Turned(@, "Failed")]
  /\ UNCHANGED <<download, evs, missed, got>>

\* The aggregator adds a landed file's bytes itself and through its child.
DirEvent(t) ==
  LET e == Head(evs[t]) IN
  /\ Kind[t] = "dir" /\ evs[t] # <<>> /\ evs' = [evs EXCEPT ![t] = Tail(@)]
  /\ bcard' = [bcard EXCEPT ![t] =
       CASE e.ev = "Enumerated" -> [Turned(@, "Started") EXCEPT !.tot = Len(SmallOf[t])]
         [] e.ev = "FileDone"   ->
              Upsert([@ EXCEPT !.done = bcard[t].done + 1], [Kid(NoJob, e.f, "done") EXCEPT !.done = 1])
         [] e.ev = "FileFailed" -> Upsert(@, [Kid(NoJob, e.f, "failed") EXCEPT !.tot = 0])
         [] OTHER               -> Turned(@, IF missed[t] = {} THEN "Finished" ELSE "Failed")]
  /\ UNCHANGED <<download, worker, missed, got>>

DirOver(t) ==
  /\ worker[t] = "agg" /\ evs[t] = <<>> /\ worker' = [worker EXCEPT ![t] = "over"]
  /\ UNCHANGED <<download, bcard, evs, missed, got>>

-----------------------------------------------------------------------------
AllFiles == UNION {FilesOf(t) : t \in Errand}

PushStep(t) ==
  \/ Accepted(t) \/ Going(t) \/ Streamed(t) \/ JobDone(t) \/ Refused(t) \/ StreamLost(t)
  \/ JobFailed(t) \/ PushEvent(t) \/ PushOver(t) \/ \E f \in AllFiles : Meta(t, f)

PullStep(t) ==
  PullBegins(t) \/ PullLands(t) \/ PullFails(t) \/ PullCancelled(t) \/ PullEnds(t)

DirStep(t) ==
  DirEnumerated(t) \/ DirFile(t) \/ DirAll(t) \/ DirError(t) \/ DirEvent(t) \/ DirOver(t)

BNext ==
  \/ \E t \in Errand :
       \/ Launch(t) \/ WaitTimeout(t) \/ Acquire(t) \/ CancelRun(t)
       \/ PushStep(t) \/ PullStep(t) \/ DirStep(t)
  \/ \E j \in SourceJob : Arrives(j)
  \/ Bridge \/ \E w \in {"task", "bridge"} : Converge(w)

BSpec == BInit /\ [][BNext]_bvars

-----------------------------------------------------------------------------
(* Properties.                                                             *)

Status == {"none", "pending", "active", "done", "failed"}
Child  == [job : SourceJob \cup {NoJob}, name : AllFiles \cup {""}, tot : Nat, done : Nat,
           st : {"active", "done", "failed"}]
Step   == {"idle", "queued", "offer", "accepted", "stream", "confirm", "drain", "pull", "file", "dir",
           "files", "agg", "over"}
TaskEvent  == [ev : {"Started", "Done", "Failed", "Enumerated", "FileDone", "FileFailed", "AllDone"},
           f : AllFiles \cup {""}, job : {NoJob}]
Report == [ev : {"Started", "Chunk", "Done", "Failed"}, f : AllFiles, job : SourceJob]

(* Every variable has its type (the fields of AppState and TransferDto).   *)
BTypeOK ==
  /\ bcard \in [Errand -> [st : Status, kids : Seq(Child), tot : Nat, done : Nat]]
  /\ reg \in [PushKind -> Errand \cup {0}] /\ extra \subseteq SourceJob
  /\ pend \in [SourceJob -> Errand \cup {0}] /\ route \in [SourceJob -> Errand \cup {0}]
  /\ worker \in [Errand -> Step] /\ evs \in [Errand -> Seq(TaskEvent)] /\ src \in Seq(Report)
  /\ recheck \in [{"task", "bridge"} ->
                    [c : Errand \cup {0}, to : {"none", "Finished", "Failed"}]]
  /\ heard \cup bad \cup flag \subseteq Errand /\ missed \in [Errand -> SUBSET AllFiles]
  /\ senders \subseteq SourceJob /\ got \subseteq Errand \X AllFiles /\ cancels \in 0 .. Cancels

\* The bytes of the children, one by one.
Bytes(kids) == UNION {{i} \X (1 .. kids[i].done) : i \in DOMAIN kids}

(* The bytes an open card with children shows are those of its children,   *)
(* whatever the order of the two writers (child_upsert's bookkeeping).     *)
CountsMatch ==
  \A t \in Errand : Kind[t] \in {"batch", "pull"} /\ bcard[t].st \notin AtEnd =>
    bcard[t].done = Cardinality(Bytes(bcard[t].kids))

(* A download of several files that is shown as done has landed every one  *)
(* of them: a failure in the middle is not forgotten.                      *)
DoneHasAll ==
  \A t \in Errand : Kind[t] \in {"pull", "dir"} /\ bcard[t].st = "done" =>
    \A f \in FilesOf(t) : <<t, f>> \in got

(* One push of one file is one card: its source job never gets a second    *)
(* one, whenever the receiver asks.                                        *)
OneCard == \A j \in extra : Kind[j[1]] # "single"

(* The cards with children are right (main.rs: child_upsert,               *)
(* recheck_parent_terminal): their totals are those of their children, done *)
(* means that every file arrived, and a file is on one card.               *)
BatchSound == BTypeOK /\ CountsMatch /\ DoneHasAll /\ OneCard

=============================================================================

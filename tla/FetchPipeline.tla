---------------------------- MODULE FetchPipeline ----------------------------
(***************************************************************************)
(* The chunk pipeline between a receiver pulling one file and the source   *)
(* that serves it (transfer/engine.rs: start_pull_parts,                   *)
(* recv_push_large_file, run_receiver_windowed, the MetaReq / FetchReq /   *)
(* RecvAck / TransferCtl arms of spawn_rpc_router, run_sender;             *)
(* transfer/sender_state.rs).                                              *)
(*                                                                         *)
(* The receiver negotiates a job, cuts the missing chunks into batches,    *)
(* sends one FetchReq per chunk on the control stream within an in-flight  *)
(* quota and gets each chunk back on a unidirectional stream of its own.   *)
(* Nothing is ever requested twice: whatever loses a FetchReq stalls the   *)
(* batch until the idle watchdog ends it.                                  *)
(*                                                                         *)
(* Time is abstracted: the watchdog's 90 s are longer than every delay of  *)
(* the machines and shorter than what a user may leave paused, so it fires *)
(* exactly when no byte can arrive without a user acting (Quiet).          *)
(***************************************************************************)
EXTENDS Integers, Sequences, FiniteSets, Functions

CONSTANTS
  N,          \* number of chunks of the file
  Pulls,      \* bound: MetaReq rounds (a failed or cancelled pull may be retried)
  Streams,    \* window sizes AdaptiveStreams::current may hold when a batch starts
  Mode,       \* "pull": start_pull_parts; "push": recv_push_large_file
  InboundCap, \* capacity of SessionManager::inbound_ctrl
  Ctls,       \* bound: control commands the receiver's user gives
  Edits,      \* bound: times the source file changes on disk
  Faults      \* what may happen around the transfer, see FaultKinds

FaultKinds == {"pause", "cancel", "throttle", "revoke", "readError",
               "writeError", "disconnect", "rpcTimeout"}

ASSUME NAssumption          == N \in Nat \ {0}
ASSUME PullsAssumption      == Pulls \in Nat \ {0}
ASSUME StreamsAssumption    == Streams \subseteq Nat \ {0} /\ Streams # {}
ASSUME ModeAssumption       == Mode \in {"pull", "push"}
ASSUME BoundsAssumption     == InboundCap \in Nat /\ Ctls \in Nat /\ Edits \in Nat
ASSUME FaultsAssumption     == Faults \subseteq FaultKinds

Chunks   == 0 .. (N - 1)
Jobs     == 1 .. Pulls
Versions == 0 .. Edits          \* contents the source file takes over time
None     == Edits + 1           \* no content: a hole of part.bin

Unlimited == N + 2   \* throttle_cap starts at u32::MAX: above every cap a user can set

(* A block stream or a task serving one: the 12-byte header names the job  *)
(* and the chunk, the body is the chunk of one version of the file.        *)
Request == [job : Jobs, chunk : Chunks]
Stream  == [job : Jobs, chunk : Chunks, ver : Versions]
Joined  == [job : Jobs, chunk : Chunks, res : {"ok", "hash", "protocol", "io"}]

Contents == Versions \cup {None}   \* what may stand at a chunk's offset

(* Receiver -> source control messages. arg is the chunk of a FetchReq and *)
(* the msg_id of a MetaReq; the other messages carry a job only.           *)
CtrlMsg == [type : {"meta", "fetch", "ack", "cancel"}, job : Jobs, arg : Nat]

Command == {"pause", "resume", "cancel"}

VARIABLES
  \* receiver
  phase,      \* where start_pull_parts stands
  result,     \* how the current pull ended
  attempt,    \* msg_id of the last MetaReq
  job,        \* job_id of the current pull (the source chose it in MetaResp)
  ver,        \* version of the file the current manifest describes
  ctl,        \* the job's control channel (ctl_rx)
  ctlLeft,    \* commands the user may still give
  missing,    \* chunks missing[idx..], not cut into a batch yet
  batch,      \* chunks of the running batch
  unsent,     \* chunks of the batch with no FetchReq yet
  accepted,   \* streams accepted in this batch
  completed,  \* block tasks joined in this batch
  tasks,      \* spawned block tasks that have not finished
  joinable,   \* finished block tasks join_next has not returned yet
  received,   \* manifest.received
  disk,       \* part.bin: version of the data at each chunk's offset
  landed,     \* files finalize has renamed into the download directory
  \* connection
  up,         \* the QUIC connection is open
  wire,       \* control stream, receiver to source
  metaResp,   \* MetaResps on their way to the receiver
  uni,        \* block streams not accepted yet
  \* source
  inbound,    \* inbound_ctrl queue in front of the RPC router
  fileVer,    \* version of the source file now on disk
  allowed,    \* perms.download of the receiver
  nextJob,    \* next_source_job_id
  sjobs,      \* sender_jobs
  srcRow,     \* last event of each source job: "none", "active", "done", "failed"
  jobVer,     \* version each job's manifest was built from
  paused,     \* jobs whose `paused` flag is set
  cancelled,  \* jobs whose `cancelled` flag is set
  cap,        \* throttle_cap of each job
  gated,      \* serving tasks waiting at the pause gate
  sending,    \* serving tasks in run_sender (active_streams counts them)
  stale       \* jobs registered over a connection that has closed

rcvVars  == <<phase, result, attempt, job, ver, ctl, ctlLeft, missing, batch, unsent,
              accepted, completed, tasks, joinable, received, disk, landed>>
netVars  == <<up, wire, metaResp, uni>>
srcVars  == <<inbound, fileVer, allowed, nextJob, sjobs, srcRow, jobVer, paused,
              cancelled, cap, gated, sending, stale>>
batchVars == <<batch, unsent, accepted, completed, tasks, joinable>>
fileVars  == <<received, disk, landed>>
pullVars  == <<attempt, job, ver>>
flagVars  == <<fileVer, allowed, paused, cancelled, cap, stale>>
rowVars   == <<nextJob, sjobs, srcRow, jobVer>>
vars == <<rcvVars, netVars, srcVars>>

Empty == [c \in Chunks |-> None]

Init ==
  /\ phase = "idle" /\ result = "none" /\ attempt = 0 /\ job = 1 /\ ver = 0
  /\ ctl = <<>> /\ ctlLeft = Ctls
  /\ missing = {} /\ batch = {} /\ unsent = {}
  /\ accepted = 0 /\ completed = 0 /\ tasks = {} /\ joinable = {}
  /\ received = {} /\ disk = Empty /\ landed = {}
  /\ up = TRUE /\ wire = <<>> /\ metaResp = {} /\ uni = {}
  /\ inbound = <<>> /\ fileVer = 0 /\ allowed = TRUE /\ nextJob = 1
  /\ sjobs = {} /\ srcRow = [j \in Jobs |-> "none"] /\ jobVer = [j \in Jobs |-> 0]
  /\ paused = {} /\ cancelled = {} /\ cap = [j \in Jobs |-> Unlimited]
  /\ gated = {} /\ sending = {} /\ stale = {}

Sent == Cardinality(batch) - Cardinality(unsent)

Lowest(S, k) == {c \in S : Cardinality({d \in S : d < c}) < k}
LowestOf(S)  == {c \in S : \A d \in S : c <= d}

(* The refill loop has work: it runs before the select! looks at anything. *)
(* run_receiver passes the size of the batch as the in-flight quota.       *)
CanRefill == unsent # {} /\ Sent - completed < Cardinality(batch)

-----------------------------------------------------------------------------
(* Receiver *)

(* A pull starts, or a failed or cancelled one is started again: MetaReq   *)
(* goes out under a fresh msg_id.                                          *)
SendMetaReq ==
  /\ phase \in {"idle", "over"} /\ result # "done"
  /\ attempt < Pulls /\ up
  /\ attempt' = attempt + 1
  /\ phase' = "negotiating" /\ result' = "none"
  /\ wire' = Append(wire, [type |-> "meta", job |-> 1, arg |-> attempt + 1])
  /\ UNCHANGED <<job, ver, ctl, ctlLeft, missing, batchVars, fileVars,
                 up, metaResp, uni, srcVars>>

(* Mutant: the parts directory of the same name is resumed, hashes aside.  *)
RecvMetaResp_anyParts(r) ==
  /\ phase = "negotiating" /\ r.msg_id = attempt
  /\ metaResp' = metaResp \ {r}
  /\ job' = r.job /\ ver' = r.ver
  /\ missing' = Chunks \ received
  /\ phase' = "control" /\ ctl' = <<>>
  /\ UNCHANGED <<result, attempt, ctlLeft, batchVars, fileVars, up, wire, uni, srcVars>>

(* MetaResp is routed to the waiter with its msg_id. A pull resumes the    *)
(* parts directory of the same name, size and hashes; any other content    *)
(* and any pushed file starts an empty one.                                *)
RecvMetaResp(r) ==
  /\ phase = "negotiating" /\ r.msg_id = attempt
  /\ metaResp' = metaResp \ {r}
  /\ job' = r.job /\ ver' = r.ver
  /\ IF Mode = "pull" /\ r.ver = ver
       THEN missing' = Chunks \ received /\ UNCHANGED fileVars
       ELSE /\ missing' = Chunks /\ received' = {} /\ disk' = Empty
            /\ UNCHANGED landed
  /\ phase' = "control" /\ ctl' = <<>>
  /\ UNCHANGED <<result, attempt, ctlLeft, batchVars, up, wire, uni, srcVars>>

(* Unsolicited MetaResp (its waiter timed out): dropped by the session.    *)
DropMetaResp(r) ==
  /\ ~(phase = "negotiating" /\ r.msg_id = attempt)
  /\ metaResp' = metaResp \ {r}
  /\ UNCHANGED <<rcvVars, up, wire, uni, srcVars>>

(* The 10 s RPC timeout; without "rpcTimeout" it only follows a request    *)
(* nobody will answer.                                                     *)
MetaTimeout ==
  /\ phase = "negotiating"
  /\ \/ "rpcTimeout" \in Faults
     \/ wire = <<>> /\ inbound = <<>> /\ \A r \in metaResp : r.msg_id # attempt
     \/ ~up
  /\ phase' = "over" /\ result' = "rpc"
  /\ UNCHANGED <<pullVars, ctl, ctlLeft, missing, batchVars, fileVars, netVars, srcVars>>

(* Leaving run_receiver with an error drops the JoinSet, which aborts its  *)
(* tasks; dropping the PartWriter saves the bitmap, so a retry resumes.    *)
EndWith(r) ==
  /\ phase' = "over" /\ result' = r
  /\ tasks' = {} /\ joinable' = {}

(* Cancel between batches removes the parts directory.                     *)
CancelPull ==
  /\ EndWith("cancelled")
  /\ received' = {} /\ disk' = Empty /\ ctl' = <<>>
  /\ UNCHANGED <<pullVars, ctlLeft, missing, batch, unsent, accepted,
                 completed, landed, netVars, srcVars>>

(* Between batches start_pull_parts empties its control queue.             *)
DrainControl ==
  /\ phase = "control" /\ missing # {} /\ ctl # <<>>
  /\ \/ Head(ctl) = "cancel" /\ CancelPull
     \/ /\ Head(ctl) # "cancel"
        /\ phase' = IF Head(ctl) = "pause" THEN "paused" ELSE "control"
        /\ ctl' = Tail(ctl)
        /\ UNCHANGED <<result, pullVars, ctlLeft, missing, batchVars, fileVars,
                       netVars, srcVars>>

(* The Pause arm waits for exactly one more command: Cancel ends the pull, *)
(* anything else - Resume, but a second Pause too - goes on.               *)
PausedRecv ==
  /\ phase = "paused" /\ ctl # <<>>
  /\ \/ Head(ctl) = "cancel" /\ CancelPull
     \/ /\ Head(ctl) # "cancel"
        /\ phase' = "control" /\ ctl' = Tail(ctl)
        /\ UNCHANGED <<result, pullVars, ctlLeft, missing, batchVars, fileVars,
                       netVars, srcVars>>

(* The next batch is the first window-many missing chunks.                 *)
StartBatch ==
  /\ phase = "control" /\ missing # {} /\ ctl = <<>>
  /\ \E w \in Streams : batch' = Lowest(missing, w)
  /\ missing' = missing \ batch'
  /\ unsent' = batch' /\ accepted' = 0 /\ completed' = 0
  /\ tasks' = {} /\ joinable' = {}
  /\ phase' = "batch"
  /\ UNCHANGED <<result, pullVars, ctl, ctlLeft, fileVars, netVars, srcVars>>

(* One turn of the refill loop.                                            *)
SendFetch ==
  /\ phase = "batch" /\ CanRefill
  /\ IF up
       THEN /\ \E c \in LowestOf(unsent) :
                 /\ wire' = Append(wire, [type |-> "fetch", job |-> job, arg |-> c])
                 /\ unsent' = unsent \ {c}
            /\ UNCHANGED <<phase, result, tasks, joinable>>
       ELSE EndWith("rpc") /\ UNCHANGED <<wire, unsent>>
  /\ UNCHANGED <<pullVars, ctl, ctlLeft, missing, batch, accepted, completed,
                 fileVars, up, metaResp, uni, srcVars>>

(* accept_uni hands over whatever stream comes next on the connection.     *)
AcceptStream(s) ==
  /\ phase = "batch" /\ ~CanRefill /\ accepted < Sent
  /\ uni' = uni \ {s}
  /\ accepted' = accepted + 1
  /\ tasks' = tasks \cup {s}
  /\ UNCHANGED <<phase, result, pullVars, ctl, ctlLeft, missing, batch, unsent,
                 completed, joinable, fileVars, up, wire, metaResp, srcVars>>

AcceptFails ==
  /\ phase = "batch" /\ ~CanRefill /\ accepted < Sent /\ ~up
  /\ EndWith("io") /\ accepted' = accepted + 1
  /\ UNCHANGED <<pullVars, ctl, ctlLeft, missing, batch, unsent, completed,
                 fileVars, netVars, srcVars>>

(* Mutant: the chunk's hash is not compared.                               *)
Outcome_noHash(s) ==
  IF s.job # job \/ s.chunk \notin batch THEN "protocol" ELSE "ok"

(* What a block task finds: the header must be of this job and batch, the  *)
(* body must hash to the manifest's entry.                                 *)
Outcome(s) ==
  IF s.job # job \/ s.chunk \notin batch THEN "protocol"
  ELSE IF s.ver # ver THEN "hash" ELSE "ok"

Finish(s, r) ==
  /\ tasks' = tasks \ {s}
  /\ joinable' = joinable \cup {[job |-> s.job, chunk |-> s.chunk, res |-> r]}

(* A block task reads its stream and writes the verified chunk.            *)
RunTask(s) ==
  /\ phase = "batch"
  /\ Finish(s, Outcome(s))
  /\ IF Outcome(s) = "ok"
       THEN /\ disk' = [disk EXCEPT ![s.chunk] = s.ver]
            /\ received' = received \cup {s.chunk}
       ELSE UNCHANGED <<disk, received>>
  /\ UNCHANGED <<phase, result, pullVars, ctl, ctlLeft, missing, batch, unsent,
                 accepted, completed, landed, netVars, srcVars>>

(* The connection goes while the task still reads, or the disk is full.    *)
TaskFails(s) ==
  /\ phase = "batch" /\ (~up \/ "writeError" \in Faults)
  /\ Finish(s, "io")
  /\ UNCHANGED <<phase, result, pullVars, ctl, ctlLeft, missing, batch, unsent,
                 accepted, completed, fileVars, netVars, srcVars>>

(* Mutant: the batch ends when its streams are accepted, not when the      *)
(* tasks are done.                                                         *)
JoinTask_accepted(t) ==
  /\ phase = "batch" /\ ~CanRefill
  /\ completed' = completed + 1
  /\ IF t.res = "ok"
       THEN /\ joinable' = joinable \ {t}
            /\ phase' = IF accepted = Cardinality(batch) THEN "control" ELSE "batch"
            /\ UNCHANGED <<result, tasks>>
       ELSE EndWith(t.res)
  /\ UNCHANGED <<pullVars, ctl, ctlLeft, missing, batch, unsent, accepted,
                 fileVars, netVars, srcVars>>

(* join_next: count the task; an error ends the pull, the last one the     *)
(* batch.                                                                  *)
JoinTask(t) ==
  /\ phase = "batch" /\ ~CanRefill
  /\ completed' = completed + 1
  /\ IF t.res = "ok"
       THEN /\ joinable' = joinable \ {t}
            /\ phase' = IF completed' = Cardinality(batch) THEN "control" ELSE "batch"
            /\ UNCHANGED <<result, tasks>>
       ELSE EndWith(t.res)
  /\ UNCHANGED <<pullVars, ctl, ctlLeft, missing, batch, unsent, accepted,
                 fileVars, netVars, srcVars>>

(* No byte can reach the receiver unless a user acts.                      *)
Quiet ==
  /\ tasks = {} /\ joinable = {} /\ uni = {} /\ sending = {}
  /\ up => wire = <<>>
  /\ inbound = <<>>
  /\ \A g \in gated : g.job \in paused /\ g.job \notin cancelled

(* Mutant: the timeout lives in the block tasks, so that a batch whose     *)
(* streams never come has none.                                            *)
Watchdog_perTask ==
  /\ phase = "batch" /\ ~CanRefill /\ Quiet /\ tasks # {}
  /\ EndWith("timeout")
  /\ UNCHANGED <<pullVars, ctl, ctlLeft, missing, batch, unsent, accepted,
                 completed, fileVars, netVars, srcVars>>

Watchdog ==
  /\ phase = "batch" /\ ~CanRefill /\ Quiet
  /\ EndWith("timeout")
  /\ UNCHANGED <<pullVars, ctl, ctlLeft, missing, batch, unsent, accepted,
                 completed, fileVars, netVars, srcVars>>

(* All batches are in: finalize checks the bitmap, renames part.bin and    *)
(* removes the parts directory; RecvAck and Done follow.                   *)
Finalize ==
  /\ phase = "control" /\ missing = {}
  /\ phase' = "over"
  /\ IF received = Chunks
       THEN /\ result' = "done"
            /\ landed' = landed \cup {[job |-> job, data |-> disk]}
            /\ received' = {} /\ disk' = Empty
            /\ wire' = IF up THEN Append(wire, [type |-> "ack", job |-> job, arg |-> 0])
                             ELSE wire
       ELSE result' = "incomplete" /\ UNCHANGED <<landed, received, disk, wire>>
  /\ UNCHANGED <<pullVars, ctl, ctlLeft, missing, batchVars, up, metaResp, uni, srcVars>>

(* The user pauses, resumes or cancels the pull (control_task); a cancel   *)
(* is also told to the source (transfer_action sends TransferCtl).         *)
UserCommand(c) ==
  /\ Mode = "pull" /\ ctlLeft > 0
  /\ phase \in {"control", "paused", "batch"}
  /\ ctl' = Append(ctl, c) /\ ctlLeft' = ctlLeft - 1
  /\ wire' = IF c = "cancel" /\ up
               THEN Append(wire, [type |-> "cancel", job |-> job, arg |-> 0]) ELSE wire
  /\ UNCHANGED <<phase, result, pullVars, missing, batchVars, fileVars,
                 up, metaResp, uni, srcVars>>

-----------------------------------------------------------------------------
(* Connection *)

(* The source's ctrl_loop hands a request to the router with try_send: a   *)
(* full queue drops it.                                                    *)
DeliverCtrl ==
  /\ up /\ wire # <<>>
  /\ wire' = Tail(wire)
  /\ inbound' = IF Len(inbound) < InboundCap THEN Append(inbound, Head(wire)) ELSE inbound
  /\ UNCHANGED <<rcvVars, up, metaResp, uni, flagVars, rowVars, gated, sending>>

(* The connection drops: streams and unread control bytes are gone, and a  *)
(* task that still holds the connection fails when it opens its stream.    *)
Disconnect ==
  /\ "disconnect" \in Faults /\ up
  /\ up' = FALSE
  /\ wire' = <<>> /\ uni' = {} /\ metaResp' = {} /\ gated' = {} /\ sending' = {}
  /\ stale' = sjobs
  /\ UNCHANGED <<rcvVars, inbound, fileVer, allowed, rowVars, paused, cancelled, cap>>

(* A new session with the same peer, once the pull has noticed.            *)
Reconnect ==
  /\ ~up /\ phase \in {"idle", "over"}
  /\ up' = TRUE
  /\ UNCHANGED <<rcvVars, wire, metaResp, uni, srcVars>>

-----------------------------------------------------------------------------
(* Source *)

(* Mutant: every removal of a sender job is reported as done.              *)
EndRow_done(j, how) ==
  /\ sjobs' = sjobs \ {j}
  /\ srcRow' = [srcRow EXCEPT ![j] = "done"]
  /\ UNCHANGED <<nextJob, jobVer>>

EndRow(j, how) ==
  /\ sjobs' = sjobs \ {j}
  /\ srcRow' = [srcRow EXCEPT ![j] = how]
  /\ UNCHANGED <<nextJob, jobVer>>

(* MetaReq: the manifest is built from the file as it is now and a sender  *)
(* job is registered; without the permission there is no answer at all.    *)
RouteMeta(m) ==
  /\ m.type = "meta"
  /\ nextJob \in Jobs      \* bound: never more requests than pulls
  /\ IF allowed
       THEN /\ sjobs' = sjobs \cup {nextJob}
            /\ nextJob' = nextJob + 1
            /\ srcRow' = [srcRow EXCEPT ![nextJob] = "active"]
            /\ jobVer' = [jobVer EXCEPT ![nextJob] = fileVer]
            /\ metaResp' = IF up THEN metaResp \cup {[msg_id |-> m.arg, job |-> nextJob,
                                                      ver |-> fileVer]}
                                 ELSE metaResp
       ELSE UNCHANGED <<rowVars, metaResp>>
  /\ UNCHANGED gated

(* FetchReq: every guard that fails drops the request for good, except     *)
(* pausing, which is left to the serving task.                             *)
RouteFetch(m) ==
  /\ m.type = "fetch"
  /\ \/ /\ allowed /\ m.job \in sjobs /\ m.job \notin cancelled
        /\ Cardinality({s \in sending : s.job = m.job}) < cap[m.job]
        /\ m.arg \in Chunks /\ up
        /\ gated' = gated \cup {[job |-> m.job, chunk |-> m.arg]}
        /\ UNCHANGED rowVars
     \/ /\ allowed /\ m.job \in sjobs /\ m.job \in cancelled
        /\ EndRow(m.job, "failed") /\ UNCHANGED gated
     \/ /\ \/ ~allowed
           \/ m.job \notin sjobs
           \/ /\ m.job \notin cancelled
              /\ \/ Cardinality({s \in sending : s.job = m.job}) >= cap[m.job]
                 \/ m.arg \notin Chunks
                 \/ ~up
        /\ UNCHANGED <<rowVars, gated>>
  /\ UNCHANGED metaResp

(* RecvAck: the receiver has landed the file, the source row is done.      *)
RouteAck(m) ==
  /\ m.type = "ack"
  /\ IF m.job \in sjobs THEN EndRow(m.job, "done") ELSE UNCHANGED rowVars
  /\ UNCHANGED <<metaResp, gated>>

(* TransferCtl Cancel from the receiver: the job leaves the registry; its  *)
(* `cancelled` flag is not touched.                                        *)
RouteCancel(m) ==
  /\ m.type = "cancel"
  /\ IF m.job \in sjobs THEN EndRow(m.job, "failed") ELSE UNCHANGED rowVars
  /\ UNCHANGED <<metaResp, gated>>

Route ==
  /\ inbound # <<>>
  /\ inbound' = Tail(inbound)
  /\ LET m == Head(inbound)
     IN RouteMeta(m) \/ RouteFetch(m) \/ RouteAck(m) \/ RouteCancel(m)
  /\ UNCHANGED <<rcvVars, up, wire, uni, flagVars, sending>>

(* A serving task passes the pause gate ...                                *)
ServeStart(g) ==
  /\ g.job \notin paused
  /\ gated' = gated \ {g} /\ sending' = sending \cup {g}
  /\ UNCHANGED <<rcvVars, netVars, inbound, flagVars, rowVars>>

(* ... or gives up there because the job was cancelled meanwhile.          *)
GateAbandon(g) ==
  /\ g.job \in paused /\ g.job \in cancelled
  /\ gated' = gated \ {g}
  /\ UNCHANGED <<rcvVars, netVars, inbound, flagVars, rowVars, sending>>

(* run_sender: read the chunk from the file as it is now, stream it.       *)
ServeDone(g) ==
  /\ sending' = sending \ {g}
  /\ uni' = uni \cup {[job |-> g.job, chunk |-> g.chunk, ver |-> fileVer]}
  /\ UNCHANGED <<rcvVars, up, wire, metaResp, inbound, flagVars, rowVars, gated>>

(* run_sender fails to open or read the file: a warning, nothing is sent.  *)
ServeFails(g) ==
  /\ "readError" \in Faults
  /\ sending' = sending \ {g}
  /\ UNCHANGED <<rcvVars, netVars, inbound, flagVars, rowVars, gated>>

(* transfer_action on the source row.                                      *)
SourcePause(j) ==
  /\ "pause" \in Faults /\ j \in sjobs /\ j \notin paused
  /\ paused' = paused \cup {j}
  /\ UNCHANGED <<rcvVars, netVars, inbound, fileVer, allowed, rowVars, cancelled, cap,
                 gated, sending, stale>>

SourceResume(j) ==
  /\ j \in sjobs /\ j \in paused
  /\ paused' = paused \ {j}
  /\ UNCHANGED <<rcvVars, netVars, inbound, fileVer, allowed, rowVars, cancelled, cap,
                 gated, sending, stale>>

SourceCancel(j) ==
  /\ "cancel" \in Faults /\ j \in sjobs /\ j \notin cancelled
  /\ cancelled' = cancelled \cup {j}
  /\ UNCHANGED <<rcvVars, netVars, inbound, fileVer, allowed, rowVars, paused, cap,
                 gated, sending, stale>>

(* transfer_throttle: the menu offers 1, 2, 4 streams and 0 for "no        *)
(* limit"; the command stores max(m, 1).                                   *)
ThrottleCap(m) == IF m > 1 THEN m ELSE 1

SourceThrottle(j, m) ==
  /\ "throttle" \in Faults /\ j \in sjobs
  /\ cap' = [cap EXCEPT ![j] = ThrottleCap(m)]
  /\ cap' # cap
  /\ UNCHANGED <<rcvVars, netVars, inbound, fileVer, allowed, rowVars, paused,
                 cancelled, gated, sending, stale>>

(* The user takes the download permission away.                            *)
Revoke ==
  /\ "revoke" \in Faults /\ allowed
  /\ allowed' = FALSE
  /\ UNCHANGED <<rcvVars, netVars, inbound, fileVer, rowVars, paused, cancelled, cap,
                 gated, sending, stale>>

(* Somebody edits the shared file.                                         *)
EditFile ==
  /\ fileVer < Edits
  /\ fileVer' = fileVer + 1
  /\ UNCHANGED <<rcvVars, netVars, inbound, allowed, rowVars, paused, cancelled, cap,
                 gated, sending, stale>>

(* Mutant: the cleanup reports failure without looking the job up.         *)
DropCleanup_blind(j) ==
  /\ j \in stale
  /\ stale' = stale \ {j}
  /\ EndRow(j, "failed")
  /\ UNCHANGED <<rcvVars, netVars, inbound, fileVer, allowed, paused, cancelled, cap,
                 gated, sending>>

(* spawn_connection_drop_cleanup: 30 s after the connection closed.        *)
DropCleanup(j) ==
  /\ j \in stale
  /\ stale' = stale \ {j}
  /\ IF j \in sjobs THEN EndRow(j, "failed") ELSE UNCHANGED rowVars
  /\ UNCHANGED <<rcvVars, netVars, inbound, fileVer, allowed, paused, cancelled, cap,
                 gated, sending>>

-----------------------------------------------------------------------------
ReceiverNext ==
  \/ SendMetaReq \/ MetaTimeout \/ DrainControl \/ PausedRecv \/ StartBatch
  \/ SendFetch \/ AcceptFails \/ Watchdog \/ Finalize
  \/ \E r \in metaResp : RecvMetaResp(r) \/ DropMetaResp(r)
  \/ \E s \in uni : AcceptStream(s)
  \/ \E s \in tasks : RunTask(s) \/ TaskFails(s)
  \/ \E t \in joinable : JoinTask(t)
  \/ \E c \in Command : UserCommand(c)

ConnectionNext == DeliverCtrl \/ Disconnect \/ Reconnect

SourceNext ==
  \/ Route \/ Revoke \/ EditFile
  \/ \E g \in gated : ServeStart(g) \/ GateAbandon(g)
  \/ \E g \in sending : ServeDone(g) \/ ServeFails(g)
  \/ \E j \in Jobs : SourcePause(j) \/ SourceResume(j) \/ SourceCancel(j) \/ DropCleanup(j)
  \/ \E j \in Jobs, m \in {0, 1, 2} : SourceThrottle(j, m)

Next == ReceiverNext \/ ConnectionNext \/ SourceNext

Spec == Init /\ [][Next]_vars

(* Tasks that are runnable run, messages that are sent arrive and timers   *)
(* that are due fire. The watchdog's idle time is reset by bytes only, so  *)
(* pausing and resuming in between does not put it off: it is strongly     *)
(* fair. Nothing is assumed of users, edits or the network.                *)
Fairness ==
  /\ WF_vars(MetaTimeout) /\ WF_vars(DrainControl) /\ WF_vars(PausedRecv)
  /\ WF_vars(StartBatch) /\ WF_vars(SendFetch) /\ WF_vars(AcceptFails)
  /\ SF_vars(Watchdog) /\ WF_vars(Finalize)
  /\ WF_vars(\E r \in metaResp : RecvMetaResp(r))
  /\ WF_vars(\E s \in uni : AcceptStream(s))
  /\ WF_vars(\E s \in tasks : RunTask(s))
  /\ WF_vars(\E t \in joinable : JoinTask(t))
  /\ WF_vars(DeliverCtrl) /\ WF_vars(Route)
  /\ \A j \in Jobs, c \in Chunks :
       LET g == [job |-> j, chunk |-> c]
       IN /\ WF_vars(g \in gated /\ (ServeStart(g) \/ GateAbandon(g)))
          /\ WF_vars(g \in sending /\ (ServeDone(g) \/ ServeFails(g)))
  /\ \A j \in Jobs : WF_vars(DropCleanup(j))

FairSpec == Spec /\ Fairness
-----------------------------------------------------------------------------
(* Properties *)

(* Every variable holds a value the program's types allow; requests are    *)
(* only outstanding for chunks of the batch.                               *)
PullType ==
  /\ phase \in {"idle", "negotiating", "control", "paused", "batch", "over"}
  /\ result \in {"none", "done", "rpc", "cancelled", "timeout", "protocol", "hash",
                 "io", "incomplete"}
  /\ attempt \in 0 .. Pulls /\ job \in Jobs /\ ver \in Versions
  /\ ctl \in Seq(Command) /\ ctlLeft \in 0 .. Ctls

BatchType ==
  /\ missing \subseteq Chunks /\ batch \subseteq Chunks /\ unsent \subseteq batch
  /\ accepted \in Nat /\ completed \in Nat
  /\ tasks \subseteq Stream /\ joinable \subseteq Joined

FileType ==
  /\ received \subseteq Chunks /\ disk \in [Chunks -> Contents]
  /\ landed \subseteq [job : Jobs, data : [Chunks -> Contents]]

NetType ==
  /\ up \in BOOLEAN /\ wire \in Seq(CtrlMsg) /\ uni \subseteq Stream
  /\ metaResp \subseteq [msg_id : Nat, job : Jobs, ver : Versions]

SourceType ==
  /\ inbound \in Seq(CtrlMsg) /\ fileVer \in Versions /\ allowed \in BOOLEAN
  /\ paused \subseteq Jobs /\ cancelled \subseteq Jobs /\ stale \subseteq Jobs
  /\ cap \in [Jobs -> Nat]
  /\ gated \subseteq Request /\ sending \subseteq Request

RowType ==
  /\ nextJob \in 1 .. (Pulls + 1) /\ sjobs \subseteq Jobs
  /\ srcRow \in [Jobs -> {"none", "active", "done", "failed"}]
  /\ jobVer \in [Jobs -> Versions]

TypeOK == PullType /\ BatchType /\ FileType /\ NetType /\ SourceType /\ RowType

(* The chunks of job j that are somewhere in the pipeline: requested, being*)
(* served, on their way back or being written.                             *)
Fetches(q, j) == {i \in DOMAIN q : q[i].type = "fetch" /\ q[i].job = j}
AskedIn(q, j) == {q[i].arg : i \in Fetches(q, j)}
OfJob(S, j)   == {x \in S : x.job = j}
ChunksOf(S, j) == {x.chunk : x \in OfJob(S, j)}

InPipe(j) ==
  AskedIn(wire, j) \cup AskedIn(inbound, j) \cup ChunksOf(gated, j)
    \cup ChunksOf(sending, j) \cup ChunksOf(uni, j) \cup ChunksOf(tasks, j)
    \cup ChunksOf(joinable, j)

LoadOf(j) ==
  Cardinality(Fetches(wire, j)) + Cardinality(Fetches(inbound, j))
    + Cardinality(OfJob(gated, j)) + Cardinality(OfJob(sending, j))
    + Cardinality(OfJob(uni, j)) + Cardinality(OfJob(tasks, j))
    + Cardinality(OfJob(joinable, j))

(* The accounting of run_receiver_windowed is right about the whole        *)
(* pipeline, both machines included: what is in flight for the job belongs *)
(* to the running batch and is no more than sent - completed.              *)
WindowAccounting ==
  phase = "batch" => InPipe(job) \subseteq batch \ unsent /\ LoadOf(job) <= Sent - completed

(* A bit of the resume bitmap is only ever set for a chunk of the file     *)
(* version the manifest describes, across retries, cancels and edits.      *)
BitmapSound == \A c \in received : disk[c] = ver

(* A file in the download directory is, in every chunk, the version the    *)
(* source's manifest of that job was built from: never a mix of two        *)
(* versions, never a hole.                                                 *)
LandedIntact == \A f \in landed : f.data = [c \in Chunks |-> jobVer[f.job]]

(* When every batch has returned Ok nothing is missing: finalize never     *)
(* meets an incomplete bitmap.                                             *)
FinalizeComplete == result # "incomplete"

(* The source shows a transfer as done only after the receiver landed it.  *)
AckAfterLanding == \A j \in Jobs : srcRow[j] = "done" => \E f \in landed : f.job = j

(* The first pull on a connection never meets a stream that is not its own;*)
(* only what an earlier, failed pull left behind can break a later one.    *)
OwnStreamsOnly == result = "protocol" => attempt > 1

(* Why BitmapSound, LandedIntact and AckAfterLanding hold, in a form every *)
(* step preserves: rows exist for the jobs handed out so far and are       *)
(* active while registered; a MetaResp, and a pull at work or with chunks  *)
(* on disk, carry the content their job was offered with; an ack names a   *)
(* job that has landed.                                                    *)
AtWork == phase \in {"control", "paused", "batch"}
Landed(j) == \E f \in landed : f.job = j

RowsInv ==
  /\ \A j \in Jobs : srcRow[j] = "none" <=> j >= nextJob
  /\ sjobs = {j \in Jobs : srcRow[j] = "active"}
RespInv == \A r \in metaResp : r.job < nextJob /\ r.ver = jobVer[r.job]
TakenInv == AtWork \/ received # {} => job < nextJob /\ ver = jobVer[job]
LandedInv == (\A f \in landed : f.job < nextJob) /\ LandedIntact
AckInv ==
  /\ \A m \in Range(wire) \cup Range(inbound) : m.type = "ack" => Landed(m.job)
  /\ AckAfterLanding

DeliveryInv == RowsInv /\ RespInv /\ TakenInv /\ BitmapSound /\ LandedInv /\ AckInv

(* A sender row that reached done or failed keeps that outcome: RecvAck,   *)
(* cancellation and the 30 s cleanup race for the row.                     *)
RowOutcomeFinal ==
  [][\A j \in Jobs : srcRow[j] \in {"done", "failed"} => srcRow'[j] = srcRow[j]]_vars

(* As long as the job is registered at the source, is not throttled and no *)
(* cancel is under way, a requested chunk is in the pipeline or on disk:   *)
(* pausing at the source defers a FetchReq and never loses it.             *)
CancelUnderWay(j) ==
  \E m \in Range(wire) \cup Range(inbound) : m.type = "cancel" /\ m.job = j

RequestsConserved ==
  /\ phase = "batch" /\ job \in sjobs \ cancelled
  /\ cap[job] = Unlimited /\ ~CancelUnderWay(job)
  => batch \ unsent \subseteq InPipe(job) \cup received

(* What a first pull can count on: the router's queue takes a whole window,*)
(* the peer stays connected and allowed, and the shared file can be read.  *)
Lossless ==
  /\ \A w \in Streams : w <= InboundCap
  /\ Faults \cap {"revoke", "disconnect", "readError"} = {}

PipelineSound ==
  /\ TypeOK /\ WindowAccounting /\ FinalizeComplete /\ OwnStreamsOnly
  /\ Lossless /\ attempt <= 1 => RequestsConserved

(* The pipeline is a FileDelivery: its chunks are the bitmap, its files    *)
(* what finalize landed, its confirmations the finished source rows.       *)
Delivery == INSTANCE FileDelivery WITH
  offer <- [j \in Jobs |-> IF srcRow[j] = "none" THEN None ELSE jobVer[j]],
  taken <- job, content <- ver, held <- received,
  confirmed <- {j \in Jobs : srcRow[j] = "done"}

DeliversFile == Delivery!Spec

(* The watchdog's promise: a batch does not wait for ever.                 *)
BatchEnds == (phase = "batch") ~> (phase # "batch")

(* With nobody interfering, a pull that starts is landed by the receiver   *)
(* and acknowledged at the source.                                         *)
PullCompletes == (phase = "negotiating") ~> (result = "done" /\ sjobs = {})

(* What the engine's comment says of the watchdog, which does not hold.     *)

(* "the watchdog only gives up on a peer that is dead or a path that is a  *)
(* black hole" (the idle watchdog's comment and its log line).             *)
(* The code does not keep this: see the README.                            *)
WatchdogMeansDeadPeer == result = "timeout" => ~up
=============================================================================

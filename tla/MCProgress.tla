------------------------------ MODULE MCProgress ------------------------------
(***************************************************************************)
(* One run for what must come to an end: downloads and their cards, the    *)
(* pull of the engine and pushes.  They share no state here, so a run      *)
(* takes one of them: `which` says which one steps and is scheduled        *)
(* fairly, the others stay as they begin.                                  *)
(***************************************************************************)
EXTENDS DownloadCards, PushOffer

MCPeerOf == [f \in Offered |-> "a"]

VARIABLES
  which,
  \* FetchPipeline
  phase, result, attempt, job, ver, ctl, ctlLeft, missing, batch, unsent, accepted, completed,
  tasks, joinable, received, disk, landed, link, wire, metaResp, uni, inbound, fileVer, allowed,
  nextSource, sjobs, srcRow, jobVer, paused, cancelled, cap, gated, sending, stale

fvars == <<phase, result, attempt, job, ver, ctl, ctlLeft, missing, batch, unsent, accepted,
           completed, tasks, joinable, received, disk, landed, link, wire, metaResp, uni, inbound,
           fileVer, allowed, nextSource, sjobs, srcRow, jobVer, paused, cancelled, cap, gated,
           sending, stale>>
mcvars == <<which, vars, fvars, ovars>>

(* A pull without faults that pushes, and one whose batches are paused,      *)
(* throttled, revoked and cut off.                                           *)
Whole == INSTANCE FetchPipeline WITH N <- 3, Pulls <- 1, Streams <- {1, 2}, Mode <- "push",
           InboundCap <- 2, Ctls <- 0, Edits <- 0, Faults <- {}, up <- link, nextJob <- nextSource
Faulty == INSTANCE FetchPipeline WITH N <- 2, Pulls <- 1, Streams <- {1, 2}, Mode <- "pull",
            InboundCap <- 1, Ctls <- 0, Edits <- 0, up <- link, nextJob <- nextSource,
            Faults <- {"pause", "throttle", "revoke", "disconnect", "readError"}

(* Two offers meet: the one with a large file, and one of the others, of      *)
(* which the one that need not send anything is the first.                   *)
Idle == {o \in Offer : snd[o] = "idle"}
Meeting ==
  /\ Cardinality((Offer \ WithLarge) \ Idle') <= 1
  /\ \A o \in Idle \ (WithNew \cup Idle') : Idle = Offer

MCInit ==
  /\ which \in {"cards", "whole", "faulty", "push"}
  /\ Init /\ OInit
  /\ IF which = "faulty" THEN Faulty!Init ELSE Whole!Init

MCNext ==
  /\ UNCHANGED which
  /\ \/ which = "cards" /\ Next /\ UNCHANGED <<fvars, ovars>>
     \/ which = "whole" /\ Whole!Next /\ UNCHANGED <<vars, ovars>>
     \/ which = "faulty" /\ Faulty!Next /\ UNCHANGED <<vars, ovars>>
     \/ which = "push" /\ ONext /\ Meeting /\ UNCHANGED <<vars, fvars>>

(* The fairness of each module, for the machine that steps. *)
OnlyCards(A) == which = "cards" /\ A

CardsFair ==
  /\ \A p \in Pull : /\ WF_vars(OnlyCards(QueueTimeout(p))) /\ WF_vars(OnlyCards(HandleEvent(p)))
                     /\ WF_vars(OnlyCards(EngineOver(p))) /\ WF_vars(OnlyCards(Finish(p)))
                     /\ WF_vars(OnlyCards(Engine(p)))
  /\ \A i \in Ids : WF_vars(OnlyCards(WatchdogFires(i)))

(* The pull: what either instance must do, each for its own behaviours. *)
Pulled(A, B) == (which = "whole" /\ A) \/ (which = "faulty" /\ B)

PullFair ==
  /\ WF_fvars(Pulled(Whole!MetaTimeout, Faulty!MetaTimeout))
  /\ WF_fvars(Pulled(Whole!DrainControl, Faulty!DrainControl))
  /\ WF_fvars(Pulled(Whole!PausedRecv, Faulty!PausedRecv))
  /\ WF_fvars(Pulled(Whole!StartBatch, Faulty!StartBatch))
  /\ WF_fvars(Pulled(Whole!SendFetch, Faulty!SendFetch))
  /\ WF_fvars(Pulled(Whole!AcceptFails, Faulty!AcceptFails))
  /\ SF_fvars(Pulled(Whole!Watchdog, Faulty!Watchdog))
  /\ WF_fvars(Pulled(Whole!Finalize, Faulty!Finalize))
  /\ WF_fvars(\E r \in metaResp : Pulled(Whole!RecvMetaResp(r), Faulty!RecvMetaResp(r)))
  /\ WF_fvars(\E s \in uni : Pulled(Whole!AcceptStream(s), Faulty!AcceptStream(s)))
  /\ WF_fvars(\E s \in tasks : Pulled(Whole!RunTask(s), Faulty!RunTask(s)))
  /\ WF_fvars(\E t \in joinable : Pulled(Whole!JoinTask(t), Faulty!JoinTask(t)))
  /\ WF_fvars(Pulled(Whole!DeliverCtrl, Faulty!DeliverCtrl))
  /\ WF_fvars(Pulled(Whole!Route, Faulty!Route))
  /\ \A c \in 0 .. 2 :
       LET g == [job |-> 1, chunk |-> c]
       IN /\ WF_fvars(g \in gated /\ Pulled(Whole!ServeStart(g) \/ Whole!GateAbandon(g),
                                            Faulty!ServeStart(g) \/ Faulty!GateAbandon(g)))
          /\ WF_fvars(g \in sending /\ Pulled(Whole!ServeDone(g) \/ Whole!ServeFails(g),
                                              Faulty!ServeDone(g) \/ Faulty!ServeFails(g)))
  /\ WF_fvars(Pulled(Whole!DropCleanup(1), Faulty!DropCleanup(1)))

PushFair ==
  /\ WF_ovars(which = "push" /\ SenderReads) /\ WF_ovars(which = "push" /\ ReceiverReads)
  /\ \A o \in Offer : /\ WF_ovars(which = "push" /\ SndStep(o))
                      /\ WF_ovars(which = "push" /\ RcvStep(o))

MCSpec ==
  /\ MCInit /\ [][MCNext]_mcvars
  /\ CardsFair /\ PullFair /\ PushFair

-------------------------------------------------------------------------------
(* A queued download leaves the queue (commands.rs:600); with nobody         *)
(* interfering a pull is landed by the receiver and acknowledged at the      *)
(* source; whatever the user or the network does, a batch does not wait for  *)
(* ever (the idle watchdog, engine.rs:1505-1524); and every push ends.       *)
TransfersEnd ==
  /\ PendingEnds
  /\ which = "whole" => Whole!PullCompletes
  /\ Faulty!BatchEnds
  /\ PushEnds
===============================================================================

------------------------------- MODULE PushOffer -------------------------------
(***************************************************************************)
(* Pushing files (engine.rs): the sender offers them, the receiver's router *)
(* asks its user or its policy, the answer starts two phases: one batch     *)
(* stream with the small files, then the large ones, which the receiver     *)
(* fetches by asking for push:<offer>. Small files that the receiver's inbox*)
(* index knows are skipped and copied locally (dedup.rs). JobDone ends it.  *)
(*                                                                          *)
(* Pushes to one device run one after the other (acquire_slot), but an offer*)
(* lives on at the receiver when the sender has given it up. OfferResp      *)
(* carries no offer id, a batch stream neither. The chunks of a large file  *)
(* are FetchPipeline's. Content is a pair of an offer and a part; no large file *)
(* is known to the receiver beforehand.                                     *)
(***************************************************************************)
EXTENDS Integers, Sequences

CONSTANTS
  Offer,      \* bound: the offers of one run, numbers
  WithNew,    \* those that have a small file the receiver does not know
  WithHeld,   \* those that have a small file it has in its inbox index
  WithLarge   \* those that have a large file

\* Nobody offers nothing.
ASSUME PushAssumption == Offer \subseteq Nat /\ WithNew \cup WithHeld \cup WithLarge = Offer

Part == {"new", "held", "large"}

VARIABLES
  snd,       \* push_files_inner of each offer
  skip,      \* the small files it was told to skip
  registry,  \* PUSH_JOBS: offers whose large files can be asked for
  rows,      \* sender_jobs: offers with an active source row
  toRcv,     \* control messages to the receiver
  toSnd,     \* and to the sender
  rcv,       \* the router's work on each offer
  streams,   \* batch streams the receiver has not accepted: [o, parts]
  snap,      \* the copy of the index an offer works with
  index,     \* .localtrans-inbox-index.json
  arrived,   \* content in the receiver's folder
  misled,    \* history: offers that skip what the answer to another one told them to
  astray,    \* history: offers whose receiver took the batch of another one
  uncopied   \* history: offers whose held file the receiver failed to copy

sender   == <<snd, skip, registry, rows, misled>>
receiver == <<rcv, snap, index, arrived, astray, uncopied>>
ovars    == <<sender, receiver, toRcv, toSnd, streams>>

OInit ==
  /\ snd = [o \in Offer |-> "idle"] /\ skip = [o \in Offer |-> {}]
  /\ registry = {} /\ rows = {}
  /\ toRcv = <<>> /\ toSnd = <<>> /\ streams = {}
  /\ rcv = [o \in Offer |-> "none"] /\ snap = [o \in Offer |-> {}]
  /\ index = WithHeld \X {"held"} /\ arrived = {}
  /\ misled = {} /\ astray = {} /\ uncopied = {}

Msg(k, o)      == [k |-> k, o |-> o, ok |-> FALSE, skip |-> FALSE]
\* An answer does not carry the offer it is for; the model keeps it in mind.
Resp(o, ok, sk) == [k |-> "resp", o |-> o, ok |-> ok, skip |-> sk]

\* A push is done; or it failed and took its registration back; or it failed
\* and left the registration behind.
Over == {"done", "failed", "left"}

(***************************************************************************)
(* The sender.                                                             *)
(***************************************************************************)

\* The large files are registered before the offer goes out, or cannot.
Push(o) ==
  /\ snd[o] = "idle" /\ \A x \in Offer : snd[x] \in {"idle"} \cup Over
  /\ registry' = registry \cup ({o} \cap WithLarge)
  /\ \/ snd' = [snd EXCEPT ![o] = "sent"] /\ toRcv' = Append(toRcv, Msg("offer", o))
     \/ snd' = [snd EXCEPT ![o] = "leaving"] /\ UNCHANGED toRcv
  /\ UNCHANGED <<skip, rows, misled, receiver, toSnd, streams>>

\* Answers are heard from here on.
Subscribe(o) ==
  /\ snd[o] \in {"sent", "batched"}
  /\ snd' = [snd EXCEPT ![o] = IF @ = "sent" THEN "waiting" ELSE "confirm"]
  /\ UNCHANGED <<skip, registry, rows, misled, receiver, toRcv, toSnd, streams>>

\* The push comes to nothing: with or without its registration taken back.
Fails(o, cleaned) ==
  /\ snd' = [snd EXCEPT ![o] = IF cleaned THEN "ending" ELSE "leaving"]
  /\ registry' = IF cleaned THEN registry \ {o} ELSE registry
  /\ UNCHANGED <<skip, rows, misled, receiver, toRcv, toSnd, streams>>

\* No answer in offer_timeout + 30 s, and no session after the answer.
Unanswered(o)  == snd[o] = "waiting" /\ Fails(o, FALSE)
NoSession(o)   == snd[o] = "going" /\ Fails(o, FALSE)

\* The user cancels during one of the two waits; half an hour without JobDone.
Cancelled(o)   == snd[o] \in {"waiting", "confirm"} /\ Fails(o, TRUE)
Unconfirmed(o) == snd[o] = "confirm" /\ Fails(o, TRUE)

\* cleanup_push_senders: the source rows the offer brought about end with it.
CleanedUp(o) ==
  /\ snd[o] \in {"ending", "leaving"}
  /\ snd' = [snd EXCEPT ![o] = IF @ = "ending" THEN "failed" ELSE "left"]
  /\ rows' = rows \ {o}
  /\ UNCHANGED <<skip, registry, misled, receiver, toRcv, toSnd, streams>>

\* The small files an offer sends, in the order of its list.
Small(o) ==
  {p \in {"new", "held"} : (p = "new" => o \in WithNew) /\ (p = "held" => o \in WithHeld)} \ skip[o]

\* One stream for the small files; an offer that has nothing left to send is
\* done at once.
Batch(o) ==
  /\ snd[o] = "going"
  /\ IF Small(o) = {} /\ o \notin WithLarge
       THEN snd' = [snd EXCEPT ![o] = "done"] /\ UNCHANGED streams
       ELSE /\ snd' = [snd EXCEPT ![o] = "batched"]
            /\ streams' = IF Small(o) = {} THEN streams ELSE streams \cup {[o |-> o, parts |-> Small(o)]}
  /\ UNCHANGED <<skip, registry, rows, misled, receiver, toRcv, toSnd>>

\* The batch breaks off, cancelled or unreadable: what was written ends the
\* stream, and the registration stays.
BatchFails(o) ==
  /\ snd[o] = "going" /\ Small(o) # {}
  /\ snd' = [snd EXCEPT ![o] = "leaving"]
  /\ \E parts \in {{}, Small(o) \cap {"new"}} : streams' = streams \cup {[o |-> o, parts |-> parts]}
  /\ UNCHANGED <<skip, registry, rows, misled, receiver, toRcv, toSnd>>

\* What a skip_bitmap leaves out: it names files by their place in the list it
\* was made for, where another offer has any of its files.
Skips(o, m) == IF ~m.skip THEN {{}} ELSE IF m.o = o THEN {{"held"}} ELSE {{}, {"new"}, {"held"}}

\* Who is waiting takes the first answer there is, whosever it is.
HearsResp(m) ==
  LET heard == {o \in Offer : snd[o] = "waiting"} IN
    /\ m.k = "resp"
    /\ snd' = [o \in Offer |-> IF o \in heard THEN (IF m.ok THEN "going" ELSE "ending") ELSE snd[o]]
    /\ skip' \in [Offer -> SUBSET Part]
    /\ \A o \in Offer : IF o \in heard THEN skip'[o] \in Skips(o, m) ELSE skip'[o] = skip[o]
    /\ misled' = IF m.skip THEN misled \cup (heard \ {m.o}) ELSE misled
    /\ registry' = IF m.ok THEN registry ELSE registry \ heard
    /\ UNCHANGED <<rows, toRcv>>

HearsEnd_anyOffer(m) ==
  LET heard == {o \in Offer : snd[o] = "confirm"} IN
    /\ m.k \in {"jobdone", "jobfailed"}
    /\ snd' = [o \in Offer |-> IF o \in heard THEN (IF m.k = "jobdone" THEN "done" ELSE "ending") ELSE snd[o]]
    /\ registry' = registry \ heard
    /\ UNCHANGED <<skip, rows, misled, toRcv>>

\* JobDone and JobFailed are for the offer they name.
HearsEnd(m) ==
  LET heard == {o \in Offer : snd[o] = "confirm" /\ o = m.o} IN
    /\ m.k \in {"jobdone", "jobfailed"}
    /\ snd' = [o \in Offer |-> IF o \in heard THEN (IF m.k = "jobdone" THEN "done" ELSE "ending") ELSE snd[o]]
    /\ registry' = registry \ heard
    /\ UNCHANGED <<skip, rows, misled, toRcv>>

\* The router serves a large file as long as its offer is registered ...
ServesMeta(m) ==
  /\ m.k = "metareq"
  /\ IF m.o \in registry
       THEN rows' = rows \cup {m.o} /\ toRcv' = Append(toRcv, Msg("meta", m.o))
       ELSE UNCHANGED <<rows, toRcv>>
  /\ UNCHANGED <<snd, skip, registry, misled>>

\* ... and drops its row when the receiver has it.
HearsAck(m) ==
  /\ m.k = "ack" /\ rows' = rows \ {m.o}
  /\ UNCHANGED <<snd, skip, registry, misled, toRcv>>

SenderReads ==
  /\ toSnd # <<>> /\ toSnd' = Tail(toSnd)
  /\ LET m == Head(toSnd) IN HearsResp(m) \/ HearsEnd(m) \/ ServesMeta(m) \/ HearsAck(m)
  /\ UNCHANGED <<receiver, streams>>

(***************************************************************************)
(* The receiver.                                                           *)
(***************************************************************************)

Held(o) == <<o, "held">> \in index

\* handle_offer_decision: the answer goes out, and on yes the work begins with
\* the copy of the index that the skip table was made from.
Decided(o, ok) ==
  /\ toSnd' = Append(toSnd, Resp(o, ok, ok /\ Held(o)))
  /\ rcv' = [rcv EXCEPT ![o] = IF ok THEN "small" ELSE "refused"]
  /\ snap' = [snap EXCEPT ![o] = IF ok /\ Held(o) THEN index ELSE {}]

\* The router reads an offer: policy Ask puts it to the user, Auto and Deny
\* answer at once; or the list of a large file's chunks.
ReceiverReads ==
  /\ toRcv # <<>> /\ toRcv' = Tail(toRcv)
  /\ LET m == Head(toRcv) IN
       \/ m.k = "offer" /\ rcv' = [rcv EXCEPT ![m.o] = "asked"] /\ UNCHANGED <<snap, toSnd>>
       \/ m.k = "offer" /\ \E ok \in BOOLEAN : Decided(m.o, ok)
       \/ /\ m.k = "meta" /\ UNCHANGED <<snap, toSnd>>
          /\ rcv' = IF rcv[m.o] = "meta" THEN [rcv EXCEPT ![m.o] = "fetch"] ELSE rcv
  /\ UNCHANGED <<sender, streams, index, arrived, astray, uncopied>>

\* The user answers, late or not; or the question runs out (possibly extended).
Answers(o) ==
  /\ rcv[o] = "asked" /\ \E ok \in BOOLEAN : Decided(o, ok)
  /\ UNCHANGED <<sender, toRcv, streams, index, arrived, astray, uncopied>>

Expects(o) == o \in WithNew \/ (o \in WithHeld /\ snap[o] = {})

RcvFails(o) ==
  /\ rcv' = [rcv EXCEPT ![o] = "failed"]
  /\ toSnd' = Append(toSnd, Msg("jobfailed", o))
  /\ UNCHANGED <<sender, toRcv, streams, snap, index, arrived, astray, uncopied>>

\* The batch: whichever stream comes; what it holds is written and indexed.
RcvSmall(o) ==
  /\ rcv[o] = "small"
  /\ rcv' = [rcv EXCEPT ![o] = "place"]
  /\ \/ ~Expects(o) /\ UNCHANGED <<streams, arrived, index, astray>>
     \/ Expects(o) /\ \E s \in streams :
          /\ streams' = streams \ {s}
          /\ arrived' = arrived \cup ({s.o} \X s.parts)
          /\ index' = index \cup ({s.o} \X s.parts)
          /\ astray' = astray \cup ({o} \ {s.o})
  /\ UNCHANGED <<sender, toRcv, toSnd, snap, uncopied>>

\* Skipped files are copied from the inbox - a failure is a line in the log -
\* and the copy of the index is saved over the file.
RcvPlace(o) ==
  /\ rcv[o] = "place" /\ rcv' = [rcv EXCEPT ![o] = "large"]
  /\ IF snap[o] = {} THEN UNCHANGED <<arrived, index, uncopied>>
     ELSE /\ \/ arrived' = arrived \cup {<<o, "held">>} /\ UNCHANGED uncopied
             \/ uncopied' = uncopied \cup {o} /\ UNCHANGED arrived
          /\ index' = snap[o]
  /\ UNCHANGED <<sender, toRcv, toSnd, streams, snap, astray>>

RcvLarge(o) ==
  /\ rcv[o] = "large"
  /\ IF o \in WithLarge
       THEN rcv' = [rcv EXCEPT ![o] = "meta"] /\ toSnd' = Append(toSnd, Msg("metareq", o))
       ELSE rcv' = [rcv EXCEPT ![o] = "done"] /\ toSnd' = Append(toSnd, Msg("jobdone", o))
  /\ UNCHANGED <<sender, toRcv, streams, snap, index, arrived, astray, uncopied>>

\* The chunks come as long as the sender has its row.
RcvFetched(o) ==
  /\ rcv[o] = "fetch" /\ o \in rows
  /\ rcv' = [rcv EXCEPT ![o] = "done"] /\ arrived' = arrived \cup {<<o, "large">>}
  /\ toSnd' = Append(Append(toSnd, Msg("ack", o)), Msg("jobdone", o))
  /\ UNCHANGED <<sender, toRcv, streams, snap, index, astray, uncopied>>

\* 30 s without the stream or the list it waits for, or chunks that do not come.
RcvTimeout(o) ==
  /\ rcv[o] \in {"small", "meta", "fetch"} /\ (rcv[o] = "small" => Expects(o))
  /\ RcvFails(o)

SndStep(o) ==
  Subscribe(o) \/ Unanswered(o) \/ NoSession(o) \/ Unconfirmed(o) \/ CleanedUp(o) \/ Batch(o) \/ BatchFails(o)
RcvStep(o) == Answers(o) \/ RcvSmall(o) \/ RcvPlace(o) \/ RcvLarge(o) \/ RcvFetched(o) \/ RcvTimeout(o)

ONext ==
  \/ \E o \in Offer : Push(o) \/ Cancelled(o) \/ SndStep(o) \/ RcvStep(o)
  \/ SenderReads \/ ReceiverReads

OSpec == OInit /\ [][ONext]_ovars

\* Every wait has a timer, the user's question included, and channels deliver.
OFair ==
  /\ WF_ovars(SenderReads) /\ WF_ovars(ReceiverReads)
  /\ \A o \in Offer : WF_ovars(SndStep(o)) /\ WF_ovars(RcvStep(o))
OFairSpec == OSpec /\ OFair

Sent == [k : {"resp", "jobdone", "jobfailed", "metareq", "ack", "offer", "meta"}, o : Offer, ok : BOOLEAN, skip : BOOLEAN]

OTypeOK ==
  /\ snd \in [Offer -> {"idle", "sent", "waiting", "going", "batched", "confirm", "ending", "leaving"} \cup Over]
  /\ rcv \in [Offer -> {"none", "asked", "small", "place", "large", "meta", "fetch", "refused", "done", "failed"}]
  /\ skip \in [Offer -> SUBSET Part] /\ registry \subseteq WithLarge /\ rows \subseteq WithLarge
  /\ toRcv \in Seq(Sent) /\ toSnd \in Seq(Sent)
  /\ streams \subseteq [o : Offer, parts : SUBSET Part]
  /\ snap \in [Offer -> SUBSET (Offer \X Part)] /\ index \subseteq Offer \X Part
  /\ arrived \subseteq Offer \X Part
  /\ misled \subseteq Offer /\ astray \subseteq Offer /\ uncopied \subseteq Offer

\* A push that had anything to send is reported done only when the receiver has
\* gone through that very offer, with its large file on the disk
\* (engine.rs:1121-1143).
DoneConfirmed ==
  \A o \in Offer : snd[o] = "done" /\ (Small(o) # {} \/ o \in WithLarge) =>
    rcv[o] = "done" /\ (o \in WithLarge => <<o, "large">> \in arrived)

\* Then its small files are there as well, unless the receiver took the batch of
\* another offer for its own or the sender went by another offer's skip_bitmap;
\* and so is the file the receiver said it holds, unless the copy failed
\* (engine.rs:1056-1066, 2485-2515, 2682).
DoneComplete ==
  \A o \in Offer : snd[o] = "done" /\ rcv[o] = "done" /\ o \notin astray \cup misled =>
    /\ o \in WithNew => <<o, "new">> \in arrived
    /\ o \in WithHeld /\ o \notin uncopied => <<o, "held">> \in arrived

\* A push with nothing left to send is done before the receiver is, but only
\* with a yes of the receiver, which has still to copy (engine.rs:1121).
DoneAccepted ==
  \A o \in Offer : snd[o] = "done" /\ rcv[o] # "done" /\ o \notin misled =>
    o \notin WithNew \cup WithLarge /\ rcv[o] \in {"small", "place", "large"}

\* No source row and no registration outlives a push that is done, refused,
\* cancelled or not confirmed, whatever moment the receiver asks for the file
\* at: the registration goes before the rows do (engine.rs:855, 1150). A push
\* that got no answer, lost its session or broke off its batch leaves its
\* registration (engine.rs:1037, 1073, 1105).
NoRowLeft ==
  \A o \in Offer : snd[o] \in {"done", "failed"} => o \notin rows \cup registry

\* What a push that is over says of itself is true (engine.rs:1005-1190).
PushTruthful == OTypeOK /\ DoneConfirmed /\ DoneComplete /\ DoneAccepted /\ NoRowLeft

\* Every push comes to an end, also when its answer was lost, given to another
\* push or never came (engine.rs:1005, 1120).
PushEnds == \A o \in Offer : snd[o] = "sent" ~> snd[o] \in Over

\* A failed push leaves no active source row (engine.rs:854-857).
\* The code does not keep this: see the README.
RowsEndWithPush == \A o \in Offer : snd[o] \in Over => o \notin rows

\* A push is done only when all its files are on the receiver's disk
\* (engine.rs:1121-1122). The code does not keep this: see the README.
DoneOnDisk ==
  \A o \in Offer : snd[o] = "done" =>
    /\ o \in WithNew => <<o, "new">> \in arrived
    /\ o \in WithHeld => <<o, "held">> \in arrived

\* What has landed by a batch is in the index when its offer is done
\* (engine.rs:2723): it will be skipped the next time.
\* The code does not keep this: see the README.
IndexKeepsLanded == \A o \in Offer : rcv[o] = "done" /\ <<o, "new">> \in arrived => <<o, "new">> \in index
================================================================================

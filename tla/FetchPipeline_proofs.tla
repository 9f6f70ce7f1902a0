------------------------ MODULE FetchPipeline_proofs ------------------------
(***************************************************************************)
(* Proofs about the fetch pipeline, for every file size, window, queue     *)
(* capacity, set of faults and number of pulls.                            *)
(***************************************************************************)
EXTENDS FetchPipeline, SequenceTheorems, FiniteSetTheorems, TLAPS

USE NAssumption, PullsAssumption, BoundsAssumption

-----------------------------------------------------------------------------
(* Type correctness. TypeOK has one conjunct per group of variables; a step*)
(* only has to be looked at for the groups it touches.                     *)

(* A group of variables that a step leaves alone keeps its type.           *)
LEMMA UntouchedTypes ==
  ASSUME TypeOK
  PROVE  /\ UNCHANGED <<phase, result, pullVars, ctl, ctlLeft>> => PullType'
         /\ UNCHANGED <<missing, batchVars>> => BatchType'
         /\ UNCHANGED fileVars => FileType'
         /\ UNCHANGED netVars => NetType'
         /\ UNCHANGED <<inbound, flagVars, gated, sending>> => SourceType'
         /\ UNCHANGED rowVars => RowType'
<1>1. UNCHANGED <<phase, result, pullVars, ctl, ctlLeft>> => PullType'
  BY DEF TypeOK, PullType, pullVars
<1>2. UNCHANGED <<missing, batchVars>> => BatchType'
  BY DEF TypeOK, BatchType, batchVars
<1>3. UNCHANGED fileVars => FileType'
  BY DEF TypeOK, FileType, fileVars
<1>4. UNCHANGED netVars => NetType'
  BY DEF TypeOK, NetType, netVars
<1>5. UNCHANGED <<inbound, flagVars, gated, sending>> => SourceType'
  BY DEF TypeOK, SourceType, flagVars
<1>6. UNCHANGED rowVars => RowType'
  BY DEF TypeOK, RowType, rowVars
<1> QED
  BY <1>1, <1>2, <1>3, <1>4, <1>5, <1>6

(* Every step of the receiver, the connection and the source keeps the     *)
(* types of all variables.                                                 *)
LEMMA TypeStep == TypeOK /\ [Next]_vars => TypeOK'
<1> SUFFICES ASSUME TypeOK, [Next]_vars PROVE TypeOK'
  OBVIOUS
<1> USE DEF rcvVars, netVars, srcVars, batchVars, fileVars, pullVars, flagVars, rowVars
<1>1. CASE SendMetaReq
  <2>1. PullType'
    BY <1>1 DEF TypeOK, PullType, SendMetaReq
  <2>2. NetType'
    BY <1>1 DEF TypeOK, PullType, NetType, SendMetaReq, CtrlMsg, Stream, Chunks, Jobs, Versions
  <2> QED
    BY <1>1, <2>1, <2>2, UntouchedTypes DEF SendMetaReq, TypeOK
<1>2. CASE MetaTimeout
  <2>1. PullType'
    BY <1>2 DEF TypeOK, PullType, MetaTimeout
  <2> QED
    BY <1>2, <2>1, UntouchedTypes DEF MetaTimeout, TypeOK
<1>3. CASE DrainControl
  <2>1. PullType'
    <3>1. ctl' = <<>> \/ ctl' = Tail(ctl)
      BY <1>3 DEF DrainControl, CancelPull
    <3>2. ctl \in Seq(Command) /\ ctl # <<>>
      BY <1>3 DEF TypeOK, PullType, DrainControl
    <3>3. <<>> \in Seq(Command) /\ Tail(ctl) \in Seq(Command)
      BY <3>2
    <3>4. ctl' \in Seq(Command)
      BY <3>1, <3>2, <3>3
    <3> QED
      BY <1>3, <3>4 DEF TypeOK, PullType, DrainControl, CancelPull, EndWith
  <2>2. BatchType'
    BY <1>3 DEF TypeOK, PullType, BatchType, DrainControl, CancelPull, EndWith, Empty, Chunks, Jobs, Versions, Stream, Joined
  <2>3. FileType'
    BY <1>3 DEF TypeOK, PullType, FileType, DrainControl, CancelPull, EndWith, Empty, Chunks, Jobs, Contents, Versions, None
  <2> QED
    BY <1>3, <2>1, <2>2, <2>3, UntouchedTypes DEF DrainControl, CancelPull, EndWith, Empty, TypeOK
<1>4. CASE PausedRecv
  <2>1. PullType'
    <3>1. ctl' = <<>> \/ ctl' = Tail(ctl)
      BY <1>4 DEF PausedRecv, CancelPull
    <3>2. ctl \in Seq(Command) /\ ctl # <<>>
      BY <1>4 DEF TypeOK, PullType, PausedRecv
    <3>3. <<>> \in Seq(Command) /\ Tail(ctl) \in Seq(Command)
      BY <3>2
    <3>4. ctl' \in Seq(Command)
      BY <3>1, <3>2, <3>3
    <3> QED
      BY <1>4, <3>4 DEF TypeOK, PullType, PausedRecv, CancelPull, EndWith
  <2>2. BatchType'
    BY <1>4 DEF TypeOK, PullType, BatchType, PausedRecv, CancelPull, EndWith, Empty, Chunks, Jobs, Versions, Stream, Joined
  <2>3. FileType'
    BY <1>4 DEF TypeOK, PullType, FileType, PausedRecv, CancelPull, EndWith, Empty, Chunks, Jobs, Contents, Versions, None
  <2> QED
    BY <1>4, <2>1, <2>2, <2>3, UntouchedTypes DEF PausedRecv, CancelPull, EndWith, Empty, TypeOK
<1>5. CASE StartBatch
  <2>1. PullType'
    BY <1>5 DEF TypeOK, PullType, StartBatch, Lowest
  <2>2. BatchType'
    BY <1>5 DEF TypeOK, PullType, BatchType, StartBatch, Lowest, Chunks, Jobs, Versions, Stream, Joined
  <2> QED
    BY <1>5, <2>1, <2>2, UntouchedTypes DEF StartBatch, Lowest, TypeOK
<1>6. CASE SendFetch
  <2>1. PullType'
    BY <1>6 DEF TypeOK, PullType, SendFetch, EndWith, LowestOf
  <2>2. BatchType'
    BY <1>6 DEF TypeOK, PullType, BatchType, SendFetch, EndWith, LowestOf, Chunks, Jobs, Versions, Stream, Joined
  <2>3. NetType'
    <3>1. \A c \in LowestOf(unsent) : [type |-> "fetch", job |-> job, arg |-> c] \in CtrlMsg
      BY DEF TypeOK, PullType, BatchType, LowestOf, CtrlMsg, Chunks
    <3>2. ASSUME up PROVE wire' \in Seq(CtrlMsg)
      <4>1. PICK c \in LowestOf(unsent) :
              wire' = Append(wire, [type |-> "fetch", job |-> job, arg |-> c])
        BY <1>6, <3>2 DEF SendFetch
      <4> QED
        BY <3>1, <4>1 DEF TypeOK, NetType
    <3>3. ASSUME ~up PROVE wire' \in Seq(CtrlMsg)
      BY <1>6, <3>3 DEF SendFetch, TypeOK, NetType
    <3>4. wire' \in Seq(CtrlMsg)
      BY <3>2, <3>3
    <3> QED
      BY <1>6, <3>4 DEF TypeOK, NetType, SendFetch
  <2> QED
    BY <1>6, <2>1, <2>2, <2>3, UntouchedTypes DEF SendFetch, EndWith, LowestOf, TypeOK
<1>7. CASE AcceptFails
  <2>1. PullType'
    BY <1>7 DEF TypeOK, PullType, AcceptFails, EndWith
  <2>2. BatchType'
    BY <1>7 DEF TypeOK, PullType, BatchType, AcceptFails, EndWith, Chunks, Jobs, Versions, Stream, Joined
  <2> QED
    BY <1>7, <2>1, <2>2, UntouchedTypes DEF AcceptFails, EndWith, TypeOK
<1>8. CASE Watchdog
  <2>1. PullType'
    BY <1>8 DEF TypeOK, PullType, Watchdog, EndWith
  <2>2. BatchType'
    BY <1>8 DEF TypeOK, PullType, BatchType, Watchdog, EndWith, Chunks, Jobs, Versions, Stream, Joined
  <2> QED
    BY <1>8, <2>1, <2>2, UntouchedTypes DEF Watchdog, EndWith, TypeOK
<1>9. CASE Finalize
  <2>1. PullType'
    BY <1>9 DEF TypeOK, PullType, Finalize, Empty
  <2>2. FileType'
    <3>1. Empty \in [Chunks -> Contents]
      BY DEF Empty, Contents
    <3>2. disk \in [Chunks -> Contents] /\ job \in Jobs
      BY DEF TypeOK, FileType, PullType
    <3>3. [job |-> job, data |-> disk] \in [job : Jobs, data : [Chunks -> Contents]]
      BY <3>2
    <3> QED
      BY <1>9, <3>1, <3>3 DEF TypeOK, FileType, Finalize
  <2>3. NetType'
    <3>1. [type |-> "ack", job |-> job, arg |-> 0] \in CtrlMsg
      BY DEF TypeOK, PullType, CtrlMsg
    <3>2. wire' \in Seq(CtrlMsg)
      BY <1>9, <3>1 DEF TypeOK, NetType, Finalize
    <3> QED
      BY <1>9, <3>2 DEF TypeOK, NetType, Finalize
  <2> QED
    BY <1>9, <2>1, <2>2, <2>3, UntouchedTypes DEF Finalize, Empty, TypeOK
<1>10. ASSUME NEW r \in metaResp, RecvMetaResp(r) PROVE TypeOK'
  <2>1. PullType'
    <3>1. r.job \in Jobs /\ r.ver \in Versions
      BY <1>10 DEF TypeOK, NetType
    <3>2. ctl' = <<>> /\ ctl' \in Seq(Command)
      BY <1>10 DEF RecvMetaResp
    <3> QED
      BY <1>10, <3>1, <3>2 DEF TypeOK, PullType, RecvMetaResp
  <2>2. BatchType'
    BY <1>10 DEF TypeOK, PullType, BatchType, RecvMetaResp, Empty, Chunks, Jobs, Versions, Stream, Joined
  <2>3. FileType'
    BY <1>10 DEF TypeOK, PullType, FileType, RecvMetaResp, Empty, Chunks, Jobs, Contents, Versions, None
  <2>4. NetType'
    BY <1>10 DEF TypeOK, PullType, NetType, RecvMetaResp, Empty, CtrlMsg, Stream, Chunks, Jobs, Versions
  <2> QED
    BY <1>10, <2>1, <2>2, <2>3, <2>4, UntouchedTypes DEF RecvMetaResp, Empty, TypeOK
<1>11. ASSUME NEW r \in metaResp, DropMetaResp(r) PROVE TypeOK'
  <2>1. NetType'
    BY <1>11 DEF TypeOK, PullType, NetType, DropMetaResp, CtrlMsg, Stream, Chunks, Jobs, Versions
  <2> QED
    BY <1>11, <2>1, UntouchedTypes DEF DropMetaResp, TypeOK
<1>12. ASSUME NEW s \in uni, AcceptStream(s) PROVE TypeOK'
  <2>1. BatchType'
    <3>1. tasks' \subseteq Stream
      BY <1>12 DEF TypeOK, BatchType, NetType, AcceptStream
    <3> QED
      BY <1>12, <3>1 DEF TypeOK, BatchType, AcceptStream
  <2>2. NetType'
    BY <1>12 DEF TypeOK, PullType, NetType, AcceptStream, CtrlMsg, Stream, Chunks, Jobs, Versions
  <2> QED
    BY <1>12, <2>1, <2>2, UntouchedTypes DEF AcceptStream, TypeOK
<1>13. ASSUME NEW s \in tasks, RunTask(s) PROVE TypeOK'
  <2>1. BatchType'
    BY <1>13 DEF TypeOK, PullType, BatchType, RunTask, Finish, Outcome, Chunks, Jobs, Versions, Stream, Joined
  <2>2. FileType'
    <3>1. s.chunk \in Chunks /\ s.ver \in Contents
      BY <1>13 DEF TypeOK, BatchType, Stream, Contents
    <3> QED
      BY <1>13, <3>1 DEF TypeOK, FileType, RunTask
  <2> QED
    BY <1>13, <2>1, <2>2, UntouchedTypes DEF RunTask, Finish, Outcome, TypeOK
<1>14. ASSUME NEW s \in tasks, TaskFails(s) PROVE TypeOK'
  <2>1. BatchType'
    BY <1>14 DEF TypeOK, PullType, BatchType, TaskFails, Finish, Chunks, Jobs, Versions, Stream, Joined
  <2> QED
    BY <1>14, <2>1, UntouchedTypes DEF TaskFails, Finish, TypeOK
<1>15. ASSUME NEW t \in joinable, JoinTask(t) PROVE TypeOK'
  <2>1. PullType'
    <3>1. t.res \in {"ok", "hash", "protocol", "io"}
      BY <1>15 DEF TypeOK, BatchType, Joined
    <3> QED
      BY <1>15, <3>1 DEF TypeOK, PullType, JoinTask, EndWith
  <2>2. BatchType'
    BY <1>15 DEF TypeOK, PullType, BatchType, JoinTask, EndWith, Chunks, Jobs, Versions, Stream, Joined
  <2> QED
    BY <1>15, <2>1, <2>2, UntouchedTypes DEF JoinTask, EndWith, TypeOK
<1>16. ASSUME NEW c \in Command, UserCommand(c) PROVE TypeOK'
  <2>1. PullType'
    BY <1>16 DEF TypeOK, PullType, UserCommand
  <2>2. NetType'
    <3>1. [type |-> "cancel", job |-> job, arg |-> 0] \in CtrlMsg
      BY DEF TypeOK, PullType, CtrlMsg
    <3>2. wire' \in Seq(CtrlMsg)
      BY <1>16, <3>1 DEF TypeOK, NetType, UserCommand
    <3> QED
      BY <1>16, <3>2 DEF TypeOK, NetType, UserCommand
  <2> QED
    BY <1>16, <2>1, <2>2, UntouchedTypes DEF UserCommand, TypeOK
<1>17. CASE DeliverCtrl
  <2>1. NetType'
    BY <1>17 DEF TypeOK, PullType, NetType, DeliverCtrl, CtrlMsg, Stream, Chunks, Jobs, Versions
  <2>2. SourceType'
    <3>1. inbound' \in Seq(CtrlMsg)
      BY <1>17 DEF TypeOK, NetType, SourceType, DeliverCtrl
    <3> QED
      BY <1>17, <3>1 DEF TypeOK, SourceType, DeliverCtrl
  <2> QED
    BY <1>17, <2>1, <2>2, UntouchedTypes DEF DeliverCtrl, TypeOK
<1>18. CASE Disconnect
  <2>1. NetType'
    <3>1. wire' \in Seq(CtrlMsg)
      BY <1>18 DEF Disconnect
    <3> QED
      BY <1>18, <3>1 DEF NetType, Disconnect
  <2>2. SourceType'
    BY <1>18 DEF TypeOK, SourceType, RowType, Disconnect
  <2> QED
    BY <1>18, <2>1, <2>2, UntouchedTypes DEF Disconnect, TypeOK
<1>19. CASE Reconnect
  <2>1. NetType'
    BY <1>19 DEF TypeOK, PullType, NetType, Reconnect, CtrlMsg, Stream, Chunks, Jobs, Versions
  <2> QED
    BY <1>19, <2>1, UntouchedTypes DEF Reconnect, TypeOK
<1>20. CASE Route
  <2> DEFINE m == Head(inbound)
  <2>1. m \in CtrlMsg /\ inbound # <<>> /\ inbound' = Tail(inbound)
    BY <1>20 DEF Route, TypeOK, SourceType
  <2>2. PullType' /\ BatchType' /\ FileType'
    BY <1>20, UntouchedTypes DEF Route
  <2>3. UNCHANGED <<up, wire, uni, flagVars, sending>>
    BY <1>20 DEF Route
  <2>4. CASE RouteMeta(m)
    <3>1. m.arg \in Nat /\ fileVer \in Versions
      BY <2>1 DEF TypeOK, SourceType, CtrlMsg
    <3>2. metaResp' \subseteq [msg_id : Nat, job : Jobs, ver : Versions]
      BY <2>4, <3>1 DEF RouteMeta, TypeOK, NetType
    <3>3. NetType'
      BY <2>3, <3>2 DEF TypeOK, NetType
    <3>4. SourceType'
      BY <2>1, <2>3, <2>4 DEF RouteMeta, TypeOK, SourceType
    <3>5. sjobs' \subseteq Jobs /\ nextJob' \in 1 .. (Pulls + 1)
      <4>1. nextJob \in Jobs /\ nextJob + 1 \in 1 .. (Pulls + 1)
        BY <2>4 DEF RouteMeta, Jobs
      <4> QED
        BY <2>4, <4>1 DEF RouteMeta, TypeOK, RowType, rowVars
    <3>6. RowType'
      BY <2>4, <3>1, <3>5 DEF RouteMeta, TypeOK, RowType
    <3> QED
      BY <2>2, <3>3, <3>4, <3>6 DEF TypeOK
  <2>5. CASE RouteFetch(m) \/ RouteAck(m) \/ RouteCancel(m)
    <3>1. NetType'
      BY <2>3, <2>5, UntouchedTypes DEF RouteFetch, RouteAck, RouteCancel
    <3>2. gated' \subseteq Request
      BY <2>1, <2>5 DEF RouteFetch, RouteAck, RouteCancel, TypeOK, SourceType, Request, CtrlMsg
    <3>3. SourceType'
      BY <2>1, <2>3, <3>2 DEF TypeOK, SourceType
    <3>4. RowType'
      BY <2>5 DEF RouteFetch, RouteAck, RouteCancel, EndRow, TypeOK, RowType
    <3> QED
      BY <2>2, <3>1, <3>3, <3>4 DEF TypeOK
  <2> QED
    BY <1>20, <2>4, <2>5 DEF Route
<1>21. CASE Revoke
  <2>1. SourceType'
    BY <1>21 DEF TypeOK, PullType, SourceType, Revoke, CtrlMsg, Request, Chunks, Jobs, Versions
  <2> QED
    BY <1>21, <2>1, UntouchedTypes DEF Revoke, TypeOK
<1>22. CASE EditFile
  <2>1. SourceType'
    BY <1>22 DEF TypeOK, PullType, SourceType, EditFile, CtrlMsg, Request, Chunks, Jobs, Versions
  <2> QED
    BY <1>22, <2>1, UntouchedTypes DEF EditFile, TypeOK
<1>23. ASSUME NEW g \in gated, ServeStart(g) PROVE TypeOK'
  <2>1. SourceType'
    BY <1>23 DEF TypeOK, PullType, SourceType, ServeStart, CtrlMsg, Request, Chunks, Jobs, Versions
  <2> QED
    BY <1>23, <2>1, UntouchedTypes DEF ServeStart, TypeOK
<1>24. ASSUME NEW g \in gated, GateAbandon(g) PROVE TypeOK'
  <2>1. SourceType'
    BY <1>24 DEF TypeOK, PullType, SourceType, GateAbandon, CtrlMsg, Request, Chunks, Jobs, Versions
  <2> QED
    BY <1>24, <2>1, UntouchedTypes DEF GateAbandon, TypeOK
<1>25. ASSUME NEW g \in sending, ServeDone(g) PROVE TypeOK'
  <2>1. NetType'
    <3>1. [job |-> g.job, chunk |-> g.chunk, ver |-> fileVer] \in Stream
      BY <1>25 DEF TypeOK, SourceType, Request, Stream
    <3> QED
      BY <1>25, <3>1 DEF TypeOK, NetType, ServeDone
  <2>2. SourceType'
    BY <1>25 DEF TypeOK, PullType, SourceType, ServeDone, CtrlMsg, Request, Chunks, Jobs, Versions
  <2> QED
    BY <1>25, <2>1, <2>2, UntouchedTypes DEF ServeDone, TypeOK
<1>26. ASSUME NEW g \in sending, ServeFails(g) PROVE TypeOK'
  <2>1. SourceType'
    BY <1>26 DEF TypeOK, PullType, SourceType, ServeFails, CtrlMsg, Request, Chunks, Jobs, Versions
  <2> QED
    BY <1>26, <2>1, UntouchedTypes DEF ServeFails, TypeOK
<1>27. ASSUME NEW j \in Jobs, SourcePause(j) PROVE TypeOK'
  <2>1. SourceType'
    BY <1>27 DEF TypeOK, PullType, SourceType, SourcePause, CtrlMsg, Request, Chunks, Jobs, Versions
  <2> QED
    BY <1>27, <2>1, UntouchedTypes DEF SourcePause, TypeOK
<1>28. ASSUME NEW j \in Jobs, SourceResume(j) PROVE TypeOK'
  <2>1. SourceType'
    BY <1>28 DEF TypeOK, PullType, SourceType, SourceResume, CtrlMsg, Request, Chunks, Jobs, Versions
  <2> QED
    BY <1>28, <2>1, UntouchedTypes DEF SourceResume, TypeOK
<1>29. ASSUME NEW j \in Jobs, SourceCancel(j) PROVE TypeOK'
  <2>1. SourceType'
    BY <1>29 DEF TypeOK, PullType, SourceType, SourceCancel, CtrlMsg, Request, Chunks, Jobs, Versions
  <2> QED
    BY <1>29, <2>1, UntouchedTypes DEF SourceCancel, TypeOK
<1>30. ASSUME NEW j \in Jobs, NEW m \in {0, 1, 2}, SourceThrottle(j, m) PROVE TypeOK'
  <2>1. SourceType'
    BY <1>30 DEF TypeOK, PullType, SourceType, SourceThrottle, ThrottleCap, CtrlMsg, Request, Chunks, Jobs, Versions
  <2> QED
    BY <1>30, <2>1, UntouchedTypes DEF SourceThrottle, ThrottleCap, TypeOK
<1>31. ASSUME NEW j \in Jobs, DropCleanup(j) PROVE TypeOK'
  <2>1. SourceType'
    BY <1>31 DEF TypeOK, PullType, SourceType, DropCleanup, EndRow, CtrlMsg, Request, Chunks, Jobs, Versions
  <2>2. RowType'
    BY <1>31 DEF TypeOK, PullType, RowType, DropCleanup, EndRow, Jobs, Versions
  <2> QED
    BY <1>31, <2>1, <2>2, UntouchedTypes DEF DropCleanup, EndRow, TypeOK
<1>32. CASE UNCHANGED vars
  BY <1>32, UntouchedTypes DEF vars, TypeOK
<1> QED
  BY <1>1, <1>2, <1>3, <1>4, <1>5, <1>6, <1>7, <1>8, <1>9, <1>10, <1>11,
     <1>12, <1>13, <1>14, <1>15, <1>16, <1>17, <1>18, <1>19, <1>20, <1>21,
     <1>22, <1>23, <1>24, <1>25, <1>26, <1>27, <1>28, <1>29, <1>30, <1>31,
     <1>32
     DEF Next, ReceiverNext, ConnectionNext, SourceNext

(* Type correctness of the receiver, the connection and the source.        *)
THEOREM TypeCorrect == Spec => []TypeOK
<1>1. Init => TypeOK
  BY DEF Init, TypeOK, PullType, BatchType, FileType, NetType, SourceType, RowType, Chunks,
         Jobs, Versions, None, Contents, Command, CtrlMsg, Stream, Joined, Request, Empty,
         Unlimited
<1> QED
  BY <1>1, TypeStep, PTL DEF Spec

-----------------------------------------------------------------------------
(* The delivery invariant. A step preserves the parts whose variables it   *)
(* leaves alone; the lemmas below say what each part rests on.             *)

(* What appending to and taking from a queue does to the set of its        *)
(* messages.                                                               *)
LEMMA QueueFacts ==
  ASSUME NEW S, NEW q \in Seq(S)
  PROVE  /\ \A e \in S : Range(Append(q, e)) = Range(q) \cup {e}
         /\ q # <<>> => Head(q) \in Range(q) /\ Range(Tail(q)) \subseteq Range(q)
<1>1. ASSUME NEW e \in S PROVE Range(Append(q, e)) = Range(q) \cup {e}
  <2>1. Append(q, e) \in Seq(S) /\ Len(Append(q, e)) = Len(q) + 1
        /\ (\A i \in 1 .. Len(q) : Append(q, e)[i] = q[i])
        /\ Append(q, e)[Len(q) + 1] = e
    BY AppendProperties
  <2>2. Range(q) = {q[i] : i \in 1 .. Len(q)}
    BY RangeEquality
  <2>3. Range(Append(q, e)) = {Append(q, e)[i] : i \in 1 .. (Len(q) + 1)}
    BY <2>1, RangeEquality
  <2>4. Len(q) \in Nat
    BY LenProperties
  <2> QED
    BY <2>1, <2>2, <2>3, <2>4
<1>2. ASSUME q # <<>> PROVE Head(q) \in Range(q) /\ Range(Tail(q)) \subseteq Range(q)
  <2>1. Tail(q) \in Seq(S) /\ Len(Tail(q)) = Len(q) - 1 /\ Head(q) = q[1]
        /\ (\A i \in 1 .. Len(Tail(q)) : Tail(q)[i] = q[i + 1])
    BY <1>2, HeadTailProperties
  <2>2. Len(q) \in Nat \ {0}
    BY <1>2, EmptySeq
  <2>3. Range(q) = {q[i] : i \in 1 .. Len(q)}
    BY RangeEquality
  <2>4. Range(Tail(q)) = {Tail(q)[i] : i \in 1 .. Len(Tail(q))}
    BY <2>1, RangeEquality
  <2> QED
    BY <2>1, <2>2, <2>3, <2>4
<1> QED
  BY <1>1, <1>2

(* The parts of the invariant a step cannot disturb.                       *)
LEMMA UntouchedDelivery ==
  ASSUME TypeOK, DeliveryInv
  PROVE  /\ UNCHANGED rowVars => RowsInv'
         /\ UNCHANGED rowVars /\ metaResp' \subseteq metaResp => RespInv'
         /\ UNCHANGED <<job, ver, received, rowVars>> /\ (AtWork' => AtWork) => TakenInv'
         /\ UNCHANGED <<job, ver, rowVars>> /\ AtWork => TakenInv'
         /\ UNCHANGED <<received, disk, ver>> => BitmapSound'
         /\ UNCHANGED <<landed, rowVars>> => LandedInv'
         /\ UNCHANGED <<landed, rowVars>>
            /\ (\A m \in Range(wire') \cup Range(inbound') : m.type = "ack" => Landed(m.job))
            => AckInv'
         /\ UNCHANGED <<landed, wire, inbound, rowVars>> => AckInv'
<1>1. UNCHANGED rowVars => RowsInv'
  BY DEF DeliveryInv, RowsInv, rowVars
<1>2. UNCHANGED rowVars /\ metaResp' \subseteq metaResp => RespInv'
  BY DEF DeliveryInv, RespInv, rowVars
<1>3. UNCHANGED <<job, ver, received, rowVars>> /\ (AtWork' => AtWork) => TakenInv'
  BY DEF DeliveryInv, TakenInv, rowVars
<1>4. UNCHANGED <<job, ver, rowVars>> /\ AtWork => TakenInv'
  BY DEF DeliveryInv, TakenInv, rowVars
<1>5. UNCHANGED <<received, disk, ver>> => BitmapSound'
  BY DEF DeliveryInv, BitmapSound
<1>6. UNCHANGED <<landed, rowVars>> => LandedInv'
  BY DEF DeliveryInv, LandedInv, LandedIntact, rowVars
<1>7. UNCHANGED <<landed, rowVars>>
      /\ (\A m \in Range(wire') \cup Range(inbound') : m.type = "ack" => Landed(m.job))
      => AckInv'
  BY DEF DeliveryInv, AckInv, AckAfterLanding, Landed, rowVars
<1>8. UNCHANGED <<landed, wire, inbound, rowVars>> => AckInv'
  BY DEF DeliveryInv, AckInv, AckAfterLanding, Landed, rowVars
<1> QED
  BY <1>1, <1>2, <1>3, <1>4, <1>5, <1>6, <1>7, <1>8

(* Sending anything but an ack, and moving a message along, brings no new  *)
(* ack.                                                                    *)
LEMMA NoNewAck ==
  ASSUME TypeOK, DeliveryInv
  PROVE  /\ \A e \in CtrlMsg : e.type # "ack" /\ wire' = Append(wire, e) /\ inbound' = inbound
              => \A m \in Range(wire') \cup Range(inbound') : m.type = "ack" => Landed(m.job)
         /\ Range(wire') \cup Range(inbound') \subseteq Range(wire) \cup Range(inbound)
              => \A m \in Range(wire') \cup Range(inbound') : m.type = "ack" => Landed(m.job)
<1>1. \A m \in Range(wire) \cup Range(inbound) : m.type = "ack" => Landed(m.job)
  BY DEF DeliveryInv, AckInv
<1>2. ASSUME NEW e \in CtrlMsg, e.type # "ack", wire' = Append(wire, e), inbound' = inbound,
             NEW m \in Range(wire') \cup Range(inbound'), m.type = "ack"
      PROVE  Landed(m.job)
  <2>1. Range(wire') = Range(wire) \cup {e}
    BY <1>2, QueueFacts DEF TypeOK, NetType
  <2>2. m # e
    BY <1>2
  <2>3. m \in Range(wire) \cup Range(inbound)
    BY <1>2, <2>1, <2>2
  <2> QED
    BY <1>1, <1>2, <2>3
<1>3. ASSUME Range(wire') \cup Range(inbound') \subseteq Range(wire) \cup Range(inbound),
             NEW m \in Range(wire') \cup Range(inbound'), m.type = "ack"
      PROVE  Landed(m.job)
  BY <1>1, <1>3
<1> QED
  BY <1>2, <1>3

(* A step that leaves the files, the rows and the queues alone.            *)
LEMMA StableDelivery ==
  ASSUME TypeOK, DeliveryInv, metaResp' \subseteq metaResp, AtWork' => AtWork,
         UNCHANGED <<rowVars, job, ver, received, disk, landed, wire, inbound>>
  PROVE  DeliveryInv'
BY UntouchedDelivery DEF DeliveryInv

(* A step that ends the row of one registered job, with nothing landed.    *)
LEMMA RowEnds ==
  ASSUME TypeOK, DeliveryInv, NEW j \in sjobs, NEW how \in {"done", "failed"}, EndRow(j, how),
         how = "done" => Landed(j), metaResp' = metaResp, phase' = phase,
         UNCHANGED <<job, ver, received, disk, landed, wire>>,
         Range(inbound') \subseteq Range(inbound)
  PROVE  DeliveryInv'
<1>1. srcRow[j] = "active" /\ srcRow \in [Jobs -> {"none", "active", "done", "failed"}]
      /\ j \in Jobs
  BY DEF DeliveryInv, RowsInv, TypeOK, RowType
<1>2. \A k \in Jobs : srcRow'[k] = IF k = j THEN how ELSE srcRow[k]
  BY <1>1 DEF EndRow
<1>3. nextJob' = nextJob /\ jobVer' = jobVer /\ sjobs' = sjobs \ {j}
  BY DEF EndRow
<1>4. RowsInv'
  BY <1>1, <1>2, <1>3 DEF DeliveryInv, RowsInv
<1>5. RespInv' /\ TakenInv' /\ BitmapSound' /\ LandedInv'
  BY <1>3 DEF DeliveryInv, RespInv, TakenInv, BitmapSound, LandedInv, LandedIntact, AtWork
<1>6. \A k \in Jobs : srcRow'[k] = "done" => Landed(k)
  BY <1>2 DEF DeliveryInv, AckInv, AckAfterLanding, Landed
<1>7. AckAfterLanding'
  BY <1>6 DEF AckAfterLanding, Landed
<1>8. \A m \in Range(wire') \cup Range(inbound') : m.type = "ack" => Landed(m.job)
  BY DEF DeliveryInv, AckInv
<1>9. AckInv'
  BY <1>7, <1>8 DEF AckInv, Landed
<1> QED
  BY <1>4, <1>5, <1>9 DEF DeliveryInv

(* Throwing the parts directory away.                                      *)
LEMMA CancelDelivers ==
  ASSUME TypeOK, DeliveryInv, CancelPull PROVE DeliveryInv'
<1> USE DEF netVars, srcVars, pullVars, rowVars
<1>1. TakenInv' /\ BitmapSound'
  BY DEF CancelPull, EndWith, TakenInv, BitmapSound, AtWork
<1> QED
  BY <1>1, UntouchedDelivery DEF CancelPull, DeliveryInv

(* Every step preserves the delivery invariant.                            *)
LEMMA DeliveryStep == TypeOK /\ DeliveryInv /\ [Next]_vars => DeliveryInv'
<1> SUFFICES ASSUME TypeOK, DeliveryInv, [Next]_vars PROVE DeliveryInv'
  OBVIOUS
<1> USE DEF netVars, srcVars, batchVars, fileVars, pullVars, flagVars, rowVars
<1>1. CASE SendMetaReq
  <2>1. [type |-> "meta", job |-> 1, arg |-> attempt + 1] \in CtrlMsg
    BY DEF TypeOK, PullType, CtrlMsg, Jobs
  <2>2. \A m \in Range(wire') \cup Range(inbound') : m.type = "ack" => Landed(m.job)
    BY <1>1, <2>1, NoNewAck DEF SendMetaReq
  <2> QED
    BY <1>1, <2>2, UntouchedDelivery DEF SendMetaReq, AtWork, DeliveryInv
<1>2. CASE MetaTimeout
  BY <1>2, StableDelivery DEF MetaTimeout, rcvVars, AtWork
<1>3. CASE DrainControl
  <2>1. CASE CancelPull
    BY <2>1, CancelDelivers
  <2>2. CASE ~CancelPull
    BY <1>3, <2>2, StableDelivery DEF DrainControl, AtWork
  <2> QED
    BY <2>1, <2>2
<1>4. CASE PausedRecv
  <2>1. CASE CancelPull
    BY <2>1, CancelDelivers
  <2>2. CASE ~CancelPull
    BY <1>4, <2>2, StableDelivery DEF PausedRecv, AtWork
  <2> QED
    BY <2>1, <2>2
<1>5. CASE StartBatch
  BY <1>5, StableDelivery DEF StartBatch, rcvVars, AtWork
<1>6. CASE SendFetch
  <2>1. \A e \in LowestOf(unsent) : [type |-> "fetch", job |-> job, arg |-> e] \in CtrlMsg
    BY DEF TypeOK, PullType, BatchType, LowestOf, CtrlMsg, Chunks
  <2>2. ASSUME up PROVE DeliveryInv'
    <3>1. PICK e \in LowestOf(unsent) :
            wire' = Append(wire, [type |-> "fetch", job |-> job, arg |-> e])
      BY <1>6, <2>2 DEF SendFetch
    <3>2. \A m \in Range(wire') \cup Range(inbound') : m.type = "ack" => Landed(m.job)
      BY <1>6, <2>1, <3>1, NoNewAck DEF SendFetch
    <3> QED
      BY <1>6, <2>2, <3>2, UntouchedDelivery DEF SendFetch, AtWork, DeliveryInv
  <2>3. ASSUME ~up PROVE DeliveryInv'
    BY <1>6, <2>3, StableDelivery DEF SendFetch, EndWith, AtWork
  <2> QED
    BY <2>2, <2>3
<1>7. CASE AcceptFails
  BY <1>7, StableDelivery DEF AcceptFails, EndWith, rcvVars, AtWork
<1>8. CASE Watchdog
  BY <1>8, StableDelivery DEF Watchdog, EndWith, rcvVars, AtWork
<1>9. CASE Finalize
  <2>1. ASSUME received # Chunks PROVE DeliveryInv'
    BY <1>9, <2>1, StableDelivery DEF Finalize, AtWork
  <2>2. ASSUME received = Chunks PROVE DeliveryInv'
    <3> DEFINE file == [job |-> job, data |-> disk]
    <3>1. job < nextJob /\ ver = jobVer[job]
      BY <1>9 DEF Finalize, AtWork, DeliveryInv, TakenInv
    <3>2. disk = [c \in Chunks |-> jobVer[job]]
      BY <2>2, <3>1 DEF DeliveryInv, BitmapSound, TypeOK, FileType
    <3>3. landed' = landed \cup {file} /\ received' = {} /\ phase' = "over"
          /\ UNCHANGED <<rowVars, metaResp, inbound>>
      BY <1>9, <2>2 DEF Finalize
    <3>4. LandedInv'
      <4>1. file.job = job /\ file.data = disk
        OBVIOUS
      <4>2. ASSUME NEW f \in landed'
            PROVE  f.job < nextJob /\ f.data = [c \in Chunks |-> jobVer[f.job]]
        <5>1. CASE f \in landed
          BY <5>1 DEF DeliveryInv, LandedInv, LandedIntact
        <5>2. CASE f = file
          BY <5>2, <4>1, <3>1, <3>2
        <5> QED
          BY <3>3, <5>1, <5>2
      <4> QED
        BY <3>3, <4>2 DEF LandedInv, LandedIntact
    <3>5. TakenInv' /\ BitmapSound'
      BY <3>3 DEF TakenInv, BitmapSound, AtWork
    <3>6. [type |-> "ack", job |-> job, arg |-> 0] \in CtrlMsg
      BY DEF TypeOK, PullType, CtrlMsg
    <3>7. Range(wire') \subseteq Range(wire) \cup {[type |-> "ack", job |-> job, arg |-> 0]}
      <4>1. wire' = wire \/ wire' = Append(wire, [type |-> "ack", job |-> job, arg |-> 0])
        BY <1>9, <2>2 DEF Finalize
      <4>2. Range(Append(wire, [type |-> "ack", job |-> job, arg |-> 0]))
              = Range(wire) \cup {[type |-> "ack", job |-> job, arg |-> 0]}
        BY <3>6, QueueFacts DEF TypeOK, NetType
      <4> QED
        BY <4>1, <4>2
    <3>8. ASSUME NEW j, Landed(j) \/ j = job PROVE Landed(j)'
      <4>1. file \in landed' /\ file.job = job
        BY <3>3
      <4>2. landed \subseteq landed'
        BY <3>3
      <4> HIDE DEF file
      <4> QED
        BY <3>8, <4>1, <4>2 DEF Landed
    <3>9. \A m \in Range(wire') \cup Range(inbound') : m.type = "ack" => Landed(m.job)'
      BY <3>3, <3>7, <3>8 DEF DeliveryInv, AckInv
    <3>10. \A j \in Jobs : srcRow'[j] = "done" => Landed(j)'
      BY <3>3, <3>8 DEF DeliveryInv, AckInv, AckAfterLanding, Landed
    <3>11. AckInv'
      BY <3>9, <3>10 DEF AckInv, AckAfterLanding, Landed
    <3> QED
      BY <3>3, <3>4, <3>5, <3>11, UntouchedDelivery DEF DeliveryInv
  <2> QED
    BY <2>1, <2>2
<1>10. ASSUME NEW r \in metaResp, RecvMetaResp(r) PROVE DeliveryInv'
  <2>1. r.job < nextJob /\ r.ver = jobVer[r.job]
    BY <1>10 DEF DeliveryInv, RespInv
  <2>2. TakenInv'
    BY <1>10, <2>1 DEF RecvMetaResp, TakenInv
  <2>3. BitmapSound'
    BY <1>10 DEF RecvMetaResp, BitmapSound, DeliveryInv
  <2> QED
    BY <1>10, <2>2, <2>3, UntouchedDelivery DEF RecvMetaResp, DeliveryInv
<1>11. ASSUME NEW r \in metaResp, DropMetaResp(r) PROVE DeliveryInv'
  BY <1>11, StableDelivery DEF DropMetaResp, rcvVars, AtWork
<1>12. ASSUME NEW s \in uni, AcceptStream(s) PROVE DeliveryInv'
  BY <1>12, StableDelivery DEF AcceptStream, rcvVars, AtWork
<1>13. ASSUME NEW s \in tasks, RunTask(s) PROVE DeliveryInv'
  <2>1. ASSUME Outcome(s) # "ok" PROVE DeliveryInv'
    BY <1>13, <2>1, StableDelivery DEF RunTask, Finish, AtWork
  <2>2. ASSUME Outcome(s) = "ok" PROVE DeliveryInv'
    <3>1. s.ver = ver /\ s.chunk \in Chunks
      BY <1>13, <2>2 DEF Outcome, TypeOK, BatchType
    <3>2. BitmapSound'
      BY <1>13, <2>2, <3>1 DEF RunTask, BitmapSound, DeliveryInv, TypeOK, FileType
    <3> QED
      BY <1>13, <2>2, <3>2, UntouchedDelivery DEF RunTask, Finish, AtWork, DeliveryInv
  <2> QED
    BY <2>1, <2>2
<1>14. ASSUME NEW s \in tasks, TaskFails(s) PROVE DeliveryInv'
  BY <1>14, StableDelivery DEF TaskFails, Finish, rcvVars, AtWork
<1>15. ASSUME NEW t \in joinable, JoinTask(t) PROVE DeliveryInv'
  BY <1>15, StableDelivery DEF JoinTask, EndWith, rcvVars, AtWork
<1>16. ASSUME NEW c \in Command, UserCommand(c) PROVE DeliveryInv'
  <2>1. [type |-> "cancel", job |-> job, arg |-> 0] \in CtrlMsg
    BY DEF TypeOK, PullType, CtrlMsg
  <2>2. \A m \in Range(wire') \cup Range(inbound') : m.type = "ack" => Landed(m.job)
    BY <1>16, <2>1, NoNewAck DEF UserCommand
  <2> QED
    BY <1>16, <2>2, UntouchedDelivery DEF UserCommand, AtWork, DeliveryInv
<1>17. CASE DeliverCtrl
  <2>1. Head(wire) \in CtrlMsg /\ wire # <<>>
    BY <1>17 DEF DeliverCtrl, TypeOK, NetType
  <2>2. Range(wire') \subseteq Range(wire) /\ Head(wire) \in Range(wire)
    BY <1>17, <2>1, QueueFacts DEF DeliverCtrl, TypeOK, NetType
  <2>3. Range(inbound') \subseteq Range(inbound) \cup {Head(wire)}
    BY <1>17, <2>1, QueueFacts DEF DeliverCtrl, TypeOK, SourceType
  <2>4. \A m \in Range(wire') \cup Range(inbound') : m.type = "ack" => Landed(m.job)
    BY <2>2, <2>3, NoNewAck
  <2> QED
    BY <1>17, <2>4, UntouchedDelivery DEF DeliverCtrl, rcvVars, AtWork, DeliveryInv
<1>18. CASE Disconnect
  <2>1. Range(wire') = {}
    BY <1>18 DEF Disconnect, Range
  <2>2. \A m \in Range(wire') \cup Range(inbound') : m.type = "ack" => Landed(m.job)
    BY <1>18, <2>1, NoNewAck DEF Disconnect
  <2> QED
    BY <1>18, <2>2, UntouchedDelivery DEF Disconnect, rcvVars, AtWork, DeliveryInv
<1>19. CASE Reconnect
  BY <1>19, StableDelivery DEF Reconnect, rcvVars, AtWork
<1>20. CASE Route
  <2> DEFINE m == Head(inbound)
  <2>1. m \in CtrlMsg /\ m \in Range(inbound) /\ Range(inbound') \subseteq Range(inbound)
    BY <1>20, QueueFacts DEF Route, TypeOK, SourceType
  <2>2. UNCHANGED <<phase, job, ver, received, disk, landed, wire>>
    BY <1>20 DEF Route, rcvVars
  <2>3. \A e \in Range(wire') \cup Range(inbound') : e.type = "ack" => Landed(e.job)
    BY <2>1, <2>2, NoNewAck
  <2>4. ASSUME UNCHANGED rowVars, metaResp' \subseteq metaResp PROVE DeliveryInv'
    BY <2>2, <2>3, <2>4, UntouchedDelivery DEF AtWork, DeliveryInv
  <2>6. ASSUME RouteMeta(m), allowed PROVE DeliveryInv'
    <3>1. nextJob \in Jobs /\ nextJob' = nextJob + 1 /\ nextJob \in Nat
      BY <2>6 DEF RouteMeta, Jobs
    <3>2. srcRow' = [srcRow EXCEPT ![nextJob] = "active"] /\ sjobs' = sjobs \cup {nextJob}
          /\ jobVer' = [jobVer EXCEPT ![nextJob] = fileVer]
      BY <2>6 DEF RouteMeta
    <3>3. \A k \in Jobs : srcRow'[k] = IF k = nextJob THEN "active" ELSE srcRow[k]
      BY <3>1, <3>2 DEF TypeOK, RowType
    <3>4. RowsInv'
      BY <3>1, <3>2, <3>3 DEF DeliveryInv, RowsInv, Jobs
    <3>5. \A k \in Jobs : k < nextJob => k < nextJob' /\ jobVer'[k] = jobVer[k]
      BY <3>1, <3>2 DEF TypeOK, RowType, Jobs
    <3>6. nextJob < nextJob' /\ jobVer'[nextJob] = fileVer
      BY <3>1, <3>2 DEF TypeOK, RowType
    <3>7. \A r \in metaResp' : r \in metaResp \/ (r.job = nextJob /\ r.ver = fileVer)
      BY <2>6 DEF RouteMeta
    <3>8. RespInv'
      BY <3>5, <3>6, <3>7 DEF DeliveryInv, RespInv, TypeOK, NetType
    <3>9. TakenInv'
      BY <2>2, <3>5 DEF DeliveryInv, TakenInv, AtWork, TypeOK, PullType
    <3>10. \A f \in landed : f.job \in Jobs
      BY DEF TypeOK, FileType
    <3>11. LandedInv'
      BY <2>2, <3>5, <3>10 DEF DeliveryInv, LandedInv, LandedIntact
    <3>12. \A k \in Jobs : srcRow'[k] = "done" => Landed(k)
      BY <3>3 DEF DeliveryInv, AckInv, AckAfterLanding, Landed
    <3>13. AckInv'
      BY <2>2, <2>3, <3>12 DEF AckInv, AckAfterLanding, Landed
    <3> QED
      BY <2>2, <3>4, <3>8, <3>9, <3>11, <3>13, UntouchedDelivery DEF DeliveryInv
  <2>7. ASSUME RouteMeta(m), ~allowed PROVE DeliveryInv'
    BY <2>4, <2>7 DEF RouteMeta
  <2>8. ASSUME NEW how \in {"done", "failed"}, m.job \in sjobs, EndRow(m.job, how),
               how = "done" => Landed(m.job), metaResp' = metaResp
        PROVE  DeliveryInv'
    BY <2>1, <2>2, <2>8, RowEnds
  <2>9. CASE RouteFetch(m)
    BY <2>4, <2>8, <2>9 DEF RouteFetch
  <2>10. CASE RouteAck(m)
    <3>1. m.type = "ack" /\ Landed(m.job)
      BY <2>1, <2>10 DEF RouteAck, DeliveryInv, AckInv
    <3> QED
      BY <2>4, <2>8, <2>10, <3>1 DEF RouteAck
  <2>11. CASE RouteCancel(m)
    BY <2>4, <2>8, <2>11 DEF RouteCancel
  <2> QED
    BY <1>20, <2>6, <2>7, <2>9, <2>10, <2>11 DEF Route
<1>21. CASE Revoke
  BY <1>21, StableDelivery DEF Revoke, rcvVars, AtWork
<1>22. CASE EditFile
  BY <1>22, StableDelivery DEF EditFile, rcvVars, AtWork
<1>23. ASSUME NEW g \in gated, ServeStart(g) PROVE DeliveryInv'
  BY <1>23, StableDelivery DEF ServeStart, rcvVars, AtWork
<1>24. ASSUME NEW g \in gated, GateAbandon(g) PROVE DeliveryInv'
  BY <1>24, StableDelivery DEF GateAbandon, rcvVars, AtWork
<1>25. ASSUME NEW g \in sending, ServeDone(g) PROVE DeliveryInv'
  BY <1>25, StableDelivery DEF ServeDone, rcvVars, AtWork
<1>26. ASSUME NEW g \in sending, ServeFails(g) PROVE DeliveryInv'
  BY <1>26, StableDelivery DEF ServeFails, rcvVars, AtWork
<1>27. ASSUME NEW j \in Jobs, SourcePause(j) PROVE DeliveryInv'
  BY <1>27, StableDelivery DEF SourcePause, rcvVars, AtWork
<1>28. ASSUME NEW j \in Jobs, SourceResume(j) PROVE DeliveryInv'
  BY <1>28, StableDelivery DEF SourceResume, rcvVars, AtWork
<1>29. ASSUME NEW j \in Jobs, SourceCancel(j) PROVE DeliveryInv'
  BY <1>29, StableDelivery DEF SourceCancel, rcvVars, AtWork
<1>30. ASSUME NEW j \in Jobs, NEW m \in {0, 1, 2}, SourceThrottle(j, m) PROVE DeliveryInv'
  BY <1>30, StableDelivery DEF SourceThrottle, rcvVars, AtWork
<1>31. ASSUME NEW j \in Jobs, DropCleanup(j) PROVE DeliveryInv'
  <2>1. ASSUME j \in sjobs PROVE DeliveryInv'
    BY <1>31, <2>1, RowEnds DEF DropCleanup, rcvVars
  <2>2. ASSUME j \notin sjobs PROVE DeliveryInv'
    BY <1>31, <2>2, StableDelivery DEF DropCleanup, rcvVars, AtWork
  <2> QED
    BY <2>1, <2>2
<1>32. CASE UNCHANGED vars
  BY <1>32, StableDelivery DEF vars, rcvVars, AtWork
<1> QED
  BY <1>1, <1>2, <1>3, <1>4, <1>5, <1>6, <1>7, <1>8, <1>9, <1>10, <1>11,
     <1>12, <1>13, <1>14, <1>15, <1>16, <1>17, <1>18, <1>19, <1>20, <1>21,
     <1>22, <1>23, <1>24, <1>25, <1>26, <1>27, <1>28, <1>29, <1>30, <1>31,
     <1>32
     DEF Next, ReceiverNext, ConnectionNext, SourceNext

(* Before anything has happened nothing is offered, landed or acknowledged.*)
LEMMA DeliveryInit == Init => DeliveryInv
BY DEF Init, DeliveryInv, RowsInv, RespInv, TakenInv, BitmapSound, LandedInv, LandedIntact,
       AckInv, AckAfterLanding, Landed, AtWork, Jobs, Range

(* The delivery invariant holds in every behaviour.                        *)
THEOREM DeliveryInvariant == Spec => []DeliveryInv
BY TypeCorrect, DeliveryInit, DeliveryStep, PTL DEF Spec

(* Resuming, cancelling and editing never leave a set bit over wrong data. *)
THEOREM BitmapAlwaysSound == Spec => []BitmapSound
<1>1. DeliveryInv => BitmapSound
  BY DEF DeliveryInv
<1> QED
  BY <1>1, DeliveryInvariant, PTL

(* What is landed is, chunk by chunk, the version the source offered.      *)
THEOREM LandedAlwaysIntact == Spec => []LandedIntact
<1>1. DeliveryInv => LandedIntact
  BY DEF DeliveryInv, LandedInv
<1> QED
  BY <1>1, DeliveryInvariant, PTL

(* A source row is only done after the receiver has landed the file.       *)
THEOREM AcksFollowLanding == Spec => []AckAfterLanding
<1>1. DeliveryInv => AckAfterLanding
  BY DEF DeliveryInv, AckInv
<1> QED
  BY <1>1, DeliveryInvariant, PTL

-----------------------------------------------------------------------------
(* The pipeline implements FileDelivery.                                   *)

OfferOf == [j \in Jobs |-> IF srcRow[j] = "none" THEN None ELSE jobVer[j]]
DoneRows == {j \in Jobs : srcRow[j] = "done"}

(* What a step of the pipeline has to do to be a step of FileDelivery.     *)
LEMMA DeliverySteps ==
  /\ UNCHANGED <<OfferOf, job, ver, received, landed, DoneRows>> => UNCHANGED Delivery!vars
  /\ \A j \in Jobs, v \in Versions :
       OfferOf[j] = None /\ OfferOf' = [OfferOf EXCEPT ![j] = v]
       /\ UNCHANGED <<job, ver, received, landed, DoneRows>> => Delivery!Next
  /\ \A j \in Jobs :
       OfferOf[j] # None /\ job' = j /\ ver' = OfferOf[j]
       /\ (received' = {} \/ (received' = received /\ OfferOf[j] = ver))
       /\ UNCHANGED <<OfferOf, landed, DoneRows>> => Delivery!Next
  /\ \A c \in Chunks :
       received' = received \cup {c}
       /\ UNCHANGED <<OfferOf, job, ver, landed, DoneRows>> => Delivery!Next
  /\ received' = {} /\ UNCHANGED <<OfferOf, job, ver, landed, DoneRows>> => Delivery!Next
  /\ received = Chunks /\ received' = {}
     /\ landed' = landed \cup {[job |-> job, data |-> [c \in Chunks |-> OfferOf[job]]]}
     /\ UNCHANGED <<OfferOf, job, ver, DoneRows>> => Delivery!Next
  /\ \A j \in Jobs :
       Landed(j) /\ DoneRows' = DoneRows \cup {j}
       /\ UNCHANGED <<OfferOf, job, ver, received, landed>> => Delivery!Next
<1> USE DEF OfferOf, DoneRows, Delivery!Jobs, Delivery!Versions, Delivery!Chunks,
            Delivery!None, Jobs, Versions, Chunks, None
<1>1. UNCHANGED <<OfferOf, job, ver, received, landed, DoneRows>> => UNCHANGED Delivery!vars
  BY DEF Delivery!vars
<1>2. ASSUME NEW j \in Jobs, NEW v \in Versions, OfferOf[j] = None,
             OfferOf' = [OfferOf EXCEPT ![j] = v],
             UNCHANGED <<job, ver, received, landed, DoneRows>>
      PROVE  Delivery!Next
  <2>1. Delivery!Propose(j, v)
    BY <1>2 DEF Delivery!Propose
  <2> QED
    BY <2>1 DEF Delivery!Next
<1>3. ASSUME NEW j \in Jobs, OfferOf[j] # None, job' = j, ver' = OfferOf[j],
             received' = {} \/ (received' = received /\ OfferOf[j] = ver),
             UNCHANGED <<OfferOf, landed, DoneRows>>
      PROVE  Delivery!Next
  <2>1. Delivery!Take(j)
    BY <1>3 DEF Delivery!Take
  <2> QED
    BY <2>1 DEF Delivery!Next
<1>4. ASSUME NEW c \in Chunks, received' = received \cup {c},
             UNCHANGED <<OfferOf, job, ver, landed, DoneRows>>
      PROVE  Delivery!Next
  <2>1. Delivery!Verify(c)
    BY <1>4 DEF Delivery!Verify
  <2> QED
    BY <2>1 DEF Delivery!Next
<1>5. ASSUME received' = {}, UNCHANGED <<OfferOf, job, ver, landed, DoneRows>>
      PROVE  Delivery!Next
  <2>1. Delivery!Discard
    BY <1>5 DEF Delivery!Discard
  <2> QED
    BY <2>1 DEF Delivery!Next
<1>6. ASSUME received = Chunks, received' = {},
             landed' = landed \cup {[job |-> job, data |-> [c \in Chunks |-> OfferOf[job]]]},
             UNCHANGED <<OfferOf, job, ver, DoneRows>>
      PROVE  Delivery!Next
  <2>1. Delivery!Land
    BY <1>6 DEF Delivery!Land
  <2> QED
    BY <2>1 DEF Delivery!Next
<1>7. ASSUME NEW j \in Jobs, Landed(j), DoneRows' = DoneRows \cup {j},
             UNCHANGED <<OfferOf, job, ver, received, landed>>
      PROVE  Delivery!Next
  <2>1. Delivery!Confirm(j)
    BY <1>7 DEF Delivery!Confirm, Landed
  <2> QED
    BY <2>1 DEF Delivery!Next
<1> HIDE DEF OfferOf, DoneRows
<1> QED
  BY <1>1, <1>2, <1>3, <1>4, <1>5, <1>6, <1>7

(* Rows that do not change leave offers and confirmations as they are, and *)
(* so does ending a registered row as failed; ending it as done confirms.  *)
LEMMA RowsMap ==
  ASSUME TypeOK, DeliveryInv
  PROVE  /\ UNCHANGED <<srcRow, jobVer>> => UNCHANGED <<OfferOf, DoneRows>>
         /\ \A j \in sjobs : EndRow(j, "failed") => UNCHANGED <<OfferOf, DoneRows>>
         /\ \A j \in sjobs : EndRow(j, "done") => OfferOf' = OfferOf /\ DoneRows' = DoneRows \cup {j}
<1>1. ASSUME NEW j \in sjobs, NEW how \in {"done", "failed"}, EndRow(j, how)
      PROVE  /\ \A k \in Jobs : srcRow'[k] = IF k = j THEN how ELSE srcRow[k]
             /\ j \in Jobs /\ srcRow[j] = "active" /\ jobVer' = jobVer
  BY <1>1 DEF EndRow, DeliveryInv, RowsInv, TypeOK, RowType
<1>2. ASSUME NEW j \in sjobs, NEW how \in {"done", "failed"}, EndRow(j, how)
      PROVE  OfferOf' = OfferOf
  BY <1>1, <1>2 DEF OfferOf
<1>3. ASSUME NEW j \in sjobs, EndRow(j, "failed") PROVE DoneRows' = DoneRows
  BY <1>1, <1>3 DEF DoneRows
<1>4. ASSUME NEW j \in sjobs, EndRow(j, "done") PROVE DoneRows' = DoneRows \cup {j}
  BY <1>1, <1>4 DEF DoneRows
<1>5. UNCHANGED <<srcRow, jobVer>> => UNCHANGED <<OfferOf, DoneRows>>
  BY DEF OfferOf, DoneRows
<1> QED
  BY <1>2, <1>3, <1>4, <1>5

(* A step that leaves rows, files and the job alone is a stutter.          *)
LEMMA StutterStep ==
  ASSUME TypeOK, DeliveryInv, UNCHANGED <<srcRow, jobVer, job, ver, received, landed>>
  PROVE  UNCHANGED Delivery!vars
BY RowsMap, DeliverySteps

(* Every step of the pipeline is a step of FileDelivery or a stutter.      *)
LEMMA RefinementStep ==
  TypeOK /\ DeliveryInv /\ [Next]_vars => [Delivery!Next]_(Delivery!vars)
<1> SUFFICES ASSUME TypeOK, DeliveryInv, [Next]_vars
             PROVE  Delivery!Next \/ UNCHANGED Delivery!vars
  OBVIOUS
<1> DEFINE Simulated == Delivery!Next \/ UNCHANGED Delivery!vars
<1> USE DEF netVars, srcVars, batchVars, fileVars, pullVars, flagVars, rowVars
<1>0. ASSUME CancelPull PROVE Simulated
  <2>1. received' = {} /\ UNCHANGED <<srcRow, jobVer, job, ver, landed>>
    BY <1>0 DEF CancelPull
  <2> QED
    BY <2>1, RowsMap, DeliverySteps
<1>1. ASSUME SendMetaReq PROVE Simulated
  BY <1>1, StutterStep DEF SendMetaReq, rcvVars
<1>2. ASSUME MetaTimeout PROVE Simulated
  BY <1>2, StutterStep DEF MetaTimeout, rcvVars
<1>3. ASSUME DrainControl PROVE Simulated
  <2>1. ASSUME ~CancelPull PROVE Simulated
    BY <1>3, <2>1, StutterStep DEF DrainControl
  <2> QED
    BY <1>0, <2>1
<1>4. ASSUME PausedRecv PROVE Simulated
  <2>1. ASSUME ~CancelPull PROVE Simulated
    BY <1>4, <2>1, StutterStep DEF PausedRecv
  <2> QED
    BY <1>0, <2>1
<1>5. ASSUME StartBatch PROVE Simulated
  BY <1>5, StutterStep DEF StartBatch, rcvVars
<1>6. ASSUME SendFetch PROVE Simulated
  BY <1>6, StutterStep DEF SendFetch, EndWith, rcvVars
<1>7. ASSUME AcceptFails PROVE Simulated
  BY <1>7, StutterStep DEF AcceptFails, EndWith, rcvVars
<1>8. ASSUME Watchdog PROVE Simulated
  BY <1>8, StutterStep DEF Watchdog, EndWith, rcvVars
<1>9. ASSUME Finalize PROVE Simulated
  <2>1. ASSUME received # Chunks PROVE Simulated
    BY <1>9, <2>1, StutterStep DEF Finalize
  <2>2. ASSUME received = Chunks PROVE Simulated
    <3>1. job \in Jobs /\ job < nextJob /\ ver = jobVer[job]
      BY <1>9 DEF Finalize, AtWork, DeliveryInv, TakenInv, TypeOK, PullType
    <3>2. srcRow[job] # "none"
      BY <3>1 DEF DeliveryInv, RowsInv, TypeOK, RowType, Jobs
    <3>3. OfferOf[job] = ver
      BY <3>1, <3>2 DEF OfferOf
    <3>4. disk = [c \in Chunks |-> OfferOf[job]]
      BY <2>2, <3>3 DEF DeliveryInv, BitmapSound, TypeOK, FileType
    <3>5. landed' = landed \cup {[job |-> job, data |-> disk]} /\ received' = {}
          /\ UNCHANGED <<srcRow, jobVer, job, ver>>
      BY <1>9, <2>2 DEF Finalize
    <3> QED
      BY <2>2, <3>4, <3>5, RowsMap, DeliverySteps
  <2> QED
    BY <2>1, <2>2
<1>10. ASSUME NEW r \in metaResp, RecvMetaResp(r) PROVE Simulated
  <2>1. r.job \in Jobs /\ r.job < nextJob /\ r.ver = jobVer[r.job] /\ r.ver \in Versions
    BY <1>10 DEF DeliveryInv, RespInv, TypeOK, NetType
  <2>2. srcRow[r.job] # "none"
    BY <2>1 DEF DeliveryInv, RowsInv, TypeOK, RowType, Jobs
  <2>3. OfferOf[r.job] = r.ver
    BY <2>1, <2>2 DEF OfferOf
  <2>4. r.ver # None
    BY <2>1 DEF Versions, None
  <2>5. job' = r.job /\ ver' = r.ver /\ UNCHANGED <<srcRow, jobVer, landed>>
        /\ (received' = {} \/ (received' = received /\ r.ver = ver))
    BY <1>10 DEF RecvMetaResp
  <2> QED
    BY <2>1, <2>3, <2>4, <2>5, RowsMap, DeliverySteps
<1>11. ASSUME NEW r \in metaResp, DropMetaResp(r) PROVE Simulated
  BY <1>11, StutterStep DEF DropMetaResp, rcvVars
<1>12. ASSUME NEW s \in uni, AcceptStream(s) PROVE Simulated
  BY <1>12, StutterStep DEF AcceptStream, rcvVars
<1>13. ASSUME NEW s \in tasks, RunTask(s) PROVE Simulated
  <2>1. ASSUME Outcome(s) # "ok" PROVE Simulated
    BY <1>13, <2>1, StutterStep DEF RunTask, Finish
  <2>2. ASSUME Outcome(s) = "ok" PROVE Simulated
    <3>1. s.chunk \in Chunks
      BY <1>13 DEF TypeOK, BatchType, Stream
    <3>2. received' = received \cup {s.chunk} /\ UNCHANGED <<srcRow, jobVer, job, ver, landed>>
      BY <1>13, <2>2 DEF RunTask, Finish
    <3> QED
      BY <3>1, <3>2, RowsMap, DeliverySteps
  <2> QED
    BY <2>1, <2>2
<1>14. ASSUME NEW s \in tasks, TaskFails(s) PROVE Simulated
  BY <1>14, StutterStep DEF TaskFails, Finish, rcvVars
<1>15. ASSUME NEW t \in joinable, JoinTask(t) PROVE Simulated
  BY <1>15, StutterStep DEF JoinTask, EndWith, rcvVars
<1>16. ASSUME NEW c \in Command, UserCommand(c) PROVE Simulated
  BY <1>16, StutterStep DEF UserCommand, rcvVars
<1>17. ASSUME DeliverCtrl PROVE Simulated
  BY <1>17, StutterStep DEF DeliverCtrl, rcvVars
<1>18. ASSUME Disconnect PROVE Simulated
  BY <1>18, StutterStep DEF Disconnect, rcvVars
<1>19. ASSUME Reconnect PROVE Simulated
  BY <1>19, StutterStep DEF Reconnect, rcvVars
<1>20. ASSUME Route PROVE Simulated
  <2> DEFINE m == Head(inbound)
  <2>1. m \in CtrlMsg /\ m \in Range(inbound)
    BY <1>20, QueueFacts DEF Route, TypeOK, SourceType
  <2>2. UNCHANGED <<job, ver, received, landed>>
    BY <1>20 DEF Route, rcvVars
  <2>3. ASSUME UNCHANGED rowVars PROVE Simulated
    BY <2>2, <2>3, StutterStep
  <2>4. ASSUME m.job \in sjobs, EndRow(m.job, "failed") PROVE Simulated
    BY <2>2, <2>4, RowsMap, DeliverySteps
  <2>5. ASSUME m.job \in sjobs, EndRow(m.job, "done"), m.type = "ack" PROVE Simulated
    <3>1. Landed(m.job) /\ m.job \in Jobs
      BY <2>1, <2>5 DEF DeliveryInv, AckInv, TypeOK, RowType
    <3> QED
      BY <2>2, <2>5, <3>1, RowsMap, DeliverySteps
  <2>6. ASSUME RouteMeta(m), allowed PROVE Simulated
    <3>1. nextJob \in Jobs /\ fileVer \in Versions /\ srcRow[nextJob] = "none"
      BY <2>6 DEF RouteMeta, Jobs, DeliveryInv, RowsInv, TypeOK, SourceType
    <3>2. \A k \in Jobs : srcRow'[k] = IF k = nextJob THEN "active" ELSE srcRow[k]
      BY <2>6, <3>1 DEF RouteMeta, TypeOK, RowType
    <3>3. \A k \in Jobs : jobVer'[k] = IF k = nextJob THEN fileVer ELSE jobVer[k]
      BY <2>6, <3>1 DEF RouteMeta, TypeOK, RowType
    <3>4. OfferOf[nextJob] = None
      BY <3>1 DEF OfferOf
    <3>5. OfferOf' = [OfferOf EXCEPT ![nextJob] = fileVer]
      BY <3>1, <3>2, <3>3 DEF OfferOf
    <3>6. DoneRows' = DoneRows
      BY <3>1, <3>2 DEF DoneRows
    <3> QED
      BY <2>2, <3>1, <3>4, <3>5, <3>6, DeliverySteps
  <2>7. ASSUME RouteMeta(m), ~allowed PROVE Simulated
    BY <2>3, <2>7 DEF RouteMeta
  <2>8. CASE RouteFetch(m)
    BY <2>3, <2>4, <2>8 DEF RouteFetch
  <2>9. CASE RouteAck(m)
    BY <2>3, <2>5, <2>9 DEF RouteAck
  <2>10. CASE RouteCancel(m)
    BY <2>3, <2>4, <2>10 DEF RouteCancel
  <2> QED
    BY <1>20, <2>6, <2>7, <2>8, <2>9, <2>10 DEF Route
<1>21. ASSUME Revoke PROVE Simulated
  BY <1>21, StutterStep DEF Revoke, rcvVars
<1>22. ASSUME EditFile PROVE Simulated
  BY <1>22, StutterStep DEF EditFile, rcvVars
<1>23. ASSUME NEW g \in gated, ServeStart(g) PROVE Simulated
  BY <1>23, StutterStep DEF ServeStart, rcvVars
<1>24. ASSUME NEW g \in gated, GateAbandon(g) PROVE Simulated
  BY <1>24, StutterStep DEF GateAbandon, rcvVars
<1>25. ASSUME NEW g \in sending, ServeDone(g) PROVE Simulated
  BY <1>25, StutterStep DEF ServeDone, rcvVars
<1>26. ASSUME NEW g \in sending, ServeFails(g) PROVE Simulated
  BY <1>26, StutterStep DEF ServeFails, rcvVars
<1>27. ASSUME NEW j \in Jobs, SourcePause(j) PROVE Simulated
  BY <1>27, StutterStep DEF SourcePause, rcvVars
<1>28. ASSUME NEW j \in Jobs, SourceResume(j) PROVE Simulated
  BY <1>28, StutterStep DEF SourceResume, rcvVars
<1>29. ASSUME NEW j \in Jobs, SourceCancel(j) PROVE Simulated
  BY <1>29, StutterStep DEF SourceCancel, rcvVars
<1>30. ASSUME NEW j \in Jobs, NEW m \in {0, 1, 2}, SourceThrottle(j, m) PROVE Simulated
  BY <1>30, StutterStep DEF SourceThrottle, rcvVars
<1>31. ASSUME NEW j \in Jobs, DropCleanup(j) PROVE Simulated
  <2>1. ASSUME j \in sjobs PROVE Simulated
    BY <1>31, <2>1, RowsMap, DeliverySteps DEF DropCleanup, rcvVars
  <2>2. ASSUME j \notin sjobs PROVE Simulated
    BY <1>31, <2>2, StutterStep DEF DropCleanup, rcvVars
  <2> QED
    BY <2>1, <2>2
<1>32. ASSUME UNCHANGED vars PROVE Simulated
  BY <1>32, StutterStep DEF vars, rcvVars
<1> QED
  BY <1>1, <1>2, <1>3, <1>4, <1>5, <1>6, <1>7, <1>8, <1>9, <1>10, <1>11,
     <1>12, <1>13, <1>14, <1>15, <1>16, <1>17, <1>18, <1>19, <1>20, <1>21,
     <1>22, <1>23, <1>24, <1>25, <1>26, <1>27, <1>28, <1>29, <1>30, <1>31,
     <1>32
     DEF Next, ReceiverNext, ConnectionNext, SourceNext

(* A pipeline that has not started is a delivery that has not started.     *)
LEMMA RefinementInit == Init => Delivery!Init
BY DEF Init, Delivery!Init, Delivery!Jobs, Delivery!None, Jobs, None

(* The fetch pipeline, with all its faults, retries and edits, is a        *)
(* FileDelivery.                                                           *)
THEOREM ImplementsFileDelivery == Spec => DeliversFile
<1>1. Delivery!Init /\ [][Delivery!Next]_(Delivery!vars) => DeliversFile
  BY PTL DEF DeliversFile, Delivery!Spec
<1> QED
  BY <1>1, RefinementInit, RefinementStep, TypeCorrect, DeliveryInvariant, PTL DEF Spec

(* A finished sender row keeps its outcome.                                *)
LEMMA RowStep ==
  TypeOK /\ DeliveryInv /\ [Next]_vars =>
    [\A j \in Jobs : srcRow[j] \in {"done", "failed"} => srcRow'[j] = srcRow[j]]_vars
<1> SUFFICES ASSUME TypeOK, DeliveryInv, [Next]_vars,
                    NEW j \in Jobs, srcRow[j] \in {"done", "failed"}
             PROVE  srcRow'[j] = srcRow[j]
  BY DEF vars, rcvVars, netVars, srcVars
<1>1. j \notin sjobs /\ j # nextJob
  BY DEF DeliveryInv, RowsInv, TypeOK, RowType, Jobs
<1>2. ASSUME NEW k, k # j, NEW how, EndRow(k, how) PROVE srcRow'[j] = srcRow[j]
  BY <1>2 DEF EndRow, TypeOK, RowType
<1>3. CASE UNCHANGED srcRow
  BY <1>3
<1>4. CASE Route
  <2>1. ASSUME NEW m, RouteMeta(m) PROVE srcRow'[j] = srcRow[j]
    BY <1>1, <2>1 DEF RouteMeta, TypeOK, RowType, rowVars
  <2>2. ASSUME NEW m, RouteFetch(m) \/ RouteAck(m) \/ RouteCancel(m)
        PROVE  srcRow'[j] = srcRow[j]
    BY <1>1, <1>2, <2>2 DEF RouteFetch, RouteAck, RouteCancel, rowVars
  <2> QED
    BY <1>4, <2>1, <2>2 DEF Route
<1>5. ASSUME NEW k \in Jobs, DropCleanup(k) PROVE srcRow'[j] = srcRow[j]
  BY <1>1, <1>2, <1>5 DEF DropCleanup, rowVars
<1>6. ReceiverNext \/ ConnectionNext => UNCHANGED srcRow
  BY DEF ReceiverNext, ConnectionNext, SendMetaReq, MetaTimeout, DrainControl, PausedRecv,
         CancelPull, StartBatch, SendFetch, AcceptFails, Watchdog, Finalize, RecvMetaResp,
         DropMetaResp, AcceptStream, RunTask, TaskFails, JoinTask, UserCommand, DeliverCtrl,
         Disconnect, Reconnect, srcVars, rowVars
<1>7. SourceNext => UNCHANGED srcRow \/ Route \/ (\E k \in Jobs : DropCleanup(k))
  BY DEF SourceNext, Revoke, EditFile, ServeStart, GateAbandon, ServeDone, ServeFails,
         SourcePause, SourceResume, SourceCancel, SourceThrottle, rowVars
<1>8. UNCHANGED vars => UNCHANGED srcRow
  BY DEF vars, srcVars
<1> QED
  BY <1>3, <1>4, <1>5, <1>6, <1>7, <1>8 DEF Next

(* RecvAck, a cancel and the connection cleanup never overwrite each other.*)
THEOREM RowOutcomesFinal == Spec => RowOutcomeFinal
BY TypeCorrect, DeliveryInvariant, RowStep, PTL DEF Spec, RowOutcomeFinal

-----------------------------------------------------------------------------
(* The window: what every step preserves of the pipeline as a whole.       *)

(* Chunks that were asked for and will never come.                         *)
Lost == (batch \ unsent) \ (InPipe(job) \cup received)

(* The running batch: every request of it is in the pipeline, on disk or   *)
(* lost, and what is in flight or lost is no more than sent - completed.   *)
BatchInv ==
  phase = "batch" =>
    /\ InPipe(job) \subseteq batch \ unsent
    /\ LoadOf(job) + Cardinality(Lost) <= Sent - completed
    /\ \A t \in joinable : t.res = "ok" => t.job = job /\ t.chunk \in received
    /\ Chunks \subseteq missing \cup batch \cup received

(* Between batches nothing of the job is in flight and what is not missing *)
(* is on disk.                                                             *)
BetweenInv ==
  phase \in {"control", "paused"} => LoadOf(job) = 0 /\ Chunks \subseteq missing \cup received

(* A job that has not been taken has nothing in the pipeline; no two       *)
(* answers carry the same job, and none the job at work.                   *)
UntakenInv ==
  /\ \A j \in Jobs : j >= nextJob \/ (\E r \in metaResp : r.job = j) => LoadOf(j) = 0
  /\ \A r \in metaResp : AtWork => r.job # job
  /\ \A r, o \in metaResp : r.job = o.job => r = o

(* Until the second pull starts, all that is in flight is of the one job.  *)
FirstInv ==
  attempt <= 1 =>
    /\ \A j \in Jobs \ {job} : LoadOf(j) = 0
    /\ phase \in {"idle", "negotiating"} => LoadOf(job) = 0
    /\ attempt = 0 => phase = "idle"
    /\ result # "protocol" /\ \A t \in joinable : t.res # "protocol"

WindowInv == BatchInv /\ BetweenInv /\ UntakenInv /\ FirstInv /\ FinalizeComplete

(* What a lossless first pull adds: its queues hold its own requests and   *)
(* cancels ...                                                             *)
QueueInv ==
  /\ phase = "idle" => wire = <<>> /\ inbound = <<>> /\ metaResp = {}
  /\ phase = "negotiating" =>
       /\ Len(wire) + Len(inbound) <= 1
       /\ metaResp # {} => wire = <<>> /\ inbound = <<>>
  /\ AtWork => \A m \in Range(wire) \cup Range(inbound) :
                 m.type \in {"fetch", "cancel"} /\ m.job = job

(* ... the router's queue takes the whole batch, and a request is only lost*)
(* behind a cancel that is queued there.                                   *)
CancelQueued == \E m \in Range(inbound) : m.type = "cancel" /\ m.job = job

KeptInv ==
  phase = "batch" =>
    /\ Cardinality(batch) <= InboundCap
    /\ job \in sjobs \ cancelled /\ cap[job] = Unlimited /\ ~CancelQueued => Lost = {}

ConserveInv == up /\ allowed /\ (attempt <= 1 => QueueInv /\ KeptInv)

(* How a step may change what is in the pipeline for a job: nothing enters,*)
(* and each chunk that leaves takes one of the count.                      *)
Shrinks(j) ==
  /\ InPipe(j)' \subseteq InPipe(j)
  /\ LoadOf(j)' + Cardinality(InPipe(j) \ InPipe(j)') <= LoadOf(j)

(* The records and the queues of the pipeline are finite.                  *)
LEMMA FiniteRecords ==
  /\ IsFiniteSet(Chunks) /\ IsFiniteSet(Request) /\ IsFiniteSet(Stream) /\ IsFiniteSet(Joined)
<1>1. IsFiniteSet(Chunks) /\ IsFiniteSet(Jobs) /\ IsFiniteSet(Versions)
  BY FS_Interval DEF Chunks, Jobs, Versions
<1> DEFINE Res == {"ok", "hash", "protocol", "io"}
<1>2. IsFiniteSet(Res)
  <2>1. Res = {"ok"} \cup {"hash"} \cup {"protocol"} \cup {"io"}
    OBVIOUS
  <2> HIDE DEF Res
  <2> QED
    BY <2>1, FS_Singleton, FS_Union
<1> HIDE DEF Res
<1>3. IsFiniteSet(Jobs \X Chunks) /\ IsFiniteSet((Jobs \X Chunks) \X Versions)
      /\ IsFiniteSet((Jobs \X Chunks) \X Res)
  BY <1>1, <1>2, FS_Product
<1>4. IsFiniteSet(Request)
  <2> DEFINE f == [p \in Jobs \X Chunks |-> [job |-> p[1], chunk |-> p[2]]]
  <2>1. f \in [Jobs \X Chunks -> Request]
    BY DEF Request
  <2>2. \A r \in Request : <<r.job, r.chunk>> \in Jobs \X Chunks /\ f[<<r.job, r.chunk>>] = r
    BY DEF Request
  <2>3. f \in Surjection(Jobs \X Chunks, Request)
    BY <2>1, <2>2 DEF Surjection
  <2> HIDE DEF f
  <2> QED
    BY <1>3, <2>3, FS_Surjection
<1>5. IsFiniteSet(Stream)
  <2> DEFINE f == [p \in (Jobs \X Chunks) \X Versions |->
                     [job |-> p[1][1], chunk |-> p[1][2], ver |-> p[2]]]
  <2>1. f \in [(Jobs \X Chunks) \X Versions -> Stream]
    BY DEF Stream
  <2>2. \A r \in Stream : /\ <<<<r.job, r.chunk>>, r.ver>> \in (Jobs \X Chunks) \X Versions
                          /\ f[<<<<r.job, r.chunk>>, r.ver>>] = r
    BY DEF Stream
  <2>3. f \in Surjection((Jobs \X Chunks) \X Versions, Stream)
    BY <2>1, <2>2 DEF Surjection
  <2> HIDE DEF f
  <2> QED
    BY <1>3, <2>3, FS_Surjection
<1>6. IsFiniteSet(Joined)
  <2> DEFINE f == [p \in (Jobs \X Chunks) \X Res |->
                     [job |-> p[1][1], chunk |-> p[1][2], res |-> p[2]]]
  <2>1. f \in [(Jobs \X Chunks) \X Res -> Joined]
    BY DEF Joined, Res
  <2>2. \A r \in Joined : /\ <<<<r.job, r.chunk>>, r.res>> \in (Jobs \X Chunks) \X Res
                          /\ f[<<<<r.job, r.chunk>>, r.res>>] = r
    BY DEF Joined, Res
  <2>3. f \in Surjection((Jobs \X Chunks) \X Res, Joined)
    BY <2>1, <2>2 DEF Surjection
  <2> HIDE DEF f
  <2> QED
    BY <1>3, <2>3, FS_Surjection
<1> QED
  BY <1>1, <1>4, <1>5, <1>6

(* A set of requests or streams: what of it belongs to a job, and how one  *)
(* record that enters or leaves changes that.                              *)
LEMMA OfJobSize ==
  ASSUME NEW S, IsFiniteSet(S), NEW j
  PROVE  /\ IsFiniteSet(OfJob(S, j)) /\ Cardinality(OfJob(S, j)) \in Nat
         /\ IsFiniteSet(ChunksOf(S, j)) /\ Cardinality(ChunksOf(S, j)) \in Nat
         /\ Cardinality(ChunksOf(S, j)) <= Cardinality(OfJob(S, j))
         /\ Cardinality(OfJob(S, j)) = 0 => ChunksOf(S, j) = {}
<1>1. OfJob(S, j) \in SUBSET S
  BY DEF OfJob
<1>2. IsFiniteSet(OfJob(S, j))
  BY <1>1, FS_Subset
<1> DEFINE f == [x \in OfJob(S, j) |-> x.chunk]
<1>3. f \in Surjection(OfJob(S, j), ChunksOf(S, j))
  BY DEF Surjection, ChunksOf
<1> HIDE DEF f
<1>4. IsFiniteSet(ChunksOf(S, j)) /\ Cardinality(ChunksOf(S, j)) <= Cardinality(OfJob(S, j))
  BY <1>2, <1>3, FS_Surjection
<1>5. Cardinality(OfJob(S, j)) = 0 => ChunksOf(S, j) = {}
  BY <1>2, FS_EmptySet DEF ChunksOf
<1> QED
  BY <1>2, <1>4, <1>5, FS_CardinalityType

(* One element less in a set of streams or tasks is one less of its job,   *)
(* and none less of another.                                               *)
LEMMA LeavesSet ==
  ASSUME NEW S, IsFiniteSet(S), NEW x \in S, NEW j
  PROVE  /\ x.job # j => /\ OfJob(S \ {x}, j) = OfJob(S, j)
                         /\ ChunksOf(S \ {x}, j) = ChunksOf(S, j)
         /\ x.job = j => /\ Cardinality(OfJob(S \ {x}, j)) = Cardinality(OfJob(S, j)) - 1
                         /\ ChunksOf(S, j) = ChunksOf(S \ {x}, j) \cup {x.chunk}
<1>1. x.job # j => OfJob(S \ {x}, j) = OfJob(S, j)
  BY DEF OfJob
<1>2. ASSUME x.job = j
      PROVE  /\ Cardinality(OfJob(S \ {x}, j)) = Cardinality(OfJob(S, j)) - 1
             /\ ChunksOf(S, j) = ChunksOf(S \ {x}, j) \cup {x.chunk}
  <2>1. x \in OfJob(S, j) /\ OfJob(S \ {x}, j) = OfJob(S, j) \ {x}
    BY <1>2 DEF OfJob
  <2>2. Cardinality(OfJob(S, j) \ {x}) = Cardinality(OfJob(S, j)) - 1
    BY <2>1, OfJobSize, FS_RemoveElement
  <2> QED
    BY <2>1, <2>2 DEF ChunksOf
<1> QED
  BY <1>1, <1>2 DEF ChunksOf

(* One element more adds its chunk, and at most one to the count.          *)
LEMMA EntersSet ==
  ASSUME NEW S, IsFiniteSet(S), NEW x, NEW j, x.job = j
  PROVE  /\ Cardinality(OfJob(S \cup {x}, j)) \in Nat
         /\ Cardinality(OfJob(S \cup {x}, j)) <= Cardinality(OfJob(S, j)) + 1
         /\ ChunksOf(S \cup {x}, j) = ChunksOf(S, j) \cup {x.chunk}
<1>1. OfJob(S \cup {x}, j) = OfJob(S, j) \cup {x}
  BY DEF OfJob
<1>2. /\ IsFiniteSet(OfJob(S, j)) /\ Cardinality(OfJob(S, j)) \in Nat
      /\ Cardinality(OfJob(S, j) \cup {x}) =
           IF x \in OfJob(S, j) THEN Cardinality(OfJob(S, j)) ELSE Cardinality(OfJob(S, j)) + 1
  BY OfJobSize, FS_AddElement
<1>3. ChunksOf(S \cup {x}, j) = ChunksOf(S, j) \cup {x.chunk}
  BY <1>1 DEF ChunksOf
<1>4. Cardinality(OfJob(S, j) \cup {x}) \in Nat
      /\ Cardinality(OfJob(S, j) \cup {x}) <= Cardinality(OfJob(S, j)) + 1
  BY <1>2
<1> QED
  BY <1>1, <1>3, <1>4

(* The same of the requests in a queue.                                    *)
LEMMA FetchesSize ==
  ASSUME NEW q \in Seq(CtrlMsg), NEW j
  PROVE  /\ IsFiniteSet(Fetches(q, j)) /\ Cardinality(Fetches(q, j)) \in Nat
         /\ IsFiniteSet(AskedIn(q, j)) /\ Cardinality(AskedIn(q, j)) \in Nat
         /\ Cardinality(AskedIn(q, j)) <= Cardinality(Fetches(q, j))
         /\ Cardinality(Fetches(q, j)) <= Len(q)
         /\ Cardinality(Fetches(q, j)) = 0 => AskedIn(q, j) = {}
<1>1. Fetches(q, j) \in SUBSET (1 .. Len(q)) /\ Len(q) \in Nat
  BY DEF Fetches
<1>2. /\ IsFiniteSet(1 .. Len(q)) /\ Cardinality(1 .. Len(q)) = Len(q)
  BY <1>1, FS_Interval
<1>3. IsFiniteSet(Fetches(q, j)) /\ Cardinality(Fetches(q, j)) <= Len(q)
  BY <1>1, <1>2, FS_Subset
<1> DEFINE f == [i \in Fetches(q, j) |-> q[i].arg]
<1>4. f \in Surjection(Fetches(q, j), AskedIn(q, j))
  BY DEF Surjection, AskedIn
<1> HIDE DEF f
<1>5. IsFiniteSet(AskedIn(q, j)) /\ Cardinality(AskedIn(q, j)) <= Cardinality(Fetches(q, j))
  BY <1>3, <1>4, FS_Surjection
<1>6. Cardinality(Fetches(q, j)) = 0 => AskedIn(q, j) = {}
  BY <1>3, FS_EmptySet DEF AskedIn
<1> QED
  BY <1>3, <1>5, <1>6, FS_CardinalityType

(* A message joins a queue: a FetchReq adds one request of its job,        *)
(* anything else none.                                                     *)
LEMMA JoinsQueue ==
  ASSUME NEW q \in Seq(CtrlMsg), NEW m \in CtrlMsg, NEW j
  PROVE  /\ ~(m.type = "fetch" /\ m.job = j) =>
              /\ Fetches(Append(q, m), j) = Fetches(q, j)
              /\ AskedIn(Append(q, m), j) = AskedIn(q, j)
         /\ m.type = "fetch" /\ m.job = j =>
              /\ Cardinality(Fetches(Append(q, m), j)) = Cardinality(Fetches(q, j)) + 1
              /\ AskedIn(Append(q, m), j) = AskedIn(q, j) \cup {m.arg}
<1> DEFINE n == Len(q) + 1
           p == Append(q, m)
<1>1. /\ DOMAIN p = 1 .. n /\ DOMAIN q = 1 .. (n - 1) /\ n \in Nat \ {0}
      /\ p[n] = m /\ \A i \in 1 .. (n - 1) : p[i] = q[i]
  OBVIOUS
<1> HIDE DEF n, p
<1>2. ASSUME ~(m.type = "fetch" /\ m.job = j)
      PROVE  Fetches(p, j) = Fetches(q, j) /\ AskedIn(p, j) = AskedIn(q, j)
  <2>1. Fetches(p, j) = Fetches(q, j)
    BY <1>1, <1>2 DEF Fetches
  <2>2. \A i \in Fetches(q, j) : p[i] = q[i]
    BY <1>1 DEF Fetches
  <2> QED
    BY <2>1, <2>2 DEF AskedIn
<1>3. ASSUME m.type = "fetch" /\ m.job = j
      PROVE  /\ Cardinality(Fetches(p, j)) = Cardinality(Fetches(q, j)) + 1
             /\ AskedIn(p, j) = AskedIn(q, j) \cup {m.arg}
  <2>1. Fetches(p, j) = Fetches(q, j) \cup {n} /\ n \notin Fetches(q, j)
    BY <1>1, <1>3 DEF Fetches
  <2>2. \A i \in Fetches(q, j) : p[i] = q[i]
    BY <1>1 DEF Fetches
  <2>3. AskedIn(p, j) = AskedIn(q, j) \cup {m.arg}
    BY <1>1, <2>1, <2>2 DEF AskedIn
  <2>4. IsFiniteSet(Fetches(q, j))
    BY FetchesSize
  <2>5. Cardinality(Fetches(q, j) \cup {n}) = Cardinality(Fetches(q, j)) + 1
    BY <2>1, <2>4, FS_AddElement
  <2> QED
    BY <2>1, <2>3, <2>5
<1> QED
  BY <1>2, <1>3 DEF p

(* The first message leaves a queue: a FetchReq takes one request of its   *)
(* job with it, anything else none.                                        *)
LEMMA LeavesQueue ==
  ASSUME NEW q \in Seq(CtrlMsg), q # <<>>, NEW j
  PROVE  LET m == Head(q) IN
         /\ ~(m.type = "fetch" /\ m.job = j) =>
              /\ Cardinality(Fetches(Tail(q), j)) = Cardinality(Fetches(q, j))
              /\ AskedIn(Tail(q), j) = AskedIn(q, j)
         /\ m.type = "fetch" /\ m.job = j =>
              /\ Cardinality(Fetches(Tail(q), j)) = Cardinality(Fetches(q, j)) - 1
              /\ AskedIn(q, j) = AskedIn(Tail(q), j) \cup {m.arg}
<1> DEFINE n == Len(q)
           p == Tail(q)
           m == Head(q)
           Old == Fetches(q, j)
           New == Fetches(p, j)
           f == [i \in Old \ {1} |-> i - 1]
<1>1. /\ DOMAIN q = 1 .. n /\ DOMAIN p = 1 .. (n - 1) /\ n \in Nat \ {0}
      /\ q[1] = m /\ (\A i \in 1 .. (n - 1) : p[i] = q[i + 1]) /\ p \in Seq(CtrlMsg)
  OBVIOUS
<1> HIDE DEF n, p, m
<1>2. 1 \in Old <=> m.type = "fetch" /\ m.job = j
  BY <1>1 DEF Fetches
<1>3. /\ \A i \in Old \ {1} : i \in Nat /\ i - 1 \in New /\ p[i - 1] = q[i]
      /\ \A i \in New : i \in Nat /\ i + 1 \in Old \ {1} /\ p[i] = q[i + 1]
  BY <1>1 DEF Fetches
<1>4. f \in Bijection(Old \ {1}, New)
  <2>1. f \in [Old \ {1} -> New] /\ \A i, k \in Old \ {1} : f[i] = f[k] => i = k
    BY <1>3
  <2>2. \A i \in New : \E k \in Old \ {1} : f[k] = i
    <3> SUFFICES ASSUME NEW i \in New PROVE \E k \in Old \ {1} : f[k] = i
      OBVIOUS
    <3>1. i + 1 \in Old \ {1} /\ (i + 1) - 1 = i
      BY <1>3
    <3>2. f[i + 1] = i
      BY <3>1
    <3> QED
      BY <3>1, <3>2
  <2> QED
    BY <2>1, <2>2 DEF Bijection, Injection, Surjection, IsInjective
<1>5. IsFiniteSet(Old)
  BY FetchesSize
<1>6. /\ \A i \in Old \ {1} : q[i].arg \in AskedIn(p, j)
      /\ \A i \in New : \E k \in Old \ {1} : q[k].arg = p[i].arg
  BY <1>3 DEF AskedIn
<1>7. AskedIn(p, j) = {q[i].arg : i \in Old \ {1}}
  BY <1>6 DEF AskedIn
<1> HIDE DEF f, New
<1>8. IsFiniteSet(Old \ {1})
      /\ Cardinality(Old \ {1}) = IF 1 \in Old THEN Cardinality(Old) - 1 ELSE Cardinality(Old)
  BY <1>5, FS_RemoveElement
<1>9. Cardinality(New) = Cardinality(Old \ {1})
  BY <1>4, <1>8, FS_Bijection DEF ExistsBijection
<1>10. AskedIn(q, j) = IF 1 \in Old THEN AskedIn(p, j) \cup {m.arg} ELSE AskedIn(p, j)
  BY <1>1, <1>7 DEF AskedIn
<1> QED
  BY <1>2, <1>8, <1>9, <1>10 DEF New, p, m

(* The seven places of the pipeline.                                       *)
LEMMA PipeSizes ==
  ASSUME TypeOK, NEW j
  PROVE  /\ Cardinality(Fetches(wire, j)) \in Nat /\ Cardinality(Fetches(inbound, j)) \in Nat
         /\ Cardinality(OfJob(gated, j)) \in Nat /\ Cardinality(OfJob(sending, j)) \in Nat
         /\ Cardinality(OfJob(uni, j)) \in Nat /\ Cardinality(OfJob(tasks, j)) \in Nat
         /\ Cardinality(OfJob(joinable, j)) \in Nat
         /\ LoadOf(j) \in Nat /\ IsFiniteSet(InPipe(j)) /\ Cardinality(InPipe(j)) \in Nat
         /\ LoadOf(j) = 0 => InPipe(j) = {}
         /\ wire \in Seq(CtrlMsg) /\ inbound \in Seq(CtrlMsg)
         /\ IsFiniteSet(gated) /\ IsFiniteSet(sending) /\ IsFiniteSet(uni)
         /\ IsFiniteSet(tasks) /\ IsFiniteSet(joinable)
<1>1. wire \in Seq(CtrlMsg) /\ inbound \in Seq(CtrlMsg)
  BY DEF TypeOK, NetType, SourceType
<1>2. /\ IsFiniteSet(gated) /\ IsFiniteSet(sending) /\ IsFiniteSet(uni)
      /\ IsFiniteSet(tasks) /\ IsFiniteSet(joinable)
  BY FiniteRecords, FS_Subset DEF TypeOK, NetType, SourceType, BatchType
<1>3. /\ Cardinality(Fetches(wire, j)) \in Nat /\ Cardinality(Fetches(inbound, j)) \in Nat
      /\ IsFiniteSet(AskedIn(wire, j)) /\ IsFiniteSet(AskedIn(inbound, j))
      /\ Cardinality(Fetches(wire, j)) = 0 => AskedIn(wire, j) = {}
      /\ Cardinality(Fetches(inbound, j)) = 0 => AskedIn(inbound, j) = {}
  BY <1>1, FetchesSize
<1>4. /\ Cardinality(OfJob(gated, j)) \in Nat /\ Cardinality(OfJob(sending, j)) \in Nat
      /\ Cardinality(OfJob(uni, j)) \in Nat /\ Cardinality(OfJob(tasks, j)) \in Nat
      /\ Cardinality(OfJob(joinable, j)) \in Nat
      /\ IsFiniteSet(ChunksOf(gated, j)) /\ IsFiniteSet(ChunksOf(sending, j))
      /\ IsFiniteSet(ChunksOf(uni, j)) /\ IsFiniteSet(ChunksOf(tasks, j))
      /\ IsFiniteSet(ChunksOf(joinable, j))
  BY <1>2, OfJobSize
<1>5. /\ Cardinality(OfJob(gated, j)) = 0 => ChunksOf(gated, j) = {}
      /\ Cardinality(OfJob(sending, j)) = 0 => ChunksOf(sending, j) = {}
      /\ Cardinality(OfJob(uni, j)) = 0 => ChunksOf(uni, j) = {}
      /\ Cardinality(OfJob(tasks, j)) = 0 => ChunksOf(tasks, j) = {}
      /\ Cardinality(OfJob(joinable, j)) = 0 => ChunksOf(joinable, j) = {}
  BY <1>2, OfJobSize
<1>6. /\ Cardinality(Fetches(wire, j)) \in Nat /\ Cardinality(Fetches(inbound, j)) \in Nat
      /\ Cardinality(OfJob(gated, j)) \in Nat /\ Cardinality(OfJob(sending, j)) \in Nat
      /\ Cardinality(OfJob(uni, j)) \in Nat /\ Cardinality(OfJob(tasks, j)) \in Nat
      /\ Cardinality(OfJob(joinable, j)) \in Nat
      /\ LoadOf(j) \in Nat
  BY <1>3, <1>4 DEF LoadOf
<1>7. IsFiniteSet(InPipe(j))
  <2>1. /\ IsFiniteSet(AskedIn(wire, j) \cup AskedIn(inbound, j))
        /\ IsFiniteSet(ChunksOf(gated, j) \cup ChunksOf(sending, j))
        /\ IsFiniteSet(ChunksOf(uni, j) \cup ChunksOf(tasks, j))
    BY <1>3, <1>4, FS_Union
  <2>2. IsFiniteSet((AskedIn(wire, j) \cup AskedIn(inbound, j))
                    \cup (ChunksOf(gated, j) \cup ChunksOf(sending, j)))
    BY <2>1, FS_Union
  <2>3. IsFiniteSet((ChunksOf(uni, j) \cup ChunksOf(tasks, j)) \cup ChunksOf(joinable, j))
    BY <1>4, <2>1, FS_Union
  <2>4. IsFiniteSet(((AskedIn(wire, j) \cup AskedIn(inbound, j))
                     \cup (ChunksOf(gated, j) \cup ChunksOf(sending, j)))
                    \cup ((ChunksOf(uni, j) \cup ChunksOf(tasks, j)) \cup ChunksOf(joinable, j)))
    BY <2>2, <2>3, FS_Union
  <2>5. InPipe(j) = ((AskedIn(wire, j) \cup AskedIn(inbound, j))
                     \cup (ChunksOf(gated, j) \cup ChunksOf(sending, j)))
                    \cup ((ChunksOf(uni, j) \cup ChunksOf(tasks, j)) \cup ChunksOf(joinable, j))
    BY DEF InPipe
  <2> QED
    BY <2>4, <2>5
<1>8. ASSUME LoadOf(j) = 0 PROVE InPipe(j) = {}
  <2> DEFINE a == Cardinality(Fetches(wire, j))    b == Cardinality(Fetches(inbound, j))
             c == Cardinality(OfJob(gated, j))     d == Cardinality(OfJob(sending, j))
             e == Cardinality(OfJob(uni, j))       f == Cardinality(OfJob(tasks, j))
             g == Cardinality(OfJob(joinable, j))
  <2>1. /\ a \in Nat /\ b \in Nat /\ c \in Nat /\ d \in Nat /\ e \in Nat /\ f \in Nat /\ g \in Nat
        /\ a + b + c + d + e + f + g = 0
    BY <1>6, <1>8 DEF LoadOf
  <2> HIDE DEF a, b, c, d, e, f, g
  <2>2. a = 0 /\ b = 0 /\ c = 0 /\ d = 0 /\ e = 0 /\ f = 0 /\ g = 0
    BY <2>1
  <2> QED
    BY <1>3, <1>5, <2>2 DEF InPipe, a, b, c, d, e, f, g
<1> QED
  BY <1>1, <1>2, <1>3, <1>4, <1>6, <1>7, <1>8, FS_CardinalityType

(* The same after a step.                                                  *)
LEMMA NextSizes ==
  ASSUME TypeOK', NEW j
  PROVE  /\ Cardinality(Fetches(wire', j)) \in Nat /\ Cardinality(Fetches(inbound', j)) \in Nat
         /\ Cardinality(OfJob(gated', j)) \in Nat /\ Cardinality(OfJob(sending', j)) \in Nat
         /\ Cardinality(OfJob(uni', j)) \in Nat /\ Cardinality(OfJob(tasks', j)) \in Nat
         /\ Cardinality(OfJob(joinable', j)) \in Nat
         /\ LoadOf(j)' \in Nat
<1>1. wire' \in Seq(CtrlMsg) /\ inbound' \in Seq(CtrlMsg)
  BY DEF TypeOK, NetType, SourceType
<1>2. /\ IsFiniteSet(gated') /\ IsFiniteSet(sending') /\ IsFiniteSet(uni')
      /\ IsFiniteSet(tasks') /\ IsFiniteSet(joinable')
  BY FiniteRecords, FS_Subset DEF TypeOK, NetType, SourceType, BatchType
<1>3. Cardinality(Fetches(wire', j)) \in Nat /\ Cardinality(Fetches(inbound', j)) \in Nat
  BY <1>1, FetchesSize
<1>4. /\ Cardinality(OfJob(gated', j)) \in Nat /\ Cardinality(OfJob(sending', j)) \in Nat
      /\ Cardinality(OfJob(uni', j)) \in Nat /\ Cardinality(OfJob(tasks', j)) \in Nat
      /\ Cardinality(OfJob(joinable', j)) \in Nat
  BY <1>2, OfJobSize
<1> QED
  BY <1>3, <1>4 DEF LoadOf

(* A pipeline with no load has no chunk in it, after a step too.           *)
LEMMA EmptyNext ==
  ASSUME TypeOK', NEW j, LoadOf(j)' = 0
  PROVE  InPipe(j)' = {}
<1>1. wire' \in Seq(CtrlMsg) /\ inbound' \in Seq(CtrlMsg)
  BY DEF TypeOK, NetType, SourceType
<1>2. /\ IsFiniteSet(gated') /\ IsFiniteSet(sending') /\ IsFiniteSet(uni')
      /\ IsFiniteSet(tasks') /\ IsFiniteSet(joinable')
  BY FiniteRecords, FS_Subset DEF TypeOK, NetType, SourceType, BatchType
<1> DEFINE a == Cardinality(Fetches(wire', j))    b == Cardinality(Fetches(inbound', j))
           c == Cardinality(OfJob(gated', j))     d == Cardinality(OfJob(sending', j))
           e == Cardinality(OfJob(uni', j))       f == Cardinality(OfJob(tasks', j))
           g == Cardinality(OfJob(joinable', j))
<1>3. /\ a \in Nat /\ b \in Nat /\ c \in Nat /\ d \in Nat /\ e \in Nat /\ f \in Nat /\ g \in Nat
      /\ a + b + c + d + e + f + g = 0
  BY NextSizes DEF LoadOf
<1> HIDE DEF a, b, c, d, e, f, g
<1>4. a = 0 /\ b = 0 /\ c = 0 /\ d = 0 /\ e = 0 /\ f = 0 /\ g = 0
  BY <1>3
<1>5. AskedIn(wire', j) = {} /\ AskedIn(inbound', j) = {}
  BY <1>1, <1>4, FetchesSize DEF a, b
<1>6. /\ ChunksOf(gated', j) = {} /\ ChunksOf(sending', j) = {} /\ ChunksOf(uni', j) = {}
      /\ ChunksOf(tasks', j) = {} /\ ChunksOf(joinable', j) = {}
  BY <1>2, <1>4, OfJobSize DEF c, d, e, f, g
<1> QED
  BY <1>5, <1>6 DEF InPipe

(* Two ways to shrink: nothing is lost, or one chunk is.                   *)
LEMMA StaysOrLoses ==
  ASSUME TypeOK, TypeOK', NEW j
  PROVE  /\ InPipe(j)' = InPipe(j) /\ LoadOf(j)' <= LoadOf(j) => Shrinks(j)
         /\ \A c : InPipe(j)' \subseteq InPipe(j) /\ InPipe(j) \subseteq InPipe(j)' \cup {c}
                   /\ LoadOf(j)' <= LoadOf(j) - 1 => Shrinks(j)
<1> DEFINE A == InPipe(j)
           B == InPipe(j)'
           m == LoadOf(j)
           n == LoadOf(j)'
<1>1. m \in Nat /\ n \in Nat
  BY PipeSizes, NextSizes
<1>2. Shrinks(j) <=> B \subseteq A /\ n + Cardinality(A \ B) <= m
  BY DEF Shrinks
<1> HIDE DEF A, B, m, n
<1>3. ASSUME B = A, n <= m PROVE Shrinks(j)
  <2>1. A \ B = {}
    BY <1>3
  <2>2. Cardinality(A \ B) = 0
    BY <2>1, FS_EmptySet
  <2> QED
    BY <1>1, <1>2, <1>3, <2>2
<1>4. ASSUME NEW c, B \subseteq A, A \subseteq B \cup {c}, n <= m - 1 PROVE Shrinks(j)
  <2>1. A \ B = {} \/ A \ B = {c}
    BY <1>4
  <2>2. Cardinality(A \ B) = 0 \/ Cardinality(A \ B) = 1
    BY <2>1, FS_EmptySet, FS_Singleton
  <2> QED
    BY <1>1, <1>2, <1>4, <2>2
<1> QED
  BY <1>3, <1>4 DEF A, B, m, n

-----------------------------------------------------------------------------
(* The steps, by what they do to the pipeline.                             *)

(* A step that sends no request, and one that also aborts the block tasks. *)
LEMMA Sends ==
  ASSUME TypeOK, NEW j,
         \/ wire' = wire
         \/ \E e \in CtrlMsg : e.type # "fetch" /\ wire' = Append(wire, e)
  PROVE  Fetches(wire', j) = Fetches(wire, j) /\ AskedIn(wire', j) = AskedIn(wire, j)
<1>1. CASE wire' = wire
  BY <1>1
<1>2. ASSUME NEW e \in CtrlMsg, e.type # "fetch", wire' = Append(wire, e)
      PROVE  Fetches(wire', j) = Fetches(wire, j) /\ AskedIn(wire', j) = AskedIn(wire, j)
  BY <1>2, JoinsQueue DEF TypeOK, NetType
<1> QED
  BY <1>1, <1>2

Elsewhere == UNCHANGED <<inbound, gated, sending, uni>>

(* A step that sends no FetchReq and touches no stream leaves what is under*)
(* way for a job, or ends the job's block tasks.                           *)
LEMMA NoRequest ==
  ASSUME TypeOK, TypeOK', NEW j, Elsewhere,
         \/ wire' = wire
         \/ \E e \in CtrlMsg : e.type # "fetch" /\ wire' = Append(wire, e)
  PROVE  /\ UNCHANGED <<tasks, joinable>> => InPipe(j)' = InPipe(j) /\ LoadOf(j)' = LoadOf(j)
         /\ tasks' = {} /\ joinable' = {} => LoadOf(j)' <= LoadOf(j)
<1>1. Fetches(wire', j) = Fetches(wire, j) /\ AskedIn(wire', j) = AskedIn(wire, j)
  BY Sends
<1>2. ASSUME UNCHANGED <<tasks, joinable>>
      PROVE  InPipe(j)' = InPipe(j) /\ LoadOf(j)' = LoadOf(j)
  BY <1>1, <1>2 DEF InPipe, LoadOf, Elsewhere
<1>3. ASSUME tasks' = {}, joinable' = {} PROVE LoadOf(j)' <= LoadOf(j)
  <2>1. OfJob(tasks', j) = {} /\ OfJob(joinable', j) = {}
    BY <1>3 DEF OfJob
  <2>2. Cardinality(OfJob(tasks', j)) = 0 /\ Cardinality(OfJob(joinable', j)) = 0
    BY <2>1, FS_EmptySet
  <2>3. /\ Cardinality(Fetches(wire, j)) \in Nat /\ Cardinality(Fetches(inbound, j)) \in Nat
        /\ Cardinality(OfJob(gated, j)) \in Nat /\ Cardinality(OfJob(sending, j)) \in Nat
        /\ Cardinality(OfJob(uni, j)) \in Nat /\ Cardinality(OfJob(tasks, j)) \in Nat
        /\ Cardinality(OfJob(joinable, j)) \in Nat
    BY PipeSizes
  <2>4. /\ Fetches(inbound', j) = Fetches(inbound, j) /\ OfJob(gated', j) = OfJob(gated, j)
        /\ OfJob(sending', j) = OfJob(sending, j) /\ OfJob(uni', j) = OfJob(uni, j)
    BY DEF Elsewhere
  <2> QED
    BY <1>1, <2>2, <2>3, <2>4 DEF LoadOf
<1> QED
  BY <1>2, <1>3

(* A request goes from one place to the next, or is dropped there.         *)
LEMMA Passes ==
  ASSUME NEW S, NEW T, IsFiniteSet(S), IsFiniteSet(T), NEW x \in S, NEW y,
         y.job = x.job, y.chunk = x.chunk, NEW j
  PROVE  /\ ChunksOf(S \ {x}, j) \cup ChunksOf(T \cup {y}, j) = ChunksOf(S, j) \cup ChunksOf(T, j)
         /\ Cardinality(OfJob(S \ {x}, j)) + Cardinality(OfJob(T \cup {y}, j))
              <= Cardinality(OfJob(S, j)) + Cardinality(OfJob(T, j))
<1>1. Cardinality(OfJob(S, j)) \in Nat /\ Cardinality(OfJob(T, j)) \in Nat
  BY OfJobSize
<1>2. CASE x.job # j
  <2>1. OfJob(S \ {x}, j) = OfJob(S, j) /\ ChunksOf(S \ {x}, j) = ChunksOf(S, j)
    BY <1>2, LeavesSet
  <2>2. OfJob(T \cup {y}, j) = OfJob(T, j) /\ ChunksOf(T \cup {y}, j) = ChunksOf(T, j)
    BY <1>2 DEF OfJob, ChunksOf
  <2> QED
    BY <1>1, <2>1, <2>2
<1>3. CASE x.job = j
  <2>1. /\ Cardinality(OfJob(S \ {x}, j)) = Cardinality(OfJob(S, j)) - 1
        /\ ChunksOf(S, j) = ChunksOf(S \ {x}, j) \cup {x.chunk}
    BY <1>3, LeavesSet
  <2>2. y.job = j
    BY <1>3
  <2>3. /\ Cardinality(OfJob(T \cup {y}, j)) \in Nat
        /\ Cardinality(OfJob(T \cup {y}, j)) <= Cardinality(OfJob(T, j)) + 1
        /\ ChunksOf(T \cup {y}, j) = ChunksOf(T, j) \cup {y.chunk}
    BY <2>2, EntersSet
  <2>4. Cardinality(OfJob(S \ {x}, j)) + Cardinality(OfJob(T \cup {y}, j))
          <= Cardinality(OfJob(S, j)) + Cardinality(OfJob(T, j))
    BY <1>1, <2>1, <2>3
  <2>5. ChunksOf(S \ {x}, j) \cup ChunksOf(T \cup {y}, j) = ChunksOf(S, j) \cup ChunksOf(T, j)
    BY <2>1, <2>3
  <2> QED
    BY <2>4, <2>5
<1> QED
  BY <1>2, <1>3

(* All the counts of what is under way are natural numbers.                *)
LEMMA Counts ==
  ASSUME TypeOK, TypeOK', NEW j
  PROVE  /\ Cardinality(Fetches(wire, j)) \in Nat /\ Cardinality(Fetches(inbound, j)) \in Nat
         /\ Cardinality(OfJob(gated, j)) \in Nat /\ Cardinality(OfJob(sending, j)) \in Nat
         /\ Cardinality(OfJob(uni, j)) \in Nat /\ Cardinality(OfJob(tasks, j)) \in Nat
         /\ Cardinality(OfJob(joinable, j)) \in Nat
         /\ Cardinality(Fetches(wire', j)) \in Nat /\ Cardinality(Fetches(inbound', j)) \in Nat
         /\ Cardinality(OfJob(gated', j)) \in Nat /\ Cardinality(OfJob(sending', j)) \in Nat
         /\ Cardinality(OfJob(uni', j)) \in Nat /\ Cardinality(OfJob(tasks', j)) \in Nat
         /\ Cardinality(OfJob(joinable', j)) \in Nat
BY PipeSizes, NextSizes

(* A stream is accepted, a block task ends, a serving task starts and ends.*)
LEMMA AcceptMoves ==
  ASSUME TypeOK, TypeOK', NEW x \in uni, AcceptStream(x), NEW j
  PROVE  Shrinks(j) /\ InPipe(j)' = InPipe(j)
<1>1. uni' = uni \ {x} /\ tasks' = tasks \cup {x}
  BY DEF AcceptStream, srcVars, rowVars, flagVars
<1>2. UNCHANGED <<wire, inbound, gated, sending, joinable>>
  BY DEF AcceptStream, srcVars, rowVars, flagVars
<1>3. IsFiniteSet(uni) /\ IsFiniteSet(tasks)
  BY PipeSizes
<1>4. /\ ChunksOf(uni', j) \cup ChunksOf(tasks', j) = ChunksOf(uni, j) \cup ChunksOf(tasks, j)
      /\ Cardinality(OfJob(uni', j)) + Cardinality(OfJob(tasks', j))
           <= Cardinality(OfJob(uni, j)) + Cardinality(OfJob(tasks, j))
  <2>1. /\ ChunksOf(uni \ {x}, j) \cup ChunksOf(tasks \cup {x}, j)
             = ChunksOf(uni, j) \cup ChunksOf(tasks, j)
        /\ Cardinality(OfJob(uni \ {x}, j)) + Cardinality(OfJob(tasks \cup {x}, j))
             <= Cardinality(OfJob(uni, j)) + Cardinality(OfJob(tasks, j))
    BY <1>3, Passes
  <2> QED
    BY <1>1, <2>1
<1>5. InPipe(j)' = InPipe(j)
  BY <1>2, <1>4 DEF InPipe
<1>6. /\ Cardinality(Fetches(wire', j)) = Cardinality(Fetches(wire, j))
      /\ Cardinality(Fetches(inbound', j)) = Cardinality(Fetches(inbound, j))
      /\ Cardinality(OfJob(gated', j)) = Cardinality(OfJob(gated, j))
      /\ Cardinality(OfJob(sending', j)) = Cardinality(OfJob(sending, j))
      /\ Cardinality(OfJob(joinable', j)) = Cardinality(OfJob(joinable, j))
  BY <1>2
<1>7. LoadOf(j)' <= LoadOf(j)
  BY <1>4, <1>6, Counts DEF LoadOf
<1> QED
  BY <1>5, <1>7, StaysOrLoses

(* A block task that ends hands its chunk to the loop that joins it.       *)
LEMMA RunMoves ==
  ASSUME TypeOK, TypeOK', NEW x \in tasks, RunTask(x), NEW j
  PROVE  Shrinks(j) /\ InPipe(j)' = InPipe(j)
<1> DEFINE y == [job |-> x.job, chunk |-> x.chunk, res |-> Outcome(x)]
<1>1. tasks' = tasks \ {x} /\ joinable' = joinable \cup {y}
  BY DEF RunTask, Finish, netVars, srcVars
<1>2. UNCHANGED <<wire, inbound, gated, sending, uni>>
  BY DEF RunTask, Finish, netVars, srcVars
<1>3. IsFiniteSet(tasks) /\ IsFiniteSet(joinable)
  BY PipeSizes
<1>y. y.job = x.job /\ y.chunk = x.chunk
  OBVIOUS
<1> HIDE DEF y
<1>4. /\ ChunksOf(tasks', j) \cup ChunksOf(joinable', j) = ChunksOf(tasks, j) \cup ChunksOf(joinable, j)
      /\ Cardinality(OfJob(tasks', j)) + Cardinality(OfJob(joinable', j))
           <= Cardinality(OfJob(tasks, j)) + Cardinality(OfJob(joinable, j))
  <2>1. /\ ChunksOf(tasks \ {x}, j) \cup ChunksOf(joinable \cup {y}, j)
             = ChunksOf(tasks, j) \cup ChunksOf(joinable, j)
        /\ Cardinality(OfJob(tasks \ {x}, j)) + Cardinality(OfJob(joinable \cup {y}, j))
             <= Cardinality(OfJob(tasks, j)) + Cardinality(OfJob(joinable, j))
    BY <1>3, <1>y, Passes
  <2> QED
    BY <1>1, <2>1
<1>5. InPipe(j)' = InPipe(j)
  BY <1>2, <1>4 DEF InPipe
<1>6. /\ Cardinality(Fetches(wire', j)) = Cardinality(Fetches(wire, j))
      /\ Cardinality(Fetches(inbound', j)) = Cardinality(Fetches(inbound, j))
      /\ Cardinality(OfJob(gated', j)) = Cardinality(OfJob(gated, j))
      /\ Cardinality(OfJob(sending', j)) = Cardinality(OfJob(sending, j))
      /\ Cardinality(OfJob(uni', j)) = Cardinality(OfJob(uni, j))
  BY <1>2
<1>7. LoadOf(j)' <= LoadOf(j)
  BY <1>4, <1>6, Counts DEF LoadOf
<1> QED
  BY <1>5, <1>7, StaysOrLoses

(* So does one that fails.                                                 *)
LEMMA FailMoves ==
  ASSUME TypeOK, TypeOK', NEW x \in tasks, TaskFails(x), NEW j
  PROVE  Shrinks(j) /\ InPipe(j)' = InPipe(j)
<1> DEFINE y == [job |-> x.job, chunk |-> x.chunk, res |-> "io"]
<1>1. tasks' = tasks \ {x} /\ joinable' = joinable \cup {y}
  BY DEF TaskFails, Finish, netVars, srcVars
<1>2. UNCHANGED <<wire, inbound, gated, sending, uni>>
  BY DEF TaskFails, Finish, netVars, srcVars
<1>3. IsFiniteSet(tasks) /\ IsFiniteSet(joinable)
  BY PipeSizes
<1>y. y.job = x.job /\ y.chunk = x.chunk
  OBVIOUS
<1> HIDE DEF y
<1>4. /\ ChunksOf(tasks', j) \cup ChunksOf(joinable', j) = ChunksOf(tasks, j) \cup ChunksOf(joinable, j)
      /\ Cardinality(OfJob(tasks', j)) + Cardinality(OfJob(joinable', j))
           <= Cardinality(OfJob(tasks, j)) + Cardinality(OfJob(joinable, j))
  <2>1. /\ ChunksOf(tasks \ {x}, j) \cup ChunksOf(joinable \cup {y}, j)
             = ChunksOf(tasks, j) \cup ChunksOf(joinable, j)
        /\ Cardinality(OfJob(tasks \ {x}, j)) + Cardinality(OfJob(joinable \cup {y}, j))
             <= Cardinality(OfJob(tasks, j)) + Cardinality(OfJob(joinable, j))
    BY <1>3, <1>y, Passes
  <2> QED
    BY <1>1, <2>1
<1>5. InPipe(j)' = InPipe(j)
  BY <1>2, <1>4 DEF InPipe
<1>6. /\ Cardinality(Fetches(wire', j)) = Cardinality(Fetches(wire, j))
      /\ Cardinality(Fetches(inbound', j)) = Cardinality(Fetches(inbound, j))
      /\ Cardinality(OfJob(gated', j)) = Cardinality(OfJob(gated, j))
      /\ Cardinality(OfJob(sending', j)) = Cardinality(OfJob(sending, j))
      /\ Cardinality(OfJob(uni', j)) = Cardinality(OfJob(uni, j))
  BY <1>2
<1>7. LoadOf(j)' <= LoadOf(j)
  BY <1>4, <1>6, Counts DEF LoadOf
<1> QED
  BY <1>5, <1>7, StaysOrLoses

(* A serving task that leaves the gate carries its request on.             *)
LEMMA StartMoves ==
  ASSUME TypeOK, TypeOK', NEW x \in gated, ServeStart(x), NEW j
  PROVE  Shrinks(j) /\ InPipe(j)' = InPipe(j)
<1>1. gated' = gated \ {x} /\ sending' = sending \cup {x}
  BY DEF ServeStart, rcvVars, netVars, batchVars
<1>2. UNCHANGED <<wire, inbound, uni, tasks, joinable>>
  BY DEF ServeStart, rcvVars, netVars, batchVars
<1>3. IsFiniteSet(gated) /\ IsFiniteSet(sending)
  BY PipeSizes
<1>4. /\ ChunksOf(gated', j) \cup ChunksOf(sending', j) = ChunksOf(gated, j) \cup ChunksOf(sending, j)
      /\ Cardinality(OfJob(gated', j)) + Cardinality(OfJob(sending', j))
           <= Cardinality(OfJob(gated, j)) + Cardinality(OfJob(sending, j))
  <2>1. /\ ChunksOf(gated \ {x}, j) \cup ChunksOf(sending \cup {x}, j)
             = ChunksOf(gated, j) \cup ChunksOf(sending, j)
        /\ Cardinality(OfJob(gated \ {x}, j)) + Cardinality(OfJob(sending \cup {x}, j))
             <= Cardinality(OfJob(gated, j)) + Cardinality(OfJob(sending, j))
    BY <1>3, Passes
  <2> QED
    BY <1>1, <2>1
<1>5. InPipe(j)' = InPipe(j)
  BY <1>2, <1>4 DEF InPipe
<1>6. /\ Cardinality(Fetches(wire', j)) = Cardinality(Fetches(wire, j))
      /\ Cardinality(Fetches(inbound', j)) = Cardinality(Fetches(inbound, j))
      /\ Cardinality(OfJob(uni', j)) = Cardinality(OfJob(uni, j))
      /\ Cardinality(OfJob(tasks', j)) = Cardinality(OfJob(tasks, j))
      /\ Cardinality(OfJob(joinable', j)) = Cardinality(OfJob(joinable, j))
  BY <1>2
<1>7. LoadOf(j)' <= LoadOf(j)
  BY <1>4, <1>6, Counts DEF LoadOf
<1> QED
  BY <1>5, <1>7, StaysOrLoses

(* A block that is sent is a stream on the connection.                     *)
LEMMA DoneMoves ==
  ASSUME TypeOK, TypeOK', NEW x \in sending, ServeDone(x), NEW j
  PROVE  Shrinks(j) /\ InPipe(j)' = InPipe(j)
<1> DEFINE y == [job |-> x.job, chunk |-> x.chunk, ver |-> fileVer]
<1>1. sending' = sending \ {x} /\ uni' = uni \cup {y}
  BY DEF ServeDone, rcvVars, batchVars
<1>2. UNCHANGED <<wire, inbound, gated, tasks, joinable>>
  BY DEF ServeDone, rcvVars, batchVars
<1>3. IsFiniteSet(sending) /\ IsFiniteSet(uni)
  BY PipeSizes
<1>y. y.job = x.job /\ y.chunk = x.chunk
  OBVIOUS
<1> HIDE DEF y
<1>4. /\ ChunksOf(sending', j) \cup ChunksOf(uni', j) = ChunksOf(sending, j) \cup ChunksOf(uni, j)
      /\ Cardinality(OfJob(sending', j)) + Cardinality(OfJob(uni', j))
           <= Cardinality(OfJob(sending, j)) + Cardinality(OfJob(uni, j))
  <2>1. /\ ChunksOf(sending \ {x}, j) \cup ChunksOf(uni \cup {y}, j)
             = ChunksOf(sending, j) \cup ChunksOf(uni, j)
        /\ Cardinality(OfJob(sending \ {x}, j)) + Cardinality(OfJob(uni \cup {y}, j))
             <= Cardinality(OfJob(sending, j)) + Cardinality(OfJob(uni, j))
    BY <1>3, <1>y, Passes
  <2> QED
    BY <1>1, <2>1
<1>5. InPipe(j)' = InPipe(j)
  BY <1>2, <1>4 DEF InPipe
<1>6. /\ Cardinality(Fetches(wire', j)) = Cardinality(Fetches(wire, j))
      /\ Cardinality(Fetches(inbound', j)) = Cardinality(Fetches(inbound, j))
      /\ Cardinality(OfJob(gated', j)) = Cardinality(OfJob(gated, j))
      /\ Cardinality(OfJob(tasks', j)) = Cardinality(OfJob(tasks, j))
      /\ Cardinality(OfJob(joinable', j)) = Cardinality(OfJob(joinable, j))
  BY <1>2
<1>7. LoadOf(j)' <= LoadOf(j)
  BY <1>4, <1>6, Counts DEF LoadOf
<1> QED
  BY <1>5, <1>7, StaysOrLoses

(* A serving task that gives up loses its chunk.                           *)
LEMMA GivesUp ==
  ASSUME TypeOK, TypeOK', NEW j,
         \/ \E x \in gated : GateAbandon(x)
         \/ \E x \in sending : ServeFails(x)
  PROVE  Shrinks(j)
<1> USE DEF rcvVars, netVars, batchVars
<1>1. ASSUME NEW x \in gated, GateAbandon(x) PROVE Shrinks(j)
  <2>1. gated' = gated \ {x} /\ UNCHANGED <<wire, inbound, sending, uni, tasks, joinable>>
    BY <1>1 DEF GateAbandon
  <2>2. /\ Cardinality(Fetches(wire', j)) = Cardinality(Fetches(wire, j))
        /\ Cardinality(Fetches(inbound', j)) = Cardinality(Fetches(inbound, j))
        /\ Cardinality(OfJob(sending', j)) = Cardinality(OfJob(sending, j))
        /\ Cardinality(OfJob(uni', j)) = Cardinality(OfJob(uni, j))
        /\ Cardinality(OfJob(tasks', j)) = Cardinality(OfJob(tasks, j))
        /\ Cardinality(OfJob(joinable', j)) = Cardinality(OfJob(joinable, j))
    BY <2>1
  <2>3. IsFiniteSet(gated)
    BY PipeSizes
  <2>4. CASE x.job # j
    <3>1. OfJob(gated', j) = OfJob(gated, j) /\ ChunksOf(gated', j) = ChunksOf(gated, j)
      BY <2>1, <2>4 DEF OfJob, ChunksOf
    <3>2. InPipe(j)' = InPipe(j)
      BY <2>1, <3>1 DEF InPipe
    <3>3. LoadOf(j)' <= LoadOf(j)
      BY <2>2, <3>1, Counts DEF LoadOf
    <3> QED
      BY <3>2, <3>3, StaysOrLoses
  <2>5. CASE x.job = j
    <3>1. /\ Cardinality(OfJob(gated \ {x}, j)) = Cardinality(OfJob(gated, j)) - 1
          /\ ChunksOf(gated, j) = ChunksOf(gated \ {x}, j) \cup {x.chunk}
      BY <1>1, <2>3, <2>5, LeavesSet
    <3>2. /\ Cardinality(OfJob(gated', j)) = Cardinality(OfJob(gated, j)) - 1
          /\ ChunksOf(gated, j) = ChunksOf(gated', j) \cup {x.chunk}
      BY <2>1, <3>1
    <3>3. InPipe(j)' \subseteq InPipe(j) /\ InPipe(j) \subseteq InPipe(j)' \cup {x.chunk}
      BY <2>1, <3>2 DEF InPipe
    <3>4. LoadOf(j)' <= LoadOf(j) - 1
      BY <2>2, <3>2, Counts DEF LoadOf
    <3> QED
      BY <3>3, <3>4, StaysOrLoses
  <2> QED
    BY <2>4, <2>5
<1>2. ASSUME NEW x \in sending, ServeFails(x) PROVE Shrinks(j)
  <2>1. sending' = sending \ {x} /\ UNCHANGED <<wire, inbound, gated, uni, tasks, joinable>>
    BY <1>2 DEF ServeFails
  <2>2. /\ Cardinality(Fetches(wire', j)) = Cardinality(Fetches(wire, j))
        /\ Cardinality(Fetches(inbound', j)) = Cardinality(Fetches(inbound, j))
        /\ Cardinality(OfJob(gated', j)) = Cardinality(OfJob(gated, j))
        /\ Cardinality(OfJob(uni', j)) = Cardinality(OfJob(uni, j))
        /\ Cardinality(OfJob(tasks', j)) = Cardinality(OfJob(tasks, j))
        /\ Cardinality(OfJob(joinable', j)) = Cardinality(OfJob(joinable, j))
    BY <2>1
  <2>3. IsFiniteSet(sending)
    BY PipeSizes
  <2>4. CASE x.job # j
    <3>1. OfJob(sending', j) = OfJob(sending, j) /\ ChunksOf(sending', j) = ChunksOf(sending, j)
      BY <2>1, <2>4 DEF OfJob, ChunksOf
    <3>2. InPipe(j)' = InPipe(j)
      BY <2>1, <3>1 DEF InPipe
    <3>3. LoadOf(j)' <= LoadOf(j)
      BY <2>2, <3>1, Counts DEF LoadOf
    <3> QED
      BY <3>2, <3>3, StaysOrLoses
  <2>5. CASE x.job = j
    <3>1. /\ Cardinality(OfJob(sending \ {x}, j)) = Cardinality(OfJob(sending, j)) - 1
          /\ ChunksOf(sending, j) = ChunksOf(sending \ {x}, j) \cup {x.chunk}
      BY <1>2, <2>3, <2>5, LeavesSet
    <3>2. /\ Cardinality(OfJob(sending', j)) = Cardinality(OfJob(sending, j)) - 1
          /\ ChunksOf(sending, j) = ChunksOf(sending', j) \cup {x.chunk}
      BY <2>1, <3>1
    <3>3. InPipe(j)' \subseteq InPipe(j) /\ InPipe(j) \subseteq InPipe(j)' \cup {x.chunk}
      BY <2>1, <3>2 DEF InPipe
    <3>4. LoadOf(j)' <= LoadOf(j) - 1
      BY <2>2, <3>2, Counts DEF LoadOf
    <3> QED
      BY <3>3, <3>4, StaysOrLoses
  <2> QED
    BY <2>4, <2>5
<1> QED
  BY <1>1, <1>2

(* The router's queue takes a message or drops it.                         *)
LEMMA DeliverMoves ==
  ASSUME TypeOK, TypeOK', DeliverCtrl, NEW j
  PROVE  /\ Shrinks(j)
         /\ Head(wire).type # "fetch" \/ inbound' # inbound => InPipe(j)' = InPipe(j)
<1> DEFINE m == Head(wire)
<1>1. /\ wire \in Seq(CtrlMsg) /\ inbound \in Seq(CtrlMsg) /\ wire # <<>> /\ m \in CtrlMsg
      /\ wire' = Tail(wire) /\ (inbound' = inbound \/ inbound' = Append(inbound, m))
      /\ UNCHANGED <<gated, sending, uni, tasks, joinable>>
  BY DEF DeliverCtrl, TypeOK, NetType, SourceType, rcvVars, batchVars
<1>2. /\ m.type = "fetch" /\ m.job = j =>
           /\ Cardinality(Fetches(wire', j)) = Cardinality(Fetches(wire, j)) - 1
           /\ AskedIn(wire, j) = AskedIn(wire', j) \cup {m.arg}
      /\ ~(m.type = "fetch" /\ m.job = j) =>
           /\ Cardinality(Fetches(wire', j)) = Cardinality(Fetches(wire, j))
           /\ AskedIn(wire', j) = AskedIn(wire, j)
  BY <1>1, LeavesQueue
<1>m. inbound \in Seq(CtrlMsg) /\ m \in CtrlMsg
  BY <1>1
<1> HIDE DEF m
<1>3. /\ m.type = "fetch" /\ m.job = j =>
           /\ Cardinality(Fetches(Append(inbound, m), j)) = Cardinality(Fetches(inbound, j)) + 1
           /\ AskedIn(Append(inbound, m), j) = AskedIn(inbound, j) \cup {m.arg}
      /\ ~(m.type = "fetch" /\ m.job = j) =>
           /\ Fetches(Append(inbound, m), j) = Fetches(inbound, j)
           /\ AskedIn(Append(inbound, m), j) = AskedIn(inbound, j)
  BY <1>m, JoinsQueue
<1>s. /\ Cardinality(OfJob(gated', j)) = Cardinality(OfJob(gated, j))
      /\ Cardinality(OfJob(sending', j)) = Cardinality(OfJob(sending, j))
      /\ Cardinality(OfJob(uni', j)) = Cardinality(OfJob(uni, j))
      /\ Cardinality(OfJob(tasks', j)) = Cardinality(OfJob(tasks, j))
      /\ Cardinality(OfJob(joinable', j)) = Cardinality(OfJob(joinable, j))
  BY <1>1
<1>4. CASE m.type = "fetch" /\ m.job = j /\ inbound' = Append(inbound, m)
  <2>1. InPipe(j)' = InPipe(j)
    BY <1>1, <1>2, <1>3, <1>4 DEF InPipe
  <2>2. LoadOf(j)' <= LoadOf(j)
    <3>1. /\ Cardinality(Fetches(wire', j)) = Cardinality(Fetches(wire, j)) - 1
          /\ Cardinality(Fetches(inbound', j)) = Cardinality(Fetches(inbound, j)) + 1
      BY <1>2, <1>3, <1>4
    <3> QED
      BY <1>s, <3>1, Counts DEF LoadOf
  <2> QED
    BY <2>1, <2>2, StaysOrLoses DEF m
<1>5. CASE m.type = "fetch" /\ m.job = j /\ inbound' = inbound
  <2>1. InPipe(j)' \subseteq InPipe(j) /\ InPipe(j) \subseteq InPipe(j)' \cup {m.arg}
    BY <1>1, <1>2, <1>5 DEF InPipe
  <2>2. LoadOf(j)' <= LoadOf(j) - 1
    BY <1>s, <1>2, <1>5, Counts DEF LoadOf
  <2> QED
    BY <1>5, <2>1, <2>2, StaysOrLoses DEF m
<1>6. CASE ~(m.type = "fetch" /\ m.job = j)
  <2>1. /\ Cardinality(Fetches(inbound', j)) = Cardinality(Fetches(inbound, j))
        /\ AskedIn(inbound', j) = AskedIn(inbound, j)
    BY <1>1, <1>3, <1>6
  <2>2. InPipe(j)' = InPipe(j)
    BY <1>1, <1>2, <1>6, <2>1 DEF InPipe
  <2>3. LoadOf(j)' <= LoadOf(j)
    BY <1>s, <1>2, <1>6, <2>1, Counts DEF LoadOf
  <2> QED
    BY <2>2, <2>3, StaysOrLoses DEF m
<1> QED
  BY <1>1, <1>4, <1>5, <1>6

(* The router serves a request or drops it.                                *)
LEMMA RouteMoves ==
  ASSUME TypeOK, TypeOK', Route, NEW j
  PROVE  /\ Shrinks(j)
         /\ \/ Head(inbound).type # "fetch"
            \/ gated' = gated \cup {[job |-> Head(inbound).job, chunk |-> Head(inbound).arg]}
            => InPipe(j)' = InPipe(j)
<1> DEFINE m == Head(inbound)
           g == [job |-> m.job, chunk |-> m.arg]
<1>1. /\ inbound \in Seq(CtrlMsg) /\ inbound # <<>> /\ m \in CtrlMsg /\ inbound' = Tail(inbound)
      /\ UNCHANGED <<wire, sending, uni, tasks, joinable>>
  BY DEF Route, TypeOK, SourceType, rcvVars, batchVars
<1>2. gated' = gated \/ (m.type = "fetch" /\ gated' = gated \cup {g})
  BY DEF Route, RouteMeta, RouteFetch, RouteAck, RouteCancel
<1>3. /\ m.type = "fetch" /\ m.job = j =>
           /\ Cardinality(Fetches(inbound', j)) = Cardinality(Fetches(inbound, j)) - 1
           /\ AskedIn(inbound, j) = AskedIn(inbound', j) \cup {m.arg}
      /\ ~(m.type = "fetch" /\ m.job = j) =>
           /\ Cardinality(Fetches(inbound', j)) = Cardinality(Fetches(inbound, j))
           /\ AskedIn(inbound', j) = AskedIn(inbound, j)
  BY <1>1, LeavesQueue
<1>4. g.job = m.job /\ g.chunk = m.arg
  OBVIOUS
<1>s. /\ Cardinality(Fetches(wire', j)) = Cardinality(Fetches(wire, j))
      /\ Cardinality(OfJob(sending', j)) = Cardinality(OfJob(sending, j))
      /\ Cardinality(OfJob(uni', j)) = Cardinality(OfJob(uni, j))
      /\ Cardinality(OfJob(tasks', j)) = Cardinality(OfJob(tasks, j))
      /\ Cardinality(OfJob(joinable', j)) = Cardinality(OfJob(joinable, j))
  BY <1>1
<1> HIDE DEF m, g
<1>5. CASE m.type = "fetch" /\ m.job = j /\ gated' = gated \cup {g}
  <2>1. g.job = j
    BY <1>4, <1>5
  <2>2. /\ Cardinality(OfJob(gated', j)) <= Cardinality(OfJob(gated, j)) + 1
        /\ ChunksOf(gated', j) = ChunksOf(gated, j) \cup {m.arg}
    BY <1>4, <1>5, <2>1, PipeSizes, EntersSet
  <2>3. InPipe(j)' = InPipe(j)
    BY <1>1, <1>3, <1>5, <2>2 DEF InPipe
  <2>4. LoadOf(j)' <= LoadOf(j)
    BY <1>s, <1>3, <1>5, <2>2, Counts DEF LoadOf
  <2> QED
    BY <2>3, <2>4, StaysOrLoses
<1>6. CASE m.type = "fetch" /\ m.job = j /\ gated' = gated /\ gated' # gated \cup {g}
  <2>1. InPipe(j)' \subseteq InPipe(j) /\ InPipe(j) \subseteq InPipe(j)' \cup {m.arg}
    BY <1>1, <1>3, <1>6 DEF InPipe
  <2>2. LoadOf(j)' <= LoadOf(j) - 1
    BY <1>s, <1>3, <1>6, Counts DEF LoadOf
  <2> QED
    BY <1>6, <2>1, <2>2, StaysOrLoses DEF m, g
<1>7. CASE ~(m.type = "fetch" /\ m.job = j)
  <2>1. OfJob(gated', j) = OfJob(gated, j) /\ ChunksOf(gated', j) = ChunksOf(gated, j)
    BY <1>2, <1>4, <1>7 DEF OfJob, ChunksOf
  <2>2. InPipe(j)' = InPipe(j)
    BY <1>1, <1>3, <1>7, <2>1 DEF InPipe
  <2>3. LoadOf(j)' <= LoadOf(j)
    BY <1>s, <1>3, <1>7, <2>1, Counts DEF LoadOf
  <2> QED
    BY <2>2, <2>3, StaysOrLoses
<1> QED
  BY <1>2, <1>5, <1>6, <1>7

(* A union is at most as large as its parts together.                      *)
LEMMA UnionSize ==
  ASSUME NEW S, NEW T, IsFiniteSet(S), IsFiniteSet(T)
  PROVE  /\ IsFiniteSet(S \cup T) /\ Cardinality(S \cup T) <= Cardinality(S) + Cardinality(T)
<1>1. IsFiniteSet(S \cap T) /\ IsFiniteSet(S \cup T)
  BY FS_Subset, FS_Union
<1>2. Cardinality(S \cup T) = Cardinality(S) + Cardinality(T) - Cardinality(S \cap T)
  BY FS_Union
<1>3. Cardinality(S) \in Nat /\ Cardinality(T) \in Nat /\ Cardinality(S \cap T) \in Nat
  BY <1>1, FS_CardinalityType
<1> QED
  BY <1>1, <1>2, <1>3

(* When the connection goes, so does what is on it.                        *)
LEMMA DisconnectDrops ==
  ASSUME TypeOK, TypeOK', Disconnect, NEW j
  PROVE  Shrinks(j)
<1> DEFINE A == AskedIn(wire, j)
           G == ChunksOf(gated, j)
           S == ChunksOf(sending, j)
           U == ChunksOf(uni, j)
           D == InPipe(j) \ InPipe(j)'
<1>1. /\ wire' = <<>> /\ gated' = {} /\ sending' = {} /\ uni' = {}
      /\ UNCHANGED <<inbound, tasks, joinable>>
  BY DEF Disconnect, rcvVars, batchVars
<1>2. /\ Fetches(wire', j) = {} /\ AskedIn(wire', j) = {}
      /\ OfJob(gated', j) = {} /\ OfJob(sending', j) = {} /\ OfJob(uni', j) = {}
      /\ ChunksOf(gated', j) = {} /\ ChunksOf(sending', j) = {} /\ ChunksOf(uni', j) = {}
  BY <1>1 DEF Fetches, AskedIn, OfJob, ChunksOf
<1>3. /\ Cardinality(Fetches(wire', j)) = 0 /\ Cardinality(OfJob(gated', j)) = 0
      /\ Cardinality(OfJob(sending', j)) = 0 /\ Cardinality(OfJob(uni', j)) = 0
  BY <1>2, FS_EmptySet
<1>4. /\ Cardinality(Fetches(inbound', j)) = Cardinality(Fetches(inbound, j))
      /\ Cardinality(OfJob(tasks', j)) = Cardinality(OfJob(tasks, j))
      /\ Cardinality(OfJob(joinable', j)) = Cardinality(OfJob(joinable, j))
  BY <1>1
<1>5. /\ wire \in Seq(CtrlMsg) /\ IsFiniteSet(gated) /\ IsFiniteSet(sending) /\ IsFiniteSet(uni)
  BY PipeSizes
<1>6. /\ IsFiniteSet(A) /\ Cardinality(A) \in Nat
      /\ Cardinality(A) <= Cardinality(Fetches(wire, j))
  BY <1>5, FetchesSize
<1>7. /\ IsFiniteSet(G) /\ Cardinality(G) \in Nat
      /\ Cardinality(G) <= Cardinality(OfJob(gated, j))
  BY <1>5, OfJobSize
<1>8. /\ IsFiniteSet(S) /\ Cardinality(S) \in Nat
      /\ Cardinality(S) <= Cardinality(OfJob(sending, j))
  BY <1>5, OfJobSize
<1>9. /\ IsFiniteSet(U) /\ Cardinality(U) \in Nat
      /\ Cardinality(U) <= Cardinality(OfJob(uni, j))
  BY <1>5, OfJobSize
<1>10. InPipe(j)' \subseteq InPipe(j) /\ D \subseteq (A \cup G) \cup (S \cup U)
  BY <1>1, <1>2 DEF InPipe
<1> HIDE DEF A, G, S, U, D
<1>11. /\ IsFiniteSet(A \cup G) /\ Cardinality(A \cup G) <= Cardinality(A) + Cardinality(G)
       /\ IsFiniteSet(S \cup U) /\ Cardinality(S \cup U) <= Cardinality(S) + Cardinality(U)
  BY <1>6, <1>7, <1>8, <1>9, UnionSize
<1>12. /\ IsFiniteSet((A \cup G) \cup (S \cup U))
       /\ Cardinality((A \cup G) \cup (S \cup U)) <= Cardinality(A \cup G) + Cardinality(S \cup U)
  BY <1>11, UnionSize
<1>13. IsFiniteSet(D) /\ Cardinality(D) <= Cardinality((A \cup G) \cup (S \cup U))
  BY <1>10, <1>12, FS_Subset
<1>14. /\ Cardinality(D) \in Nat /\ Cardinality(A \cup G) \in Nat /\ Cardinality(S \cup U) \in Nat
       /\ Cardinality((A \cup G) \cup (S \cup U)) \in Nat
  BY <1>11, <1>12, <1>13, FS_CardinalityType
<1>15. Cardinality(D) <= Cardinality(Fetches(wire, j)) + Cardinality(OfJob(gated, j))
                          + Cardinality(OfJob(sending, j)) + Cardinality(OfJob(uni, j))
  BY <1>6, <1>7, <1>8, <1>9, <1>11, <1>12, <1>13, <1>14, Counts
<1>16. LoadOf(j)' + Cardinality(D) <= LoadOf(j)
  BY <1>3, <1>4, <1>14, <1>15, Counts DEF LoadOf
<1> QED
  BY <1>10, <1>16 DEF Shrinks, D

(* A task that is joined leaves the pipeline.                              *)
LEMMA JoinLeaves ==
  ASSUME TypeOK, TypeOK', NEW t \in joinable, joinable' = joinable \ {t},
         UNCHANGED <<wire, inbound, gated, sending, uni, tasks>>, NEW j
  PROVE  /\ t.job # j => InPipe(j)' = InPipe(j) /\ LoadOf(j)' = LoadOf(j)
         /\ t.job = j => /\ InPipe(j)' \subseteq InPipe(j)
                         /\ InPipe(j) \subseteq InPipe(j)' \cup {t.chunk}
                         /\ LoadOf(j)' = LoadOf(j) - 1
<1>1. /\ Cardinality(Fetches(wire', j)) = Cardinality(Fetches(wire, j))
      /\ Cardinality(Fetches(inbound', j)) = Cardinality(Fetches(inbound, j))
      /\ Cardinality(OfJob(gated', j)) = Cardinality(OfJob(gated, j))
      /\ Cardinality(OfJob(sending', j)) = Cardinality(OfJob(sending, j))
      /\ Cardinality(OfJob(uni', j)) = Cardinality(OfJob(uni, j))
      /\ Cardinality(OfJob(tasks', j)) = Cardinality(OfJob(tasks, j))
  OBVIOUS
<1>2. IsFiniteSet(joinable)
  BY PipeSizes
<1>3. ASSUME t.job # j PROVE InPipe(j)' = InPipe(j) /\ LoadOf(j)' = LoadOf(j)
  <2>1. OfJob(joinable', j) = OfJob(joinable, j) /\ ChunksOf(joinable', j) = ChunksOf(joinable, j)
    BY <1>3 DEF OfJob, ChunksOf
  <2>2. InPipe(j)' = InPipe(j)
    BY <2>1 DEF InPipe
  <2>3. LoadOf(j)' = LoadOf(j)
    BY <1>1, <2>1, Counts DEF LoadOf
  <2> QED
    BY <2>2, <2>3
<1>4. ASSUME t.job = j
      PROVE  /\ InPipe(j)' \subseteq InPipe(j) /\ InPipe(j) \subseteq InPipe(j)' \cup {t.chunk}
             /\ LoadOf(j)' = LoadOf(j) - 1
  <2>1. /\ Cardinality(OfJob(joinable \ {t}, j)) = Cardinality(OfJob(joinable, j)) - 1
        /\ ChunksOf(joinable, j) = ChunksOf(joinable \ {t}, j) \cup {t.chunk}
    BY <1>2, <1>4, LeavesSet
  <2>2. /\ Cardinality(OfJob(joinable', j)) = Cardinality(OfJob(joinable, j)) - 1
        /\ ChunksOf(joinable, j) = ChunksOf(joinable', j) \cup {t.chunk}
    BY <2>1
  <2>3. InPipe(j)' \subseteq InPipe(j) /\ InPipe(j) \subseteq InPipe(j)' \cup {t.chunk}
    BY <2>2 DEF InPipe
  <2>4. LoadOf(j)' = LoadOf(j) - 1
    BY <1>1, <2>2, Counts DEF LoadOf
  <2> QED
    BY <2>3, <2>4
<1> QED
  BY <1>3, <1>4

(* A FetchReq that is sent is one more under way.                          *)
LEMMA OneMoreRequest ==
  ASSUME TypeOK, TypeOK', NEW j,
         Cardinality(Fetches(wire', j)) = Cardinality(Fetches(wire, j)) + 1,
         Cardinality(Fetches(inbound', j)) = Cardinality(Fetches(inbound, j)),
         Cardinality(OfJob(gated', j)) = Cardinality(OfJob(gated, j)),
         Cardinality(OfJob(sending', j)) = Cardinality(OfJob(sending, j)),
         Cardinality(OfJob(uni', j)) = Cardinality(OfJob(uni, j)),
         Cardinality(OfJob(tasks', j)) = Cardinality(OfJob(tasks, j)),
         Cardinality(OfJob(joinable', j)) = Cardinality(OfJob(joinable, j))
  PROVE  LoadOf(j)' = LoadOf(j) + 1
BY Counts DEF LoadOf

(* A request that is sent enters it.                                       *)
LEMMA SendEnters ==
  ASSUME TypeOK, TypeOK', NEW c \in Nat, wire' = Append(wire, [type |-> "fetch", job |-> job, arg |-> c]),
         UNCHANGED <<inbound, gated, sending, uni, tasks, joinable>>, NEW j
  PROVE  /\ job # j => InPipe(j)' = InPipe(j) /\ LoadOf(j)' = LoadOf(j)
         /\ job = j => InPipe(j)' = InPipe(j) \cup {c} /\ LoadOf(j)' = LoadOf(j) + 1
<1> DEFINE m == [type |-> "fetch", job |-> job, arg |-> c]
<1>1. m \in CtrlMsg /\ m.type = "fetch" /\ m.job = job /\ m.arg = c /\ wire' = Append(wire, m)
  BY DEF CtrlMsg, TypeOK, PullType
<1>2. wire \in Seq(CtrlMsg)
  BY PipeSizes
<1> HIDE DEF m
<1>3. /\ Cardinality(Fetches(inbound', j)) = Cardinality(Fetches(inbound, j))
      /\ Cardinality(OfJob(gated', j)) = Cardinality(OfJob(gated, j))
      /\ Cardinality(OfJob(sending', j)) = Cardinality(OfJob(sending, j))
      /\ Cardinality(OfJob(uni', j)) = Cardinality(OfJob(uni, j))
      /\ Cardinality(OfJob(tasks', j)) = Cardinality(OfJob(tasks, j))
      /\ Cardinality(OfJob(joinable', j)) = Cardinality(OfJob(joinable, j))
  OBVIOUS
<1>4. ASSUME job # j PROVE InPipe(j)' = InPipe(j) /\ LoadOf(j)' = LoadOf(j)
  <2>1. Fetches(Append(wire, m), j) = Fetches(wire, j) /\ AskedIn(Append(wire, m), j) = AskedIn(wire, j)
    BY <1>1, <1>2, <1>4, JoinsQueue
  <2>2. Fetches(wire', j) = Fetches(wire, j) /\ AskedIn(wire', j) = AskedIn(wire, j)
    BY <1>1, <2>1
  <2>3. InPipe(j)' = InPipe(j)
    BY <2>2 DEF InPipe
  <2>4. LoadOf(j)' = LoadOf(j)
    BY <1>3, <2>2, Counts DEF LoadOf
  <2> QED
    BY <2>3, <2>4
<1>5. ASSUME job = j PROVE InPipe(j)' = InPipe(j) \cup {c} /\ LoadOf(j)' = LoadOf(j) + 1
  <2>1. /\ Cardinality(Fetches(Append(wire, m), j)) = Cardinality(Fetches(wire, j)) + 1
        /\ AskedIn(Append(wire, m), j) = AskedIn(wire, j) \cup {m.arg}
    BY <1>1, <1>2, <1>5, JoinsQueue
  <2>2. /\ Cardinality(Fetches(wire', j)) = Cardinality(Fetches(wire, j)) + 1
        /\ AskedIn(wire', j) = AskedIn(wire, j) \cup {c}
    BY <1>1, <2>1
  <2>3. InPipe(j)' = InPipe(j) \cup {c}
    BY <2>2 DEF InPipe
  <2>4. LoadOf(j)' = LoadOf(j) + 1
    BY <1>3, <2>2, OneMoreRequest
  <2> QED
    BY <2>3, <2>4
<1> QED
  BY <1>4, <1>5

(* What is under way for the pull at work is what is under way for that    *)
(* number.                                                                 *)
LEMMA SameJob ==
  ASSUME NEW j
  PROVE  /\ job = j => InPipe(job) = InPipe(j) /\ LoadOf(job) = LoadOf(j)
         /\ job' = j => InPipe(job)' = InPipe(j)' /\ LoadOf(job)' = LoadOf(j)'
BY DEF InPipe, LoadOf

-----------------------------------------------------------------------------
(* The parts of the invariant, by what a step leaves alone.                *)

(* A step that only moves or loses chunks of a job adds nothing to what is *)
(* under way.                                                              *)
LEMMA ShrinksLoad ==
  ASSUME TypeOK, TypeOK', NEW j
  PROVE  Shrinks(j) => LoadOf(j)' <= LoadOf(j)
<1>1. LoadOf(j) \in Nat /\ LoadOf(j)' \in Nat /\ IsFiniteSet(InPipe(j))
  BY PipeSizes, NextSizes
<1> DEFINE D == InPipe(j) \ InPipe(j)'
<1>2. IsFiniteSet(D)
  BY <1>1, FS_Difference
<1>3. Cardinality(D) \in Nat
  BY <1>2, FS_CardinalityType
<1>4. Shrinks(j) => LoadOf(j)' + Cardinality(D) <= LoadOf(j)
  BY DEF Shrinks
<1> HIDE DEF D
<1> QED
  BY <1>1, <1>3, <1>4

(* Jobs nobody has taken yet stay without anything under way, if the step  *)
(* adds nothing and starts no pull.                                        *)
LEMMA UntakenKept ==
  ASSUME TypeOK, TypeOK', UntakenInv, \A j \in Jobs : LoadOf(j)' <= LoadOf(j),
         nextJob' = nextJob, metaResp' \subseteq metaResp,
         AtWork' => AtWork /\ job' = job
  PROVE  UntakenInv'
<1>1. ASSUME NEW j \in Jobs, j >= nextJob' \/ (\E r \in metaResp' : r.job = j)
      PROVE  LoadOf(j)' = 0
  <2>1. LoadOf(j) = 0
    BY <1>1 DEF UntakenInv
  <2> QED
    BY <2>1, PipeSizes, NextSizes
<1>2. \A r \in metaResp' : AtWork' => r.job # job'
  BY DEF UntakenInv
<1>3. \A r, o \in metaResp' : r.job = o.job => r = o
  BY DEF UntakenInv
<1> QED
  BY <1>1, <1>2, <1>3 DEF UntakenInv

(* A first pull stays free of what earlier pulls left, if the step adds    *)
(* nothing and ends no pull by a protocol error.                           *)
LEMMA FirstKept ==
  ASSUME TypeOK, TypeOK', FirstInv, \A j \in Jobs : LoadOf(j)' <= LoadOf(j),
         UNCHANGED <<job, attempt>>,
         phase' \in {"idle", "negotiating"} \/ attempt = 0 => phase' = phase,
         attempt <= 1 => /\ result' # "protocol"
                         /\ \A t \in joinable' : t.res # "protocol"
  PROVE  FirstInv'
<1> SUFFICES ASSUME attempt <= 1
             PROVE  /\ \A j \in Jobs \ {job'} : LoadOf(j)' = 0
                    /\ phase' \in {"idle", "negotiating"} => LoadOf(job)' = 0
                    /\ attempt = 0 => phase' = "idle"
  BY DEF FirstInv
<1>1. ASSUME NEW j \in Jobs, LoadOf(j) = 0 PROVE LoadOf(j)' = 0
  BY <1>1, PipeSizes, NextSizes
<1>2. \A j \in Jobs \ {job'} : LoadOf(j)' = 0
  BY <1>1 DEF FirstInv
<1>3. ASSUME phase' \in {"idle", "negotiating"} PROVE LoadOf(job)' = 0
  <2>1. LoadOf(job) = 0
    BY <1>3 DEF FirstInv
  <2>2. PICK j \in Jobs : j = job
    BY DEF TypeOK, PullType
  <2>3. LoadOf(j) = 0 /\ job' = j
    BY <2>1, <2>2, SameJob
  <2>4. LoadOf(j)' = 0
    BY <1>1, <2>3
  <2> QED
    BY <2>3, <2>4, SameJob
<1>4. attempt = 0 => phase' = "idle"
  BY DEF FirstInv
<1> QED
  BY <1>2, <1>3, <1>4

(* Between two batches, or at the end of one, nothing is in flight and     *)
(* nothing is lost.                                                        *)
LEMMA BetweenKept ==
  ASSUME TypeOK, TypeOK', BetweenInv, \A j \in Jobs : LoadOf(j)' <= LoadOf(j),
         UNCHANGED <<job, missing>>, received \subseteq received',
         phase' \in {"control", "paused"} => phase \in {"control", "paused"}
  PROVE  BetweenInv'
<1> SUFFICES ASSUME phase' \in {"control", "paused"}
             PROVE  LoadOf(job)' = 0 /\ Chunks \subseteq missing' \cup received'
  BY DEF BetweenInv
<1>1. LoadOf(job) = 0 /\ Chunks \subseteq missing \cup received
  BY DEF BetweenInv
<1>2. PICK j \in Jobs : j = job
  BY DEF TypeOK, PullType
<1>3. LoadOf(j) = 0 /\ job' = j
  BY <1>1, <1>2, SameJob
<1>4. LoadOf(j)' = 0
  <2>1. LoadOf(j)' \in Nat
    BY NextSizes
  <2>2. LoadOf(j)' <= 0
    BY <1>3
  <2> QED
    BY <2>1, <2>2
<1> QED
  BY <1>1, <1>3, <1>4, SameJob

(* The sets that the accounting compares are finite.                       *)
LEMMA LostSize ==
  ASSUME TypeOK
  PROVE  /\ IsFiniteSet(Lost) /\ Cardinality(Lost) \in Nat
         /\ IsFiniteSet(batch) /\ Cardinality(batch) \in Nat
         /\ IsFiniteSet(unsent) /\ Cardinality(unsent) \in Nat
         /\ completed \in Nat
<1>1. batch \in SUBSET Chunks /\ unsent \in SUBSET Chunks /\ Lost \in SUBSET Chunks
  BY DEF TypeOK, BatchType, Lost
<1>2. IsFiniteSet(batch) /\ IsFiniteSet(unsent) /\ IsFiniteSet(Lost)
  BY <1>1, FiniteRecords, FS_Subset
<1> QED
  BY <1>2, FS_CardinalityType DEF TypeOK, BatchType

(* While a batch runs, a chunk that leaves the pipeline is on disk or lost.*)
LEMMA BatchKept ==
  ASSUME TypeOK, TypeOK', BatchInv, \A j \in Jobs : Shrinks(j),
         UNCHANGED <<phase, job, missing, batch, unsent, completed>>,
         received \subseteq received',
         \A t \in joinable' \ joinable : t.res = "ok" => t.job = job /\ t.chunk \in received'
  PROVE  BatchInv'
<1> SUFFICES ASSUME phase = "batch"
             PROVE  /\ InPipe(job)' \subseteq batch \ unsent
                    /\ LoadOf(job)' + Cardinality(Lost') <= Sent - completed
                    /\ \A t \in joinable' : t.res = "ok" => t.job = job /\ t.chunk \in received'
                    /\ Chunks \subseteq missing \cup batch \cup received'
  BY DEF BatchInv, Sent
<1>1. PICK j \in Jobs : j = job
  BY DEF TypeOK, PullType
<1>2. /\ InPipe(job) = InPipe(j) /\ LoadOf(job) = LoadOf(j)
      /\ InPipe(job)' = InPipe(j)' /\ LoadOf(job)' = LoadOf(j)'
  <2>1. job = j /\ job' = j
    BY <1>1
  <2> QED
    BY <2>1, SameJob
<1> DEFINE D == InPipe(j) \ InPipe(j)'
<1>3. InPipe(j)' \subseteq InPipe(j) /\ LoadOf(j)' + Cardinality(D) <= LoadOf(j)
  BY DEF Shrinks
<1>4. InPipe(job)' \subseteq batch \ unsent
  BY <1>2, <1>3 DEF BatchInv
<1>5. Lost' \subseteq Lost \cup D
  BY <1>2 DEF Lost
<1>6. IsFiniteSet(D) /\ IsFiniteSet(Lost) /\ IsFiniteSet(Lost')
  <2>1. IsFiniteSet(InPipe(j))
    BY PipeSizes
  <2>2. Lost' \in SUBSET Chunks
    BY DEF Lost, TypeOK, BatchType
  <2> QED
    BY <2>1, <2>2, FS_Difference, FS_Subset, FiniteRecords, LostSize
<1>7. LoadOf(j) \in Nat /\ LoadOf(j)' \in Nat
  BY PipeSizes, NextSizes
<1>8. LoadOf(j) + Cardinality(Lost) <= Sent - completed
  BY <1>2 DEF BatchInv
<1>9. Sent - completed \in Int
  BY LostSize DEF Sent
<1> HIDE DEF D
<1>10. /\ IsFiniteSet(Lost \cup D) /\ Cardinality(Lost \cup D) <= Cardinality(Lost) + Cardinality(D)
  BY <1>6, UnionSize
<1>11. Cardinality(Lost') <= Cardinality(Lost \cup D)
  BY <1>5, <1>6, <1>10, FS_Subset
<1>12. /\ Cardinality(D) \in Nat /\ Cardinality(Lost) \in Nat /\ Cardinality(Lost') \in Nat
       /\ Cardinality(Lost \cup D) \in Nat
  BY <1>6, <1>10, FS_CardinalityType
<1>13. LoadOf(j)' + Cardinality(Lost') <= Sent - completed
  BY <1>3, <1>7, <1>8, <1>9, <1>10, <1>11, <1>12
<1>14. \A t \in joinable' : t.res = "ok" => t.job = job /\ t.chunk \in received'
  BY DEF BatchInv
<1>15. Chunks \subseteq missing \cup batch \cup received'
  BY DEF BatchInv
<1> QED
  BY <1>2, <1>4, <1>13, <1>14, <1>15

(* The whole invariant, for the steps that only move what is in flight ... *)
LEMMA WindowKept ==
  ASSUME TypeOK, TypeOK', WindowInv, UntakenInv', \A j \in Jobs : Shrinks(j),
         UNCHANGED <<phase, result, attempt, job, missing, batch, unsent, completed>>,
         received \subseteq received',
         \A t \in joinable' \ joinable :
           /\ t.res = "ok" => t.job = job /\ t.chunk \in received'
           /\ attempt <= 1 => t.res # "protocol"
  PROVE  WindowInv'
<1>1. \A j \in Jobs : LoadOf(j)' <= LoadOf(j)
  BY ShrinksLoad
<1>2. BatchInv'
  BY BatchKept DEF WindowInv
<1>3. BetweenInv'
  BY <1>1, BetweenKept DEF WindowInv
<1>4. FirstInv'
  <2>1. attempt <= 1 => /\ result' # "protocol"
                        /\ \A t \in joinable' : t.res # "protocol"
    BY DEF WindowInv, FirstInv
  <2> QED
    BY <1>1, <2>1, FirstKept DEF WindowInv
<1>5. FinalizeComplete'
  BY DEF WindowInv, FinalizeComplete
<1> QED
  BY <1>2, <1>3, <1>4, <1>5 DEF WindowInv

(* ... for those that leave the pipeline alone ...                         *)
LEMMA QuietKept ==
  ASSUME TypeOK, TypeOK', WindowInv, Elsewhere,
         \/ wire' = wire
         \/ \E e \in CtrlMsg : e.type # "fetch" /\ wire' = Append(wire, e),
         UNCHANGED <<tasks, joinable, phase, result, attempt, job, missing, batch, unsent,
                     completed, received, nextJob>>,
         metaResp' \subseteq metaResp
  PROVE  WindowInv'
<1>1. ASSUME NEW j \in Jobs PROVE Shrinks(j) /\ LoadOf(j)' <= LoadOf(j)
  <2>1. InPipe(j)' = InPipe(j) /\ LoadOf(j)' = LoadOf(j)
    BY NoRequest
  <2>2. LoadOf(j)' <= LoadOf(j)
    BY <2>1, PipeSizes
  <2> QED
    BY <2>1, <2>2, StaysOrLoses
<1>2. UntakenInv'
  BY <1>1, UntakenKept DEF WindowInv, AtWork
<1> QED
  BY <1>1, <1>2, WindowKept

(* ... and for those that end the pull.                                    *)
LEMMA OverKept ==
  ASSUME TypeOK, TypeOK', WindowInv, \A j \in Jobs : LoadOf(j)' <= LoadOf(j),
         phase # "idle", phase' = "over", result' # "incomplete",
         UNCHANGED <<job, attempt, nextJob, metaResp>>, joinable' \subseteq joinable,
         attempt <= 1 => result' # "protocol"
  PROVE  WindowInv'
<1>1. BatchInv' /\ BetweenInv' /\ FinalizeComplete'
  BY DEF BatchInv, BetweenInv, FinalizeComplete
<1>2. UntakenInv'
  BY UntakenKept DEF WindowInv, AtWork
<1>3. FirstInv'
  BY FirstKept DEF WindowInv, FirstInv
<1> QED
  BY <1>1, <1>2, <1>3 DEF WindowInv

-----------------------------------------------------------------------------
(* The steps of the receiver.                                              *)

(* The window accounting survives a MetaReq,                               *)
LEMMA MetaWindow == TypeOK /\ TypeOK' /\ WindowInv /\ SendMetaReq => WindowInv'
<1> SUFFICES ASSUME TypeOK, TypeOK', WindowInv, SendMetaReq PROVE WindowInv'
  OBVIOUS
<1>1. /\ phase \in {"idle", "over"} /\ phase' = "negotiating" /\ result' = "none"
      /\ attempt' = attempt + 1 /\ attempt \in Nat
      /\ UNCHANGED <<job, missing, batchVars, tasks, joinable, received, metaResp, nextJob>>
      /\ Elsewhere
  BY DEF SendMetaReq, fileVars, batchVars, srcVars, rowVars, Elsewhere, TypeOK, PullType
<1>2. \E e \in CtrlMsg : e.type # "fetch" /\ wire' = Append(wire, e)
  <2> DEFINE e == [type |-> "meta", job |-> 1, arg |-> attempt + 1]
  <2>1. e \in CtrlMsg /\ e.type # "fetch" /\ wire' = Append(wire, e)
    BY <1>1 DEF SendMetaReq, CtrlMsg, Jobs
  <2> QED
    BY <2>1
<1>3. ASSUME NEW j \in Jobs PROVE LoadOf(j)' = LoadOf(j) /\ LoadOf(j) \in Nat
  BY <1>1, <1>2, NoRequest, PipeSizes
<1>4. \A j \in Jobs : LoadOf(j)' <= LoadOf(j)
  BY <1>3
<1>5. BatchInv' /\ BetweenInv' /\ FinalizeComplete'
  BY <1>1 DEF BatchInv, BetweenInv, FinalizeComplete
<1>6. UntakenInv'
  BY <1>1, <1>4, UntakenKept DEF WindowInv, AtWork
<1>7. FirstInv'
  <2> SUFFICES ASSUME attempt' <= 1
               PROVE  /\ \A j \in Jobs \ {job'} : LoadOf(j)' = 0
                      /\ LoadOf(job)' = 0 /\ \A t \in joinable : t.res # "protocol"
    BY <1>1 DEF FirstInv
  <2>1. attempt = 0 /\ phase = "idle"
    BY <1>1 DEF WindowInv, FirstInv
  <2>2. LoadOf(job) = 0 /\ (\A j \in Jobs \ {job} : LoadOf(j) = 0)
        /\ \A t \in joinable : t.res # "protocol"
    BY <2>1 DEF WindowInv, FirstInv
  <2>3. PICK j \in Jobs : j = job
    BY DEF TypeOK, PullType
  <2>4. LoadOf(j) = 0 /\ job' = j
    BY <1>1, <2>2, <2>3, SameJob
  <2>5. LoadOf(job)' = 0
    BY <1>3, <2>4, SameJob
  <2> QED
    BY <1>1, <1>3, <2>2, <2>5
<1> QED
  BY <1>5, <1>6, <1>7 DEF WindowInv

(* its answer (the new job has nothing under way),                         *)
LEMMA RespWindow ==
  ASSUME TypeOK, TypeOK', DeliveryInv, WindowInv, NEW r \in metaResp, RecvMetaResp(r)
  PROVE  WindowInv'
<1>1. /\ phase = "negotiating" /\ phase' = "control" /\ r.job \in Jobs /\ job' = r.job
      /\ metaResp' = metaResp \ {r} /\ Chunks \subseteq missing' \cup received'
      /\ UNCHANGED <<result, attempt, joinable, nextJob>>
  BY DEF RecvMetaResp, fileVars, batchVars, srcVars, rowVars, TypeOK, NetType
<1>2. Elsewhere /\ UNCHANGED <<wire, tasks, joinable>>
  BY DEF RecvMetaResp, batchVars, srcVars, Elsewhere
<1>3. ASSUME NEW j \in Jobs PROVE LoadOf(j)' = LoadOf(j)
  BY <1>2, NoRequest
<1>4. LoadOf(r.job) = 0
  BY <1>1 DEF WindowInv, UntakenInv
<1>5. LoadOf(job)' = 0
  BY <1>1, <1>3, <1>4, SameJob
<1>6. BatchInv' /\ BetweenInv' /\ FinalizeComplete'
  BY <1>1, <1>5 DEF BatchInv, BetweenInv, FinalizeComplete, WindowInv
<1>7. UntakenInv'
  <2>1. \A j \in Jobs : j >= nextJob' \/ (\E o \in metaResp' : o.job = j) => LoadOf(j)' = 0
    BY <1>1, <1>3 DEF WindowInv, UntakenInv
  <2>2. \A o \in metaResp' : o.job # job'
    BY <1>1 DEF WindowInv, UntakenInv
  <2>3. \A o, q \in metaResp' : o.job = q.job => o = q
    BY <1>1 DEF WindowInv, UntakenInv
  <2> QED
    BY <2>1, <2>2, <2>3 DEF UntakenInv
<1>8. FirstInv'
  <2> SUFFICES ASSUME attempt <= 1
               PROVE  /\ \A j \in Jobs : LoadOf(j)' = 0
                      /\ attempt # 0 /\ result # "protocol"
                      /\ \A t \in joinable : t.res # "protocol"
    BY <1>1 DEF FirstInv
  <2>1. /\ LoadOf(job) = 0 /\ (\A j \in Jobs \ {job} : LoadOf(j) = 0)
        /\ attempt # 0 /\ result # "protocol" /\ \A t \in joinable : t.res # "protocol"
    BY <1>1 DEF WindowInv, FirstInv
  <2>2. ASSUME NEW j \in Jobs PROVE LoadOf(j) = 0
    <3>1. CASE j = job
      BY <2>1, <3>1, SameJob
    <3>2. CASE j # job
      BY <2>1, <3>2
    <3> QED
      BY <3>1, <3>2
  <2> QED
    BY <1>3, <2>1, <2>2
<1> QED
  BY <1>6, <1>7, <1>8 DEF WindowInv

(* A cancel, a timeout, an error or the landing ends the pull.             *)
LEMMA EndWindow ==
  ASSUME TypeOK, TypeOK', WindowInv, Elsewhere, phase # "idle", phase' = "over",
         result' # "incomplete", attempt <= 1 => result' # "protocol",
         \/ wire' = wire
         \/ \E e \in CtrlMsg : e.type # "fetch" /\ wire' = Append(wire, e),
         UNCHANGED <<tasks, joinable>> \/ (tasks' = {} /\ joinable' = {}),
         UNCHANGED <<job, attempt, nextJob, metaResp>>
  PROVE  WindowInv'
<1>1. ASSUME NEW j \in Jobs PROVE LoadOf(j)' <= LoadOf(j)
  <2>1. LoadOf(j)' = LoadOf(j) \/ LoadOf(j)' <= LoadOf(j)
    BY NoRequest
  <2> QED
    BY <2>1, PipeSizes
<1>2. joinable' \subseteq joinable
  OBVIOUS
<1> QED
  BY <1>1, <1>2, OverKept

(* a cancel,                                                               *)
LEMMA CancelWindow ==
  TypeOK /\ TypeOK' /\ WindowInv /\ phase # "idle" /\ CancelPull => WindowInv'
<1> SUFFICES ASSUME TypeOK, TypeOK', WindowInv, phase # "idle", CancelPull PROVE WindowInv'
  OBVIOUS
<1>1. /\ phase' = "over" /\ result' = "cancelled" /\ tasks' = {} /\ joinable' = {}
      /\ UNCHANGED <<wire, job, attempt, nextJob, metaResp>> /\ Elsewhere
  BY DEF CancelPull, EndWith, pullVars, netVars, srcVars, rowVars, Elsewhere
<1> QED
  BY <1>1, EndWindow

(* the orders read between the selects of run_receiver_windowed,           *)
LEMMA ControlWindow ==
  TypeOK /\ TypeOK' /\ WindowInv /\ (DrainControl \/ PausedRecv) => WindowInv'
<1> SUFFICES ASSUME TypeOK, TypeOK', WindowInv, DrainControl \/ PausedRecv PROVE WindowInv'
  OBVIOUS
<1>1. CASE CancelPull
  BY <1>1, CancelWindow DEF DrainControl, PausedRecv
<1>2. CASE ~CancelPull
  <2>1. /\ phase \in {"control", "paused"} /\ phase' \in {"control", "paused"} /\ Elsewhere
        /\ UNCHANGED <<wire, result, job, attempt, nextJob, metaResp, missing, received,
                       tasks, joinable>>
    BY <1>2 DEF DrainControl, PausedRecv, pullVars, fileVars, batchVars, netVars, srcVars,
                rowVars, Elsewhere
  <2>2. ASSUME NEW j \in Jobs PROVE LoadOf(j)' <= LoadOf(j)
    <3>1. LoadOf(j)' = LoadOf(j)
      BY <2>1, NoRequest
    <3> QED
      BY <3>1, PipeSizes
  <2>3. BatchInv' /\ FinalizeComplete'
    BY <2>1 DEF BatchInv, WindowInv, FinalizeComplete
  <2>4. BetweenInv'
    BY <2>1, <2>2, BetweenKept DEF WindowInv
  <2>5. UntakenInv'
    BY <2>1, <2>2, UntakenKept DEF WindowInv, AtWork
  <2>6. FirstInv'
    BY <2>1, <2>2, FirstKept DEF WindowInv, FirstInv
  <2> QED
    BY <2>3, <2>4, <2>5, <2>6 DEF WindowInv
<1> QED
  BY <1>1, <1>2

(* the timeouts,                                                           *)
LEMMA TimeoutWindow ==
  TypeOK /\ TypeOK' /\ WindowInv /\ (MetaTimeout \/ AcceptFails \/ Watchdog) => WindowInv'
<1> SUFFICES ASSUME TypeOK, TypeOK', WindowInv, MetaTimeout \/ AcceptFails \/ Watchdog
             PROVE  WindowInv'
  OBVIOUS
<1>1. /\ phase # "idle" /\ phase' = "over" /\ result' \in {"rpc", "io", "timeout"}
      /\ UNCHANGED <<wire, job, attempt, nextJob, metaResp>> /\ Elsewhere
      /\ UNCHANGED <<tasks, joinable>> \/ (tasks' = {} /\ joinable' = {})
  BY DEF MetaTimeout, AcceptFails, Watchdog, EndWith, pullVars, batchVars, netVars, srcVars,
         rowVars, Elsewhere
<1> QED
  BY <1>1, EndWindow

(* the end of a complete pull,                                             *)
LEMMA FinalizeWindow == TypeOK /\ TypeOK' /\ WindowInv /\ Finalize => WindowInv'
<1> SUFFICES ASSUME TypeOK, TypeOK', WindowInv, Finalize PROVE WindowInv'
  OBVIOUS
<1>1. received = Chunks
  BY DEF Finalize, WindowInv, BetweenInv, TypeOK, FileType
<1>2. /\ phase # "idle" /\ phase' = "over" /\ result' = "done"
      /\ UNCHANGED <<job, attempt, nextJob, metaResp, tasks, joinable>> /\ Elsewhere
  BY <1>1 DEF Finalize, pullVars, batchVars, srcVars, rowVars, Elsewhere
<1>3. \/ wire' = wire
      \/ \E e \in CtrlMsg : e.type # "fetch" /\ wire' = Append(wire, e)
  <2> DEFINE e == [type |-> "ack", job |-> job, arg |-> 0]
  <2>1. e \in CtrlMsg /\ e.type # "fetch" /\ (wire' = wire \/ wire' = Append(wire, e))
    BY <1>1 DEF Finalize, CtrlMsg, TypeOK, PullType
  <2> QED
    BY <2>1
<1> QED
  BY <1>2, <1>3, EndWindow

(* a command of the user,                                                  *)
LEMMA CommandWindow ==
  ASSUME TypeOK, TypeOK', WindowInv, NEW c \in Command, UserCommand(c)
  PROVE  WindowInv'
<1>1. /\ UNCHANGED <<tasks, joinable, phase, result, attempt, job, missing, batch, unsent,
                     completed, received, nextJob, metaResp>>
      /\ Elsewhere
  BY DEF UserCommand, pullVars, batchVars, fileVars, srcVars, rowVars, Elsewhere
<1>2. \/ wire' = wire
      \/ \E e \in CtrlMsg : e.type # "fetch" /\ wire' = Append(wire, e)
  <2> DEFINE e == [type |-> "cancel", job |-> job, arg |-> 0]
  <2>1. e \in CtrlMsg /\ e.type # "fetch" /\ (wire' = wire \/ wire' = Append(wire, e))
    BY DEF UserCommand, CtrlMsg, TypeOK, PullType
  <2> QED
    BY <2>1
<1> QED
  BY <1>1, <1>2, QuietKept

(* A batch starts on an empty pipeline, whatever its size.                 *)
LEMMA StartWindow == TypeOK /\ TypeOK' /\ WindowInv /\ StartBatch => WindowInv'
<1> SUFFICES ASSUME TypeOK, TypeOK', WindowInv, StartBatch PROVE WindowInv'
  OBVIOUS
<1>1. /\ phase = "control" /\ phase' = "batch" /\ missing' = missing \ batch'
      /\ unsent' = batch' /\ completed' = 0 /\ tasks' = {} /\ joinable' = {}
      /\ UNCHANGED <<result, attempt, job, received, wire, metaResp, nextJob>> /\ Elsewhere
  BY DEF StartBatch, pullVars, fileVars, netVars, srcVars, rowVars, Elsewhere
<1>2. ASSUME NEW j \in Jobs PROVE LoadOf(j)' <= LoadOf(j)
  BY <1>1, NoRequest
<1>3. PICK j \in Jobs : j = job
  BY DEF TypeOK, PullType
<1>4. /\ LoadOf(j) = 0 /\ InPipe(j) = {} /\ job' = j
  <2>1. LoadOf(job) = 0
    BY <1>1 DEF WindowInv, BetweenInv
  <2> QED
    BY <1>1, <1>3, <2>1, SameJob, PipeSizes
<1>5. LoadOf(j)' = 0
  <2>1. LoadOf(j)' \in Nat
    BY NextSizes
  <2>2. LoadOf(j)' <= 0
    BY <1>2, <1>4
  <2> QED
    BY <2>1, <2>2
<1>6. InPipe(j)' = {}
  <2>1. InPipe(j)' \subseteq InPipe(j)
    BY <1>1 DEF InPipe, Elsewhere, ChunksOf, OfJob
  <2> QED
    BY <1>4, <2>1
<1>7. LoadOf(job)' = 0 /\ InPipe(job)' = {}
  BY <1>4, <1>5, <1>6, SameJob
<1>8. Lost' = {}
  BY <1>1 DEF Lost
<1>9. Cardinality(Lost') = 0
  BY <1>8, FS_EmptySet
<1>10. Sent' - completed' = 0
  <2>1. IsFiniteSet(batch')
    BY FiniteRecords, FS_Subset DEF TypeOK, BatchType
  <2>2. Cardinality(batch') \in Nat
    BY <2>1, FS_CardinalityType
  <2> QED
    BY <1>1, <2>2 DEF Sent
<1>11. Chunks \subseteq missing' \cup batch' \cup received'
  BY <1>1 DEF WindowInv, BetweenInv
<1>12. BatchInv'
  <2>1. LoadOf(job)' + Cardinality(Lost') <= Sent' - completed'
    BY <1>7, <1>9, <1>10
  <2> QED
    BY <1>1, <1>7, <1>11, <2>1 DEF BatchInv
<1>13. BetweenInv' /\ FinalizeComplete'
  BY <1>1 DEF BetweenInv, WindowInv, FinalizeComplete
<1>14. UntakenInv'
  BY <1>1, <1>2, UntakenKept DEF WindowInv, AtWork
<1>15. FirstInv'
  BY <1>1, <1>2, FirstKept DEF WindowInv, FirstInv
<1> QED
  BY <1>12, <1>13, <1>14, <1>15 DEF WindowInv

(* One request more is sent, one more is in flight.                        *)
LEMMA SendWindow == TypeOK /\ TypeOK' /\ DeliveryInv /\ WindowInv /\ SendFetch => WindowInv'
<1> SUFFICES ASSUME TypeOK, TypeOK', DeliveryInv, WindowInv, SendFetch PROVE WindowInv'
  OBVIOUS
<1>1. CASE ~up
  <2>1. /\ phase # "idle" /\ phase' = "over" /\ result' = "rpc" /\ tasks' = {} /\ joinable' = {}
        /\ UNCHANGED <<wire, job, attempt, nextJob, metaResp>> /\ Elsewhere
    BY <1>1 DEF SendFetch, EndWith, pullVars, srcVars, rowVars, Elsewhere
  <2> QED
    BY <2>1, EndWindow
<1>2. CASE up
  <2>1. PICK c \in unsent : /\ wire' = Append(wire, [type |-> "fetch", job |-> job, arg |-> c])
                            /\ unsent' = unsent \ {c}
    BY <1>2 DEF SendFetch, LowestOf
  <2>2. c \in Chunks /\ c \in Nat /\ c \in batch
    BY DEF TypeOK, BatchType, Chunks
  <2>3. UNCHANGED <<inbound, gated, sending, uni, tasks, joinable>>
    BY <1>2 DEF SendFetch, srcVars
  <2>4. /\ phase = "batch" /\ job < nextJob
        /\ UNCHANGED <<phase, result, attempt, job, missing, batch, completed, received,
                       metaResp, nextJob>>
    BY <1>2 DEF SendFetch, pullVars, fileVars, srcVars, rowVars, DeliveryInv, TakenInv, AtWork
  <2>5. PICK j \in Jobs : j = job
    BY DEF TypeOK, PullType
  <2>6. /\ InPipe(job) = InPipe(j) /\ LoadOf(job) = LoadOf(j)
        /\ InPipe(job)' = InPipe(j)' /\ LoadOf(job)' = LoadOf(j)'
    <3>1. job = j /\ job' = j
      BY <2>4, <2>5
    <3> QED
      BY <3>1, SameJob
  <2>7. InPipe(j)' = InPipe(j) \cup {c} /\ LoadOf(j)' = LoadOf(j) + 1
    BY <2>1, <2>2, <2>3, <2>5, SendEnters
  <2>8. \A k \in Jobs : k # job => LoadOf(k)' = LoadOf(k)
    BY <2>1, <2>2, <2>3, SendEnters
  <2>9. /\ InPipe(job) \subseteq batch \ unsent /\ LoadOf(job) + Cardinality(Lost) <= Sent - completed
        /\ (\A t \in joinable : t.res = "ok" => t.job = job /\ t.chunk \in received)
        /\ Chunks \subseteq missing \cup batch \cup received
    BY <2>4 DEF WindowInv, BatchInv
  <2>10. Lost' = Lost
    BY <2>1, <2>2, <2>4, <2>6, <2>7 DEF Lost
  <2>11. Sent' = Sent + 1 /\ Sent \in Int
    <3>1. Cardinality(unsent \ {c}) = Cardinality(unsent) - 1
      BY LostSize, FS_RemoveElement
    <3> QED
      BY <2>1, <2>4, <3>1, LostSize DEF Sent
  <2>12. LoadOf(job)' + Cardinality(Lost') <= Sent' - completed'
    <3>1. /\ LoadOf(job)' = LoadOf(job) + 1 /\ LoadOf(job) \in Nat
          /\ Cardinality(Lost') = Cardinality(Lost) /\ completed' = completed
      BY <2>4, <2>6, <2>7, <2>10, PipeSizes
    <3>2. completed \in Nat /\ Cardinality(Lost) \in Nat
      BY LostSize
    <3> QED
      BY <2>9, <2>11, <3>1, <3>2
  <2>13. InPipe(job)' \subseteq batch' \ unsent'
    BY <2>1, <2>2, <2>4, <2>6, <2>7, <2>9
  <2>14. BatchInv'
    BY <2>3, <2>4, <2>9, <2>12, <2>13 DEF BatchInv
  <2>15. BetweenInv' /\ FinalizeComplete'
    BY <2>4 DEF BetweenInv, WindowInv, FinalizeComplete
  <2>16. UntakenInv'
    <3>1. \A k \in Jobs : k >= nextJob' \/ (\E r \in metaResp' : r.job = k) => LoadOf(k)' = 0
      <4> SUFFICES ASSUME NEW k \in Jobs, k >= nextJob \/ (\E r \in metaResp : r.job = k)
                   PROVE  LoadOf(k)' = 0
        BY <2>4
      <4>1. k # job
        BY <2>4 DEF WindowInv, UntakenInv, AtWork, TypeOK, RowType, PullType, Jobs
      <4>2. LoadOf(k) = 0
        BY DEF WindowInv, UntakenInv
      <4> QED
        BY <2>8, <4>1, <4>2
    <3> QED
      BY <2>4, <3>1 DEF UntakenInv, WindowInv, AtWork
  <2>17. FirstInv'
    BY <2>3, <2>4, <2>8 DEF WindowInv, FirstInv
  <2> QED
    BY <2>14, <2>15, <2>16, <2>17 DEF WindowInv
<1> QED
  BY <1>1, <1>2

(* a stream that is accepted,                                              *)
LEMMA AcceptWindow ==
  ASSUME TypeOK, TypeOK', WindowInv, NEW s \in uni, AcceptStream(s)
  PROVE  WindowInv'
<1>1. UNCHANGED <<phase, result, attempt, job, missing, batch, unsent, completed, received,
                  joinable, nextJob, metaResp>>
  BY DEF AcceptStream, pullVars, fileVars, srcVars, rowVars
<1>2. \A j \in Jobs : Shrinks(j)
  BY AcceptMoves
<1>3. UntakenInv'
  BY <1>1, <1>2, ShrinksLoad, UntakenKept DEF WindowInv, AtWork
<1> QED
  BY <1>1, <1>2, <1>3, WindowKept

(* A task of the pipeline belongs to the job and to the batch, until an    *)
(* earlier pull has left something behind.                                 *)
LEMMA OwnTask ==
  ASSUME TypeOK, WindowInv, phase = "batch", NEW s \in tasks, attempt <= 1
  PROVE  s.job = job /\ s.chunk \in batch
<1>1. s.job \in Jobs
  BY DEF TypeOK, BatchType, Stream
<1>2. LoadOf(s.job) # 0
  <2>1. s.chunk \in InPipe(s.job)
    BY DEF InPipe, ChunksOf, OfJob
  <2> QED
    BY <1>1, <2>1, PipeSizes
<1>3. s.job = job
  BY <1>1, <1>2 DEF WindowInv, FirstInv
<1>4. s.chunk \in InPipe(job)
  BY <1>3 DEF InPipe, ChunksOf, OfJob
<1> QED
  BY <1>3, <1>4 DEF WindowInv, BatchInv

(* a block task that ends,                                                 *)
LEMMA TaskWindow ==
  ASSUME TypeOK, TypeOK', WindowInv, NEW s \in tasks, RunTask(s) \/ TaskFails(s)
  PROVE  WindowInv'
<1>1. /\ phase = "batch" /\ received \subseteq received'
      /\ UNCHANGED <<phase, result, attempt, job, missing, batch, unsent, completed,
                     nextJob, metaResp>>
  BY DEF RunTask, TaskFails, pullVars, fileVars, netVars, srcVars, rowVars
<1>2. \A j \in Jobs : Shrinks(j)
  BY RunMoves, FailMoves
<1>3. UntakenInv'
  BY <1>1, <1>2, ShrinksLoad, UntakenKept DEF WindowInv, AtWork
<1>4. ASSUME NEW t \in joinable' \ joinable
      PROVE  /\ t.res = "ok" => t.job = job /\ t.chunk \in received'
             /\ attempt <= 1 => t.res # "protocol"
  <2>1. CASE RunTask(s)
    <3>1. t = [job |-> s.job, chunk |-> s.chunk, res |-> Outcome(s)]
      BY <1>4, <2>1 DEF RunTask, Finish
    <3>2. Outcome(s) = "ok" => s.job = job /\ s.chunk \in received'
      BY <2>1 DEF RunTask, Outcome
    <3>3. attempt <= 1 => Outcome(s) # "protocol"
      BY <1>1, OwnTask DEF Outcome
    <3> QED
      BY <3>1, <3>2, <3>3
  <2>2. CASE TaskFails(s)
    <3>1. t = [job |-> s.job, chunk |-> s.chunk, res |-> "io"]
      BY <1>4, <2>2 DEF TaskFails, Finish
    <3> QED
      BY <3>1
  <2> QED
    BY <2>1, <2>2
<1> QED
  BY <1>1, <1>2, <1>3, <1>4, WindowKept

(* One task joined, one less in flight: when the last one is, every chunk  *)
(* of the batch is on disk.                                                *)
LEMMA JoinWindow ==
  ASSUME TypeOK, TypeOK', DeliveryInv, WindowInv, NEW t \in joinable, JoinTask(t)
  PROVE  WindowInv'
<1>1. /\ phase = "batch" /\ completed' = completed + 1 /\ Elsewhere
      /\ UNCHANGED <<wire, attempt, job, missing, batch, unsent, received, nextJob, metaResp>>
  BY DEF JoinTask, pullVars, fileVars, netVars, srcVars, rowVars, Elsewhere
<1>2. CASE t.res # "ok"
  <2>1. phase' = "over" /\ result' = t.res /\ tasks' = {} /\ joinable' = {}
    BY <1>2 DEF JoinTask, EndWith
  <2>2. t.res # "incomplete"
    BY DEF TypeOK, BatchType, Joined
  <2>3. attempt <= 1 => t.res # "protocol"
    BY DEF WindowInv, FirstInv
  <2> QED
    BY <1>1, <2>1, <2>2, <2>3, EndWindow
<1>3. CASE t.res = "ok"
  <2>1. /\ joinable' = joinable \ {t} /\ UNCHANGED <<result, tasks>>
        /\ phase' = IF completed' = Cardinality(batch) THEN "control" ELSE "batch"
    BY <1>3 DEF JoinTask
  <2>2. UNCHANGED <<wire, inbound, gated, sending, uni, tasks>>
    BY <1>1, <2>1 DEF Elsewhere
  <2>3. PICK j \in Jobs : j = job
    BY DEF TypeOK, PullType
  <2>4. /\ InPipe(job) = InPipe(j) /\ LoadOf(job) = LoadOf(j)
        /\ InPipe(job)' = InPipe(j)' /\ LoadOf(job)' = LoadOf(j)'
    <3>1. job = j /\ job' = j
      BY <1>1, <2>3
    <3> QED
      BY <3>1, SameJob
  <2>5. t.job = j /\ t.chunk \in received
    BY <1>1, <1>3, <2>3 DEF WindowInv, BatchInv
  <2>6. /\ InPipe(j)' \subseteq InPipe(j) /\ InPipe(j) \subseteq InPipe(j)' \cup {t.chunk}
        /\ LoadOf(j)' = LoadOf(j) - 1
    BY <2>1, <2>2, <2>5, JoinLeaves
  <2>7. ASSUME NEW k \in Jobs PROVE LoadOf(k)' <= LoadOf(k) /\ LoadOf(k) \in Nat
    <3>1. CASE k = j
      BY <2>6, <3>1, PipeSizes
    <3>2. CASE k # j
      BY <2>1, <2>2, <2>5, <3>2, JoinLeaves, PipeSizes
    <3> QED
      BY <3>1, <3>2
  <2>8. /\ InPipe(job) \subseteq batch \ unsent /\ LoadOf(job) + Cardinality(Lost) <= Sent - completed
        /\ (\A o \in joinable : o.res = "ok" => o.job = job /\ o.chunk \in received)
        /\ Chunks \subseteq missing \cup batch \cup received
    BY <1>1 DEF WindowInv, BatchInv
  <2>9. Lost' = Lost
    BY <1>1, <2>4, <2>5, <2>6 DEF Lost
  <2>10. Sent' = Sent /\ Sent \in Int
    BY <1>1, LostSize DEF Sent
  <2>11. LoadOf(job)' + Cardinality(Lost') <= Sent' - completed' /\ LoadOf(job)' \in Nat
    <3>1. /\ LoadOf(job)' = LoadOf(job) - 1 /\ LoadOf(job) \in Nat
          /\ Cardinality(Lost') = Cardinality(Lost) /\ completed' = completed + 1
      BY <1>1, <2>4, <2>6, <2>9, PipeSizes
    <3>2. completed \in Nat /\ Cardinality(Lost) \in Nat
      BY LostSize
    <3>3. LoadOf(job)' \in Nat
      BY <2>4, NextSizes
    <3> QED
      BY <2>8, <2>10, <3>1, <3>2, <3>3
  <2>12. BatchInv'
    BY <1>1, <2>1, <2>4, <2>6, <2>8, <2>11 DEF BatchInv
  <2>13. BetweenInv'
    <3> SUFFICES ASSUME completed' = Cardinality(batch)
                 PROVE  LoadOf(job)' = 0 /\ Chunks \subseteq missing' \cup received'
      BY <2>1 DEF BetweenInv
    <3>1. Cardinality(unsent) = 0 /\ LoadOf(job)' = 0 /\ Cardinality(Lost) = 0
      BY <2>9, <2>10, <2>11, LostSize DEF Sent
    <3>2. unsent = {} /\ Lost = {}
      BY <3>1, LostSize, FS_EmptySet
    <3>3. LoadOf(j) = 1
      BY <2>4, <2>6, <3>1, PipeSizes
    <3>4. InPipe(j)' = {}
      <4>1. LoadOf(j)' = 0
        BY <2>4, <3>1
      <4> QED
        BY <4>1, EmptyNext
    <3>5. batch \subseteq received
      BY <2>4, <2>5, <2>6, <3>2, <3>4 DEF Lost
    <3> QED
      BY <1>1, <2>8, <3>1, <3>5
  <2>14. UntakenInv'
    BY <1>1, <2>1, <2>7, UntakenKept DEF WindowInv, AtWork
  <2>15. FirstInv'
    BY <1>1, <2>1, <2>7, FirstKept DEF WindowInv, FirstInv
  <2>16. FinalizeComplete'
    BY <2>1 DEF WindowInv, FinalizeComplete
  <2> QED
    BY <2>12, <2>13, <2>14, <2>15, <2>16 DEF WindowInv
<1> QED
  BY <1>2, <1>3

-----------------------------------------------------------------------------
(* The steps of the connection and of the source.                          *)

(* a message that arrives, and the loss of the connection,                 *)
LEMMA NetworkWindow ==
  TypeOK /\ TypeOK' /\ WindowInv /\ (DeliverCtrl \/ Disconnect) => WindowInv'
<1> SUFFICES ASSUME TypeOK, TypeOK', WindowInv, DeliverCtrl \/ Disconnect PROVE WindowInv'
  OBVIOUS
<1>1. \A j \in Jobs : Shrinks(j)
  BY DeliverMoves, DisconnectDrops
<1>2. /\ UNCHANGED <<phase, result, attempt, job, missing, batch, unsent, completed, received,
                     joinable, nextJob>>
      /\ metaResp' \subseteq metaResp
  BY DEF DeliverCtrl, Disconnect, rcvVars, pullVars, batchVars, fileVars, rowVars
<1>3. UntakenInv'
  BY <1>1, <1>2, ShrinksLoad, UntakenKept DEF WindowInv, AtWork
<1> QED
  BY <1>1, <1>2, <1>3, WindowKept

(* the work of a serving task,                                             *)
LEMMA ServeWindow ==
  ASSUME TypeOK, TypeOK', WindowInv,
         \/ \E g \in gated : ServeStart(g) \/ GateAbandon(g)
         \/ \E g \in sending : ServeDone(g) \/ ServeFails(g)
  PROVE  WindowInv'
<1>1. \A j \in Jobs : Shrinks(j)
  BY StartMoves, DoneMoves, GivesUp
<1>2. UNCHANGED <<phase, result, attempt, job, missing, batch, unsent, completed, received,
                  joinable, nextJob, metaResp>>
  BY DEF ServeStart, GateAbandon, ServeDone, ServeFails, rcvVars, netVars, pullVars, batchVars,
         fileVars, rowVars
<1>3. UntakenInv'
  BY <1>1, <1>2, ShrinksLoad, UntakenKept DEF WindowInv, AtWork
<1> QED
  BY <1>1, <1>2, <1>3, WindowKept

(* An answer is for a job nobody has heard of.                             *)
LEMMA RouteWindow == TypeOK /\ TypeOK' /\ DeliveryInv /\ WindowInv /\ Route => WindowInv'
<1> SUFFICES ASSUME TypeOK, TypeOK', DeliveryInv, WindowInv, Route PROVE WindowInv'
  OBVIOUS
<1>1. \A j \in Jobs : Shrinks(j)
  BY RouteMoves
<1>2. UNCHANGED <<phase, result, attempt, job, missing, batch, unsent, completed, received,
                  joinable>>
  BY DEF Route, rcvVars, pullVars, batchVars, fileVars
<1>3. \A j \in Jobs : LoadOf(j)' <= LoadOf(j)
  BY <1>1, ShrinksLoad
<1>4. \/ nextJob' = nextJob /\ metaResp' \subseteq metaResp
      \/ \E r \in metaResp' : /\ r.job = nextJob /\ nextJob \in Jobs /\ nextJob' = nextJob + 1
                              /\ metaResp' = metaResp \cup {r}
      \/ nextJob \in Jobs /\ nextJob' = nextJob + 1 /\ metaResp' = metaResp
  BY DEF Route, RouteMeta, RouteFetch, RouteAck, RouteCancel, EndRow, rowVars
<1>5. UntakenInv'
  <2>1. CASE nextJob' = nextJob /\ metaResp' \subseteq metaResp
    BY <1>2, <1>3, <2>1, UntakenKept DEF WindowInv, AtWork
  <2>2. ASSUME NEW r \in metaResp', nextJob \in Jobs, nextJob' = nextJob + 1, r.job = nextJob,
               metaResp' = metaResp \cup {r} \/ metaResp' = metaResp
        PROVE  UntakenInv'
    <3>1. ASSUME NEW j \in Jobs, j >= nextJob' \/ (\E o \in metaResp' : o.job = j)
          PROVE  LoadOf(j)' = 0
      <4>1. j >= nextJob \/ (\E o \in metaResp : o.job = j)
        BY <2>2, <3>1 DEF Jobs
      <4>2. LoadOf(j) = 0
        BY <4>1 DEF WindowInv, UntakenInv
      <4> QED
        BY <1>3, <4>2, PipeSizes, NextSizes
    <3>2. \A o \in metaResp : o.job < nextJob
      BY DEF DeliveryInv, RespInv
    <3>3. AtWork => job < nextJob
      BY DEF DeliveryInv, TakenInv
    <3>4. AtWork' <=> AtWork
      BY <1>2 DEF AtWork
    <3>5. \A o \in metaResp' : AtWork' => o.job # job'
      BY <1>2, <2>2, <3>3, <3>4 DEF WindowInv, UntakenInv, Jobs
    <3>6. \A o, q \in metaResp' : o.job = q.job => o = q
      BY <2>2, <3>2 DEF WindowInv, UntakenInv, Jobs
    <3> QED
      BY <3>1, <3>5, <3>6 DEF UntakenInv
  <2>3. CASE nextJob \in Jobs /\ nextJob' = nextJob + 1 /\ metaResp' = metaResp
    <3>1. ASSUME NEW j \in Jobs, j >= nextJob' \/ (\E o \in metaResp' : o.job = j)
          PROVE  LoadOf(j)' = 0
      <4>1. j >= nextJob \/ (\E o \in metaResp : o.job = j)
        BY <2>3, <3>1 DEF Jobs
      <4>2. LoadOf(j) = 0
        BY <4>1 DEF WindowInv, UntakenInv
      <4> QED
        BY <1>3, <4>2, PipeSizes, NextSizes
    <3> QED
      BY <1>2, <2>3, <3>1 DEF UntakenInv, WindowInv, AtWork
  <2> QED
    BY <1>4, <2>1, <2>2, <2>3
<1> QED
  BY <1>1, <1>2, <1>5, WindowKept

(* Everything else the source, its user and the network do leaves both the *)
(* receiver and the pipeline alone.                                        *)
LEMMA OtherWindow ==
  ASSUME TypeOK, TypeOK', WindowInv,
         \/ Reconnect \/ Revoke \/ EditFile
         \/ \E r \in metaResp : DropMetaResp(r)
         \/ \E j \in Jobs : SourcePause(j) \/ SourceResume(j) \/ SourceCancel(j) \/ DropCleanup(j)
         \/ \E j \in Jobs, m \in {0, 1, 2} : SourceThrottle(j, m)
         \/ UNCHANGED vars
  PROVE  WindowInv'
<1>1. /\ UNCHANGED <<wire, tasks, joinable, phase, result, attempt, job, missing, batch, unsent,
                     completed, received, nextJob>>
      /\ Elsewhere /\ metaResp' \subseteq metaResp
  BY DEF Reconnect, Revoke, EditFile, DropMetaResp, SourcePause, SourceResume, SourceCancel,
         DropCleanup, EndRow, SourceThrottle, rcvVars, pullVars, batchVars, fileVars, netVars,
         srcVars, rowVars, vars, Elsewhere
<1> QED
  BY <1>1, QuietKept

(* and so every step.                                                      *)
LEMMA WindowStep == TypeOK /\ DeliveryInv /\ WindowInv /\ [Next]_vars => WindowInv'
<1> SUFFICES ASSUME TypeOK, DeliveryInv, WindowInv, [Next]_vars PROVE WindowInv'
  OBVIOUS
<1>1. TypeOK'
  BY TypeStep
<1>2. CASE ReceiverNext
  BY <1>1, <1>2, MetaWindow, TimeoutWindow, ControlWindow, StartWindow, SendWindow,
     FinalizeWindow, RespWindow, OtherWindow, AcceptWindow, TaskWindow, JoinWindow,
     CommandWindow DEF ReceiverNext
<1>3. CASE ConnectionNext
  BY <1>1, <1>3, NetworkWindow, OtherWindow DEF ConnectionNext
<1>4. CASE SourceNext
  BY <1>1, <1>4, RouteWindow, ServeWindow, OtherWindow DEF SourceNext
<1>5. CASE UNCHANGED vars
  BY <1>1, <1>5, OtherWindow
<1> QED
  BY <1>2, <1>3, <1>4, <1>5 DEF Next

(* Nothing is under way before the first request.                          *)
LEMMA WindowInit == Init => WindowInv
<1> SUFFICES ASSUME Init PROVE WindowInv
  OBVIOUS
<1>1. ASSUME NEW j PROVE LoadOf(j) = 0
  <2>1. /\ Fetches(wire, j) = {} /\ Fetches(inbound, j) = {}
        /\ OfJob(gated, j) = {} /\ OfJob(sending, j) = {} /\ OfJob(uni, j) = {}
        /\ OfJob(tasks, j) = {} /\ OfJob(joinable, j) = {}
    BY DEF Init, Fetches, OfJob
  <2>2. Cardinality({}) = 0
    BY FS_EmptySet
  <2> QED
    BY <2>1, <2>2 DEF LoadOf
<1>2. LoadOf(job) = 0
  <2>1. PICK j : j = job
    OBVIOUS
  <2> QED
    BY <1>1, <2>1, SameJob
<1>3. BatchInv /\ BetweenInv /\ FinalizeComplete
  BY DEF Init, BatchInv, BetweenInv, FinalizeComplete
<1>4. UntakenInv
  BY <1>1 DEF Init, UntakenInv
<1>5. FirstInv
  BY <1>1, <1>2 DEF Init, FirstInv
<1> QED
  BY <1>3, <1>4, <1>5 DEF WindowInv

(* The books of run_receiver_windowed balance in every behaviour: the      *)
(* chunks it counts as asked for and not yet accounted for are under way,  *)
(* on disk or lost, no job has more under way than its window asked for,   *)
(* and finalize is reached with every chunk.                               *)
THEOREM WindowInvariant == Spec => []WindowInv
<1>1. Spec => []TypeOK
  BY TypeCorrect
<1>2. Spec => []DeliveryInv
  BY DeliveryInvariant
<1> QED
  BY <1>1, <1>2, WindowInit, WindowStep, PTL DEF Spec

-----------------------------------------------------------------------------
(* The first pull over a connection that loses nothing.                    *)

(* A batch is no larger than the window.                                   *)
LEMMA LowestSize ==
  ASSUME NEW S \in SUBSET Nat, IsFiniteSet(S), NEW k \in Nat
  PROVE  Cardinality(Lowest(S, k)) <= k
<1> DEFINE Below(c) == {d \in S : d < c}
           T == Lowest(S, k)
           f == [c \in T |-> Cardinality(Below(c))]
<1>1. ASSUME NEW c PROVE IsFiniteSet(Below(c)) /\ Cardinality(Below(c)) \in Nat
  <2>1. Below(c) \in SUBSET S
    OBVIOUS
  <2> QED
    BY <2>1, FS_Subset, FS_CardinalityType
<1>2. T \in SUBSET S /\ \A c \in T : Cardinality(Below(c)) < k
  BY DEF Lowest
<1>3. ASSUME NEW c \in S, NEW d \in S, c < d PROVE Cardinality(Below(c)) < Cardinality(Below(d))
  <2>0. c \in Nat /\ d \in Nat
    OBVIOUS
  <2>1. Below(c) \cup {c} \in SUBSET Below(d) /\ c \notin Below(c)
    <3>1. \A e \in S : e \in Nat
      OBVIOUS
    <3>2. \A e \in Below(c) : e \in Below(d)
      BY <1>3, <2>0, <3>1
    <3>3. c \in Below(d)
      BY <1>3
    <3>4. c \notin Below(c)
      BY <2>0
    <3> QED
      BY <3>2, <3>3, <3>4
  <2> HIDE DEF Below
  <2>2. IsFiniteSet(Below(c)) /\ Cardinality(Below(c)) \in Nat
        /\ IsFiniteSet(Below(d)) /\ Cardinality(Below(d)) \in Nat
    BY <1>1
  <2>3. Cardinality(Below(c) \cup {c}) = Cardinality(Below(c)) + 1
    BY <2>1, <2>2, FS_AddElement
  <2>4. Cardinality(Below(c) \cup {c}) <= Cardinality(Below(d))
    BY <2>1, <2>2, FS_Subset
  <2> QED
    BY <2>2, <2>3, <2>4
<1> HIDE DEF Below, T
<1>4. f \in [T -> 0 .. (k - 1)]
  BY <1>1, <1>2
<1>5. ASSUME NEW c \in T, NEW d \in T, f[c] = f[d] PROVE c = d
  <2>1. Cardinality(Below(c)) = Cardinality(Below(d)) /\ Cardinality(Below(c)) \in Nat
        /\ c \in Nat /\ d \in Nat /\ c \in S /\ d \in S
    BY <1>1, <1>2, <1>5
  <2>2. ~(c < d) /\ ~(d < c)
    BY <1>3, <2>1
  <2> QED
    BY <2>1, <2>2
<1>6. f \in Injection(T, 0 .. (k - 1))
  BY <1>4, <1>5 DEF Injection, IsInjective
<1> HIDE DEF f
<1>7. IsFiniteSet(0 .. (k - 1)) /\ Cardinality(0 .. (k - 1)) = k
  BY FS_Interval
<1>8. Cardinality(T) <= Cardinality(0 .. (k - 1))
  BY <1>6, <1>7, FS_Injection
<1> QED
  BY <1>7, <1>8 DEF T

(* What is in a queue, without its head.                                   *)
LEMMA HeadOrTail ==
  ASSUME NEW q \in Seq(CtrlMsg), q # <<>>
  PROVE  Head(q) \in CtrlMsg /\ Range(q) = Range(Tail(q)) \cup {Head(q)}
<1>1. Tail(q) \in Seq(CtrlMsg) /\ Len(Tail(q)) = Len(q) - 1 /\ Head(q) = q[1]
      /\ (\A i \in 1 .. Len(Tail(q)) : Tail(q)[i] = q[i + 1])
  BY HeadTailProperties
<1>2. Len(q) \in Nat \ {0}
  BY EmptySeq
<1>3. Range(q) = {q[i] : i \in 1 .. Len(q)}
  BY RangeEquality
<1>4. Range(Tail(q)) = {Tail(q)[i] : i \in 1 .. Len(Tail(q))}
  BY <1>1, RangeEquality
<1>5. ASSUME NEW i \in 1 .. Len(q) PROVE q[i] \in Range(Tail(q)) \cup {Head(q)}
  <2>1. CASE i = 1
    BY <1>1, <2>1
  <2>2. CASE i # 1
    <3>1. i - 1 \in 1 .. Len(Tail(q)) /\ (i - 1) + 1 = i
      BY <1>1, <1>2, <2>2
    <3>2. q[i] = Tail(q)[i - 1]
      BY <1>1, <3>1
    <3> QED
      BY <1>4, <3>1, <3>2
  <2> QED
    BY <2>1, <2>2
<1>6. Range(q) \subseteq Range(Tail(q)) \cup {Head(q)}
  BY <1>3, <1>5
<1>7. Range(Tail(q)) \cup {Head(q)} \subseteq Range(q)
  BY QueueFacts
<1> QED
  BY <1>6, <1>7

(* The queues of the first pull, by what a step leaves alone.              *)
LEMMA QueueKept ==
  ASSUME QueueInv, UNCHANGED <<wire, inbound, job>>, metaResp' \subseteq metaResp,
         phase' = phase \/ phase' = "over" \/ (AtWork /\ phase' \in {"control", "paused", "batch"})
  PROVE  QueueInv'
BY DEF QueueInv, AtWork

(* Where nothing leaves the pipeline but to the disk, every chunk asked for*)
(* stays in one of the two.                                                *)
LEMMA KeptKept ==
  ASSUME TypeOK, KeptInv, UNCHANGED <<batch, unsent, job, inbound>>, phase' = "batch" => phase = "batch",
         InPipe(job) \cup received \subseteq InPipe(job)' \cup received',
         sjobs' \subseteq sjobs, cancelled \subseteq cancelled', cap'[job] = Unlimited => cap[job] = Unlimited
  PROVE  KeptInv'
BY DEF KeptInv, CancelQueued, Lost

(* What is under way for the pull at work is what is under way for its     *)
(* number.                                                                 *)
LEMMA PipeOfJob ==
  ASSUME TypeOK, job' = job, \A j \in Jobs : InPipe(j)' = InPipe(j)
  PROVE  InPipe(job)' = InPipe(job)
<1>1. PICK j \in Jobs : j = job
  BY DEF TypeOK, PullType
<1> QED
  BY <1>1, SameJob

(* The pull starts with an empty connection and one MetaReq on it ...      *)
LEMMA MetaConserve ==
  ASSUME TypeOK, WindowInv, QueueInv, SendMetaReq, attempt' <= 1
  PROVE  QueueInv' /\ KeptInv'
<1>1. /\ attempt' = attempt + 1 /\ attempt \in Nat /\ phase' = "negotiating"
      /\ wire' = Append(wire, [type |-> "meta", job |-> 1, arg |-> attempt + 1])
      /\ UNCHANGED <<inbound, metaResp>>
  BY DEF SendMetaReq, TypeOK, PullType, srcVars
<1>2. attempt = 0 /\ phase = "idle"
  BY <1>1 DEF WindowInv, FirstInv
<1>3. wire = <<>> /\ inbound = <<>> /\ metaResp = {}
  BY <1>2 DEF QueueInv
<1>4. Len(wire') + Len(inbound') <= 1
  BY <1>1, <1>3
<1> QED
  BY <1>1, <1>3, <1>4 DEF QueueInv, KeptInv, AtWork

(* ... which is answered when the MetaResp arrives.                        *)
LEMMA RespConserve ==
  ASSUME QueueInv, NEW r \in metaResp, RecvMetaResp(r)
  PROVE  QueueInv' /\ KeptInv'
<1>1. /\ phase = "negotiating" /\ phase' = "control" /\ UNCHANGED <<wire, inbound>>
  BY DEF RecvMetaResp, srcVars
<1>2. wire' = <<>> /\ inbound' = <<>>
  BY <1>1 DEF QueueInv
<1>3. Range(wire') = {} /\ Range(inbound') = {}
  BY <1>2 DEF Range
<1> QED
  BY <1>1, <1>3 DEF QueueInv, KeptInv, AtWork

(* The receiver's steps that send nothing.                                 *)
LEMMA ReceiverConserve ==
  ASSUME TypeOK, TypeOK', WindowInv, QueueInv, KeptInv,
         \/ MetaTimeout \/ DrainControl \/ PausedRecv \/ AcceptFails \/ Watchdog \/ Finalize
         \/ \E r \in metaResp : DropMetaResp(r)
         \/ \E s \in uni : AcceptStream(s)
         \/ \E s \in tasks : RunTask(s) \/ TaskFails(s)
  PROVE  QueueInv' /\ KeptInv'
<1>1. CASE MetaTimeout \/ AcceptFails \/ Watchdog \/ Finalize
  <2>1. phase' = "over"
    BY <1>1 DEF MetaTimeout, AcceptFails, Watchdog, Finalize, EndWith
  <2> QED
    BY <2>1 DEF QueueInv, KeptInv, AtWork
<1>2. CASE DrainControl \/ PausedRecv
  <2>1. /\ AtWork /\ phase' \in {"over", "control", "paused"}
        /\ UNCHANGED <<wire, inbound, job, metaResp>>
    BY <1>2 DEF DrainControl, PausedRecv, CancelPull, EndWith, pullVars, netVars, srcVars, AtWork
  <2> QED
    BY <2>1, QueueKept DEF KeptInv
<1>3. ASSUME NEW r \in metaResp, DropMetaResp(r) PROVE QueueInv' /\ KeptInv'
  <2>1. /\ UNCHANGED <<phase, batch, unsent, job, received, inbound, wire, sjobs, cancelled, cap,
                       gated, sending, uni, tasks, joinable>>
        /\ metaResp' \subseteq metaResp
    BY <1>3 DEF DropMetaResp, rcvVars, pullVars, batchVars, fileVars, srcVars, flagVars, rowVars
  <2>2. InPipe(job)' = InPipe(job)
    BY <2>1 DEF InPipe
  <2> QED
    BY <2>1, <2>2, QueueKept, KeptKept
<1>4. ASSUME \/ \E s \in uni : AcceptStream(s)
             \/ \E s \in tasks : RunTask(s) \/ TaskFails(s)
      PROVE  QueueInv' /\ KeptInv'
  <2>1. /\ UNCHANGED <<phase, batch, unsent, job, inbound, wire, metaResp, sjobs, cancelled, cap>>
        /\ received \subseteq received'
    BY <1>4 DEF AcceptStream, RunTask, TaskFails, pullVars, fileVars, netVars, srcVars, flagVars,
                rowVars
  <2>2. \A j \in Jobs : InPipe(j)' = InPipe(j)
    BY <1>4, AcceptMoves, RunMoves, FailMoves
  <2>3. InPipe(job)' = InPipe(job)
    BY <2>1, <2>2, PipeOfJob
  <2> QED
    BY <2>1, <2>3, QueueKept, KeptKept
<1> QED
  BY <1>1, <1>2, <1>3, <1>4

(* Nothing is forgotten when a batch begins,                               *)
LEMMA StartConserve ==
  ASSUME TypeOK, TypeOK', WindowInv, QueueInv, Lossless, StartBatch
  PROVE  QueueInv' /\ KeptInv'
<1>1. /\ AtWork /\ phase' = "batch" /\ unsent' = batch'
      /\ UNCHANGED <<wire, inbound, job, metaResp>>
  BY DEF StartBatch, pullVars, netVars, srcVars, AtWork
<1>2. PICK w \in Streams : batch' = Lowest(missing, w)
  BY DEF StartBatch
<1>3. Cardinality(batch') <= InboundCap
  <2>1. w \in Nat /\ w <= InboundCap
    BY StreamsAssumption DEF Lossless
  <2>2. missing \in SUBSET Chunks /\ missing \in SUBSET Nat
    BY DEF TypeOK, BatchType, Chunks
  <2>3. IsFiniteSet(missing)
    BY <2>2, FiniteRecords, FS_Subset
  <2>4. Cardinality(Lowest(missing, w)) <= w
    BY <2>1, <2>2, <2>3, LowestSize
  <2>5. IsFiniteSet(batch')
    BY FiniteRecords, FS_Subset DEF TypeOK, BatchType
  <2>6. Cardinality(batch') \in Nat
    BY <2>5, FS_CardinalityType
  <2> QED
    BY <1>2, <2>1, <2>4, <2>6
<1>4. Lost' = {}
  BY <1>1 DEF Lost
<1>5. QueueInv'
  BY <1>1, QueueKept
<1> QED
  BY <1>3, <1>4, <1>5 DEF KeptInv

(* when a request is sent, for which the router's queue has room,          *)
LEMMA SendConserve ==
  ASSUME TypeOK, TypeOK', WindowInv, QueueInv, KeptInv, up, SendFetch
  PROVE  QueueInv' /\ KeptInv'
<1>1. PICK c \in unsent : /\ wire' = Append(wire, [type |-> "fetch", job |-> job, arg |-> c])
                          /\ unsent' = unsent \ {c}
  BY DEF SendFetch, LowestOf
<1> DEFINE m == [type |-> "fetch", job |-> job, arg |-> c]
<1>2. c \in Nat /\ c \in batch /\ m \in CtrlMsg /\ m.type = "fetch" /\ m.job = job
  BY DEF TypeOK, BatchType, PullType, Chunks, CtrlMsg
<1>3. /\ phase = "batch" /\ UNCHANGED <<inbound, gated, sending, uni, tasks, joinable>>
      /\ UNCHANGED <<phase, job, batch, received, metaResp, sjobs, cancelled, cap>>
  BY DEF SendFetch, pullVars, fileVars, srcVars, flagVars, rowVars
<1>4. wire' = Append(wire, m) /\ wire \in Seq(CtrlMsg)
  BY <1>1, PipeSizes
<1>5. PICK j \in Jobs : j = job
  BY DEF TypeOK, PullType
<1>6. InPipe(j)' = InPipe(j) \cup {c}
  BY <1>1, <1>2, <1>3, <1>5, SendEnters
<1>7. InPipe(job)' = InPipe(job) \cup {c}
  <2>1. job = j /\ job' = j
    BY <1>3, <1>5
  <2> QED
    BY <1>6, <2>1, SameJob
<1>8. Lost' = Lost
  <2>1. InPipe(job) \subseteq batch \ unsent
    BY <1>3 DEF WindowInv, BatchInv
  <2> QED
    BY <1>1, <1>2, <1>3, <1>7, <2>1 DEF Lost
<1> HIDE DEF m
<1>9. Range(wire') = Range(wire) \cup {m}
  <2>1. Range(Append(wire, m)) = Range(wire) \cup {m}
    BY <1>2, <1>4, QueueFacts
  <2> QED
    BY <1>4, <2>1
<1>10. QueueInv'
  BY <1>2, <1>3, <1>9 DEF QueueInv, AtWork
<1>11. KeptInv'
  BY <1>3, <1>8 DEF KeptInv, CancelQueued
<1> QED
  BY <1>10, <1>11

(* when a verified chunk is entered in the bitmap,                         *)
LEMMA JoinConserve ==
  ASSUME TypeOK, TypeOK', WindowInv, QueueInv, KeptInv, NEW t \in joinable, JoinTask(t)
  PROVE  QueueInv' /\ KeptInv'
<1>1. /\ phase = "batch" /\ phase' \in {"over", "control", "batch"}
      /\ UNCHANGED <<wire, inbound, gated, sending, uni, metaResp>>
      /\ UNCHANGED <<job, batch, unsent, received, sjobs, cancelled, cap>>
  BY DEF JoinTask, EndWith, pullVars, fileVars, netVars, srcVars, flagVars, rowVars
<1>2. QueueInv'
  BY <1>1, QueueKept DEF AtWork
<1>3. ASSUME phase' = "batch" PROVE InPipe(job) \cup received \subseteq InPipe(job)' \cup received'
  <2>1. t.res = "ok" /\ joinable' = joinable \ {t} /\ tasks' = tasks
    BY <1>3 DEF JoinTask, EndWith
  <2>2. PICK j \in Jobs : j = job
    BY DEF TypeOK, PullType
  <2>3. t.job = j /\ t.chunk \in received
    BY <1>1, <2>1, <2>2 DEF WindowInv, BatchInv
  <2>4. InPipe(j) \subseteq InPipe(j)' \cup {t.chunk}
    BY <1>1, <2>1, <2>3, JoinLeaves
  <2>5. job = j /\ job' = j
    BY <1>1, <2>2
  <2> QED
    BY <1>1, <2>3, <2>4, <2>5, SameJob
<1>4. KeptInv'
  <2>1. CASE phase' = "batch"
    BY <1>1, <1>3, <2>1, KeptKept
  <2>2. CASE phase' # "batch"
    BY <2>2 DEF KeptInv
  <2> QED
    BY <2>1, <2>2
<1> QED
  BY <1>2, <1>4

(* and when the user gives an order.                                       *)
LEMMA CommandConserve ==
  ASSUME TypeOK, TypeOK', QueueInv, KeptInv, NEW c \in Command, UserCommand(c)
  PROVE  QueueInv' /\ KeptInv'
<1> DEFINE m == [type |-> "cancel", job |-> job, arg |-> 0]
<1>1. /\ AtWork /\ (wire' = wire \/ wire' = Append(wire, m)) /\ wire \in Seq(CtrlMsg)
      /\ m \in CtrlMsg /\ m.type = "cancel" /\ m.job = job
      /\ UNCHANGED <<inbound, gated, sending, uni, tasks, joinable, metaResp>>
      /\ UNCHANGED <<phase, job, batch, unsent, received, sjobs, cancelled, cap>>
  BY DEF UserCommand, AtWork, CtrlMsg, TypeOK, PullType, NetType, pullVars, batchVars, fileVars,
         srcVars, flagVars, rowVars
<1> HIDE DEF m
<1>2. Range(wire') \subseteq Range(wire) \cup {m}
  <2>1. Range(Append(wire, m)) = Range(wire) \cup {m}
    BY <1>1, QueueFacts
  <2> QED
    BY <1>1, <2>1
<1>3. QueueInv'
  BY <1>1, <1>2 DEF QueueInv, AtWork
<1>4. ASSUME NEW j \in Jobs PROVE InPipe(j)' = InPipe(j)
  <2>1. \/ wire' = wire
        \/ \E e \in CtrlMsg : e.type # "fetch" /\ wire' = Append(wire, e)
    BY <1>1
  <2> QED
    BY <1>1, <2>1, NoRequest DEF Elsewhere
<1>5. InPipe(job)' = InPipe(job)
  BY <1>1, <1>4, PipeOfJob
<1>6. KeptInv'
  BY <1>1, <1>5, KeptKept
<1> QED
  BY <1>3, <1>6

(* A queue that holds nothing but requests of the job adds its length to   *)
(* the load, and the load never exceeds the batch.                         *)
LEMMA AllFetches ==
  ASSUME NEW q \in Seq(CtrlMsg), NEW j, \A m \in Range(q) : m.type = "fetch" /\ m.job = j
  PROVE  Cardinality(Fetches(q, j)) = Len(q)
<1>1. Fetches(q, j) = 1 .. Len(q)
  BY DEF Fetches, Range
<1>2. \A n \in Nat : Cardinality(1 .. n) = n
  BY FS_Interval
<1>3. Len(q) \in Nat
  BY LenProperties
<1> QED
  BY <1>1, <1>2, <1>3

(* What is under way never exceeds the batch, and the batch never the file.*)
LEMMA LoadBound ==
  ASSUME TypeOK, WindowInv, phase = "batch", NEW j, j = job
  PROVE  /\ LoadOf(j) <= Cardinality(batch) /\ Cardinality(batch) <= N
         /\ Cardinality(Fetches(wire, j)) + Cardinality(Fetches(inbound, j)) <= LoadOf(j)
         /\ Cardinality(OfJob(sending, j)) <= LoadOf(j)
<1>1. LoadOf(j) + Cardinality(Lost) <= Sent - completed
  BY SameJob DEF WindowInv, BatchInv
<1>2. LoadOf(j) <= Cardinality(batch)
  BY <1>1, LostSize, PipeSizes DEF Sent
<1>3. IsFiniteSet(Chunks) /\ Cardinality(Chunks) = N /\ batch \in SUBSET Chunks
  BY FS_Interval DEF Chunks, TypeOK, BatchType
<1>4. Cardinality(batch) <= N
  BY <1>3, FS_Subset
<1>5. /\ Cardinality(Fetches(wire, j)) + Cardinality(Fetches(inbound, j)) <= LoadOf(j)
      /\ Cardinality(OfJob(sending, j)) <= LoadOf(j)
  BY PipeSizes DEF LoadOf
<1> QED
  BY <1>2, <1>4, <1>5

(* The router's queue takes every request of the batch: it is only full    *)
(* when a cancel is among what it holds.                                   *)
LEMMA DeliverConserve ==
  ASSUME TypeOK, TypeOK', WindowInv, QueueInv, KeptInv, DeliverCtrl
  PROVE  QueueInv' /\ KeptInv'
<1> DEFINE m == Head(wire)
<1>1. /\ wire \in Seq(CtrlMsg) /\ inbound \in Seq(CtrlMsg) /\ wire # <<>> /\ m \in CtrlMsg
      /\ wire' = Tail(wire) /\ Range(wire) = Range(wire') \cup {m}
      /\ (inbound' = IF Len(inbound) < InboundCap THEN Append(inbound, m) ELSE inbound)
      /\ UNCHANGED <<phase, job, batch, unsent, received, metaResp, sjobs, cancelled, cap>>
  BY HeadOrTail, PipeSizes DEF DeliverCtrl, rcvVars, pullVars, batchVars, fileVars, flagVars, rowVars
<1>2. /\ Len(wire) \in Nat \ {0} /\ Len(wire') = Len(wire) - 1
      /\ Len(inbound) \in Nat /\ (inbound' = inbound \/ Len(inbound') = Len(inbound) + 1)
      /\ (Len(inbound) < InboundCap => inbound' # inbound)
  BY <1>1, LenProperties, HeadTailProperties, EmptySeq, AppendProperties
<1>m. m \in CtrlMsg /\ m \in Range(wire) /\ inbound \in Seq(CtrlMsg)
  BY <1>1
<1>s. \A j : Head(wire).type # "fetch" \/ inbound' # inbound => InPipe(j)' = InPipe(j)
  BY DeliverMoves
<1>t. m.type # "fetch" \/ inbound' # inbound => \A j : InPipe(j)' = InPipe(j)
  BY <1>s
<1> HIDE DEF m
<1>3. /\ Range(inbound) \subseteq Range(inbound')
      /\ Range(wire') \cup Range(inbound') \subseteq Range(wire) \cup Range(inbound)
  <2>1. Range(Append(inbound, m)) = Range(inbound) \cup {m}
    BY <1>m, QueueFacts
  <2> QED
    BY <1>1, <1>m, <2>1
<1>4. QueueInv'
  <2>1. phase # "idle" /\ (phase = "negotiating" => metaResp = {})
    BY <1>1 DEF QueueInv
  <2>2. phase = "negotiating" => Len(wire') + Len(inbound') <= 1
    BY <1>2 DEF QueueInv
  <2>3. AtWork => \A e \in Range(wire') \cup Range(inbound') :
                    e.type \in {"fetch", "cancel"} /\ e.job = job
    BY <1>3 DEF QueueInv
  <2> QED
    BY <1>1, <2>1, <2>2, <2>3 DEF QueueInv, AtWork
<1>5. KeptInv'
  <2> SUFFICES ASSUME phase = "batch", job \in sjobs \ cancelled, cap[job] = Unlimited,
                      ~CancelQueued'
               PROVE  Lost' = {}
    BY <1>1 DEF KeptInv
  <2>1. ~CancelQueued
    BY <1>1, <1>3 DEF CancelQueued
  <2>2. Lost = {} /\ Cardinality(batch) <= InboundCap
    BY <2>1 DEF KeptInv
  <2>3. \A e \in Range(wire) \cup Range(inbound) : e.type \in {"fetch", "cancel"} /\ e.job = job
    BY DEF QueueInv, AtWork
  <2>4. PICK j \in Jobs : j = job
    BY DEF TypeOK, PullType
  <2>5. m.type = "fetch" => inbound' # inbound
    <3> SUFFICES ASSUME m.type = "fetch" PROVE Len(inbound) < InboundCap
      BY <1>2
    <3>1. \A e \in Range(inbound) : e.type = "fetch" /\ e.job = j
      BY <2>1, <2>3, <2>4 DEF CancelQueued
    <3>2. Cardinality(Fetches(inbound, j)) = Len(inbound)
      BY <1>m, <3>1, AllFetches
    <3>3. Cardinality(Fetches(wire, j)) # 0
      <4>1. m.arg \in AskedIn(wire, j)
        <5>1. 1 \in DOMAIN wire /\ wire[1] = m
          BY <1>1 DEF m
        <5>2. m.job = j
          BY <1>m, <2>3, <2>4
        <5> QED
          BY <5>1, <5>2 DEF AskedIn, Fetches
      <4> QED
        BY <1>1, <4>1, FetchesSize
    <3>4. /\ LoadOf(j) <= Cardinality(batch)
          /\ Cardinality(Fetches(wire, j)) + Cardinality(Fetches(inbound, j)) <= LoadOf(j)
      BY <2>4, LoadBound
    <3>5. /\ Cardinality(Fetches(wire, j)) \in Nat /\ LoadOf(j) \in Nat
          /\ Cardinality(batch) \in Nat /\ InboundCap \in Nat
      BY PipeSizes, LostSize
    <3> QED
      BY <1>2, <2>2, <3>2, <3>3, <3>4, <3>5
  <2>6. \A k \in Jobs : InPipe(k)' = InPipe(k)
    BY <1>t, <2>5
  <2>7. InPipe(job)' = InPipe(job)
    BY <1>1, <2>6, PipeOfJob
  <2> QED
    BY <1>1, <2>2, <2>7 DEF Lost
<1> QED
  BY <1>4, <1>5

(* The router serves every request it finds no reason to refuse.           *)
LEMMA RouteConserve ==
  ASSUME TypeOK, TypeOK', WindowInv, up, allowed, QueueInv, KeptInv, Route
  PROVE  QueueInv' /\ KeptInv'
<1> DEFINE m == Head(inbound)
           g == [job |-> m.job, chunk |-> m.arg]
<1>1. /\ wire \in Seq(CtrlMsg) /\ inbound \in Seq(CtrlMsg) /\ inbound # <<>> /\ m \in CtrlMsg
      /\ inbound' = Tail(inbound) /\ Range(inbound) = Range(inbound') \cup {m}
      /\ UNCHANGED <<wire, phase, job, batch, unsent, received, cancelled, cap>>
  BY HeadOrTail, PipeSizes DEF Route, rcvVars, pullVars, batchVars, fileVars, flagVars
<1>2. /\ Len(inbound) \in Nat \ {0} /\ Len(inbound') = Len(inbound) - 1 /\ Len(wire) \in Nat
      /\ (Len(wire) = 0 => wire = <<>>) /\ (Len(inbound') = 0 => inbound' = <<>>)
  BY <1>1, LenProperties, HeadTailProperties, EmptySeq
<1>3. QueueInv'
  <2>1. phase # "idle"
    BY <1>1 DEF QueueInv
  <2>2. phase = "negotiating" => wire' = <<>> /\ inbound' = <<>>
    BY <1>1, <1>2 DEF QueueInv
  <2>3. phase = "negotiating" => Len(wire') + Len(inbound') <= 1
    BY <2>2
  <2>4. AtWork => \A e \in Range(wire') \cup Range(inbound') :
                    e.type \in {"fetch", "cancel"} /\ e.job = job
    BY <1>1 DEF QueueInv
  <2> QED
    BY <1>1, <2>1, <2>2, <2>3, <2>4 DEF QueueInv, AtWork
<1>4. KeptInv'
  <2> SUFFICES ASSUME phase = "batch", job \in sjobs' \ cancelled, cap[job] = Unlimited,
                      ~CancelQueued'
               PROVE  Lost' = {}
    BY <1>1 DEF KeptInv
  <2>1. m.type \in {"fetch", "cancel"} /\ m.job = job
    BY <1>1 DEF QueueInv, AtWork
  <2>2. m.type = "fetch" /\ RouteFetch(m)
    <3>1. m.type = "cancel" => job \notin sjobs'
      BY <1>1, <2>1 DEF Route, RouteMeta, RouteFetch, RouteAck, RouteCancel, EndRow, rowVars
    <3>2. m.type = "fetch"
      BY <2>1, <3>1
    <3> QED
      BY <3>2 DEF Route, RouteMeta, RouteAck, RouteCancel
  <2>3. job \in sjobs
    BY <2>1, <2>2 DEF RouteFetch, EndRow, rowVars
  <2>4. ~CancelQueued
    BY <1>1, <2>2 DEF CancelQueued
  <2>5. Lost = {}
    BY <2>3, <2>4 DEF KeptInv
  <2>6. PICK j \in Jobs : j = job
    BY DEF TypeOK, PullType
  <2>7. Cardinality({s \in sending : s.job = m.job}) < cap[m.job]
    <3>1. {s \in sending : s.job = m.job} = OfJob(sending, j)
      BY <2>1, <2>6 DEF OfJob
    <3>2. /\ LoadOf(j) <= Cardinality(batch) /\ Cardinality(batch) <= N
          /\ Cardinality(OfJob(sending, j)) <= LoadOf(j)
      BY <2>6, LoadBound
    <3>3. /\ Cardinality(OfJob(sending, j)) \in Nat /\ LoadOf(j) \in Nat
          /\ Cardinality(batch) \in Nat
      BY PipeSizes, LostSize
    <3>4. cap[m.job] = N + 2
      BY <2>1 DEF Unlimited
    <3>5. Cardinality(OfJob(sending, j)) < N + 2
      BY <3>2, <3>3
    <3> QED
      BY <3>1, <3>4, <3>5
  <2>8. m.arg \in Chunks
    <3>1. m.arg \in AskedIn(inbound, j)
      <4>1. 1 \in DOMAIN inbound /\ inbound[1] = m
        BY <1>1
      <4> QED
        BY <2>1, <2>2, <2>6, <4>1 DEF AskedIn, Fetches
    <3>2. m.arg \in InPipe(j)
      BY <3>1 DEF InPipe
    <3>3. InPipe(j) \subseteq batch
      BY <2>6, SameJob DEF WindowInv, BatchInv
    <3> QED
      BY <3>2, <3>3 DEF TypeOK, BatchType
  <2>9. gated' = gated \cup {g}
    <3>1. Cardinality({s \in sending : s.job = m.job}) \in Nat /\ cap[m.job] \in Nat
      <4>1. {s \in sending : s.job = m.job} = OfJob(sending, j)
        BY <2>1, <2>6 DEF OfJob
      <4>2. Cardinality(OfJob(sending, j)) \in Nat
        BY PipeSizes
      <4> QED
        BY <2>1, <4>1, <4>2 DEF TypeOK, PullType, SourceType
    <3> HIDE DEF m
    <3>2. ~(Cardinality({s \in sending : s.job = m.job}) >= cap[m.job])
      BY <2>7, <3>1
    <3> QED
      BY <2>1, <2>2, <2>3, <2>8, <3>2 DEF RouteFetch
  <2>10. \A k \in Jobs : InPipe(k)' = InPipe(k)
    BY <2>9, RouteMoves
  <2>11. InPipe(job)' = InPipe(job)
    BY <1>1, <2>10, PipeOfJob
  <2> QED
    BY <1>1, <2>5, <2>11 DEF Lost
<1> QED
  BY <1>3, <1>4

(* What the source's tasks and its user do to a first pull.                *)
LEMMA SourceConserve ==
  ASSUME TypeOK, TypeOK', QueueInv, KeptInv, Lossless,
         \/ \E g \in gated : ServeStart(g) \/ GateAbandon(g)
         \/ \E g \in sending : ServeDone(g) \/ ServeFails(g)
         \/ EditFile
         \/ \E j \in Jobs : SourcePause(j) \/ SourceResume(j) \/ SourceCancel(j) \/ DropCleanup(j)
         \/ \E j \in Jobs, m \in {0, 1, 2} : SourceThrottle(j, m)
  PROVE  QueueInv' /\ KeptInv'
<1> USE DEF rcvVars, netVars, pullVars, batchVars, fileVars, flagVars, rowVars
<1>1. /\ UNCHANGED <<phase, job, batch, unsent, received, wire, inbound, metaResp, tasks, joinable>>
      /\ sjobs' \subseteq sjobs /\ cancelled \subseteq cancelled'
  BY DEF ServeStart, GateAbandon, ServeDone, ServeFails, EditFile, SourcePause, SourceResume,
         SourceCancel, DropCleanup, EndRow, SourceThrottle
<1>2. QueueInv'
  BY <1>1, QueueKept
<1>3. job \in Jobs /\ cap \in [Jobs -> Nat]
  BY DEF TypeOK, PullType, SourceType
<1>4. ASSUME NEW g \in sending, ServeFails(g) PROVE FALSE
  BY <1>4 DEF ServeFails, Lossless
<1>5. ASSUME NEW g \in gated, GateAbandon(g) PROVE KeptInv'
  <2>1. CASE g.job = job
    <3>1. job \in cancelled'
      BY <1>5, <2>1 DEF GateAbandon
    <3> QED
      BY <1>1, <1>5, <3>1 DEF KeptInv
  <2>2. CASE g.job # job
    <3>1. gated' = gated \ {g} /\ UNCHANGED <<sending, uni, sjobs, cancelled, cap>>
      BY <1>5 DEF GateAbandon
    <3>2. ChunksOf(gated', job) = ChunksOf(gated, job)
      BY <2>2, <3>1 DEF ChunksOf, OfJob
    <3>3. InPipe(job)' = InPipe(job)
      BY <1>1, <3>1, <3>2 DEF InPipe
    <3> QED
      BY <1>1, <3>1, <3>3, KeptKept
  <2> QED
    BY <2>1, <2>2
<1>6. ASSUME \/ \E g \in gated : ServeStart(g)
             \/ \E g \in sending : ServeDone(g)
      PROVE  KeptInv'
  <2>1. \A j \in Jobs : InPipe(j)' = InPipe(j)
    BY <1>6, StartMoves, DoneMoves
  <2>2. UNCHANGED cap
    BY <1>6 DEF ServeStart, ServeDone
  <2>3. InPipe(job)' = InPipe(job)
    BY <1>1, <2>1, PipeOfJob
  <2> QED
    BY <1>1, <2>2, <2>3, KeptKept
<1>7. ASSUME \/ EditFile
             \/ \E j \in Jobs : \/ SourcePause(j) \/ SourceResume(j) \/ SourceCancel(j)
                                \/ DropCleanup(j)
      PROVE  KeptInv'
  <2>1. UNCHANGED <<gated, sending, uni, cap>>
    BY <1>7 DEF EditFile, SourcePause, SourceResume, SourceCancel, DropCleanup, EndRow
  <2>2. InPipe(job)' = InPipe(job)
    BY <1>1, <2>1 DEF InPipe
  <2> QED
    BY <1>1, <2>1, <2>2, KeptKept
<1>8. ASSUME NEW j \in Jobs, NEW k \in {0, 1, 2}, SourceThrottle(j, k) PROVE KeptInv'
  <2>1. UNCHANGED <<gated, sending, uni>> /\ cap' = [cap EXCEPT ![j] = ThrottleCap(k)]
    BY <1>8 DEF SourceThrottle
  <2>2. InPipe(job)' = InPipe(job)
    BY <1>1, <2>1 DEF InPipe
  <2>3. cap'[job] = Unlimited => cap[job] = Unlimited
    BY <1>3, <2>1 DEF ThrottleCap, Unlimited
  <2> QED
    BY <1>1, <2>2, <2>3, KeptKept
<1>9. KeptInv'
  BY <1>4, <1>5, <1>6, <1>7, <1>8
<1> QED
  BY <1>2, <1>9

(* A lossless connection stays up and allowed.                             *)
LEMMA OpenStep ==
  ASSUME Lossless, up, allowed, [Next]_vars
  PROVE  up' /\ allowed'
<1> USE DEF rcvVars, netVars, srcVars, flagVars, vars
<1>1. CASE ReceiverNext
  BY <1>1 DEF ReceiverNext, SendMetaReq, MetaTimeout, DrainControl, PausedRecv, CancelPull,
              StartBatch, SendFetch, AcceptFails, Watchdog, Finalize, RecvMetaResp, DropMetaResp,
              AcceptStream, RunTask, TaskFails, JoinTask, UserCommand
<1>2. CASE ConnectionNext
  BY <1>2 DEF ConnectionNext, DeliverCtrl, Disconnect, Reconnect, Lossless
<1>3. CASE SourceNext
  BY <1>3 DEF SourceNext, Route, Revoke, EditFile, ServeStart, GateAbandon, ServeDone,
              ServeFails, SourcePause, SourceResume, SourceCancel, DropCleanup, SourceThrottle,
              Lossless
<1>4. CASE UNCHANGED vars
  BY <1>4
<1> QED
  BY <1>1, <1>2, <1>3, <1>4 DEF Next

(* Pulls are only ever counted up.                                         *)
LEMMA AttemptGrows ==
  ASSUME TypeOK, [Next]_vars, attempt' <= 1
  PROVE  attempt <= 1
<1> USE DEF rcvVars, pullVars, vars
<1>1. attempt' = attempt \/ attempt' = attempt + 1
  <2>1. CASE ReceiverNext
    BY <2>1 DEF ReceiverNext, SendMetaReq, MetaTimeout, DrainControl, PausedRecv, CancelPull,
                StartBatch, SendFetch, AcceptFails, Watchdog, Finalize, RecvMetaResp,
                DropMetaResp, AcceptStream, RunTask, TaskFails, JoinTask, UserCommand
  <2>2. CASE ConnectionNext
    BY <2>2 DEF ConnectionNext, DeliverCtrl, Disconnect, Reconnect
  <2>3. CASE SourceNext
    BY <2>3 DEF SourceNext, Route, Revoke, EditFile, ServeStart, GateAbandon, ServeDone,
                ServeFails, SourcePause, SourceResume, SourceCancel, DropCleanup, SourceThrottle
  <2>4. CASE UNCHANGED vars
    BY <2>4
  <2> QED
    BY <2>1, <2>2, <2>3, <2>4 DEF Next
<1>2. attempt \in Nat
  BY DEF TypeOK, PullType
<1> QED
  BY <1>1, <1>2

(* No step loses a request of a first pull on a lossless connection.       *)
LEMMA ConserveStep ==
  ASSUME Lossless, TypeOK, WindowInv, ConserveInv, [Next]_vars
  PROVE  ConserveInv'
<1>1. TypeOK' /\ up /\ allowed /\ up' /\ allowed'
  BY TypeStep, OpenStep DEF ConserveInv
<1> SUFFICES ASSUME attempt' <= 1 PROVE QueueInv' /\ KeptInv'
  BY <1>1 DEF ConserveInv
<1>2. QueueInv /\ KeptInv
  BY AttemptGrows DEF ConserveInv
<1>3. CASE ReceiverNext
  BY <1>1, <1>2, <1>3, MetaConserve, RespConserve, ReceiverConserve, StartConserve, SendConserve,
     JoinConserve, CommandConserve DEF ReceiverNext
<1>4. CASE ConnectionNext
  BY <1>1, <1>2, <1>4, DeliverConserve DEF ConnectionNext, Disconnect, Reconnect, Lossless
<1>5. CASE SourceNext
  BY <1>1, <1>2, <1>5, RouteConserve, SourceConserve DEF SourceNext, Revoke, Lossless
<1>6. CASE UNCHANGED vars
  <2>1. /\ UNCHANGED <<phase, batch, unsent, job, received, inbound, wire, sjobs, cancelled, cap,
                       gated, sending, uni, tasks, joinable>>
        /\ metaResp' \subseteq metaResp
    BY <1>6 DEF vars, rcvVars, batchVars, pullVars, fileVars, netVars, srcVars
  <2>2. InPipe(job)' = InPipe(job)
    BY <2>1 DEF InPipe
  <2> QED
    BY <1>2, <2>1, <2>2, QueueKept, KeptKept
<1> QED
  BY <1>3, <1>4, <1>5, <1>6 DEF Next

(* On a connection that loses nothing the first pull's requests are all in *)
(* the pipeline or on disk, unless the job is throttled or being cancelled.*)
THEOREM NothingLost ==
  ASSUME Lossless
  PROVE  Spec => []ConserveInv
<1>1. Init => ConserveInv
  BY DEF Init, ConserveInv, QueueInv, KeptInv, AtWork
<1>2. TypeOK /\ WindowInv /\ ConserveInv /\ [Next]_vars => ConserveInv'
  BY ConserveStep
<1> QED
  BY <1>1, <1>2, TypeCorrect, WindowInvariant, PTL DEF Spec

(* The accounting of run_receiver_windowed is right about both machines,   *)
(* finalize never meets an incomplete bitmap, a first pull never meets a   *)
(* stream that is not its own, and on a connection that loses nothing none *)
(* of its requests is forgotten.                                           *)
THEOREM PipelineAlwaysSound == Spec => []PipelineSound
<1>1. TypeOK /\ WindowInv => WindowAccounting /\ FinalizeComplete /\ OwnStreamsOnly
  <2> SUFFICES ASSUME TypeOK, WindowInv
               PROVE  WindowAccounting /\ FinalizeComplete /\ OwnStreamsOnly
    OBVIOUS
  <2>1. ASSUME phase = "batch"
        PROVE  InPipe(job) \subseteq batch \ unsent /\ LoadOf(job) <= Sent - completed
    <3>1. /\ InPipe(job) \subseteq batch \ unsent
          /\ LoadOf(job) + Cardinality(Lost) <= Sent - completed
      BY <2>1 DEF WindowInv, BatchInv
    <3>2. LoadOf(job) \in Nat /\ Cardinality(Lost) \in Nat /\ Sent - completed \in Int
      BY PipeSizes, LostSize DEF Sent
    <3> QED
      BY <3>1, <3>2
  <2>2. OwnStreamsOnly
    BY DEF OwnStreamsOnly, WindowInv, FirstInv, TypeOK, PullType
  <2> QED
    BY <2>1, <2>2 DEF WindowAccounting, WindowInv
<1>2. ConserveInv /\ attempt <= 1 => RequestsConserved
  BY DEF ConserveInv, KeptInv, RequestsConserved, CancelUnderWay, CancelQueued, Lost
<1>3. CASE Lossless
  <2>1. TypeOK /\ WindowInv /\ ConserveInv => PipelineSound
    BY <1>1, <1>2 DEF PipelineSound
  <2>2. Spec => []ConserveInv
    BY <1>3, NothingLost
  <2> QED
    BY <2>1, <2>2, TypeCorrect, WindowInvariant, PTL
<1>4. CASE ~Lossless
  <2>1. TypeOK /\ WindowInv => PipelineSound
    BY <1>1, <1>4 DEF PipelineSound
  <2> QED
    BY <2>1, TypeCorrect, WindowInvariant, PTL
<1> QED
  BY <1>3, <1>4
=============================================================================

------------------------------ MODULE RelayPunch ------------------------------
(***************************************************************************)
(* How two devices find each other over the relay (relay/client.rs punch,  *)
(* handle_push, connect_peer, accept_peer; localtrans-relay control.rs     *)
(* Punch; relay/virtual_ep.rs; the event loop of the shells). The caller   *)
(* asks the server for a session with a target, the server gives both an   *)
(* address, both knock there and do the inner QUIC handshake through it.   *)
(*                                                                         *)
(* The server's answer does not say which target it is for. A client keeps *)
(* one waiter per target and gives the answer to any of them.              *)
(***************************************************************************)
EXTENDS Integers, Sequences, FiniteSets

CONSTANTS
  Peer,       \* registered devices
  Hidden,     \* those registered hidden
  MaxPunches  \* bound: calls of connect_peer, and sessions given out

ASSUME PunchAssumption == MaxPunches \in Nat

Punches == 1 .. MaxPunches
NoCall == [by |-> {}, target |-> {}, st |-> "none", sess |-> 0]
OneOrNone == {{d} : d \in Peer} \cup {{}}
Push == [type : {"no", "ok", "notif"}, s : 0 .. MaxPunches]
Call == [by : OneOrNone, target : OneOrNone,
         st : {"none", "asking", "shaking", "ok", "failed"}, sess : 0 .. MaxPunches]

VARIABLES
  call,      \* calls of connect_peer: "asking", "shaking", "ok", "failed"
  waiters,   \* pending_punches of each device: target -> call, 0 if none
  asked,     \* requests on the way to the server, oldest first
  pushed,    \* pushes on the way to each device, oldest first
  sess,      \* sessions the server gave out: <<requester, target>>
  accept     \* accept_peer on each session: "none", "wait", "ok", "failed"

cvars == <<call, waiters, asked, pushed, sess, accept>>

CInit ==
  /\ call = [c \in Punches |-> NoCall]
  /\ waiters = [d \in Peer |-> [t \in Peer |-> 0]]
  /\ asked = [d \in Peer |-> <<>>]
  /\ pushed = [d \in Peer |-> <<>>]
  /\ sess = <<>>
  /\ accept = [s \in Punches |-> "none"]

Waiting(d) == {t \in Peer : waiters[d][t] # 0}

\* punch: a waiter for the target, over an older one, which is thereby cancelled;
\* then the request.
Punch(d, t) == \E c \in Punches :
  /\ call[c] = NoCall /\ \A e \in Punches : e < c => call[e] # NoCall
  /\ d # t
  /\ call' = [e \in Punches |->
       IF e = c THEN [by |-> {d}, target |-> {t}, st |-> "asking", sess |-> 0]
       ELSE IF e = waiters[d][t] /\ call[e].st = "asking" THEN [call[e] EXCEPT !.st = "failed"] ELSE call[e]]
  /\ waiters' = [waiters EXCEPT ![d][t] = c]
  /\ asked' = [asked EXCEPT ![d] = Append(@, t)]
  /\ UNCHANGED <<pushed, sess, accept>>

\* The server: an offline or hidden target, too many requests and an exhausted
\* pool are refused alike; otherwise the target is told, then the requester.
Answer(d) ==
  /\ asked[d] # <<>>
  /\ asked' = [asked EXCEPT ![d] = Tail(@)]
  /\ \/ /\ pushed' = [pushed EXCEPT ![d] = Append(@, [type |-> "no", s |-> 0])]
        /\ UNCHANGED sess
     \/ LET t == Head(asked[d])  s == Len(sess) + 1 IN
        /\ t \notin Hidden /\ Len(sess) < MaxPunches
        /\ sess' = Append(sess, <<d, t>>)
        /\ pushed' = [pushed EXCEPT ![t] = Append(@, [type |-> "notif", s |-> s]),
                                    ![d] = Append(@, [type |-> "ok", s |-> s])]
  /\ UNCHANGED <<call, waiters, accept>>

Pushed(d, type) ==
  /\ pushed[d] # <<>> /\ Head(pushed[d]).type = type
  /\ pushed' = [pushed EXCEPT ![d] = Tail(@)]

\* PunchResp without a session resolves nobody.
AnsweredNo(d) == Pushed(d, "no") /\ UNCHANGED <<call, waiters, asked, sess, accept>>

\* PunchResp with one: drain().next() takes any waiter; the drained others are
\* cancelled. A waiter whose call gave up takes the answer with it.
Resolved(d) ==
  /\ Pushed(d, "ok")
  /\ waiters' = [waiters EXCEPT ![d] = [t \in Peer |-> 0]]
  /\ IF Waiting(d) = {} THEN UNCHANGED call
     ELSE \E first \in Waiting(d) :
       call' = [c \in Punches |->
         IF call[c].st # "asking" \/ \A t \in Waiting(d) : waiters[d][t] # c THEN call[c]
         ELSE IF c = waiters[d][first]
                THEN [call[c] EXCEPT !.st = "shaking", !.sess = Head(pushed[d]).s]
                ELSE [call[c] EXCEPT !.st = "failed"]]
  /\ UNCHANGED <<asked, sess, accept>>

\* PunchNotif: the shell's event loop starts accept_peer.
Notified(d) ==
  /\ Pushed(d, "notif")
  /\ accept' = [accept EXCEPT ![Head(pushed[d]).s] = "wait"]
  /\ UNCHANGED <<call, waiters, asked, sess>>

CallOf(s) == {c \in Punches : call[c].sess = s}

HandshakeWith_anyone(c, s) ==
  /\ call[c].st = "shaking" /\ call[c].sess = s /\ accept[s] = "wait"
  /\ call' = [call EXCEPT ![c].st = "ok"] /\ accept' = [accept EXCEPT ![s] = "ok"]
  /\ UNCHANGED <<waiters, asked, pushed, sess>>

\* The inner handshake on a session, with both ends there: the client pins the
\* certificate to its target and the server to the announced requester.
HandshakeWith(c, s) ==
  /\ call[c].st = "shaking" /\ call[c].sess = s /\ accept[s] = "wait"
  /\ LET ok == call[c].target = {sess[s][2]} /\ call[c].by = {sess[s][1]} IN
       /\ call' = [call EXCEPT ![c].st = IF ok THEN "ok" ELSE "failed"]
       /\ accept' = [accept EXCEPT ![s] = IF ok THEN "ok" ELSE "failed"]
  /\ UNCHANGED <<waiters, asked, pushed, sess>>

InnerHandshake(c) == \E s \in 1 .. Len(sess) : HandshakeWith(c, s)

\* A punch waits 10 s for its answer and leaves its waiter behind; a handshake
\* without its other end times out.
GivesUp(c) ==
  /\ call[c].st \in {"asking", "shaking"}
  /\ call' = [call EXCEPT ![c].st = "failed"]
  /\ UNCHANGED <<waiters, asked, pushed, sess, accept>>

AcceptGivesUp(s) ==
  /\ accept[s] = "wait" /\ accept' = [accept EXCEPT ![s] = "failed"]
  /\ UNCHANGED <<call, waiters, asked, pushed, sess>>

\* on_disconnect clears the waiters, and what was on its way is lost.
Disconnects(d) ==
  /\ Waiting(d) # {} \/ pushed[d] # <<>>
  /\ waiters' = [waiters EXCEPT ![d] = [t \in Peer |-> 0]]
  /\ call' = [c \in Punches |-> IF call[c].st = "asking" /\ \E t \in Waiting(d) : waiters[d][t] = c
                                THEN [call[c] EXCEPT !.st = "failed"] ELSE call[c]]
  /\ asked' = [asked EXCEPT ![d] = <<>>] /\ pushed' = [pushed EXCEPT ![d] = <<>>]
  /\ UNCHANGED <<sess, accept>>

Timeout == (\E c \in Punches : GivesUp(c)) \/ (\E s \in Punches : AcceptGivesUp(s))

CNext ==
  \/ \E d, t \in Peer : Punch(d, t)
  \/ \E d \in Peer : Answer(d) \/ AnsweredNo(d) \/ Resolved(d) \/ Notified(d) \/ Disconnects(d)
  \/ \E c \in Punches : InnerHandshake(c)
  \/ Timeout

CSpec == CInit /\ [][CNext]_cvars

\* Timers run out; nothing else has to happen.
CFairSpec == CSpec /\ WF_cvars(Timeout)

CTypeOK ==
  /\ call \in [Punches -> Call]
  /\ waiters \in [Peer -> [Peer -> 0 .. MaxPunches]]
  /\ asked \in [Peer -> Seq(Peer)]
  /\ sess \in Seq(Peer \X Peer) /\ Len(sess) <= MaxPunches
  /\ pushed \in [Peer -> Seq(Push)]
  /\ accept \in [Punches -> {"none", "wait", "ok", "failed"}]

\* Whatever answer a call was given, a connection connect_peer returns leads to
\* its target, and the target accepted it from the caller (client.rs:417-507).
PeerIsTarget ==
  \A c \in Punches : call[c].st = "ok" =>
    /\ sess[call[c].sess] \in call[c].by \X call[c].target
    /\ accept[call[c].sess] = "ok"

\* No call waits for ever, also when its answer went to another waiter or was a
\* refusal, which reaches nobody (client.rs:305-348, 394-414).
CallsEnd == \A c \in Punches : call[c].st = "asking" ~> call[c].st \in {"ok", "failed"}

\* Two calls never share a session: an answer resolves one waiter (client.rs:327).
OneCallPerSession == \A s \in 1 .. MaxPunches : Cardinality(CallOf(s)) <= 1

\* A connection connect_peer returns leads to the device asked for, and calls do
\* not share a session (client.rs:305-348, 394-507).
CallsSound == CTypeOK /\ PeerIsTarget /\ OneCallPerSession
===============================================================================

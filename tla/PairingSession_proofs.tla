------------------------ MODULE PairingSession_proofs ------------------------
(***************************************************************************)
(* Proofs about sessions and pairing, for every number of connections,     *)
(* codes, attempts and upsets.                                             *)
(***************************************************************************)
EXTENDS PairingSession, FiniteSetTheorems, SequenceTheorems, TLAPS

USE DeviceAssumption, BoundsAssumption, NoneAssumption

Wires == [Conn -> [Device -> Seq(Message)]]

(* The other of the two devices is a device.                               *)
LEMMA PeerIsDevice == \A d \in Device : Peer(d) \in Device
<1> SUFFICES ASSUME NEW d \in Device PROVE \E e \in Device : e # d
  BY DEF Peer
<1>1. Cardinality({d}) = 1
  BY FS_Singleton
<1>2. Device # {d}
  BY <1>1
<1> QED
  BY <1>2

(* Sending and taking messages keeps the queues well typed.                *)
LEMMA PostType ==
  ASSUME NEW w \in Wires, NEW c \in Conn, NEW d \in Device, NEW m \in Message
  PROVE  Post(w, c, d, m) \in Wires
<1>1. Peer(d) \in Device
  BY PeerIsDevice
<1>2. Append(w[c][Peer(d)], m) \in Seq(Message)
  BY <1>1 DEF Wires
<1> QED
  BY <1>1, <1>2 DEF Post, Wires

(* The message a loop takes is a message, and the rest stay well typed.    *)
LEMMA TakenType ==
  ASSUME wire \in Wires, NEW c \in Conn, NEW d \in Device, wire[c][d] # <<>>
  PROVE  Taken(c, d) \in Wires /\ Head(wire[c][d]) \in Message
<1>1. wire[c][d] \in Seq(Message)
  BY DEF Wires
<1>2. Tail(wire[c][d]) \in Seq(Message) /\ Head(wire[c][d]) \in Message
  BY <1>1
<1> QED
  BY <1>2 DEF Taken, Wires

(* What a side posts to the other one is a message.                        *)
LEMMA SendType ==
  ASSUME TypeOK, NEW c \in Conn, NEW d \in Device, NEW m \in Message, Send(c, d, m)
  PROVE  wire' \in Wires
<1>1. wire \in Wires
  BY DEF TypeOK, Wires
<1> QED
  BY <1>1, PostType DEF Send

(* What the code sends are messages.                                       *)
LEMMA MsgType ==
  /\ \A k \in {"code", "ok", "bad", "deny", "cancel", "bye", "broken"} : Msg(k) \in Message
  /\ \A k \in 0 .. MaxCodes : [kind |-> "code", code |-> k] \in Message
BY DEF Msg, Message
-----------------------------------------------------------------------------
(* Type correctness.                                                       *)

(* A side's position in its task, a lost entry and an outcome are typed.   *)
LEMMA PartTypes ==
  ASSUME TypeOK, NEW d \in Device
  PROVE  /\ \A c \in Conn, s \in {"none", "checked", "running", "broken", "failed", "over"} :
              At(c, d, s) => loop' \in [Conn -> [Device -> {"none", "checked", "running", "broken",
                                                         "failed", "over"}]]
         /\ \A c \in Conn : Settle(c, d) => settled' \in [Conn -> [Device -> BOOLEAN]]
         /\ Drop(d) => sessions' \in [Device -> Session \cup {None}]
         /\ \A r \in Outcome : Told(d, r) => event' \in [to : Device, what : Outcome] \cup {None}
         /\ Silent => event' \in [to : Device, what : Outcome] \cup {None}
         /\ Consent(d) # "none" => sessions[d] \in Session
         /\ sessions[d] # None => sessions[d] \in Session
         /\ \A c \in Conn, b \in BOOLEAN :
              [knew EXCEPT ![c][d] = b] \in [Conn -> [Device -> BOOLEAN]]
         /\ \A b \in BOOLEAN : /\ [trust EXCEPT ![d] = b] \in [Device -> BOOLEAN]
                               /\ [cooldown EXCEPT ![d] = b] \in [Device -> BOOLEAN]
<1>1. \A c \in Conn, s \in {"none", "checked", "running", "broken", "failed", "over"} :
        At(c, d, s) => loop' \in [Conn -> [Device -> {"none", "checked", "running", "broken",
                                                   "failed", "over"}]]
  BY DEF TypeOK, At
<1>2. \A c \in Conn : Settle(c, d) => settled' \in [Conn -> [Device -> BOOLEAN]]
  BY DEF TypeOK, Settle
<1>3. Drop(d) => sessions' \in [Device -> Session \cup {None}]
  BY DEF TypeOK, Drop
<1>4. \A r \in Outcome : Told(d, r) => event' \in [to : Device, what : Outcome] \cup {None}
  BY DEF Told
<1>5. Silent => event' \in [to : Device, what : Outcome] \cup {None}
  BY DEF Silent
<1>6. sessions[d] # None => sessions[d] \in Session
  BY DEF TypeOK
<1>7. \A c \in Conn, b \in BOOLEAN : [knew EXCEPT ![c][d] = b] \in [Conn -> [Device -> BOOLEAN]]
  BY DEF TypeOK
<1>8. \A b \in BOOLEAN : /\ [trust EXCEPT ![d] = b] \in [Device -> BOOLEAN]
                         /\ [cooldown EXCEPT ![d] = b] \in [Device -> BOOLEAN]
  BY DEF TypeOK
<1> QED
  BY <1>1, <1>2, <1>3, <1>4, <1>5, <1>6, <1>7, <1>8 DEF Consent

(* An entry keeps its type when one of its fields changes.                 *)
LEMMA EntryTypes ==
  ASSUME NEW s \in Session
  PROVE  /\ \A k \in 0 .. MaxCodes : [s EXCEPT !.pending = k] \in Session
         /\ [s EXCEPT !.code = None] \in Session
         /\ [s EXCEPT !.fails = @ + 1] \in Session
         /\ [s EXCEPT !.pending = None, !.fails = @ + 1] \in Session
         /\ \A k \in Code : [s EXCEPT !.consent = "granted", !.code = k, !.fails = 0] \in Session
<1>1. s.fails + 1 \in Nat
  BY DEF Session
<1> QED
  BY <1>1 DEF Session

(* Completing a pairing keeps what it changes well typed.                  *)
LEMMA CompletedTypes ==
  ASSUME TypeOK, NEW d \in Device, Completed(d)
  PROVE  /\ sessions' \in [Device -> Session \cup {None}]
         /\ trust' \in [Device -> BOOLEAN]
         /\ event' \in [to : Device, what : Outcome] \cup {None}
<1>1. sessions' \in [Device -> Session \cup {None}]
  <2>1. CASE sessions[d] # None
    <3>1. [sessions[d] EXCEPT !.code = None] \in Session
      BY <2>1, PartTypes, EntryTypes
    <3>2. sessions' = sessions \/ sessions' = [sessions EXCEPT ![d].code = None]
      BY DEF Completed
    <3> QED
      BY <3>1, <3>2 DEF TypeOK
  <2>2. CASE sessions[d] = None
    <3>1. sessions' = sessions
      BY <2>2 DEF Completed
    <3> QED
      BY <3>1 DEF TypeOK
  <2> QED
    BY <2>1, <2>2
<1>2. trust' = trust \/ trust' = [trust EXCEPT ![d] = TRUE]
  BY DEF Completed
<1>3. trust' \in [Device -> BOOLEAN]
  BY <1>2, PartTypes DEF TypeOK
<1>4. Silent \/ Told(d, "ok")
  BY DEF Completed
<1>5. event' \in [to : Device, what : Outcome] \cup {None}
  BY <1>4, PartTypes DEF Outcome
<1> QED
  BY <1>1, <1>3, <1>5

(* Every step keeps the types of all variables.                            *)
LEMMA TypeStep == TypeOK /\ [Next]_vars => TypeOK'
<1> SUFFICES ASSUME TypeOK, [Next]_vars PROVE TypeOK'
  OBVIOUS
<1> USE DEF setup, bounds
<1>1. ASSUME NEW d \in Device, Connect(d) PROVE TypeOK'
  BY <1>1 DEF TypeOK, Connect, At, Silent
<1>2. ASSUME NEW c \in Conn, NEW d \in Device, Accept(c, d) PROVE TypeOK'
  <2>1. trust[d] \in BOOLEAN
    BY DEF TypeOK
  <2>2. knew' \in [Conn -> [Device -> BOOLEAN]]
    <3>1. [knew EXCEPT ![c][d] = trust[d]] \in [Conn -> [Device -> BOOLEAN]]
      BY <2>1 DEF TypeOK
    <3>2. knew' = knew \/ knew' = [knew EXCEPT ![c][d] = trust[d]]
      BY <1>2 DEF Accept
    <3> QED
      BY <3>1, <3>2 DEF TypeOK
  <2>3. loop' \in [Conn -> [Device -> {"none", "checked", "running", "broken", "failed", "over"}]]
    BY <1>2, PartTypes DEF Accept
  <2> QED
    BY <1>2, <2>2, <2>3 DEF TypeOK, Accept, Silent
<1>3. ASSUME NEW c \in Conn, NEW d \in Device, Insert(c, d) PROVE TypeOK'
  <2>1. \A b \in BOOLEAN : Fresh(c, b) \in Session
    BY DEF Fresh, Session
  <2>2. sessions' \in [Device -> Session \cup {None}]
    BY <1>3, <2>1 DEF TypeOK, Insert
  <2>3. gates' \subseteq Conn \X Device
    BY <1>3 DEF TypeOK, Insert, Armed
  <2> QED
    BY <1>3, <2>2, <2>3 DEF TypeOK, Insert, At, Silent
<1>4. ASSUME NEW c \in Conn, NEW d \in Device, GiveUp(c, d) PROVE TypeOK'
  <2>1. wire' \in Wires
    BY <1>4 DEF TypeOK, GiveUp, Wires
  <2> QED
    BY <1>4, <2>1 DEF TypeOK, GiveUp, At, Silent, Wires
<1>5. ASSUME NEW d \in Device, Submit(d) PROVE TypeOK'
  <2>1. sessions[d] \in Session /\ sessions[d].conn \in Conn
    BY <1>5, PartTypes DEF Submit, Session
  <2>2. PICK k \in 0 .. used : Send(sessions[d].conn, d, [kind |-> "code", code |-> k])
    BY <1>5 DEF Submit
  <2>3. [kind |-> "code", code |-> k] \in Message
    BY MsgType DEF TypeOK
  <2>4. wire' \in Wires
    BY <2>1, <2>2, <2>3, SendType
  <2> QED
    BY <1>5, <2>4 DEF TypeOK, Submit, Silent, Wires
<1>6. ASSUME NEW d \in Device, Grant(d) PROVE TypeOK'
  <2>1. sessions[d] \in Session
    BY <1>6, PartTypes DEF Grant
  <2>2. used' \in Code /\ used' \in 0 .. MaxCodes
    BY <1>6 DEF Grant, TypeOK, Code
  <2>3. sessions' \in [Device -> Session \cup {None}]
    BY <1>6, <2>1, <2>2 DEF Grant, TypeOK, Session
  <2>4. granting' \in [Device -> Conn \cup {None}]
    BY <1>6, <2>1 DEF Grant, TypeOK, Session
  <2> QED
    BY <1>6, <2>2, <2>3, <2>4 DEF TypeOK, Grant, Silent
<1>7. ASSUME NEW d \in Device, Release(d) PROVE TypeOK'
  <2>1. sessions' \in [Device -> Session \cup {None}]
    <3>1. CASE Consent(d) = "granted"
      <4>1. sessions[d] \in Session
        BY <3>1, PartTypes
      <4> QED
        <5>1. sessions[d].fails + 1 \in Nat
          BY <4>1 DEF Session
        <5>2. [sessions[d] EXCEPT !.pending = None, !.fails = @ + 1] \in Session
          BY <4>1, <5>1 DEF Session
        <5>3. CASE Drop(d)
          BY <5>3, PartTypes
        <5>4. CASE sessions' = [sessions EXCEPT ![d].pending = None, ![d].fails = @ + 1]
          BY <5>2, <5>4 DEF TypeOK
        <5>5. CASE UNCHANGED sessions
          BY <5>5 DEF TypeOK
        <5> QED
          BY <1>7, <5>3, <5>4, <5>5 DEF Release, Disconnected
    <3>2. CASE Consent(d) # "granted"
      BY <1>7, <3>2 DEF Release, TypeOK
    <3> QED
      BY <3>1, <3>2
  <2>2. event' \in [to : Device, what : Outcome] \cup {None}
    BY <1>7 DEF Release, Told, Silent, Outcome
  <2>3. open' \subseteq Conn /\ cooldown' \in [Device -> BOOLEAN]
    BY <1>7 DEF Release, Disconnected, TypeOK
  <2>4. granting' \in [Device -> Conn \cup {None}]
    BY <1>7 DEF Release, TypeOK
  <2> QED
    BY <1>7, <2>1, <2>2, <2>3, <2>4 DEF TypeOK, Release
<1>8. ASSUME NEW d \in Device, Deny(d) \/ CancelWait(d) PROVE TypeOK'
  <2>1. sessions[d] \in Session /\ sessions[d].conn \in Conn
    BY <1>8, PartTypes DEF Deny, CancelWait, Session
  <2>2. wire' \in Wires
    BY <1>8, <2>1, SendType, MsgType DEF Deny, CancelWait
  <2>3. event' \in [to : Device, what : Outcome] \cup {None}
    BY <1>8 DEF Deny, CancelWait, Told, Outcome
  <2> QED
    BY <1>8, <2>2, <2>3 DEF TypeOK, Deny, CancelWait, Upset, Wires
<1>9. ASSUME NEW d \in Device, Disconnect(d) \/ RemoveTrust(d) PROVE TypeOK'
  <2>1. wire' \in Wires
    <3>1. CASE Consent(d) = "none"
      BY <1>9, <3>1 DEF Disconnect, RemoveTrust, TypeOK, Wires
    <3>2. CASE Consent(d) # "none"
      <4>1. sessions[d].conn \in Conn
        BY <3>2, PartTypes DEF Session
      <4> QED
        BY <1>9, <3>2, <4>1, SendType, MsgType DEF Disconnect, RemoveTrust
    <3> QED
      BY <3>1, <3>2
  <2>2. sessions' \in [Device -> Session \cup {None}] /\ open' \subseteq Conn
    BY <1>9 DEF Disconnect, RemoveTrust, Disconnected, Drop, TypeOK
  <2> QED
    <3>1. trust' \in [Device -> BOOLEAN]
      BY <1>9, PartTypes DEF TypeOK, Disconnect, RemoveTrust
    <3>2. upsets' \in 0 .. MaxUpsets
      BY <1>9 DEF TypeOK, Disconnect, RemoveTrust, Upset
    <3>3. CASE Disconnect(d)
      BY <2>1, <2>2, <3>2, <3>3 DEF TypeOK, Disconnect, Silent, Wires
    <3>4. CASE RemoveTrust(d)
      BY <2>1, <2>2, <3>1, <3>2, <3>4 DEF TypeOK, RemoveTrust, Silent, Wires
    <3> QED
      BY <1>9, <3>3, <3>4
<1>10. ASSUME NEW c \in Conn, NEW d \in Device, HandleCode(c, d) PROVE TypeOK'
  <2>1. Taken(c, d) \in Wires /\ Head(wire[c][d]) \in Message
    BY <1>10, TakenType DEF HandleCode, Read, TypeOK, Wires
  <2>2. wire' \in Wires
    BY <1>10, <2>1, PostType, MsgType DEF HandleCode
  <2>3. Head(wire[c][d]).code \in 0 .. MaxCodes
    BY <2>1 DEF Message
  <2>4. sessions' \in [Device -> Session \cup {None}]
    <3>1. CASE Consent(d) = "none"
      BY <1>10, <3>1 DEF HandleCode, TypeOK
    <3>2. CASE Consent(d) # "none"
      <4>1. sessions[d] \in Session
        BY <3>2, PartTypes
      <4> QED
        <5>1. \/ sessions' = sessions \/ Completed(d)
              \/ sessions' = [sessions EXCEPT ![d].pending = Head(wire[c][d]).code]
              \/ sessions' = [sessions EXCEPT ![d].fails = @ + 1]
          BY <1>10 DEF HandleCode
        <5>2. /\ [sessions[d] EXCEPT !.pending = Head(wire[c][d]).code] \in Session
              /\ [sessions[d] EXCEPT !.fails = @ + 1] \in Session
          BY <2>3, <4>1, EntryTypes
        <5> QED
          BY <5>1, <5>2, CompletedTypes DEF TypeOK
    <3> QED
      BY <3>1, <3>2
  <2>5. /\ loop' \in [Conn -> [Device -> {"none", "checked", "running", "broken", "failed", "over"}]]
        /\ settled' \in [Conn -> [Device -> BOOLEAN]]
    BY <1>10, PartTypes DEF HandleCode, TypeOK
  <2>6. /\ event' \in [to : Device, what : Outcome] \cup {None}
        /\ trust' \in [Device -> BOOLEAN] /\ cooldown' \in [Device -> BOOLEAN]
    <3>1. CASE Completed(d)
      BY <1>10, <3>1, CompletedTypes, PartTypes DEF HandleCode, TypeOK
    <3>2. CASE ~Completed(d)
      BY <1>10, <3>2, PartTypes DEF HandleCode, TypeOK, Outcome
    <3> QED
      BY <3>1, <3>2
  <2> QED
    BY <1>10, <2>2, <2>4, <2>5, <2>6 DEF TypeOK, HandleCode, Wires
<1>11. ASSUME NEW c \in Conn, NEW d \in Device, HandleResult(c, d) PROVE TypeOK'
  <2>1. Taken(c, d) \in Wires
    BY <1>11, TakenType DEF HandleResult, Read, TypeOK, Wires
  <2>2. sessions' \in [Device -> Session \cup {None}]
    BY <1>11, CompletedTypes DEF HandleResult, TypeOK
  <2>3. /\ event' \in [to : Device, what : Outcome] \cup {None}
        /\ trust' \in [Device -> BOOLEAN] /\ settled' \in [Conn -> [Device -> BOOLEAN]]
    BY <1>11, PartTypes, CompletedTypes DEF HandleResult, TypeOK, Outcome
  <2> QED
    BY <1>11, <2>1, <2>2, <2>3 DEF TypeOK, HandleResult, Wires
<1>12. ASSUME NEW c \in Conn, NEW d \in Device, HandleEnd(c, d) PROVE TypeOK'
  <2>1. Taken(c, d) \in Wires
    BY <1>12, TakenType DEF HandleEnd, Read, TypeOK, Wires
  <2>2. /\ event' \in [to : Device, what : Outcome] \cup {None}
        /\ trust' \in [Device -> BOOLEAN] /\ settled' \in [Conn -> [Device -> BOOLEAN]]
    BY <1>12, PartTypes DEF HandleEnd, TypeOK, Outcome
  <2> QED
    BY <1>12, <2>1, <2>2 DEF TypeOK, HandleEnd, At, Wires
<1>13. ASSUME NEW c \in Conn, NEW d \in Device, ReadEnd(c, d) PROVE TypeOK'
  BY <1>13 DEF TypeOK, ReadEnd, At, Silent
<1>14. ASSUME NEW c \in Conn, NEW d \in Device, Exit(c, d) PROVE TypeOK'
  <2>1. wire' \in Wires
    BY <1>14 DEF TypeOK, Exit, Wires
  <2>2. /\ event' \in [to : Device, what : Outcome] \cup {None}
        /\ sessions' \in [Device -> Session \cup {None}] /\ open' \subseteq Conn
    BY <1>14, PartTypes DEF TypeOK, Exit, Outcome
  <2> QED
    BY <1>14, <2>1, <2>2 DEF TypeOK, Exit, At, Wires
<1>15. ASSUME NEW c \in Conn, NEW d \in Device, GateFires(c, d) PROVE TypeOK'
  <2>1. /\ event' \in [to : Device, what : Outcome] \cup {None}
        /\ sessions' \in [Device -> Session \cup {None}] /\ open' \subseteq Conn
    BY <1>15, PartTypes DEF TypeOK, GateFires, Outcome
  <2> QED
    BY <1>15, <2>1 DEF TypeOK, GateFires
<1>16. ASSUME NEW d \in Device, CooldownEnds(d) PROVE TypeOK'
  BY <1>16 DEF TypeOK, CooldownEnds, Silent
<1>17. ASSUME NEW c \in Conn, LinkDrops(c) PROVE TypeOK'
  BY <1>17 DEF TypeOK, LinkDrops, Upset, Silent
<1>18. ASSUME NEW d \in Device, Restart(d) PROVE TypeOK'
  <2>1. loop' \in [Conn -> [Device -> {"none", "checked", "running", "broken", "failed", "over"}]]
    BY <1>18 DEF TypeOK, Restart
  <2>2. wire' \in Wires
    <3>1. \A c \in Conn : [wire[c] EXCEPT ![d] = <<>>] \in [Device -> Seq(Message)]
      BY DEF TypeOK
    <3> QED
      BY <1>18, <3>1 DEF Restart, Wires
  <2>3. sessions' \in [Device -> Session \cup {None}]
    BY <1>18 DEF TypeOK, Restart, Drop
  <2>4. granting' \in [Device -> Conn \cup {None}] /\ cooldown' \in [Device -> BOOLEAN]
    BY <1>18 DEF TypeOK, Restart
  <2> QED
    BY <1>18, <2>1, <2>2, <2>3, <2>4 DEF TypeOK, Restart, Upset, Silent, Wires
<1>19. CASE UNCHANGED vars
  BY <1>19 DEF TypeOK, vars
<1> QED
  BY <1>1, <1>2, <1>3, <1>4, <1>5, <1>6, <1>7, <1>8, <1>9, <1>10, <1>11, <1>12, <1>13, <1>14,
     <1>15, <1>16, <1>17, <1>18, <1>19 DEF Next, User, Side

(* Every variable always has its type.                                     *)
THEOREM TypeCorrect == Spec => []TypeOK
<1>1. Init => TypeOK
  <2> SUFFICES ASSUME Init PROVE TypeOK
    OBVIOUS
  <2>1. wire \in Wires
    BY DEF Init, Wires
  <2> QED
    BY <2>1 DEF Init, TypeOK, Wires
<1> QED
  BY <1>1, TypeStep, PTL DEF Spec
-----------------------------------------------------------------------------
(* The session table.                                                      *)

(* The invariant survives a change of an entry that keeps its connection   *)
(* and its consent, while control loops at most leave their loop.          *)
LEMMA EntryKept ==
  ASSUME TypeOK, SessionInv, NEW d \in Device, NEW s \in Session, sessions[d] # None,
         s.conn = sessions[d].conn, s.consent = sessions[d].consent,
         sessions' = [sessions EXCEPT ![d] = s],
         UNCHANGED <<dialer, gates>>,
         \A c \in Conn, e \in Device :
           loop'[c][e] = loop[c][e] \/ (loop[c][e] = "running" /\ loop'[c][e] \in {"broken", "failed"})
  PROVE  SessionInv'
<1>1. NoLoopBeforeDial'
  BY DEF SessionInv, NoLoopBeforeDial
<1>2. \A e \in Device : /\ sessions'[e] = None <=> sessions[e] = None
                        /\ sessions'[e].conn = sessions[e].conn
                        /\ sessions'[e].consent = sessions[e].consent
  BY DEF TypeOK
<1>3. \A e \in Device : sessions[e] # None => sessions[e].conn \in Conn
  BY DEF TypeOK, Session
<1>4. SessionHasLoop'
  BY <1>2, <1>3 DEF SessionInv, SessionHasLoop
<1>5. GateArmed'
  BY <1>2 DEF SessionInv, GateArmed, Consent
<1> QED
  BY <1>1, <1>4, <1>5 DEF SessionInv

(* The invariant survives a step that leaves the table and the timers      *)
(* alone, while control loops at most leave their loop.                    *)
LEMMA TableKept ==
  ASSUME TypeOK, SessionInv, UNCHANGED <<dialer, gates, sessions>>,
         \A c \in Conn, e \in Device :
           loop'[c][e] = loop[c][e] \/ (loop[c][e] = "running" /\ loop'[c][e] \in {"broken", "failed"})
  PROVE  SessionInv'
<1>1. NoLoopBeforeDial'
  BY DEF SessionInv, NoLoopBeforeDial
<1>2. \A e \in Device : sessions[e] # None => sessions[e].conn \in Conn
  BY DEF TypeOK, Session
<1>3. SessionHasLoop'
  BY <1>2 DEF SessionInv, SessionHasLoop
<1>4. GateArmed'
  BY DEF SessionInv, GateArmed, Consent
<1> QED
  BY <1>1, <1>3, <1>4 DEF SessionInv

(* Moving one side of one connection.                                      *)
LEMMA LoopMoves ==
  ASSUME TypeOK, NEW c \in Conn, NEW d \in Device, NEW t, At(c, d, t)
  PROVE  \A b \in Conn, e \in Device :
           loop'[b][e] = IF b = c /\ e = d THEN t ELSE loop[b][e]
BY DEF TypeOK, At

(* Every step preserves the invariant of the table.                        *)
LEMMA SessionStep == TypeOK /\ SessionInv /\ [Next]_vars => SessionInv'
<1> SUFFICES ASSUME TypeOK, SessionInv, [Next]_vars PROVE SessionInv'
  OBVIOUS
<1> USE DEF setup, bounds
<1>1. ASSUME NEW d \in Device, Connect(d) PROVE SessionInv'
  <2>1. PICK c \in Conn : /\ dialer[c] = None /\ dialer' = [dialer EXCEPT ![c] = d]
                          /\ At(c, d, "checked")
    BY <1>1 DEF Connect
  <2>2. \A b \in Conn, e \in Device :
           loop'[b][e] = IF b = c /\ e = d THEN "checked" ELSE loop[b][e]
    BY <2>1, LoopMoves
  <2>3. \A e \in Device : loop[c][e] = "none"
    BY <2>1 DEF SessionInv, NoLoopBeforeDial
  <2>4. NoLoopBeforeDial'
    BY <2>1, <2>2 DEF SessionInv, NoLoopBeforeDial, TypeOK
  <2>5. UNCHANGED <<sessions, gates>>
    BY <1>1 DEF Connect
  <2>6. \A e \in Device : sessions[e] # None => sessions[e].conn \in Conn
    BY DEF TypeOK, Session
  <2>7. SessionHasLoop'
    BY <2>2, <2>3, <2>5, <2>6 DEF SessionInv, SessionHasLoop
  <2>8. GateArmed'
    BY <2>5 DEF SessionInv, GateArmed, Consent
  <2> QED
    BY <2>4, <2>7, <2>8 DEF SessionInv
<1>2. ASSUME NEW c \in Conn, NEW d \in Device, NEW t, At(c, d, t), dialer[c] # None,
             loop[c][d] \notin {"running", "broken", "failed"},
             UNCHANGED <<dialer, sessions, gates>>
      PROVE  SessionInv'
  <2>1. \A b \in Conn, e \in Device :
           loop'[b][e] = IF b = c /\ e = d THEN t ELSE loop[b][e]
    BY <1>2, LoopMoves
  <2>2. NoLoopBeforeDial'
    BY <1>2, <2>1 DEF SessionInv, NoLoopBeforeDial
  <2>3. \A e \in Device : sessions[e] # None => sessions[e].conn \in Conn
    BY DEF TypeOK, Session
  <2>4. SessionHasLoop'
    BY <1>2, <2>1, <2>3 DEF SessionInv, SessionHasLoop
  <2>5. GateArmed'
    BY <1>2 DEF SessionInv, GateArmed, Consent
  <2> QED
    BY <2>2, <2>4, <2>5 DEF SessionInv
<1>3. ASSUME NEW c \in Conn, NEW d \in Device, Accept(c, d) PROVE SessionInv'
  <2>1. dialer[c] # None
    BY <1>3, PeerIsDevice DEF Accept
  <2>2. At(c, d, "over") \/ At(c, d, "checked")
    BY <1>3 DEF Accept
  <2>3. loop[c][d] \notin {"running", "broken", "failed"} /\ UNCHANGED <<dialer, sessions, gates>>
    BY <1>3 DEF Accept
  <2> QED
    BY <1>2, <2>1, <2>2, <2>3
<1>4. ASSUME NEW c \in Conn, NEW d \in Device, Insert(c, d) PROVE SessionInv'
  <2>1. PICK b \in BOOLEAN : /\ sessions' = [sessions EXCEPT ![d] = Fresh(c, b)]
                             /\ gates' = Armed(c, d, b)
    BY <1>4 DEF Insert
  <2>2. \A k \in Conn, e \in Device :
           loop'[k][e] = IF k = c /\ e = d THEN "running" ELSE loop[k][e]
    BY <1>4, LoopMoves DEF Insert
  <2>3. dialer[c] # None
    BY <1>4 DEF Insert, SessionInv, NoLoopBeforeDial
  <2>4. NoLoopBeforeDial'
    BY <1>4, <2>2, <2>3 DEF Insert, SessionInv, NoLoopBeforeDial
  <2>5. sessions'[d] = Fresh(c, b) /\ \A e \in Device \ {d} : sessions'[e] = sessions[e]
    BY <2>1 DEF TypeOK
  <2>6. Fresh(c, b).conn = c /\ (Fresh(c, b).consent = "awaiting" => b)
    BY DEF Fresh
  <2>7. \A e \in Device : sessions[e] # None => sessions[e].conn \in Conn
    BY DEF TypeOK, Session
  <2>8. SessionHasLoop'
    BY <2>2, <2>5, <2>6, <2>7 DEF SessionInv, SessionHasLoop
  <2>9. gates \subseteq gates' /\ (b => <<c, d>> \in gates')
    BY <2>1 DEF Armed
  <2>10. GateArmed'
    BY <2>5, <2>6, <2>9 DEF SessionInv, GateArmed, Consent
  <2> QED
    BY <2>4, <2>8, <2>10 DEF SessionInv
<1>5. ASSUME NEW c \in Conn, NEW d \in Device, GiveUp(c, d) PROVE SessionInv'
  <2>1. dialer[c] # None
    BY <1>5 DEF GiveUp, SessionInv, NoLoopBeforeDial
  <2> QED
    BY <1>2, <1>5, <2>1 DEF GiveUp
<1>6. ASSUME NEW d \in Device, Drop(d), UNCHANGED <<dialer, loop>>,
             \A g \in gates : g \in gates' \/ g[2] = d
      PROVE  SessionInv'
  <2>1. sessions'[d] = None /\ \A e \in Device \ {d} : sessions'[e] = sessions[e]
    BY <1>6 DEF Drop, TypeOK
  <2>2. SessionHasLoop'
    BY <1>6, <2>1 DEF SessionInv, SessionHasLoop
  <2>3. GateArmed'
    BY <1>6, <2>1 DEF SessionInv, GateArmed, Consent
  <2> QED
    BY <1>6, <2>2, <2>3 DEF SessionInv, NoLoopBeforeDial
<1>7. ASSUME NEW d \in Device,
             Submit(d) \/ Deny(d) \/ CancelWait(d) \/ CooldownEnds(d)
      PROVE  SessionInv'
  BY <1>7, TableKept DEF Submit, Deny, CancelWait, CooldownEnds
<1>8. ASSUME NEW c \in Conn, LinkDrops(c) PROVE SessionInv'
  BY <1>8, TableKept DEF LinkDrops
<1>9. ASSUME NEW d \in Device, Grant(d) PROVE SessionInv'
  <2> DEFINE s == [sessions[d] EXCEPT !.consent = "granted", !.code = used + 1, !.fails = 0]
  <2>1. sessions[d] \in Session /\ sessions[d] # None
    BY <1>9, PartTypes DEF Grant, Consent
  <2>2. sessions'[d] = s /\ \A e \in Device \ {d} : sessions'[e] = sessions[e]
    BY <1>9 DEF Grant, TypeOK
  <2>3. s.conn = sessions[d].conn /\ s.consent = "granted"
    BY <2>1 DEF Session
  <2>4. UNCHANGED <<dialer, loop, gates>>
    BY <1>9 DEF Grant
  <2> HIDE DEF s
  <2>5. SessionHasLoop'
    BY <2>1, <2>2, <2>3, <2>4 DEF SessionInv, SessionHasLoop
  <2>6. GateArmed'
    BY <2>2, <2>3, <2>4 DEF SessionInv, GateArmed, Consent
  <2> QED
    BY <2>4, <2>5, <2>6 DEF SessionInv, NoLoopBeforeDial
<1>10. ASSUME NEW d \in Device, Release(d) PROVE SessionInv'
  <2>1. CASE UNCHANGED sessions
    BY <1>10, <2>1, TableKept DEF Release
  <2>2. CASE Drop(d)
    BY <1>6, <1>10, <2>2 DEF Release
  <2>3. CASE /\ Consent(d) = "granted"
             /\ sessions' = [sessions EXCEPT ![d].pending = None, ![d].fails = @ + 1]
    <3>1. sessions[d] \in Session /\ sessions[d] # None
      BY <2>3, PartTypes DEF Consent
    <3> DEFINE s == [sessions[d] EXCEPT !.pending = None, !.fails = @ + 1]
    <3>2. sessions[d].fails + 1 \in Nat
      BY <3>1 DEF Session
    <3>3. s \in Session
      BY <3>1, <3>2 DEF Session
    <3>4. s.conn = sessions[d].conn /\ s.consent = sessions[d].consent
      BY <3>1 DEF Session
    <3>5. sessions' = [sessions EXCEPT ![d] = s]
      BY <2>3
    <3> HIDE DEF s
    <3> QED
      BY <1>10, <3>1, <3>3, <3>4, <3>5, EntryKept DEF Release
  <2> QED
    BY <1>10, <2>1, <2>2, <2>3 DEF Release, Disconnected
<1>11. ASSUME NEW d \in Device, Disconnect(d) \/ RemoveTrust(d) PROVE SessionInv'
  <2>1. CASE Drop(d)
    BY <1>6, <1>11, <2>1 DEF Disconnect, RemoveTrust
  <2>2. CASE UNCHANGED sessions
    BY <1>11, <2>2, TableKept DEF Disconnect, RemoveTrust
  <2> QED
    BY <1>11, <2>1, <2>2 DEF Disconnect, RemoveTrust, Disconnected
<1>12. ASSUME NEW c \in Conn, NEW d \in Device,
              HandleCode(c, d) \/ HandleResult(c, d) \/ HandleEnd(c, d) \/ ReadEnd(c, d)
       PROVE  SessionInv'
  <2>1. \A k \in Conn, e \in Device :
          loop'[k][e] = loop[k][e] \/ (loop[k][e] = "running" /\ loop'[k][e] \in {"broken", "failed"})
    <3>1. loop[c][d] = "running"
      BY <1>12 DEF HandleCode, HandleResult, HandleEnd, ReadEnd, Read, Live
    <3>2. UNCHANGED loop \/ At(c, d, "broken") \/ At(c, d, "failed")
      BY <1>12 DEF HandleCode, HandleResult, HandleEnd, ReadEnd
    <3> QED
      BY <3>1, <3>2, LoopMoves
  <2>2. UNCHANGED <<dialer, gates>>
    BY <1>12 DEF HandleCode, HandleResult, HandleEnd, ReadEnd
  <2>3. \/ UNCHANGED sessions
        \/ sessions[d] # None /\ sessions' = [sessions EXCEPT ![d].code = None]
        \/ sessions[d] # None /\ sessions' = [sessions EXCEPT ![d].fails = @ + 1]
        \/ sessions[d] # None /\ sessions' = [sessions EXCEPT ![d].pending = Head(wire[c][d]).code]
           /\ Head(wire[c][d]).code \in 0 .. MaxCodes
    <3>1. ASSUME HandleCode(c, d) PROVE Head(wire[c][d]).code \in 0 .. MaxCodes
      BY <3>1, TakenType DEF HandleCode, Read, TypeOK, Wires, Message
    <3> QED
      BY <1>12, <3>1 DEF HandleCode, HandleResult, HandleEnd, ReadEnd, Completed, Consent
  <2>4. ASSUME NEW s, sessions[d] # None, sessions' = [sessions EXCEPT ![d] = s], s \in Session,
               s.conn = sessions[d].conn, s.consent = sessions[d].consent
        PROVE  SessionInv'
    BY <2>1, <2>2, <2>4, EntryKept
  <2>5. CASE UNCHANGED sessions
    BY <2>1, <2>2, <2>5, TableKept
  <2>6. CASE sessions[d] # None
    <3>1. sessions[d] \in Session
      BY <2>6, PartTypes
    <3>2. \A k \in 0 .. MaxCodes :
            /\ [sessions[d] EXCEPT !.pending = k].conn = sessions[d].conn
            /\ [sessions[d] EXCEPT !.pending = k].consent = sessions[d].consent
      BY <3>1 DEF Session
    <3>3. /\ [sessions[d] EXCEPT !.code = None].conn = sessions[d].conn
          /\ [sessions[d] EXCEPT !.code = None].consent = sessions[d].consent
          /\ [sessions[d] EXCEPT !.fails = @ + 1].conn = sessions[d].conn
          /\ [sessions[d] EXCEPT !.fails = @ + 1].consent = sessions[d].consent
      BY <3>1 DEF Session
    <3>4. CASE sessions' = [sessions EXCEPT ![d].code = None]
      BY <2>4, <2>6, <3>1, <3>3, <3>4, EntryTypes
    <3>5. CASE sessions' = [sessions EXCEPT ![d].fails = @ + 1]
      BY <2>4, <2>6, <3>1, <3>3, <3>5, EntryTypes
    <3>6. CASE /\ sessions' = [sessions EXCEPT ![d].pending = Head(wire[c][d]).code]
               /\ Head(wire[c][d]).code \in 0 .. MaxCodes
      BY <2>4, <2>6, <3>1, <3>2, <3>6, EntryTypes
    <3> QED
      BY <2>3, <2>5, <3>4, <3>5, <3>6
  <2> QED
    BY <2>3, <2>5, <2>6
<1>13. ASSUME NEW c \in Conn, NEW d \in Device, Exit(c, d) PROVE SessionInv'
  <2>1. \A k \in Conn, e \in Device :
           loop'[k][e] = IF k = c /\ e = d THEN "over" ELSE loop[k][e]
    BY <1>13, LoopMoves DEF Exit
  <2>2. dialer[c] # None
    BY <1>13 DEF Exit, SessionInv, NoLoopBeforeDial
  <2>3. NoLoopBeforeDial'
    BY <1>13, <2>1, <2>2 DEF Exit, SessionInv, NoLoopBeforeDial
  <2>4. \A e \in Device : sessions'[e] # None =>
           sessions'[e] = sessions[e] /\ (e = d => sessions[e].conn # c)
    BY <1>13 DEF Exit, Superseded, Drop, TypeOK
  <2>5. \A e \in Device : sessions[e] # None => sessions[e].conn \in Conn
    BY DEF TypeOK, Session
  <2>6. SessionHasLoop'
    BY <2>1, <2>4, <2>5 DEF SessionInv, SessionHasLoop
  <2>7. GateArmed'
    BY <1>13, <2>4 DEF Exit, SessionInv, GateArmed, Consent
  <2> QED
    BY <2>3, <2>6, <2>7 DEF SessionInv
<1>14. ASSUME NEW c \in Conn, NEW d \in Device, GateFires(c, d) PROVE SessionInv'
  <2>1. CASE Overdue(c, d)
    <3>1. Drop(d) /\ UNCHANGED <<dialer, loop>>
      BY <1>14, <2>1 DEF GateFires
    <3>2. \A g \in gates : g \in gates' \/ g[2] = d
      BY <1>14 DEF GateFires
    <3> QED
      BY <1>6, <3>1, <3>2
  <2>2. CASE ~Overdue(c, d)
    <3>1. UNCHANGED <<dialer, loop, sessions>>
      BY <1>14, <2>2 DEF GateFires
    <3>2. GateArmed'
      BY <1>14, <2>2, <3>1 DEF GateFires, SessionInv, GateArmed, Consent, Overdue
    <3> QED
      BY <3>1, <3>2 DEF SessionInv, NoLoopBeforeDial, SessionHasLoop
  <2> QED
    BY <2>1, <2>2
<1>15. ASSUME NEW d \in Device, Restart(d) PROVE SessionInv'
  <2>1. sessions'[d] = None /\ \A e \in Device \ {d} : sessions'[e] = sessions[e]
    BY <1>15 DEF Restart, Drop, TypeOK
  <2>2. \A k \in Conn, e \in Device :
           loop'[k][e] = IF e = d /\ dialer[k] # None THEN "over" ELSE loop[k][e]
    BY <1>15 DEF Restart, TypeOK
  <2>3. NoLoopBeforeDial'
    BY <1>15, <2>2 DEF Restart, SessionInv, NoLoopBeforeDial
  <2>4. \A e \in Device : sessions[e] # None => sessions[e].conn \in Conn
    BY DEF TypeOK, Session
  <2>5. SessionHasLoop'
    BY <2>1, <2>2, <2>4 DEF SessionInv, SessionHasLoop
  <2>6. GateArmed'
    BY <1>15, <2>1 DEF Restart, SessionInv, GateArmed, Consent
  <2> QED
    BY <2>3, <2>5, <2>6 DEF SessionInv
<1>16. CASE UNCHANGED vars
  BY <1>16 DEF vars, SessionInv, NoLoopBeforeDial, SessionHasLoop, GateArmed, Consent
<1> QED
  BY <1>1, <1>3, <1>4, <1>5, <1>7, <1>8, <1>9, <1>10, <1>11, <1>12, <1>13, <1>14, <1>15, <1>16
     DEF Next, User, Side

(* The invariant of the table holds in every behaviour.                    *)
THEOREM SessionInvariant == Spec => []SessionInv
<1>1. Init => SessionInv
  BY DEF Init, SessionInv, NoLoopBeforeDial, SessionHasLoop, GateArmed, Consent
<1> QED
  BY <1>1, TypeCorrect, SessionStep, PTL DEF Spec

(* No phantom sessions: the entry of the table has a control loop.         *)
THEOREM SessionsHaveLoops == Spec => []SessionHasLoop
<1>1. SessionInv => SessionHasLoop
  BY DEF SessionInv
<1> QED
  BY <1>1, SessionInvariant, PTL

(* A pending consent has its timer.                                        *)
THEOREM GatesArmed == Spec => []GateArmed
<1>1. SessionInv => GateArmed
  BY DEF SessionInv
<1> QED
  BY <1>1, SessionInvariant, PTL
------------------------------------------------------------------------------
(* A new value of a field leaves the entry an entry, at whatever device.   *)
LEMMA EntryWritten ==
  ASSUME TypeOK, NEW d \in Device, sessions[d] # None,
         \/ sessions' = [sessions EXCEPT ![d].code = None]
         \/ sessions' = [sessions EXCEPT ![d].fails = @ + 1]
         \/ sessions' = [sessions EXCEPT ![d].pending = None, ![d].fails = @ + 1]
         \/ \E k \in 0 .. MaxCodes : sessions' = [sessions EXCEPT ![d].pending = k]
         \/ \E k \in Code :
              sessions' = [sessions EXCEPT ![d].consent = "granted", ![d].code = k, ![d].fails = 0]
  PROVE  \A e \in Device : sessions'[e] = None => sessions[e] = None
<1>1. sessions[d] \in Session
  BY PartTypes
<1>2. PICK s \in Session : sessions' = [sessions EXCEPT ![d] = s]
  <2>1. CASE sessions' = [sessions EXCEPT ![d].code = None]
    BY <1>1, <2>1, EntryTypes
  <2>2. CASE sessions' = [sessions EXCEPT ![d].fails = @ + 1]
    BY <1>1, <2>2, EntryTypes
  <2>3. CASE sessions' = [sessions EXCEPT ![d].pending = None, ![d].fails = @ + 1]
    <3> DEFINE s == [sessions[d] EXCEPT !.pending = None, !.fails = @ + 1]
    <3>1. s \in Session
      BY <1>1, EntryTypes
    <3>2. sessions' = [sessions EXCEPT ![d] = s]
      BY <2>3
    <3> QED
      BY ONLY <3>1, <3>2
  <2>4. CASE \E k \in 0 .. MaxCodes : sessions' = [sessions EXCEPT ![d].pending = k]
    BY <1>1, <2>4, EntryTypes
  <2>5. CASE \E k \in Code :
               sessions' = [sessions EXCEPT ![d].consent = "granted", ![d].code = k, ![d].fails = 0]
    <3>1. PICK k \in Code :
            sessions' = [sessions EXCEPT ![d].consent = "granted", ![d].code = k, ![d].fails = 0]
      BY <2>5
    <3> DEFINE s == [sessions[d] EXCEPT !.consent = "granted", !.code = k, !.fails = 0]
    <3>2. s \in Session
      BY <1>1, EntryTypes
    <3>3. sessions' = [sessions EXCEPT ![d] = s]
      BY <3>1
    <3> QED
      BY ONLY <3>2, <3>3
  <2> QED
    BY <2>1, <2>2, <2>3, <2>4, <2>5
<1> QED
  BY <1>2, NoneAssumption DEF TypeOK

(* A step takes an entry away only with its own connection: the connection *)
(* is closed, or its control loop is over.                                 *)
LEMMA NewestStep ==
  ASSUME TypeOK, [Next]_vars, NEW d \in Device, sessions[d] # None, sessions'[d] = None
  PROVE  sessions[d].conn \notin open' \/ loop'[sessions[d].conn][d] = "over"
<1> USE DEF setup, bounds
<1>1. ASSUME NEW x \in Device, Drop(x) PROVE x = d
  BY <1>1 DEF Drop, TypeOK
<1>2. ~ UNCHANGED sessions
  OBVIOUS
<1>3. ASSUME NEW x \in Device, User(x) PROVE sessions[d].conn \notin open'
  <2>1. CASE Grant(x)
    <3>1. sessions[x] # None /\ used + 1 \in Code
      BY <2>1 DEF Grant, Consent, TypeOK, Code, BoundsAssumption
    <3> QED
      BY <2>1, <3>1, EntryWritten DEF Grant
  <2>2. CASE Disconnect(x) \/ RemoveTrust(x)
    BY <1>1, <1>2, <2>2 DEF Disconnect, RemoveTrust, Disconnected
  <2> QED
    BY <1>2, <1>3, <2>1, <2>2 DEF User, Connect, Submit, Deny, CancelWait
<1>4. ASSUME NEW x \in Device, Release(x) PROVE sessions[d].conn \notin open'
  <2>1. CASE Disconnected(x)
    BY <1>1, <2>1 DEF Disconnected
  <2>2. CASE /\ Consent(x) = "granted"
             /\ sessions' = [sessions EXCEPT ![x].pending = None, ![x].fails = @ + 1]
    <3>1. sessions[x] # None
      BY <2>2 DEF Consent
    <3> QED
      BY <2>2, <3>1, EntryWritten
  <2> QED
    BY <1>2, <1>4, <2>1, <2>2 DEF Release
<1>5. ASSUME NEW c \in Conn, NEW x \in Device, Insert(c, x) PROVE FALSE
  <2>1. PICK b \in BOOLEAN : sessions' = [sessions EXCEPT ![x] = Fresh(c, b)]
    BY <1>5 DEF Insert
  <2>2. Fresh(c, b) # None
    BY NoneAssumption DEF Fresh, Session
  <2> QED
    BY <2>1, <2>2 DEF TypeOK
<1>6. ASSUME NEW c \in Conn, NEW x \in Device,
             HandleCode(c, x) \/ HandleResult(c, x) \/ HandleEnd(c, x) \/ ReadEnd(c, x)
      PROVE  FALSE
  <2>1. PICK k : k = Head(wire[c][x]).code /\ (HandleCode(c, x) => k \in 0 .. MaxCodes)
    BY TakenType DEF HandleCode, Read, TypeOK, Wires, Message
  <2>2. /\ sessions[x] # None
        /\ \/ sessions' = [sessions EXCEPT ![x].code = None]
           \/ sessions' = [sessions EXCEPT ![x].fails = @ + 1]
           \/ k \in 0 .. MaxCodes /\ sessions' = [sessions EXCEPT ![x].pending = k]
    BY <1>2, <1>6, <2>1
       DEF HandleCode, HandleResult, HandleEnd, ReadEnd, Completed, Consent
  <2> QED
    BY <2>2, EntryWritten
<1>7. ASSUME NEW c \in Conn, NEW x \in Device, Exit(c, x)
      PROVE  loop'[sessions[d].conn][d] = "over"
  <2>1. x = d /\ sessions[d].conn = c
    BY <1>1, <1>2, <1>7 DEF Exit, Superseded
  <2> QED
    BY <1>7, <2>1, LoopMoves DEF Exit
<1>8. ASSUME NEW c \in Conn, NEW x \in Device, GateFires(c, x)
      PROVE  sessions[d].conn \notin open'
  BY <1>1, <1>2, <1>8 DEF GateFires, Overdue
<1>9. ASSUME NEW x \in Device, Restart(x) PROVE sessions[d].conn \notin open'
  BY <1>9 DEF Restart
<1> QED
  BY <1>2, <1>3, <1>4, <1>5, <1>6, <1>7, <1>8, <1>9
     DEF Next, Side, Accept, GiveUp, CooldownEnds, LinkDrops, vars

(* An older connection's loop or timer never takes away the entry of a     *)
(* newer one.                                                              *)
THEOREM NewestAlwaysKept == Spec => NewestKept
<1>1. TypeOK /\ [Next]_vars =>
        [\A d \in Device : sessions[d] # None /\ sessions'[d] = None =>
            sessions[d].conn \notin open' \/ loop'[sessions[d].conn][d] = "over"]_vars
  BY NewestStep
<1> QED
  BY <1>1, TypeCorrect, PTL DEF Spec, NewestKept
------------------------------------------------------------------------------
(* Pairing is mutual.                                                      *)

(* The other of two devices: there is no third.                            *)
LEMMA PeerFacts ==
  \A d \in Device : /\ Peer(d) \in Device /\ Peer(d) # d /\ Peer(Peer(d)) = d
                    /\ \A e \in Device : e = d \/ e = Peer(d)
<1>1. \A d \in Device : \E x : Device \ {d} = {x}
  <2> SUFFICES ASSUME NEW d \in Device PROVE \E x : Device \ {d} = {x}
    OBVIOUS
  <2>1. IsFiniteSet(Device \ {d}) /\ Cardinality(Device \ {d}) = 1
    BY FS_RemoveElement
  <2> QED
    BY <2>1, FS_Singleton
<1>2. \A d \in Device : /\ Peer(d) \in Device /\ Peer(d) # d
                        /\ \A e \in Device : e = d \/ e = Peer(d)
  <2> SUFFICES ASSUME NEW d \in Device
               PROVE  /\ Peer(d) \in Device /\ Peer(d) # d
                      /\ \A e \in Device : e = d \/ e = Peer(d)
    OBVIOUS
  <2>1. PICK x : Device \ {d} = {x}
    BY <1>1
  <2>2. Peer(d) \in Device \ {d}
    BY <2>1 DEF Peer
  <2> QED
    BY <2>1, <2>2
<1> QED
  BY <1>2

(* What appending and taking the head does to what a queue holds.          *)
LEMMA ElemsFacts ==
  /\ Elems(<<>>) = {}
  /\ \A s \in Seq(Message), m \in Message : Elems(Append(s, m)) = Elems(s) \cup {m}
  /\ \A s \in Seq(Message) : Elems(s) \subseteq Message
  /\ \A s \in Seq(Message) : s # <<>> =>
       /\ Head(s) \in Elems(s) /\ Elems(Tail(s)) \subseteq Elems(s)
       /\ Elems(s) \subseteq Elems(Tail(s)) \cup {Head(s)}
<1>1. Elems(<<>>) = {}
  BY DEF Elems
<1>2. ASSUME NEW s \in Seq(Message), NEW m \in Message
      PROVE  Elems(Append(s, m)) = Elems(s) \cup {m}
  <2>1. Len(Append(s, m)) = Len(s) + 1 /\ Len(s) \in Nat
    OBVIOUS
  <2>2. \A i \in 1 .. (Len(s) + 1) : Append(s, m)[i] = IF i <= Len(s) THEN s[i] ELSE m
    OBVIOUS
  <2>3. Elems(Append(s, m)) \subseteq Elems(s) \cup {m}
    BY <2>1, <2>2 DEF Elems
  <2>4. \A i \in 1 .. Len(s) : i \in 1 .. (Len(s) + 1) /\ i <= Len(s)
    BY <2>1
  <2>5. Elems(s) \subseteq Elems(Append(s, m))
    BY <2>1, <2>2, <2>4 DEF Elems
  <2>6. Len(s) + 1 \in 1 .. (Len(s) + 1) /\ ~(Len(s) + 1 <= Len(s))
    BY <2>1
  <2>7. m \in Elems(Append(s, m))
    BY <2>1, <2>2, <2>6 DEF Elems
  <2> QED
    BY <2>3, <2>5, <2>7
<1>3. ASSUME NEW s \in Seq(Message) PROVE Elems(s) \subseteq Message
  BY DEF Elems
<1>4. ASSUME NEW s \in Seq(Message), s # <<>>
      PROVE  /\ Head(s) \in Elems(s) /\ Elems(Tail(s)) \subseteq Elems(s)
             /\ Elems(s) \subseteq Elems(Tail(s)) \cup {Head(s)}
  <2>1. Len(s) \in Nat /\ Len(s) >= 1 /\ Len(Tail(s)) = Len(s) - 1 /\ Head(s) = s[1]
    BY <1>4
  <2>2. \A i \in 1 .. (Len(s) - 1) : Tail(s)[i] = s[i + 1] /\ i + 1 \in 1 .. Len(s)
    BY <1>4, <2>1
  <2>3. Head(s) \in Elems(s)
    BY <2>1 DEF Elems
  <2>4. Elems(Tail(s)) \subseteq Elems(s)
    BY <2>1, <2>2 DEF Elems
  <2>5. \A i \in 1 .. Len(s) : i = 1 \/ (i - 1 \in 1 .. (Len(s) - 1) /\ (i - 1) + 1 = i)
    BY <2>1
  <2>6. Elems(s) \subseteq Elems(Tail(s)) \cup {Head(s)}
    BY <2>1, <2>2, <2>5 DEF Elems
  <2> QED
    BY <2>3, <2>4, <2>6
<1> QED
  BY <1>1, <1>2, <1>3, <1>4

(* What a step adds to the queues by posting, and takes from them.         *)
LEMMA PostElems ==
  ASSUME NEW w \in Wires, NEW c \in Conn, NEW d \in Device, NEW m \in Message
  PROVE  \A b \in Conn, e \in Device :
           Elems(Post(w, c, d, m)[b][e]) =
             IF b = c /\ e = Peer(d) /\ Reads(c, Peer(d)) THEN Elems(w[b][e]) \cup {m}
             ELSE Elems(w[b][e])
<1> SUFFICES ASSUME NEW b \in Conn, NEW e \in Device
             PROVE  Elems(Post(w, c, d, m)[b][e]) =
                      IF b = c /\ e = Peer(d) /\ Reads(c, Peer(d)) THEN Elems(w[b][e]) \cup {m}
                      ELSE Elems(w[b][e])
  OBVIOUS
<1>1. w[b][e] \in Seq(Message)
  BY DEF Wires
<1>2. Peer(d) \in Device
  BY PeerFacts
<1>3. Post(w, c, d, m)[b][e] =
        IF b = c /\ e = Peer(d) /\ Reads(c, Peer(d)) THEN Append(w[b][e], m) ELSE w[b][e]
  BY <1>2 DEF Post, Wires
<1> QED
  BY <1>1, <1>3, ElemsFacts

(* The same for a message that is taken.                                   *)
LEMMA TakenElems ==
  ASSUME wire \in Wires, NEW c \in Conn, NEW d \in Device, wire[c][d] # <<>>
  PROVE  /\ Head(wire[c][d]) \in Under(c, d)
         /\ \A b \in Conn, e \in Device :
              /\ Elems(Taken(c, d)[b][e]) \subseteq Under(b, e)
              /\ \A m \in Under(b, e) :
                   m \in Elems(Taken(c, d)[b][e]) \/ (b = c /\ e = d /\ m = Head(wire[c][d]))
<1>1. \A b \in Conn, e \in Device : wire[b][e] \in Seq(Message)
  BY DEF Wires
<1>2. \A b \in Conn, e \in Device :
        Taken(c, d)[b][e] = IF b = c /\ e = d THEN Tail(wire[b][e]) ELSE wire[b][e]
  BY DEF Taken, Wires
<1> QED
  BY <1>1, <1>2, ElemsFacts DEF Under

(* Most handlers do no more than this: an entry goes, stays, loses its     *)
(* code or is made for a connection just set up; ...                       *)
EntryStep(e) ==
  \/ sessions'[e] = None
  \/ /\ sessions[e] # None
     /\ sessions'[e].conn = sessions[e].conn /\ sessions'[e].consent = sessions[e].consent
     /\ sessions'[e].code \in {sessions[e].code, None}
  \/ /\ sessions'[e].consent # "granted" /\ sessions'[e].code = None
     /\ loop[sessions'[e].conn][e] = "checked"

(* a loop ends with its connection or the other side's, or by a verdict;   *)
LoopStep(c, e) ==
  /\ loop[c][e] \notin {"none", "checked"} => loop'[c][e] \notin {"none", "checked"}
  /\ loop'[c][e] = "failed" =>
       loop[c][e] = "failed" \/ (Consent(e) = "granted" /\ sessions[e].code # None)
  /\ loop'[c][e] \in {"none", "checked", "running"} => loop[c][e] \in {"none", "checked", "running"}
  /\ loop[c][e] = "running" /\ loop'[c][e] # "running" =>
       c \notin open \/ (loop[c][Peer(e)] = "over" /\ Under(c, e) = {}) \/ Consent(e) = "granted"

(* a connection is closed by a side that gives up, fails, or drops it;     *)
OpenStep(c) ==
  \/ c \in open' \/ c \notin open
  \/ \E x \in Device :
       \/ loop[c][x] \in {"none", "checked"} /\ loop'[c][x] = "over"
       \/ loop[c][x] = "failed"
       \/ EntryOn(c, x) /\ Consent(x) = "awaiting"
       \/ EntryOn(c, x) /\ Consent(x) = "granted" /\ sessions[x].code # None /\ sessions'[x] = None

(* what is posted is an answer, or a code that was typed on a connection   *)
(* that lives, and a yes is lost only where nobody reads any more.         *)
WireStep(c, e) ==
  /\ \A m \in Under(c, e)' :
       \/ m \in Under(c, e)
       \/ m.kind = "bad"
       \/ m.kind = "ok" /\ trust'[Peer(e)]
       \/ /\ m.kind = "code" /\ m.code <= used /\ Typed(c, Peer(e))
          /\ c \in open /\ c \in open' /\ loop[c][Peer(e)] = "running" /\ loop'[c][Peer(e)] = "running"
  /\ \A m \in Under(c, e) :
       m \in Under(c, e)' \/ m.kind # "ok" \/ loop[c][e] # "running" \/ trust'[e]

Mild ==
  /\ used' = used /\ \A d \in Device : EntryStep(d) /\ (trust[d] => trust'[d])
  /\ \A c \in Conn : OpenStep(c) /\ \A d \in Device : LoopStep(c, d) /\ WireStep(c, d)

(* What is under way are messages, and their codes are numbers.            *)
LEMMA UnderTypes ==
  ASSUME TypeOK
  PROVE  \A c \in Conn, d \in Device : \A m \in Under(c, d) :
           m \in Message /\ m.code \in 0 .. MaxCodes /\ m.code # None
<1>1. \A c \in Conn, d \in Device : Under(c, d) \subseteq Message
  BY ElemsFacts DEF TypeOK, Under
<1> QED
  BY <1>1 DEF Message

(* Such a step keeps that side e of c has typed.                           *)
LEMMA TypedKept ==
  ASSUME TypeOK, TypeOK', Mild, NEW c \in Conn, NEW e \in Device, Typed(c, e)
  PROVE  Typed(c, e)'
<1>1. loop'[c][e] \notin {"none", "checked"}
  BY DEF Mild, LoopStep, Typed
<1>2. ASSUME EntryOn(c, e)' PROVE Consent(e)' = "initiator"
  <2>1. sessions'[e] # None /\ sessions'[e].conn = c
    BY <1>2 DEF EntryOn
  <2>2. /\ sessions[e] # None
        /\ sessions'[e].conn = sessions[e].conn /\ sessions'[e].consent = sessions[e].consent
    BY <2>1 DEF Mild, EntryStep, Typed
  <2>3. Consent(e) = "initiator"
    BY <2>1, <2>2 DEF Typed, EntryOn
  <2> QED
    BY <2>1, <2>2, <2>3 DEF Consent
<1> QED
  BY <1>1, <1>2 DEF Typed

(* Nobody judges after such a step who did not before.                     *)
LEMMA JudgesKept ==
  ASSUME TypeOK, Mild, NEW e \in Device, Judges(e)'
  PROVE  Judges(e)
<1>1. CASE Consent(e)' = "granted"
  <2>1. sessions'[e] # None /\ sessions'[e].consent = "granted"
    BY <1>1 DEF Consent
  <2>2. sessions[e] # None /\ sessions[e].consent = "granted"
    BY <2>1 DEF Mild, EntryStep
  <2> QED
    BY <2>2 DEF Judges, Consent
<1>2. CASE \E c \in Conn : loop'[c][e] = "failed"
  BY <1>2 DEF Mild, LoopStep, Judges
<1> QED
  BY <1>1, <1>2 DEF Judges

(* Such a step keeps what is said of messages, entries and judges.         *)
LEMMA MildKeeps ==
  ASSUME TypeOK, TypeOK', Mild, WireInv, EntryInv, JudgeInv
  PROVE  WireInv' /\ EntryInv' /\ JudgeInv'
<1>1. WireInv'
  <2> SUFFICES ASSUME NEW c \in Conn, NEW d \in Device, NEW m \in Under(c, d)'
               PROVE  /\ m.kind \in {"code", "ok", "bad"}
                      /\ m.kind = "ok" => trust'[Peer(d)]
                      /\ m.kind = "code" => m.code <= used' /\ Typed(c, Peer(d))'
    BY DEF WireInv
  <2>1. Peer(d) \in Device /\ used' = used
    BY PeerFacts DEF Mild
  <2>2. WireStep(c, d) /\ (trust[Peer(d)] => trust'[Peer(d)])
    BY <2>1 DEF Mild
  <2>3. m.kind = "code" => m.code <= used /\ Typed(c, Peer(d))
    BY <2>2 DEF WireStep, WireInv
  <2>4. m.kind \in {"code", "ok", "bad"} /\ (m.kind = "ok" => trust'[Peer(d)])
    BY <2>2 DEF WireStep, WireInv
  <2> QED
    BY <2>1, <2>3, <2>4, TypedKept
<1>2. EntryInv'
  <2> SUFFICES ASSUME NEW d \in Device, sessions'[d] # None, sessions'[d].code # None
               PROVE  Consent(d)' = "granted" /\ sessions'[d].code <= used'
    BY DEF EntryInv
  <2>1. /\ sessions[d] # None /\ sessions'[d].consent = sessions[d].consent
        /\ sessions'[d].code = sessions[d].code /\ used' = used
    BY DEF Mild, EntryStep
  <2>2. Consent(d) = "granted" /\ sessions[d].code <= used
    BY <2>1 DEF EntryInv
  <2> QED
    BY <2>1, <2>2 DEF Consent
<1>3. JudgeInv'
  BY JudgesKept, PeerFacts DEF JudgeInv, Mild
<1> QED
  BY <1>1, <1>2, <1>3

(* Such a step keeps whoever typed the code waiting.                       *)
LEMMA MildWaits ==
  ASSUME TypeOK, TypeOK', Mild, WireInv, EntryInv, JudgeInv, WaitInv
  PROVE  WaitInv'
<1> SUFFICES ASSUME NEW c \in Conn, NEW d \in Device, NEW m \in Under(c, d)',
                    m.kind = "code", sessions'[d] # None, m.code = sessions'[d].code,
                    loop'[c][d] \in {"none", "checked", "running"}
             PROVE  c \in open' /\ loop'[c][Peer(d)] = "running"
  BY DEF WaitInv
<1>1. Peer(d) \in Device /\ Peer(Peer(d)) = d
  BY PeerFacts
<1>2. CASE m \notin Under(c, d)
  BY <1>2 DEF Mild, WireStep
<1>3. CASE m \in Under(c, d)
  <2>1. m.code # None
    BY <1>3, UnderTypes
  <2>2. sessions[d] # None /\ m.code = sessions[d].code
    BY <2>1 DEF Mild, EntryStep
  <2>3. loop[c][d] \in {"none", "checked", "running"}
    BY DEF Mild, LoopStep
  <2>4. c \in open /\ loop[c][Peer(d)] = "running"
    BY <1>3, <2>2, <2>3 DEF WaitInv
  <2>5. Consent(d) = "granted" /\ Consent(Peer(d)) # "granted"
    BY <1>1, <2>1, <2>2 DEF EntryInv, JudgeInv, Judges
  <2>6. EntryOn(c, Peer(d)) => Consent(Peer(d)) = "initiator"
    BY <1>3 DEF WireInv, Typed
  <2>7. loop'[c][Peer(d)] = "running"
    BY <1>1, <2>3, <2>4, <2>5 DEF Mild, LoopStep
  <2>8. \A x \in Device : x = d \/ x = Peer(d)
    BY PeerFacts
  <2>9. c \in open'
    BY <2>3, <2>4, <2>5, <2>6, <2>8 DEF Mild, OpenStep
  <2> QED
    BY <2>7, <2>9
<1> QED
  BY <1>2, <1>3

(* Such a step keeps an answer on its way, unless both trust then.         *)
LEMMA MildAnswers ==
  ASSUME TypeOK, TypeOK', Mild, WireInv, EntryInv, JudgeInv, AnswerInv,
         \A d \in Device : trust'[d] => trust[d] \/ trust'[Peer(d)]
  PROVE  AnswerInv'
<1> SUFFICES ASSUME NEW d \in Device, trust'[d], ~trust'[Peer(d)]
             PROVE  /\ used' >= 1 /\ ~Judges(Peer(d))'
                    /\ (sessions'[d] # None => sessions'[d].code = None)
                    /\ \E c \in Conn : Answered(c, d)'
  BY DEF AnswerInv
<1> DEFINE e == Peer(d)
<1>1. e \in Device /\ Peer(e) = d /\ \A x \in Device : x = d \/ x = e
  BY PeerFacts
<1>2. trust[d] /\ ~trust[e]
  BY <1>1 DEF Mild
<1>3. /\ used >= 1 /\ ~Judges(e) /\ (sessions[d] # None => sessions[d].code = None)
      /\ \E c \in Conn : Answered(c, d)
  BY <1>2 DEF AnswerInv
<1>4. used' >= 1 /\ ~Judges(e)' /\ (sessions'[d] # None => sessions'[d].code = None)
  <2>1. sessions'[d] # None => sessions'[d].code = None
    BY <1>3 DEF Mild, EntryStep
  <2> QED
    BY <1>1, <1>3, <2>1, JudgesKept DEF Mild
<1>5. PICK c \in Conn : Answered(c, d)
  BY <1>3
<1>6. PICK m \in Under(c, e) : m.kind = "ok"
  BY <1>5 DEF Answered
<1>7. loop[c][e] = "running" /\ Typed(c, e) /\ c \in open
  BY <1>5 DEF Answered
<1>8. loop'[c][e] = "running" /\ Typed(c, e)'
  <2>1. Consent(e) # "granted"
    BY <1>3 DEF Judges
  <2>2. Under(c, e) # {}
    BY <1>6
  <2>3. loop'[c][e] = "running"
    BY <1>1, <1>7, <2>1, <2>2 DEF Mild, LoopStep
  <2> QED
    BY <1>1, <1>7, <2>3, TypedKept
<1>9. m \in Under(c, e)'
  BY <1>1, <1>6, <1>7 DEF Mild, WireStep
<1>10. loop[c][d] \notin {"none", "checked", "failed"} /\ (EntryOn(c, d) => Consent(d) # "awaiting")
  BY <1>5 DEF Answered
<1>11. loop'[c][d] \notin {"none", "checked", "failed"}
  <2>1. Consent(d) = "granted" => sessions[d].code = None
    BY <1>3 DEF Consent
  <2> QED
    BY <1>10, <2>1 DEF Mild, LoopStep
<1>12. EntryOn(c, d)' => Consent(d)' # "awaiting"
  <2> SUFFICES ASSUME sessions'[d] # None, sessions'[d].conn = c
               PROVE  sessions'[d].consent # "awaiting"
    BY DEF EntryOn, Consent
  <2>1. sessions[d] # None /\ sessions[d].conn = c /\ sessions'[d].consent = sessions[d].consent
    BY <1>10 DEF Mild, EntryStep
  <2> QED
    BY <1>10, <2>1 DEF EntryOn, Consent
<1>13. c \in open'
  <2>1. Consent(e) # "granted"
    BY <1>3 DEF Judges
  <2>2. EntryOn(c, e) => Consent(e) = "initiator"
    BY <1>7 DEF Typed
  <2>3. Consent(d) = "granted" => sessions[d].code = None
    BY <1>3 DEF Consent
  <2> QED
    BY <1>1, <1>7, <1>10, <2>1, <2>2, <2>3 DEF Mild, OpenStep
<1>14. Answered(c, d)'
  BY <1>6, <1>8, <1>9, <1>11, <1>12, <1>13 DEF Answered
<1> QED
  BY <1>4, <1>14

(* A new value of a field that is not the connection or the consent.       *)
LEMMA FieldStep ==
  ASSUME TypeOK, NEW d \in Device,
         \/ UNCHANGED sessions
         \/ Drop(d)
         \/ /\ sessions[d] # None
            /\ \/ sessions' = [sessions EXCEPT ![d].code = None]
               \/ sessions' = [sessions EXCEPT ![d].fails = @ + 1]
               \/ sessions' = [sessions EXCEPT ![d].pending = None, ![d].fails = @ + 1]
               \/ \E k \in 0 .. MaxCodes : sessions' = [sessions EXCEPT ![d].pending = k]
  PROVE  \A e \in Device : EntryStep(e)
<1>1. CASE UNCHANGED sessions \/ Drop(d)
  BY <1>1 DEF EntryStep, Drop, TypeOK
<1>2. ASSUME sessions[d] # None, NEW s, sessions' = [sessions EXCEPT ![d] = s],
             s.conn = sessions[d].conn, s.consent = sessions[d].consent,
             s.code \in {sessions[d].code, None}
      PROVE  \A e \in Device : EntryStep(e)
  <2>1. sessions'[d] = s /\ \A e \in Device \ {d} : sessions'[e] = sessions[e]
    BY <1>2 DEF TypeOK
  <2> QED
    BY <1>2, <2>1 DEF EntryStep
<1>3. CASE sessions[d] # None
  <2>1. sessions[d] \in Session
    BY <1>3, PartTypes
  <2>2. CASE sessions' = [sessions EXCEPT ![d].code = None]
    BY <1>2, <1>3, <2>1, <2>2 DEF Session
  <2>3. CASE sessions' = [sessions EXCEPT ![d].fails = @ + 1]
    BY <1>2, <1>3, <2>1, <2>3 DEF Session
  <2>4. CASE sessions' = [sessions EXCEPT ![d].pending = None, ![d].fails = @ + 1]
    <3> DEFINE s == [sessions[d] EXCEPT !.pending = None, !.fails = @ + 1]
    <3>1. s.conn = sessions[d].conn /\ s.consent = sessions[d].consent /\ s.code = sessions[d].code
      BY <2>1 DEF Session
    <3>2. sessions' = [sessions EXCEPT ![d] = s]
      BY <2>4
    <3> HIDE DEF s
    <3> QED
      BY <1>2, <1>3, <3>1, <3>2
  <2>5. CASE \E k \in 0 .. MaxCodes : sessions' = [sessions EXCEPT ![d].pending = k]
    <3>1. PICK k \in 0 .. MaxCodes : sessions' = [sessions EXCEPT ![d].pending = k]
      BY <2>5
    <3> QED
      BY <1>2, <1>3, <2>1, <3>1 DEF Session
  <2> QED
    BY <1>1, <2>2, <2>3, <2>4, <2>5
<1> QED
  BY <1>1, <1>3

(* Completing a pairing changes only who trusts and the code.              *)
LEMMA CompletedStep ==
  ASSUME TypeOK, NEW d \in Device, Completed(d)
  PROVE  /\ trust'[d] /\ \A e \in Device \ {d} : trust'[e] = trust[e]
         /\ \A e \in Device : EntryStep(e)
         /\ ~trust[d] /\ sessions[d] # None => sessions'[d] # None /\ sessions'[d].code = None
<1>1. /\ trust'[d] /\ \A e \in Device \ {d} : trust'[e] = trust[e]
  BY DEF Completed, TypeOK
<1>2. \A e \in Device : EntryStep(e)
  BY FieldStep DEF Completed
<1>3. ASSUME ~trust[d], sessions[d] # None PROVE sessions'[d] # None /\ sessions'[d].code = None
  <2>1. sessions[d] \in Session
    BY <1>3, PartTypes
  <2>2. sessions'[d] = [sessions[d] EXCEPT !.code = None]
    BY <1>3 DEF Completed, TypeOK
  <2>3. sessions'[d] \in Session
    BY <2>1, <2>2, EntryTypes
  <2>4. sessions'[d].code = None
    BY <2>1, <2>2 DEF Session
  <2> QED
    BY <2>3, <2>4
<1> QED
  BY <1>1, <1>2, <1>3

(* Showing the first code.                                                 *)
LEMMA GrantTrust ==
  ASSUME TypeOK, WireInv, EntryInv, JudgeInv, AnswerInv, NEW d \in Device, Grant(d), used' <= 1
  PROVE  WireInv' /\ EntryInv' /\ JudgeInv' /\ WaitInv' /\ AnswerInv'
<1> USE DEF setup, bounds
<1>1. used = 0 /\ used' = 1 /\ UNCHANGED <<loop, wire, open, trust>>
  BY DEF Grant, TypeOK
<1>2. sessions[d] \in Session /\ sessions[d] # None /\ sessions[d].consent = "awaiting"
  BY PartTypes DEF Grant, Consent
<1>3. /\ sessions'[d] = [sessions[d] EXCEPT !.consent = "granted", !.code = used + 1, !.fails = 0]
      /\ \A e \in Device : e # d => sessions'[e] = sessions[e]
  BY DEF Grant, TypeOK
<1>4. sessions'[d].conn = sessions[d].conn /\ sessions'[d].consent = "granted" /\ sessions'[d].code = 1
  BY <1>1, <1>2, <1>3 DEF Session
<1>5. sessions'[d] # None
  <2>1. used + 1 \in Code
    BY DEF Grant, TypeOK, Code
  <2>2. \A k \in Code :
          [sessions[d] EXCEPT !.consent = "granted", !.code = k, !.fails = 0] \in Session
    BY <1>2, EntryTypes
  <2> QED
    BY <1>3, <2>1, <2>2
<1>6. \A e \in Device : ~Judges(e)
  BY <1>1 DEF JudgeInv
<1>7. \A e \in Device : sessions[e] # None => sessions[e].code = None
  <2>1. \A e \in Device : sessions[e] # None => sessions[e].code \in Code \cup {None}
    BY DEF TypeOK, Session
  <2> QED
    BY <1>1, <2>1 DEF EntryInv, Code
<1>8. \A c \in Conn, e \in Device : Under(c, e)' = Under(c, e)
  BY <1>1 DEF Under
<1>9. \A c \in Conn, e \in Device : Typed(c, e) => Typed(c, e)'
  <2> SUFFICES ASSUME NEW c \in Conn, NEW e \in Device, Typed(c, e) PROVE Typed(c, e)'
    OBVIOUS
  <2>1. EntryOn(c, e)' => e # d
    BY <1>2, <1>4 DEF EntryOn, Typed, Consent
  <2> QED
    BY <1>1, <1>3, <2>1 DEF Typed, EntryOn, Consent
<1>10. WireInv'
  <2> SUFFICES ASSUME NEW c \in Conn, NEW e \in Device, NEW m \in Under(c, e)
               PROVE  /\ m.kind \in {"code", "ok", "bad"}
                      /\ m.kind = "ok" => trust'[Peer(e)]
                      /\ m.kind = "code" => m.code <= used' /\ Typed(c, Peer(e))'
    BY <1>8 DEF WireInv
  <2>1. Peer(e) \in Device /\ m.code \in Int
    BY PeerFacts, UnderTypes
  <2> QED
    BY <1>1, <1>9, <2>1 DEF WireInv
<1>11. EntryInv'
  BY <1>1, <1>3, <1>4, <1>5, <1>7 DEF EntryInv, Consent
<1>12. \A e \in Device : Judges(e)' => e = d
  BY <1>1, <1>3, <1>6 DEF Judges, Consent
<1>13. JudgeInv'
  BY <1>1, <1>12, PeerFacts DEF JudgeInv
<1>14. WaitInv'
  <2> SUFFICES ASSUME NEW c \in Conn, NEW e \in Device, NEW m \in Under(c, e),
                      m.kind = "code", sessions'[e] # None, m.code = sessions'[e].code
               PROVE  FALSE
    BY <1>8 DEF WaitInv
  <2>1. m.code <= 0 /\ m.code # None /\ m.code \in Int
    BY <1>1, UnderTypes DEF WireInv
  <2>2. e # d
    BY <1>4, <2>1
  <2>3. sessions'[e] = sessions[e]
    BY <1>3, <2>2
  <2> QED
    BY <1>7, <2>1, <2>3
<1>15. AnswerInv'
  BY <1>1 DEF AnswerInv
<1> QED
  BY <1>10, <1>11, <1>13, <1>14, <1>15

(* A code is judged: handled mildly, but that the first right one leaves   *)
(* the other device to be told.                                            *)
LEMMA CodeTrust ==
  ASSUME TypeOK, TypeOK', WireInv, EntryInv, JudgeInv, WaitInv, AnswerInv,
         NEW c \in Conn, NEW d \in Device, HandleCode(c, d)
  PROVE  Mild /\ AnswerInv'
<1> USE DEF setup, bounds
<1> DEFINE e == Peer(d)
           h == Head(wire[c][d])
           judged == Consent(d) = "granted" /\ sessions[d].code # None
<1>1. e \in Device /\ e # d /\ Peer(e) = d /\ \A x \in Device : x = d \/ x = e
  BY PeerFacts
<1>2. wire \in Wires /\ wire[c][d] # <<>> /\ loop[c][d] = "running"
  BY DEF HandleCode, Read, Live, TypeOK, Wires
<1>3. /\ h \in Under(c, d) /\ h.kind = "code" /\ h.code \in 0 .. MaxCodes
      /\ \A b \in Conn, x \in Device :
           /\ Elems(Taken(c, d)[b][x]) \subseteq Under(b, x)
           /\ \A m \in Under(b, x) : m \in Elems(Taken(c, d)[b][x]) \/ (b = c /\ x = d /\ m = h)
  BY <1>2, TakenElems, UnderTypes DEF HandleCode
<1>4. Taken(c, d) \in Wires
  BY <1>2, TakenType
<1>5. used' = used /\ open' = open
  BY DEF HandleCode
<1>6. \A b \in Conn : OpenStep(b)
  BY <1>5 DEF OpenStep
<1>7. ASSUME NEW m \in Message, m.kind = "bad" \/ (m.kind = "ok" /\ trust'[d]),
             wire' = Post(Taken(c, d), c, d, m)
      PROVE  \A b \in Conn, x \in Device : WireStep(b, x)
  <2>1. \A b \in Conn, x \in Device :
          Under(b, x)' = IF b = c /\ x = e /\ Reads(c, e) THEN Elems(Taken(c, d)[b][x]) \cup {m}
                         ELSE Elems(Taken(c, d)[b][x])
    BY <1>4, <1>7, PostElems DEF Under
  <2> QED
    BY <1>1, <1>3, <1>7, <2>1 DEF WireStep
<1>8. CASE ~judged
  <2>1. /\ wire' = Taken(c, d) /\ UNCHANGED <<loop, trust>>
        /\ sessions' = IF Consent(d) = "awaiting" THEN [sessions EXCEPT ![d].pending = h.code]
                       ELSE sessions
    BY <1>8 DEF HandleCode
  <2>2. \A x \in Device : EntryStep(x)
    <3>1. CASE Consent(d) = "awaiting"
      <4>1. sessions[d] # None
        BY <3>1 DEF Consent
      <4> QED
        BY <1>3, <2>1, <3>1, <4>1, FieldStep
    <3>2. CASE Consent(d) # "awaiting"
      BY <2>1, <3>2, FieldStep
    <3> QED
      BY <3>1, <3>2
  <2>3. \A b \in Conn, x \in Device : LoopStep(b, x)
    BY <2>1 DEF LoopStep
  <2>4. \A b \in Conn, x \in Device : WireStep(b, x)
    BY <1>3, <2>1 DEF WireStep, Under
  <2>5. Mild
    BY <1>5, <1>6, <2>1, <2>2, <2>3, <2>4 DEF Mild
  <2> QED
    BY <2>1, <2>5, MildAnswers
<1>9. CASE judged /\ h.code # sessions[d].code
  <2>1. sessions[d] # None
    BY <1>9 DEF Consent
  <2>2. /\ wire' = Post(Taken(c, d), c, d, Msg("bad")) /\ UNCHANGED trust
        /\ sessions' = [sessions EXCEPT ![d].fails = @ + 1]
        /\ UNCHANGED loop \/ At(c, d, "failed")
    BY <1>9 DEF HandleCode
  <2>3. \A x \in Device : EntryStep(x)
    BY <2>1, <2>2, FieldStep
  <2>4. \A b \in Conn, x \in Device :
          loop'[b][x] = loop[b][x] \/ (b = c /\ x = d /\ loop'[b][x] = "failed")
    BY <2>2, LoopMoves
  <2>5. \A b \in Conn, x \in Device : LoopStep(b, x)
    BY <1>2, <1>9, <2>4 DEF LoopStep
  <2>6. Msg("bad") \in Message /\ Msg("bad").kind = "bad"
    BY MsgType DEF Msg
  <2>7. Mild
    BY <1>5, <1>6, <1>7, <2>2, <2>3, <2>5, <2>6 DEF Mild
  <2> QED
    BY <2>2, <2>7, MildAnswers
<1>10. CASE judged /\ h.code = sessions[d].code
  <2>1. sessions[d] # None
    BY <1>10 DEF Consent
  <2>2. wire' = Post(Taken(c, d), c, d, Msg("ok")) /\ Completed(d) /\ UNCHANGED loop
    BY <1>10 DEF HandleCode
  <2>3. /\ trust'[d] /\ \A x \in Device \ {d} : trust'[x] = trust[x]
        /\ \A x \in Device : EntryStep(x)
    BY <2>2, CompletedStep
  <2>4. \A b \in Conn, x \in Device : LoopStep(b, x)
    BY <2>2 DEF LoopStep
  <2>5. Msg("ok") \in Message /\ Msg("ok").kind = "ok"
    BY MsgType DEF Msg
  <2>6. Mild
    BY <1>5, <1>6, <1>7, <2>2, <2>3, <2>4, <2>5 DEF Mild
  <2>7. CASE trust[d] \/ trust[e]
    BY <1>1, <2>3, <2>6, <2>7, MildAnswers
  <2>8. CASE ~trust[d] /\ ~trust[e]
    <3>1. c \in open /\ loop[c][e] = "running" /\ Typed(c, e)
      BY <1>2, <1>3, <1>10, <2>1 DEF WaitInv, WireInv
    <3>2. Msg("ok") \in Under(c, e)'
      <4>1. Reads(c, e)
        BY <3>1 DEF Reads
      <4>2. Elems(Post(Taken(c, d), c, d, Msg("ok"))[c][e]) = Elems(Taken(c, d)[c][e]) \cup {Msg("ok")}
        BY <1>1, <1>4, <2>5, <4>1, PostElems
      <4> QED
        BY <2>2, <4>2 DEF Under
    <3>3. Judges(d) /\ used >= 1 /\ ~Judges(e)
      BY <1>10 DEF JudgeInv, Judges
    <3>4. ~Judges(e)'
      BY <1>1, <2>6, <3>3, JudgesKept
    <3>5. sessions'[d] # None => sessions'[d].code = None
      BY <2>1, <2>2, <2>8, CompletedStep
    <3>6. EntryOn(c, d)' => Consent(d)' # "awaiting"
      <4>1. EntryStep(d) /\ sessions[d].consent = "granted"
        BY <1>10, <2>1, <2>3 DEF Consent
      <4> QED
        BY <1>2, <4>1 DEF EntryStep, EntryOn, Consent
    <3>7. Typed(c, e)'
      BY <1>1, <2>6, <3>1, TypedKept
    <3>8. Answered(c, d)'
      BY <1>1, <1>2, <1>5, <2>2, <2>5, <3>1, <3>2, <3>6, <3>7 DEF Answered
    <3>9. ~trust'[e]
      BY <1>1, <2>3, <2>8
    <3>10. ASSUME NEW x \in Device, trust'[x], ~trust'[Peer(x)]
           PROVE  x = d
      BY <1>1, <3>9, <3>10
    <3>11. /\ used' >= 1 /\ ~Judges(Peer(d))'
           /\ (sessions'[d] # None => sessions'[d].code = None)
           /\ \E b \in Conn : Answered(b, d)'
      BY <1>5, <3>3, <3>4, <3>5, <3>8
    <3>12. AnswerInv'
      BY <3>10, <3>11 DEF AnswerInv
    <3> QED
      BY <2>6, <3>12
  <2> QED
    BY <2>6, <2>7, <2>8
<1> QED
  BY <1>8, <1>9, <1>10

(* A yes or a no arrives.                                                  *)
LEMMA ResultTrust ==
  ASSUME TypeOK, TypeOK', WireInv, EntryInv, JudgeInv, AnswerInv,
         NEW c \in Conn, NEW d \in Device, HandleResult(c, d)
  PROVE  Mild /\ AnswerInv'
<1> USE DEF setup, bounds
<1> DEFINE h == Head(wire[c][d])
<1>1. wire \in Wires /\ wire[c][d] # <<>>
  BY DEF HandleResult, Read, TypeOK, Wires
<1>2. /\ h \in Under(c, d) /\ UNCHANGED <<loop, open, used>>
      /\ \A b \in Conn, x \in Device :
           /\ Under(b, x)' \subseteq Under(b, x)
           /\ \A m \in Under(b, x) : m \in Under(b, x)' \/ (b = c /\ x = d /\ m = h)
  <2>1. wire' = Taken(c, d) /\ UNCHANGED <<loop, open, used>>
    BY DEF HandleResult
  <2>2. \A b \in Conn, x \in Device : Under(b, x)' = Elems(Taken(c, d)[b][x])
    BY <2>1 DEF Under
  <2> QED
    BY <1>1, <2>1, <2>2, TakenElems
<1>3. \A b \in Conn, x \in Device : OpenStep(b) /\ LoopStep(b, x)
  BY <1>2 DEF OpenStep, LoopStep
<1>4. CASE h.kind = "ok"
  <2>1. Completed(d) /\ trust[Peer(d)]
    BY <1>2, <1>4 DEF HandleResult, WireInv
  <2>2. /\ trust'[d] /\ \A x \in Device \ {d} : trust'[x] = trust[x]
        /\ \A x \in Device : EntryStep(x)
    BY <2>1, CompletedStep
  <2>3. \A b \in Conn, x \in Device : WireStep(b, x)
    BY <1>2, <2>2 DEF WireStep
  <2>4. Mild
    BY <1>2, <1>3, <2>2, <2>3 DEF Mild
  <2>5. trust'[Peer(d)]
    BY <2>1, <2>2, PeerFacts
  <2> QED
    BY <2>2, <2>4, <2>5, MildAnswers
<1>5. CASE h.kind # "ok"
  <2>1. UNCHANGED <<trust, sessions>>
    BY <1>5 DEF HandleResult
  <2>2. \A x \in Device : EntryStep(x)
    BY <2>1, FieldStep
  <2>3. \A b \in Conn, x \in Device : WireStep(b, x)
    BY <1>2, <1>5 DEF WireStep
  <2>4. Mild
    BY <1>2, <1>3, <2>1, <2>2, <2>3 DEF Mild
  <2> QED
    BY <2>1, <2>4, MildAnswers
<1> QED
  BY <1>4, <1>5

(* What the other handlers do is mild, while nothing was against pairing.  *)
LEMMA SideMild ==
  ASSUME TypeOK, SessionInv, WireInv, NEW c \in Conn, NEW d \in Device,
         \/ Accept(c, d) \/ Insert(c, d) \/ GiveUp(c, d) \/ HandleEnd(c, d)
         \/ ReadEnd(c, d) \/ Exit(c, d) \/ GateFires(c, d)
  PROVE  Mild /\ UNCHANGED trust
<1> USE DEF setup, bounds
<1>1. Peer(d) \in Device
  BY PeerFacts
<1>2. ASSUME UNCHANGED wire PROVE \A b \in Conn, x \in Device : WireStep(b, x)
  BY <1>2 DEF WireStep, Under
<1>3. ASSUME UNCHANGED sessions PROVE \A x \in Device : EntryStep(x)
  BY <1>3, FieldStep
<1>4. ASSUME NEW t, At(c, d, t)
      PROVE  \A b \in Conn, x \in Device : loop'[b][x] = IF b = c /\ x = d THEN t ELSE loop[b][x]
  BY <1>4, LoopMoves
<1>5. ASSUME wire' = [wire EXCEPT ![c][d] = <<>>], loop[c][d] # "running"
      PROVE  \A b \in Conn, x \in Device : WireStep(b, x)
  <2>1. \A b \in Conn, x \in Device :
          Under(b, x)' = IF b = c /\ x = d THEN {} ELSE Under(b, x)
    BY <1>5, ElemsFacts DEF Under, TypeOK
  <2> QED
    BY <1>5, <2>1 DEF WireStep
<1>6. ASSUME UNCHANGED open PROVE \A b \in Conn : OpenStep(b)
  BY <1>6 DEF OpenStep
<1>7. CASE Accept(c, d)
  <2>1. /\ UNCHANGED <<wire, sessions, trust, used>> /\ loop[c][d] = "none"
        /\ \/ At(c, d, "over") /\ open' = open \ {c}
           \/ At(c, d, "checked") /\ UNCHANGED open
    BY <1>7 DEF Accept
  <2>2. \A b \in Conn, x \in Device : LoopStep(b, x)
    BY <1>4, <2>1 DEF LoopStep
  <2>3. \A b \in Conn : OpenStep(b)
    BY <1>4, <2>1 DEF OpenStep
  <2> QED
    BY <1>2, <1>3, <2>1, <2>2, <2>3 DEF Mild
<1>8. CASE Insert(c, d)
  <2>1. /\ UNCHANGED <<wire, open, trust, used>> /\ loop[c][d] = "checked" /\ At(c, d, "running")
        /\ \E b \in BOOLEAN : sessions' = [sessions EXCEPT ![d] = Fresh(c, b)]
    BY <1>8 DEF Insert
  <2>2. \A b \in Conn, x \in Device : LoopStep(b, x)
    BY <1>4, <2>1 DEF LoopStep
  <2>3. PICK b \in BOOLEAN : sessions' = [sessions EXCEPT ![d] = Fresh(c, b)]
    BY <2>1
  <2>4. sessions'[d] = Fresh(c, b) /\ \A x \in Device \ {d} : sessions'[x] = sessions[x]
    BY <2>3 DEF TypeOK
  <2>5. Fresh(c, b).conn = c /\ Fresh(c, b).consent # "granted" /\ Fresh(c, b).code = None
    BY DEF Fresh
  <2>6. \A x \in Device : EntryStep(x)
    BY <2>1, <2>4, <2>5 DEF EntryStep
  <2> QED
    BY <1>2, <1>6, <2>1, <2>2, <2>6 DEF Mild
<1>9. CASE GiveUp(c, d)
  <2>1. /\ UNCHANGED <<sessions, trust, used>> /\ loop[c][d] = "checked" /\ At(c, d, "over")
        /\ open' = open \ {c} /\ wire' = [wire EXCEPT ![c][d] = <<>>]
    BY <1>9 DEF GiveUp
  <2>2. \A b \in Conn, x \in Device : LoopStep(b, x)
    BY <1>4, <2>1 DEF LoopStep
  <2>3. \A b \in Conn : OpenStep(b)
    BY <1>4, <2>1 DEF OpenStep
  <2> QED
    BY <1>3, <1>5, <2>1, <2>2, <2>3 DEF Mild
<1>10. CASE HandleEnd(c, d)
  <2>1. wire[c][d] # <<>> /\ Head(wire[c][d]).kind \in {"deny", "cancel", "bye", "broken"}
    BY <1>10 DEF HandleEnd, Read
  <2>2. Head(wire[c][d]) \in Under(c, d)
    BY <2>1, TakenElems DEF TypeOK, Wires
  <2> QED
    BY <2>1, <2>2 DEF WireInv
<1>11. CASE ReadEnd(c, d)
  <2>1. /\ UNCHANGED <<open, wire, sessions, trust, used>> /\ At(c, d, "broken")
        /\ loop[c][d] = "running"
        /\ c \notin open \/ (loop[c][Peer(d)] = "over" /\ wire[c][d] = <<>>)
    BY <1>11 DEF ReadEnd, Live
  <2>2. wire[c][d] = <<>> => Under(c, d) = {}
    BY ElemsFacts DEF Under
  <2>3. \A b \in Conn, x \in Device : LoopStep(b, x)
    BY <1>4, <2>1, <2>2 DEF LoopStep
  <2> QED
    BY <1>2, <1>3, <1>6, <2>1, <2>3 DEF Mild
<1>12. CASE Exit(c, d)
  <2>1. /\ UNCHANGED <<trust, used>> /\ loop[c][d] \in {"broken", "failed"} /\ At(c, d, "over")
        /\ open' = IF loop[c][d] = "failed" THEN open \ {c} ELSE open
        /\ wire' = [wire EXCEPT ![c][d] = <<>>]
        /\ UNCHANGED sessions \/ Drop(d)
    BY <1>12 DEF Exit
  <2>2. \A b \in Conn, x \in Device : LoopStep(b, x)
    BY <1>4, <2>1 DEF LoopStep
  <2>3. \A b \in Conn : OpenStep(b)
    BY <2>1 DEF OpenStep
  <2>4. \A x \in Device : EntryStep(x)
    BY <2>1, FieldStep
  <2> QED
    BY <1>5, <2>1, <2>2, <2>3, <2>4 DEF Mild
<1>13. CASE GateFires(c, d)
  <2>1. /\ UNCHANGED <<loop, wire, trust, used>>
        /\ \/ Overdue(c, d) /\ Drop(d) /\ open' = open \ {c}
           \/ UNCHANGED <<sessions, open>>
    BY <1>13 DEF GateFires
  <2>2. \A b \in Conn, x \in Device : LoopStep(b, x)
    BY <2>1 DEF LoopStep
  <2>3. \A b \in Conn : OpenStep(b)
    BY <2>1 DEF OpenStep, Overdue, EntryOn, Consent
  <2>4. \A x \in Device : EntryStep(x)
    BY <2>1, FieldStep
  <2> QED
    BY <1>2, <2>1, <2>2, <2>3, <2>4 DEF Mild
<1> QED
  BY <1>7, <1>8, <1>9, <1>10, <1>11, <1>12, <1>13

(* So are the commands and the end of a cool-down.                         *)
LEMMA UserMild ==
  ASSUME TypeOK, SessionInv, NEW d \in Device,
         Connect(d) \/ Submit(d) \/ Release(d) \/ CooldownEnds(d)
  PROVE  Mild /\ UNCHANGED trust
<1> USE DEF setup, bounds
<1>1. Peer(d) \in Device /\ Peer(Peer(d)) = d
  BY PeerFacts
<1>2. ASSUME UNCHANGED wire PROVE \A b \in Conn, x \in Device : WireStep(b, x)
  BY <1>2 DEF WireStep, Under
<1>3. ASSUME UNCHANGED loop PROVE \A b \in Conn, x \in Device : LoopStep(b, x)
  BY <1>3 DEF LoopStep
<1>4. ASSUME open \subseteq open' PROVE \A b \in Conn : OpenStep(b)
  BY <1>4 DEF OpenStep
<1>5. CASE Connect(d)
  <2>1. UNCHANGED <<wire, sessions, trust, used>> /\ open \subseteq open'
    BY <1>5 DEF Connect
  <2>2. PICK c \in Conn : dialer[c] = None /\ At(c, d, "checked")
    BY <1>5 DEF Connect
  <2>3. loop[c][d] = "none"
    BY <2>2 DEF SessionInv, NoLoopBeforeDial
  <2>4. \A b \in Conn, x \in Device : LoopStep(b, x)
    BY <2>2, <2>3, LoopMoves DEF LoopStep
  <2> QED
    BY <1>2, <1>4, <2>1, <2>4, FieldStep DEF Mild
<1>6. CASE Submit(d)
  <2>1. UNCHANGED <<open, loop, sessions, trust, used>> /\ Consent(d) = "initiator"
    BY <1>6 DEF Submit
  <2> DEFINE c == sessions[d].conn
  <2>2. c \in Conn /\ loop[c][d] = "running"
    BY <1>6, PartTypes DEF Submit, Live, Session
  <2>3. PICK k \in 0 .. used : Send(c, d, [kind |-> "code", code |-> k])
    BY <1>6 DEF Submit
  <2> DEFINE m == [kind |-> "code", code |-> k]
  <2>4. m \in Message /\ m.kind = "code" /\ m.code <= used
    BY MsgType DEF TypeOK
  <2>5. wire' = Post(wire, c, d, m)
    BY <2>2, <2>3 DEF Send, Live
  <2>6. wire \in Wires
    BY DEF TypeOK, Wires
  <2> HIDE DEF m, c
  <2>7. \A b \in Conn, x \in Device :
          Under(b, x)' = IF b = c /\ x = Peer(d) /\ Reads(c, Peer(d)) THEN Under(b, x) \cup {m}
                         ELSE Under(b, x)
    BY <2>2, <2>4, <2>5, <2>6, PostElems DEF Under
  <2>8. Typed(c, d)
    BY <2>1, <2>2 DEF Typed
  <2>9. \A b \in Conn, x \in Device : WireStep(b, x)
    BY <1>1, <2>1, <2>2, <2>4, <2>7, <2>8 DEF WireStep, Reads
  <2> QED
    BY <1>3, <1>4, <2>1, <2>9, FieldStep DEF Mild
<1>7. CASE Release(d)
  <2>1. /\ UNCHANGED <<loop, wire, trust, used>>
        /\ \/ UNCHANGED <<sessions, open>>
           \/ /\ Consent(d) = "granted" /\ UNCHANGED open
              /\ sessions' = [sessions EXCEPT ![d].pending = None, ![d].fails = @ + 1]
           \/ /\ Consent(d) = "granted" /\ sessions[d].code # None
              /\ Drop(d) /\ open' = open \ {sessions[d].conn}
    BY <1>7 DEF Release, Disconnected
  <2>2. Consent(d) = "granted" => sessions[d] # None
    BY DEF Consent
  <2>3. \A x \in Device : EntryStep(x)
    BY <2>1, <2>2, FieldStep
  <2>4. Drop(d) => sessions'[d] = None
    BY DEF Drop, TypeOK
  <2>5. \A b \in Conn : OpenStep(b)
    BY <2>1, <2>2, <2>4 DEF OpenStep, EntryOn
  <2> QED
    BY <1>2, <1>3, <2>1, <2>3, <2>5 DEF Mild
<1>8. CASE CooldownEnds(d)
  <2>1. UNCHANGED <<open, loop, wire, sessions, trust, used>>
    BY <1>8 DEF CooldownEnds
  <2> QED
    BY <1>2, <1>3, <1>4, <2>1, FieldStep DEF Mild
<1> QED
  BY <1>5, <1>6, <1>7, <1>8

(* Every step keeps the invariant of trust.                                *)
LEMMA TrustStep == TypeOK /\ SessionInv /\ TrustInv /\ [Next]_vars => TrustInv'
<1> SUFFICES ASSUME TypeOK, SessionInv, TrustInv, [Next]_vars, upsets' = 0, used' <= 1
             PROVE  WireInv' /\ EntryInv' /\ JudgeInv' /\ WaitInv' /\ AnswerInv'
  BY DEF TrustInv
<1> USE DEF setup, bounds
<1>1. TypeOK'
  BY TypeStep
<1>2. upsets \in Nat /\ used \in Nat
  BY DEF TypeOK
<1>3. ~Upset
  BY <1>2 DEF Upset
<1>4. UNCHANGED upsets /\ used <= used'
  <2>1. ASSUME NEW d \in Device, User(d) \/ Release(d) \/ CooldownEnds(d) \/ Restart(d)
        PROVE  UNCHANGED upsets /\ used <= used'
    BY <1>2, <1>3, <2>1
       DEF User, Connect, Submit, Grant, Deny, CancelWait, Disconnect, RemoveTrust, Release,
           CooldownEnds, Restart
  <2>2. ASSUME NEW c \in Conn, NEW d \in Device, Side(c, d)
        PROVE  UNCHANGED upsets /\ used <= used'
    BY <1>2, <2>2
       DEF Side, Accept, Insert, GiveUp, HandleCode, HandleResult, HandleEnd, ReadEnd, Exit,
           GateFires
  <2> QED
    BY <1>2, <1>3, <2>1, <2>2 DEF Next, LinkDrops, vars
<1>5. WireInv /\ EntryInv /\ JudgeInv /\ WaitInv /\ AnswerInv
  <2>1. upsets = 0
    BY <1>4
  <2>2. used' \in Nat
    BY <1>1 DEF TypeOK
  <2>3. used <= 1
    BY <1>2, <1>4, <2>2
  <2> QED
    BY <2>1, <2>3 DEF TrustInv
<1>6. ASSUME Mild, UNCHANGED trust PROVE AnswerInv'
  BY <1>1, <1>5, <1>6, MildAnswers
<1>7. ASSUME Mild, AnswerInv'
      PROVE  WireInv' /\ EntryInv' /\ JudgeInv' /\ WaitInv' /\ AnswerInv'
  BY <1>1, <1>5, <1>7, MildKeeps, MildWaits
<1>8. ASSUME NEW d \in Device, User(d) \/ Release(d) \/ CooldownEnds(d) \/ Restart(d)
      PROVE  WireInv' /\ EntryInv' /\ JudgeInv' /\ WaitInv' /\ AnswerInv'
  <2>1. CASE Grant(d)
    BY <1>5, <2>1, GrantTrust
  <2>2. CASE Connect(d) \/ Submit(d) \/ Release(d) \/ CooldownEnds(d)
    BY <1>6, <1>7, <2>2, UserMild
  <2> QED
    BY <1>3, <1>8, <2>1, <2>2 DEF User, Deny, CancelWait, Disconnect, RemoveTrust, Restart
<1>9. ASSUME NEW c \in Conn, NEW d \in Device, Side(c, d)
      PROVE  WireInv' /\ EntryInv' /\ JudgeInv' /\ WaitInv' /\ AnswerInv'
  <2>1. CASE HandleCode(c, d)
    BY <1>1, <1>5, <1>7, <2>1, CodeTrust
  <2>2. CASE HandleResult(c, d)
    BY <1>1, <1>5, <1>7, <2>2, ResultTrust
  <2>3. CASE \/ Accept(c, d) \/ Insert(c, d) \/ GiveUp(c, d) \/ HandleEnd(c, d)
             \/ ReadEnd(c, d) \/ Exit(c, d) \/ GateFires(c, d)
    BY <1>5, <1>6, <1>7, <2>3, SideMild
  <2> QED
    BY <1>9, <2>1, <2>2, <2>3 DEF Side
<1>10. CASE UNCHANGED vars
  BY <1>5, <1>10
     DEF vars, WireInv, EntryInv, JudgeInv, WaitInv, AnswerInv, Under, Typed, EntryOn, Consent,
         Judges, Answered
<1> QED
  BY <1>3, <1>8, <1>9, <1>10 DEF Next, LinkDrops

(* The invariant of trust holds in every behaviour.                        *)
THEOREM TrustInvariant == Spec => []TrustInv
<1>1. Init => TrustInv
  <2> SUFFICES ASSUME Init PROVE WireInv /\ EntryInv /\ JudgeInv /\ WaitInv /\ AnswerInv
    BY DEF TrustInv
  <2>1. \A c \in Conn, d \in Device : Under(c, d) = {}
    BY ElemsFacts DEF Init, Under
  <2>2. \A d \in Device : sessions[d] = None /\ ~Judges(d)
    BY DEF Init, Judges, Consent
  <2>3. \A d \in Device : Peer(d) \in Device /\ trust[d] = trust[Peer(d)]
    BY PeerFacts DEF Init
  <2> QED
    BY <2>1, <2>2, <2>3 DEF WireInv, EntryInv, JudgeInv, WaitInv, AnswerInv
<1> QED
  BY <1>1, TypeCorrect, SessionInvariant, TrustStep, PTL DEF Spec

(* One shown code makes both devices trust each other, or none.            *)
THEOREM TrustIsMutual == Spec => []TrustMutual
<1>1. TypeOK /\ SessionInv /\ TrustInv => TrustMutual
  <2> SUFFICES ASSUME TypeOK, SessionInv, AnswerInv, Quiet, NEW d \in Device, NEW e \in Device
               PROVE  trust[d] = trust[e]
    BY DEF TrustInv, TrustMutual
  <2>1. ASSUME NEW x \in Device, trust[x] PROVE trust[Peer(x)]
    <3> SUFFICES ASSUME ~trust[Peer(x)] PROVE FALSE
      OBVIOUS
    <3>1. PICK c \in Conn : Answered(c, x)
      BY <2>1 DEF AnswerInv
    <3>2. Peer(x) \in Device /\ Peer(Peer(x)) = x
      BY PeerFacts
    <3>3. loop[c][Peer(x)] = "running" /\ Under(c, Peer(x)) # {}
      BY <3>1 DEF Answered
    <3>4. wire[c][Peer(x)] # <<>>
      BY <3>3, ElemsFacts DEF Under
    <3>5. dialer[c] # None
      BY <3>2, <3>3 DEF SessionInv, NoLoopBeforeDial
    <3> QED
      BY <3>2, <3>3, <3>4, <3>5 DEF Quiet
  <2>2. trust[d] \in BOOLEAN /\ trust[e] \in BOOLEAN
    BY DEF TypeOK
  <2> QED
    BY <2>1, <2>2, PeerFacts
<1> QED
  BY <1>1, TypeCorrect, SessionInvariant, TrustInvariant, PTL
==============================================================================

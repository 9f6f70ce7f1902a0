----------------------------- MODULE Relay_proofs -----------------------------
(***************************************************************************)
(* Proofs about the relay: the admission of connections (RelayAdmission),  *)
(* punching (RelayPunch), the shells' client of it (RelayShell) and the    *)
(* lease table (RelayLease), for all devices and addresses, every number   *)
(* of attempts, calls, commands and registrations and every limit.         *)
(***************************************************************************)
EXTENDS RelayAdmission, RelayPunch, RelayShell, RelayLease, SequenceTheorems, FiniteSetTheorems,
        WellFoundedInduction, TLAPS

-----------------------------------------------------------------------------
(* Admission. *)

AInv == ATypeOK /\ CountsExact

-----------------------------------------------------------------------------
(* The sets the counters count.                                             *)

(* The connections that hold a slot are finitely many.                      *)
LEMMA Sizes ==
  ASSUME ConstantsOK
  PROVE  /\ IsFiniteSet(Held) /\ Cardinality(Held) \in Nat
         /\ \A i \in Ip : IsFiniteSet(HeldFrom(i)) /\ Cardinality(HeldFrom(i)) \in Nat
<1>1. IsFiniteSet(Calls)
  BY FS_Interval DEF Calls, ConstantsOK
<1>2. Held \in SUBSET Calls /\ \A i \in Ip : HeldFrom(i) \in SUBSET Calls
  BY DEF Held, HeldFrom
<1>3. IsFiniteSet(Held) /\ \A i \in Ip : IsFiniteSet(HeldFrom(i))
  BY <1>1, <1>2, FS_Subset
<1>4. QED
  BY <1>3, FS_CardinalityType

(* A task that goes on enters or leaves them by itself and alone.           *)
LEMMA Moves ==
  ASSUME ATypeOK, NEW k \in Calls, NEW to, st' = [st EXCEPT ![k] = to], ip' = ip
  PROVE  /\ Held' = IF to \in Holding THEN Held \cup {k} ELSE Held \ {k}
         /\ \A i \in Ip :
              HeldFrom(i)' = IF to \in Counted /\ i = ip[k] THEN HeldFrom(i) \cup {k}
                                                           ELSE HeldFrom(i) \ {k}
         /\ k \in Held <=> st[k] \in Holding
         /\ \A i \in Ip : k \in HeldFrom(i) <=> i = ip[k] /\ st[k] \in Counted
<1>1. Held' = IF to \in Holding THEN Held \cup {k} ELSE Held \ {k}
  BY DEF Held, ATypeOK
<1>2. ASSUME NEW i \in Ip
      PROVE  HeldFrom(i)' = IF to \in Counted /\ i = ip[k] THEN HeldFrom(i) \cup {k}
                                                          ELSE HeldFrom(i) \ {k}
  BY DEF HeldFrom, ATypeOK
<1>3. (k \in Held <=> st[k] \in Holding)
      /\ \A i \in Ip : k \in HeldFrom(i) <=> i = ip[k] /\ st[k] \in Counted
  BY DEF Held, HeldFrom
<1>4. QED
  BY <1>1, <1>2, <1>3

(* What becomes of the global count when a task goes on.                    *)
LEMMA ActiveCount ==
  ASSUME ConstantsOK, AInv, NEW k \in Calls, NEW to, st' = [st EXCEPT ![k] = to], ip' = ip
  PROVE  /\ (to \in Holding <=> st[k] \in Holding) => Cardinality(Held') = active
         /\ to \in Holding /\ st[k] \notin Holding => Cardinality(Held') = active + 1
         /\ to \notin Holding /\ st[k] \in Holding =>
              Cardinality(Held') = active - 1 /\ active > 0
<1>1. IsFiniteSet(Held) /\ Cardinality(Held) = active /\ active \in Nat
  BY Sizes DEF AInv, CountsExact
<1>2. /\ Held' = IF to \in Holding THEN Held \cup {k} ELSE Held \ {k}
      /\ k \in Held <=> st[k] \in Holding
  BY Moves DEF AInv
<1>3. /\ Cardinality(Held \cup {k}) = IF k \in Held THEN active ELSE active + 1
      /\ IsFiniteSet(Held \ {k})
      /\ Cardinality(Held \ {k}) = IF k \in Held THEN active - 1 ELSE active
  BY <1>1, FS_AddElement, FS_RemoveElement
<1>4. Cardinality(Held \ {k}) \in Nat
  BY <1>3, FS_CardinalityType
<1>5. QED
  BY <1>1, <1>2, <1>3, <1>4

(* And of the count of each address.                                        *)
LEMMA IpCount ==
  ASSUME ConstantsOK, AInv, NEW k \in Calls, NEW to, st' = [st EXCEPT ![k] = to], ip' = ip,
         NEW i \in Ip
  PROVE  /\ i # ip[k] \/ (to \in Counted <=> st[k] \in Counted) =>
              Cardinality(HeldFrom(i)') = ipConns[i]
         /\ i = ip[k] /\ to \in Counted /\ st[k] \notin Counted =>
              Cardinality(HeldFrom(i)') = ipConns[i] + 1
         /\ i = ip[k] /\ to \notin Counted /\ st[k] \in Counted =>
              Cardinality(HeldFrom(i)') = ipConns[i] - 1 /\ ipConns[i] > 0
<1>1. IsFiniteSet(HeldFrom(i)) /\ Cardinality(HeldFrom(i)) = ipConns[i] /\ ipConns[i] \in Nat
  BY Sizes DEF AInv, CountsExact
<1>2. /\ HeldFrom(i)' = IF to \in Counted /\ i = ip[k] THEN HeldFrom(i) \cup {k}
                                                     ELSE HeldFrom(i) \ {k}
      /\ k \in HeldFrom(i) <=> i = ip[k] /\ st[k] \in Counted
  BY Moves DEF AInv
<1>3. /\ Cardinality(HeldFrom(i) \cup {k}) =
           IF k \in HeldFrom(i) THEN ipConns[i] ELSE ipConns[i] + 1
      /\ IsFiniteSet(HeldFrom(i) \ {k})
      /\ Cardinality(HeldFrom(i) \ {k}) =
           IF k \in HeldFrom(i) THEN ipConns[i] - 1 ELSE ipConns[i]
  BY <1>1, FS_AddElement, FS_RemoveElement
<1>4. Cardinality(HeldFrom(i) \ {k}) \in Nat
  BY <1>3, FS_CardinalityType
<1>5. QED
  BY <1>1, <1>2, <1>3, <1>4

-----------------------------------------------------------------------------
(* Three kinds of steps: the ones that take or give back no slot, ...       *)
LEMMA KeepsSlots ==
  ASSUME ConstantsOK, AInv, NEW k \in Calls, NEW to \in Holding \cup {"none", "refused", "gone"},
         st' = [st EXCEPT ![k] = to],
         to \in Holding <=> st[k] \in Holding, to \in Counted <=> st[k] \in Counted,
         UNCHANGED <<ip, active, ipConns>>
  PROVE  CountsExact' /\ st' \in [Calls -> Holding \cup {"none", "refused", "gone"}]
<1>1. active' = Cardinality(Held')
  BY ActiveCount
<1>2. \A i \in Ip : ipConns'[i] = Cardinality(HeldFrom(i)')
  BY IpCount
<1>3. QED
  BY <1>1, <1>2 DEF CountsExact, AInv, ATypeOK

(* ... the ones that take or give back a global slot, ...                   *)
LEMMA GlobalSlot ==
  ASSUME ConstantsOK, AInv, NEW k \in Calls, NEW to \in Holding \cup {"none", "refused", "gone"},
         st' = [st EXCEPT ![k] = to],
         \/ to \in Holding /\ st[k] \notin Holding /\ active < MaxActive /\ active' = active + 1
         \/ to \notin Holding /\ st[k] \in Holding /\ active' = active - 1,
         to \in Counted <=> st[k] \in Counted, UNCHANGED <<ip, ipConns>>
  PROVE  /\ CountsExact' /\ active' \in 0 .. MaxActive
         /\ st' \in [Calls -> Holding \cup {"none", "refused", "gone"}]
<1>0. active \in 0 .. MaxActive /\ MaxActive \in Nat
  BY DEF AInv, ATypeOK, ConstantsOK
<1>1. active' = Cardinality(Held') /\ active' \in 0 .. MaxActive
  <2>1. CASE to \in Holding /\ st[k] \notin Holding /\ active < MaxActive /\ active' = active + 1
    <3>1. Cardinality(Held') = active + 1
      BY <2>1, ActiveCount
    <3>2. QED
      BY <1>0, <2>1, <3>1
  <2>2. CASE to \notin Holding /\ st[k] \in Holding /\ active' = active - 1
    <3>1. Cardinality(Held') = active - 1 /\ active > 0
      BY <2>2, ActiveCount
    <3>2. QED
      BY <1>0, <2>2, <3>1
  <2>3. QED
    BY <2>1, <2>2
<1>2. \A i \in Ip : ipConns'[i] = Cardinality(HeldFrom(i)')
  BY IpCount
<1>3. QED
  BY <1>1, <1>2 DEF CountsExact, AInv, ATypeOK

(* ... and the ones that take or give back a slot of the address.           *)
LEMMA AddressSlot ==
  ASSUME ConstantsOK, AInv, NEW k \in Calls, NEW to \in Holding, NEW n \in Int,
         st' = [st EXCEPT ![k] = to], st[k] \in Holding,
         \/ to \in Counted /\ st[k] \notin Counted /\ ipConns[ip[k]] < PerIp
            /\ n = ipConns[ip[k]] + 1
         \/ to \notin Counted /\ st[k] \in Counted /\ n = ipConns[ip[k]] - 1,
         ipConns' = [ipConns EXCEPT ![ip[k]] = n], UNCHANGED <<ip, active>>
  PROVE  /\ CountsExact' /\ ipConns' \in [Ip -> 0 .. PerIp]
         /\ st' \in [Calls -> Holding \cup {"none", "refused", "gone"}]
<1>1. active' = Cardinality(Held')
  BY ActiveCount
<1>2. ipConns \in [Ip -> 0 .. PerIp] /\ ip[k] \in Ip /\ PerIp \in Nat
  BY DEF AInv, ATypeOK, ConstantsOK
<1>3. n = Cardinality(HeldFrom(ip[k])') /\ n \in 0 .. PerIp
  <2>1. CASE to \in Counted /\ st[k] \notin Counted /\ ipConns[ip[k]] < PerIp
             /\ n = ipConns[ip[k]] + 1
    <3>1. Cardinality(HeldFrom(ip[k])') = ipConns[ip[k]] + 1
      BY <1>2, <2>1, IpCount
    <3>2. QED
      BY <1>2, <2>1, <3>1
  <2>2. CASE to \notin Counted /\ st[k] \in Counted /\ n = ipConns[ip[k]] - 1
    <3>1. Cardinality(HeldFrom(ip[k])') = ipConns[ip[k]] - 1 /\ ipConns[ip[k]] > 0
      BY <1>2, <2>2, IpCount
    <3>2. QED
      BY <1>2, <2>2, <3>1
  <2>3. QED
    BY <2>1, <2>2
<1>4. \A i \in Ip : i # ip[k] => Cardinality(HeldFrom(i)') = ipConns[i]
  BY IpCount
<1>5. \A i \in Ip : ipConns'[i] = Cardinality(HeldFrom(i)')
  BY <1>2, <1>3, <1>4
<1>6. QED
  BY <1>1, <1>2, <1>3, <1>5 DEF CountsExact, AInv, ATypeOK

-----------------------------------------------------------------------------
(* No connection, no slot.                                                  *)
LEMMA AdmissionInit == ConstantsOK /\ AInit => AInv
<1> SUFFICES ASSUME ConstantsOK, AInit PROVE AInv
  OBVIOUS
<1>1. ATypeOK
  BY DEF AInit, ATypeOK, ConstantsOK
<1>2. Held = {} /\ \A i \in Ip : HeldFrom(i) = {}
  BY DEF AInit, Held, HeldFrom, Holding, Counted
<1>3. QED
  BY <1>1, <1>2, FS_EmptySet DEF AInv, CountsExact, AInit

(* Every step moves the counters with the tasks.                            *)
LEMMA AdmissionStep == ConstantsOK /\ AInv /\ [ANext]_avars => AInv'
<1> SUFFICES ASSUME ConstantsOK, AInv, [ANext]_avars PROVE AInv'
  OBVIOUS
<1> USE DEF Holding, Counted
<1>t. ATypeOK /\ CountsExact
  BY DEF AInv
<1>1. ASSUME NEW k \in Calls, Incoming(k) PROVE AInv'
  <2>1. CASE active < MaxActive
    <3>1. CountsExact' /\ active' \in 0 .. MaxActive
          /\ st' \in [Calls -> Holding \cup {"none", "refused", "gone"}]
      BY <1>1, <2>1, GlobalSlot DEF Incoming, Goes
    <3>2. QED
      BY <1>1, <1>t, <3>1 DEF Incoming, ATypeOK, AInv
  <2>2. CASE ~(active < MaxActive)
    BY <1>1, <1>t, <2>2, KeepsSlots DEF Incoming, Goes, ATypeOK, AInv
  <2>3. QED
    BY <2>1, <2>2
<1>2. ASSUME NEW k \in Calls, HandshakeFails(k) \/ GuardDrop(k) PROVE AInv'
  <2>1. CountsExact' /\ active' \in 0 .. MaxActive
        /\ st' \in [Calls -> Holding \cup {"none", "refused", "gone"}]
    BY <1>2, GlobalSlot DEF HandshakeFails, GuardDrop, Goes
  <2>2. QED
    BY <1>2, <1>t, <2>1 DEF HandshakeFails, GuardDrop, ATypeOK, AInv
<1>3. ASSUME NEW k \in Calls, Handshake(k) PROVE AInv'
  <2>0. ipConns[ip[k]] \in Int /\ PerIp \in Nat /\ UNCHANGED <<ip, failures, blocked>>
    BY <1>3, <1>t DEF ATypeOK, ConstantsOK, Handshake
  <2>1. CASE ipConns[ip[k]] >= PerIp
    <3>1. CountsExact' /\ active' \in 0 .. MaxActive
          /\ st' \in [Calls -> Holding \cup {"none", "refused", "gone"}]
      BY <1>3, <2>1, GlobalSlot DEF Handshake, Goes
    <3>2. QED
      BY <1>3, <1>t, <2>0, <2>1, <3>1 DEF Handshake, ATypeOK, AInv
  <2>2. CASE ~(ipConns[ip[k]] >= PerIp)
    <3>1. /\ st[k] = "reserved" /\ st' = [st EXCEPT ![k] = "counted"] /\ active' = active
          /\ ipConns' = [ipConns EXCEPT ![ip[k]] = ipConns[ip[k]] + 1]
      BY <1>3, <2>2 DEF Handshake, Goes
    <3>2. CountsExact' /\ ipConns' \in [Ip -> 0 .. PerIp]
          /\ st' \in [Calls -> Holding \cup {"none", "refused", "gone"}]
      <4>1. ipConns[ip[k]] < PerIp /\ ipConns[ip[k]] + 1 \in Int
        BY <2>0, <2>2
      <4>2. /\ "counted" \in Holding /\ "counted" \in Counted
            /\ st[k] \in Holding /\ st[k] \notin Counted
        BY <3>1
      <4>3. UNCHANGED <<ip, active>>
        BY <2>0, <3>1
      <4> HIDE DEF Holding, Counted
      <4>4. QED
        BY <3>1, <4>1, <4>2, <4>3, AddressSlot
    <3>3. QED
      BY <1>t, <2>0, <3>1, <3>2 DEF ATypeOK, AInv
  <2>3. QED
    BY <2>1, <2>2
<1>4. ASSUME NEW k \in Calls, TurnedAway(k) \/ Proved(k) \/ ProofLate(k) \/ Leaves(k) PROVE AInv'
  <2>1. CountsExact' /\ st' \in [Calls -> Holding \cup {"none", "refused", "gone"}]
    BY <1>4, KeepsSlots DEF TurnedAway, Proved, ProofLate, Leaves, Goes
  <2>2. QED
    BY <1>4, <1>t, <2>1 DEF TurnedAway, Proved, ProofLate, Leaves, ATypeOK, AInv
<1>5. ASSUME NEW k \in Calls, ProofFails(k) PROVE AInv'
  <2>1. CountsExact' /\ st' \in [Calls -> Holding \cup {"none", "refused", "gone"}]
    BY <1>5, KeepsSlots DEF ProofFails
  <2>2. failures' \in [Ip -> 0 .. AuthMax] /\ blocked' \subseteq Ip
    BY <1>5, <1>t DEF ProofFails, ATypeOK, ConstantsOK
  <2>3. QED
    BY <1>5, <1>t, <2>1, <2>2 DEF ProofFails, ATypeOK, AInv
<1>6. ASSUME NEW k \in Calls, Release(k) PROVE AInv'
  <2>1. /\ st[k] = "ended" /\ st' = [st EXCEPT ![k] = "releasedIp"]
        /\ ipConns' = [ipConns EXCEPT ![ip[k]] = ipConns[ip[k]] - 1]
        /\ UNCHANGED <<ip, active, failures, blocked>>
    BY <1>6 DEF Release, Goes
  <2>2. ipConns[ip[k]] \in Int
    BY <1>t DEF ATypeOK, ConstantsOK
  <2>3. CountsExact' /\ ipConns' \in [Ip -> 0 .. PerIp]
        /\ st' \in [Calls -> Holding \cup {"none", "refused", "gone"}]
    <3>1. ipConns[ip[k]] - 1 \in Int
      BY <2>2
    <3>2. /\ "releasedIp" \in Holding /\ "releasedIp" \notin Counted
          /\ st[k] \in Holding /\ st[k] \in Counted
      BY <2>1
    <3>3. UNCHANGED <<ip, active>>
      BY <2>1
    <3> HIDE DEF Holding, Counted
    <3>4. QED
      BY <2>1, <3>1, <3>2, <3>3, AddressSlot
  <2>4. QED
    BY <1>t, <2>1, <2>3 DEF ATypeOK, AInv
<1>7. ASSUME NEW i \in Ip, Forget(i) PROVE AInv'
  <2>1. CountsExact'
    BY <1>7, <1>t DEF Forget, CountsExact, Held, HeldFrom
  <2>2. ATypeOK'
    BY <1>7, <1>t DEF Forget, ATypeOK, ConstantsOK
  <2>3. QED
    BY <2>1, <2>2 DEF AInv
<1>8. CASE UNCHANGED avars
  BY <1>8, <1>t DEF avars, AInv, ATypeOK, CountsExact, Held, HeldFrom
<1>9. QED
  BY <1>1, <1>2, <1>3, <1>4, <1>5, <1>6, <1>7, <1>8 DEF ANext, Step

(* The counters are those of the running tasks, whatever the order in which *)
(* handshakes, proofs, failures and ends of connections come (control.rs).  *)
THEOREM SlotsAlwaysExact ==
  ASSUME ConstantsOK
  PROVE  ASpec => []SlotsExact
<1>1. AInit => AInv
  BY AdmissionInit
<1>2. AInv /\ [ANext]_avars => AInv'
  BY AdmissionStep
<1>3. AInv => SlotsExact
  BY DEF AInv, SlotsExact
<1>4. QED
  BY <1>1, <1>2, <1>3, PTL DEF ASpec

(* The limits hold: never more than MAX_CONNS connections hold a global     *)
(* slot, never more than MAX_CONNS_PER_IP of one address are served.        *)
LimitsKept ==
  /\ Cardinality(Held) <= MaxActive
  /\ \A i \in Ip : Cardinality(HeldFrom(i)) <= PerIp

(* A burst of connections never takes more slots than there are.            *)
THEOREM LimitsAlwaysKept ==
  ASSUME ConstantsOK
  PROVE  ASpec => []LimitsKept
<1>1. AInit => AInv
  BY AdmissionInit
<1>2. AInv /\ [ANext]_avars => AInv'
  BY AdmissionStep
<1>3. AInv => LimitsKept
  BY DEF AInv, CountsExact, ATypeOK, LimitsKept, ConstantsOK
<1>4. QED
  BY <1>1, <1>2, <1>3, PTL DEF ASpec

-----------------------------------------------------------------------------
(* Punching. An answer and a notice are under way at most once, in one of   *)
(* the queues, and nothing was done yet with a session they announce.       *)

Queues == [Peer -> Seq(Push)]

Sent(q, m) == \E d \in Peer : \E i \in 1 .. Len(q[d]) : q[d][i] = m
Single(q) ==
  \A d, e \in Peer : \A i \in 1 .. Len(q[d]), j \in 1 .. Len(q[e]) :
    q[d][i] = q[e][j] /\ q[d][i].type # "no" => d = e /\ i = j

Ok(s)    == [type |-> "ok", s |-> s]
Notif(s) == [type |-> "notif", s |-> s]

(* What is announced was given out, and is not taken up before it arrives.  *)
Announced ==
  \A s \in 0 .. MaxPunches :
    /\ Sent(pushed, Ok(s)) => s \in 1 .. Len(sess) /\ \A c \in Punches : call[c].sess # s
    /\ Sent(pushed, Notif(s)) => s \in 1 .. Len(sess) /\ accept[s] = "none"

(* A session that a call or an acceptance is on was given out, no two calls *)
(* are on one, and only a call that has been answered is on one.            *)
OnSessions ==
  /\ \A s \in Punches : accept[s] # "none" => s <= Len(sess)
  /\ \A c \in Punches :
       /\ call[c].sess <= Len(sess)
       /\ call[c].st \in {"none", "asking"} => call[c].sess = 0
       /\ call[c].st \in {"shaking", "ok"} => call[c].sess # 0
  /\ \A c, e \in Punches : call[c].sess = call[e].sess /\ call[c].sess # 0 => c = e

(* Nobody asks for itself.                                                  *)
AsksOthers == \A d \in Peer : \A i \in 1 .. Len(asked[d]) : asked[d][i] # d

CInv == CTypeOK /\ AsksOthers /\ Single(pushed) /\ Announced /\ OnSessions /\ PeerIsTarget

(* A message that goes to the end of a queue stays the only one of its kind *)
(* when none was under way.                                                 *)
LEMMA AppendSingle ==
  ASSUME NEW q \in Queues, NEW d \in Peer, NEW m \in Push, Single(q),
         m.type = "no" \/ ~Sent(q, m)
  PROVE  LET r == [q EXCEPT ![d] = Append(@, m)]
         IN  r \in Queues /\ Single(r) /\ \A n : Sent(r, n) => Sent(q, n) \/ n = m
<1> DEFINE r == [q EXCEPT ![d] = Append(@, m)]
<1>0. q[d] \in Seq(Push) /\ Len(q[d]) \in Nat
  BY DEF Queues
<1>1. r \in Queues
  BY <1>0 DEF Queues
<1>2. /\ Len(r[d]) = Len(q[d]) + 1 /\ r[d][Len(q[d]) + 1] = m
      /\ \A i \in 1 .. Len(q[d]) : r[d][i] = q[d][i]
      /\ \A e \in Peer \ {d} : r[e] = q[e]
  BY <1>0 DEF Queues
<1>3. \A e \in Peer : \A i \in 1 .. Len(r[e]) :
        \/ e = d /\ i = Len(q[d]) + 1 /\ r[e][i] = m
        \/ i \in 1 .. Len(q[e]) /\ r[e][i] = q[e][i]
  BY <1>0, <1>2
<1>4. \A n : Sent(r, n) => Sent(q, n) \/ n = m
  BY <1>3 DEF Sent
<1>5. Single(r)
  <2> SUFFICES ASSUME NEW e \in Peer, NEW f \in Peer, NEW i \in 1 .. Len(r[e]),
                      NEW j \in 1 .. Len(r[f]), r[e][i] = r[f][j], r[e][i].type # "no"
               PROVE  e = f /\ i = j
    BY DEF Single
  <2>1. CASE i \in 1 .. Len(q[e]) /\ r[e][i] = q[e][i] /\ j \in 1 .. Len(q[f]) /\ r[f][j] = q[f][j]
    BY <2>1 DEF Single
  <2>2. CASE e = d /\ i = Len(q[d]) + 1 /\ r[e][i] = m /\ j \in 1 .. Len(q[f]) /\ r[f][j] = q[f][j]
    BY <2>2 DEF Sent
  <2>3. CASE f = d /\ j = Len(q[d]) + 1 /\ r[f][j] = m /\ i \in 1 .. Len(q[e]) /\ r[e][i] = q[e][i]
    BY <2>3 DEF Sent
  <2>4. CASE e = d /\ i = Len(q[d]) + 1 /\ f = d /\ j = Len(q[d]) + 1
    BY <2>4
  <2> QED
    BY <1>3, <2>1, <2>2, <2>3, <2>4
<1> QED
  BY <1>1, <1>4, <1>5

(* The message at the head is taken, and no other is like it.               *)
LEMMA TailSingle ==
  ASSUME NEW q \in Queues, NEW d \in Peer, Single(q), q[d] # <<>>
  PROVE  LET r == [q EXCEPT ![d] = Tail(@)]
         IN  /\ r \in Queues /\ Single(r) /\ \A n : Sent(r, n) => Sent(q, n)
             /\ Head(q[d]) \in Push /\ Sent(q, Head(q[d]))
             /\ Head(q[d]).type # "no" => ~Sent(r, Head(q[d]))
<1> DEFINE r == [q EXCEPT ![d] = Tail(@)]
<1>0. q[d] \in Seq(Push) /\ Len(q[d]) \in Nat \ {0} /\ Head(q[d]) = q[d][1] /\ q[d][1] \in Push
  BY DEF Queues
<1>1. r \in Queues
  BY <1>0 DEF Queues
<1>2. /\ Len(r[d]) = Len(q[d]) - 1
      /\ \A i \in 1 .. Len(r[d]) : i + 1 \in 1 .. Len(q[d]) /\ r[d][i] = q[d][i + 1]
      /\ \A e \in Peer \ {d} : r[e] = q[e]
  BY <1>0 DEF Queues
<1>3. \A n : Sent(r, n) => Sent(q, n)
  BY <1>2 DEF Sent
<1>4. Single(r)
  <2> SUFFICES ASSUME NEW e \in Peer, NEW f \in Peer, NEW i \in 1 .. Len(r[e]),
                      NEW j \in 1 .. Len(r[f]), r[e][i] = r[f][j], r[e][i].type # "no"
               PROVE  e = f /\ i = j
    BY DEF Single
  <2> DEFINE a == IF e = d THEN i + 1 ELSE i
             b == IF f = d THEN j + 1 ELSE j
  <2>1. a \in 1 .. Len(q[e]) /\ q[e][a] = r[e][i] /\ b \in 1 .. Len(q[f]) /\ q[f][b] = r[f][j]
    BY <1>2
  <2>2. e = f /\ a = b
    BY <2>1 DEF Single
  <2> QED
    BY <2>2
<1>5. Sent(q, Head(q[d]))
  BY <1>0 DEF Sent
<1>6. ASSUME Head(q[d]).type # "no", Sent(r, Head(q[d])) PROVE FALSE
  <2>1. PICK e \in Peer : \E i \in 1 .. Len(r[e]) : r[e][i] = q[d][1]
    BY <1>0, <1>6 DEF Sent
  <2>2. PICK i \in 1 .. Len(r[e]) : r[e][i] = q[d][1]
    BY <2>1
  <2> DEFINE a == IF e = d THEN i + 1 ELSE i
  <2>3. a \in 1 .. Len(q[e]) /\ q[e][a] = q[d][1]
    BY <1>2, <2>2
  <2>4. e = d /\ a = 1
    BY <1>0, <1>6, <2>3 DEF Single
  <2> QED
    BY <2>4, <1>0, <2>2, <1>2
<1> QED
  BY <1>0, <1>1, <1>3, <1>4, <1>5, <1>6

(* What is lost with a connection leaves the others alone.                  *)
LEMMA EmptySingle ==
  ASSUME NEW q \in Queues, NEW d \in Peer, Single(q)
  PROVE  LET r == [q EXCEPT ![d] = <<>>]
         IN  r \in Queues /\ Single(r) /\ \A n : Sent(r, n) => Sent(q, n)
<1> DEFINE r == [q EXCEPT ![d] = <<>>]
<1>1. r \in Queues
  BY DEF Queues
<1>2. \A e \in Peer : \A i \in 1 .. Len(r[e]) : e # d /\ r[e] = q[e]
  BY DEF Queues
<1>3. Single(r) /\ \A n : Sent(r, n) => Sent(q, n)
  BY <1>2 DEF Single, Sent
<1> QED
  BY <1>1, <1>3

LEMMA CallsBegin == CInit => CInv
<1> SUFFICES ASSUME CInit PROVE CInv
  OBVIOUS
<1> USE PunchAssumption DEF CInit, Punches, NoCall
<1>1. CTypeOK
  <2>1. call \in [Punches -> Call]
    BY DEF Call, OneOrNone
  <2>2. waiters \in [Peer -> [Peer -> 0 .. MaxPunches]]
    OBVIOUS
  <2>3. /\ asked \in [Peer -> Seq(Peer)] /\ pushed \in [Peer -> Seq(Push)]
        /\ sess \in Seq(Peer \X Peer) /\ Len(sess) = 0
    OBVIOUS
  <2>4. accept \in [Punches -> {"none", "wait", "ok", "failed"}]
    OBVIOUS
  <2>5. 0 <= MaxPunches
    OBVIOUS
  <2> QED
    BY <2>1, <2>2, <2>3, <2>4, <2>5 DEF CTypeOK
<1>2. Single(pushed) /\ Announced /\ AsksOthers
  BY DEF AsksOthers, Single, Announced, Sent
<1>3. OnSessions /\ PeerIsTarget
  BY DEF OnSessions, PeerIsTarget
<1> QED
  BY <1>1, <1>2, <1>3 DEF CInv

(* Who asks for whom only changes where a request is made or answered.      *)
LEMMA AskedKept ==
  ASSUME CInv, asked' = asked \/ \E d \in Peer : asked' = [asked EXCEPT ![d] = <<>>]
  PROVE  AsksOthers'
<1>1. asked \in [Peer -> Seq(Peer)]
  BY DEF CInv, CTypeOK
<1>2. \A e \in Peer : asked'[e] = asked[e] \/ Len(asked'[e]) = 0
  BY <1>1
<1> QED
  BY <1>2 DEF CInv, AsksOthers

(* The caller: a call begins, with a waiter over the older one's.           *)
LEMMA PunchStep ==
  ASSUME CInv, NEW d \in Peer, NEW t \in Peer, Punch(d, t)
  PROVE  CInv'
<1> USE PunchAssumption DEF Punches
<1>0. PICK c \in Punches :
        /\ call[c] = NoCall
        /\ call' = [e \in Punches |->
             IF e = c THEN [by |-> {d}, target |-> {t}, st |-> "asking", sess |-> 0]
             ELSE IF e = waiters[d][t] /\ call[e].st = "asking"
                    THEN [call[e] EXCEPT !.st = "failed"] ELSE call[e]]
        /\ waiters' = [waiters EXCEPT ![d][t] = c]
        /\ asked' = [asked EXCEPT ![d] = Append(@, t)]
        /\ UNCHANGED <<pushed, sess, accept>>
  BY DEF Punch
<1>1. CTypeOK'
  <2>1. NoCall.st = "none" /\ {d} \in OneOrNone /\ {t} \in OneOrNone
    BY DEF NoCall, OneOrNone
  <2>2. ASSUME NEW e \in Punches PROVE call'[e] \in Call
    <3>1. call[e] \in Call
      BY DEF CInv, CTypeOK
    <3>2. [by |-> {d}, target |-> {t}, st |-> "asking", sess |-> 0] \in Call
      BY <2>1 DEF Call
    <3>3. [call[e] EXCEPT !.st = "failed"] \in Call
      BY <3>1 DEF Call
    <3> QED
      BY <1>0, <3>1, <3>2, <3>3
  <2>3. call' \in [Punches -> Call]
    BY <1>0, <2>2
  <2>4. waiters' \in [Peer -> [Peer -> 0 .. MaxPunches]]
    BY <1>0 DEF CInv, CTypeOK
  <2>5. asked' \in [Peer -> Seq(Peer)]
    BY <1>0 DEF CInv, CTypeOK
  <2> QED
    BY <1>0, <2>3, <2>4, <2>5 DEF CInv, CTypeOK
<1>a. AsksOthers'
  <2>1. asked[d] \in Seq(Peer) /\ asked' = [asked EXCEPT ![d] = Append(@, t)] /\ d # t
    BY <1>0 DEF CInv, CTypeOK, Punch
  <2>2. \A i \in 1 .. Len(asked'[d]) : asked'[d][i] = t \/ (i \in 1 .. Len(asked[d]) /\ asked'[d][i] = asked[d][i])
    <3>1. asked'[d] = Append(asked[d], t)
      BY <2>1 DEF CInv, CTypeOK
    <3> QED
      BY <2>1, <3>1
  <2>3. \A e \in Peer : e # d => asked'[e] = asked[e]
    BY <2>1 DEF CInv, CTypeOK
  <2> QED
    BY <2>1, <2>2, <2>3 DEF CInv, AsksOthers
<1>2. \A e \in Punches : /\ call'[e].sess = call[e].sess
                         /\ call'[e].st \in {"shaking", "ok"} => call'[e] = call[e]
                         /\ call'[e].st \in {"none", "asking"} => e = c \/ call'[e] = call[e]
  BY <1>0 DEF CInv, CTypeOK, NoCall, Call
<1>3. Single(pushed)' /\ Announced'
  BY <1>0, <1>2 DEF CInv, Announced
<1>4. OnSessions'
  BY <1>0, <1>2 DEF CInv, OnSessions, NoCall
<1>5. PeerIsTarget'
  BY <1>0, <1>2 DEF CInv, PeerIsTarget
<1> QED
  BY <1>1, <1>a, <1>3, <1>4, <1>5 DEF CInv

(* The server: a session is new when it is announced to both.               *)
LEMMA AnswerStep ==
  ASSUME CInv, NEW d \in Peer, Answer(d)
  PROVE  CInv'
<1> USE PunchAssumption DEF Punches
<1>0. pushed \in Queues /\ Single(pushed) /\ Head(asked[d]) \in Peer /\ asked' \in [Peer -> Seq(Peer)]
  <2>1. asked[d] \in Seq(Peer) /\ asked[d] # <<>> /\ asked' = [asked EXCEPT ![d] = Tail(@)]
    BY DEF CInv, CTypeOK, Answer
  <2>2. Head(asked[d]) \in Peer /\ Tail(asked[d]) \in Seq(Peer)
    BY <2>1
  <2> QED
    BY <2>1, <2>2 DEF CInv, CTypeOK, Queues
<1>a. AsksOthers' /\ Head(asked[d]) # d
  <2>1. asked[d] \in Seq(Peer) /\ asked[d] # <<>> /\ asked' = [asked EXCEPT ![d] = Tail(@)]
    BY DEF CInv, CTypeOK, Answer
  <2>2. /\ Head(asked[d]) = asked[d][1] /\ 1 \in 1 .. Len(asked[d])
        /\ \A i \in 1 .. Len(Tail(asked[d])) :
             i + 1 \in 1 .. Len(asked[d]) /\ Tail(asked[d])[i] = asked[d][i + 1]
    BY <2>1
  <2>3. asked'[d] = Tail(asked[d]) /\ \A e \in Peer : e # d => asked'[e] = asked[e]
    BY <2>1 DEF CInv, CTypeOK
  <2>4. \A e \in Peer : \A i \in 1 .. Len(asked[e]) : asked[e][i] # e
    BY DEF CInv, AsksOthers
  <2>5. \A i \in 1 .. Len(asked'[d]) : asked'[d][i] # d
    BY <2>2, <2>3, <2>4
  <2>6. ASSUME NEW e \in Peer, NEW i \in 1 .. Len(asked'[e]) PROVE asked'[e][i] # e
    BY <2>3, <2>4, <2>5, <2>6
  <2>7. AsksOthers'
    BY <2>6 DEF AsksOthers
  <2> QED
    BY <2>2, <2>4, <2>7
<1>1. CASE pushed' = [pushed EXCEPT ![d] = Append(@, [type |-> "no", s |-> 0])] /\ UNCHANGED sess
  <2>1. [type |-> "no", s |-> 0] \in Push
    BY DEF Push
  <2>2. /\ pushed' \in Queues /\ Single(pushed)'
        /\ \A n : Sent(pushed', n) => Sent(pushed, n) \/ n = [type |-> "no", s |-> 0]
    BY <1>0, <1>1, <2>1, AppendSingle
  <2>3. \A s : Ok(s) # [type |-> "no", s |-> 0] /\ Notif(s) # [type |-> "no", s |-> 0]
    BY DEF Ok, Notif
  <2>4. CTypeOK'
    BY <1>0, <1>1, <2>2 DEF CInv, CTypeOK, Answer, Queues
  <2>5. Announced'
    BY <1>1, <2>2, <2>3 DEF CInv, Announced, Answer
  <2>6. OnSessions' /\ PeerIsTarget'
    BY <1>1 DEF CInv, OnSessions, PeerIsTarget, Answer
  <2> QED
    BY <1>a, <2>2, <2>4, <2>5, <2>6 DEF CInv
<1>2. CASE LET t == Head(asked[d])  s == Len(sess) + 1 IN
        /\ t \notin Hidden /\ Len(sess) < MaxPunches
        /\ sess' = Append(sess, <<d, t>>)
        /\ pushed' = [pushed EXCEPT ![t] = Append(@, [type |-> "notif", s |-> s]),
                                    ![d] = Append(@, [type |-> "ok", s |-> s])]
  <2> DEFINE t == Head(asked[d])
             s == Len(sess) + 1
             mid == [pushed EXCEPT ![t] = Append(@, Notif(s))]
  <2>1. /\ s \in 1 .. MaxPunches /\ Len(sess) \in Nat /\ sess' = Append(sess, <<d, t>>)
        /\ Len(sess') = s /\ \A i \in 1 .. Len(sess) : sess'[i] = sess[i]
        /\ sess' \in Seq(Peer \X Peer)
    <3>1. sess \in Seq(Peer \X Peer) /\ <<d, t>> \in Peer \X Peer /\ Len(sess) < MaxPunches
      BY <1>0, <1>2 DEF CInv, CTypeOK
    <3>2. sess' = Append(sess, <<d, t>>)
      BY <1>2
    <3> QED
      BY <3>1, <3>2
  <2>2. Notif(s) \in Push /\ Ok(s) \in Push /\ Ok(s) # Notif(s)
    BY <2>1 DEF Push, Ok, Notif
  <2>3. ~Sent(pushed, Notif(s)) /\ ~Sent(pushed, Ok(s))
    BY <2>1 DEF CInv, Announced
  <2>4. mid \in Queues /\ Single(mid) /\ \A n : Sent(mid, n) => Sent(pushed, n) \/ n = Notif(s)
    BY <1>0, <2>2, <2>3, AppendSingle
  <2>5. pushed' = [mid EXCEPT ![d] = Append(@, Ok(s))]
    <3>1. pushed' = [pushed EXCEPT ![t] = Append(@, Notif(s)), ![d] = Append(@, Ok(s))]
      BY <1>2 DEF Ok, Notif
    <3> QED
      BY <1>0, <1>a, <3>1 DEF Queues
  <2>6. ~Sent(mid, Ok(s))
    BY <2>2, <2>3, <2>4
  <2>7. /\ pushed' \in Queues /\ Single(pushed)'
        /\ \A n : Sent(pushed', n) => Sent(pushed, n) \/ n = Notif(s) \/ n = Ok(s)
    BY <2>2, <2>4, <2>5, <2>6, AppendSingle
  <2>8. CTypeOK'
    <3>1. call' = call /\ waiters' = waiters /\ accept' = accept
      BY DEF Answer
    <3> QED
      <4>1. sess' \in Seq(Peer \X Peer) /\ Len(sess') <= MaxPunches
        BY <2>1
      <4>2. asked' \in [Peer -> Seq(Peer)] /\ pushed' \in [Peer -> Seq(Push)]
        BY <1>0, <2>7 DEF Queues
      <4> QED
        BY <3>1, <4>1, <4>2 DEF CInv, CTypeOK
  <2>9. accept[s] = "none" /\ \A c \in Punches : call[c].sess # s
    <3>1. s \in Punches /\ ~(s <= Len(sess))
      BY <2>1
    <3>2. \A c \in Punches : call[c].sess <= Len(sess)
      BY DEF CInv, OnSessions
    <3>3. accept[s] # "none" => s <= Len(sess)
      BY <3>1 DEF CInv, OnSessions
    <3> QED
      BY <3>1, <3>2, <3>3
  <2>10. Announced'
    <3>1. \A u, v : (Ok(u) = Ok(v) => u = v) /\ (Notif(u) = Notif(v) => u = v) /\ Ok(u) # Notif(v)
      BY DEF Ok, Notif
    <3> QED
      BY <2>1, <2>7, <2>9, <3>1 DEF CInv, Announced, Answer
  <2>11. OnSessions'
    <3>1. call' = call /\ accept' = accept
      BY DEF Answer
    <3>2. \A k \in Int : k <= Len(sess) => k <= Len(sess')
      BY <2>1
    <3>3. \A c \in Punches : call[c].sess \in Int
      BY DEF CInv, CTypeOK, Call
    <3> QED
      BY <3>1, <3>2, <3>3 DEF CInv, OnSessions
  <2>12. PeerIsTarget'
    <3>1. call' = call /\ accept' = accept
      BY DEF Answer
    <3>2. ASSUME NEW c \in Punches, call[c].st = "ok" PROVE call[c].sess \in 1 .. Len(sess)
      BY <3>2, <2>1 DEF CInv, OnSessions, CTypeOK, Call
    <3> QED
      BY <2>1, <3>1, <3>2 DEF CInv, PeerIsTarget
  <2> QED
    BY <1>a, <2>7, <2>8, <2>10, <2>11, <2>12 DEF CInv
<1> QED
  BY <1>1, <1>2 DEF Answer

(* A push arrives: what it announces is then announced no more.             *)
LEMMA Arrives ==
  ASSUME CInv, NEW d \in Peer, NEW type, Pushed(d, type)
  PROVE  /\ pushed' \in Queues /\ Single(pushed)' /\ \A n : Sent(pushed', n) => Sent(pushed, n)
         /\ Head(pushed[d]) = [type |-> type, s |-> Head(pushed[d]).s]
         /\ Head(pushed[d]).s \in 0 .. MaxPunches /\ Sent(pushed, Head(pushed[d]))
         /\ type # "no" => ~Sent(pushed', Head(pushed[d]))
<1>1. pushed \in Queues /\ Single(pushed) /\ pushed[d] # <<>>
  BY DEF CInv, CTypeOK, Queues, Pushed
<1>2. pushed' = [pushed EXCEPT ![d] = Tail(@)] /\ Head(pushed[d]).type = type
  BY DEF Pushed
<1>3. /\ pushed' \in Queues /\ Single(pushed)' /\ \A n : Sent(pushed', n) => Sent(pushed, n)
      /\ Head(pushed[d]) \in Push /\ Sent(pushed, Head(pushed[d]))
      /\ Head(pushed[d]).type # "no" => ~Sent(pushed', Head(pushed[d]))
  BY <1>1, <1>2, TailSingle
<1> QED
  BY <1>2, <1>3 DEF Push

LEMMA AnsweredNoStep ==
  ASSUME CInv, NEW d \in Peer, AnsweredNo(d)
  PROVE  CInv'
<1>1. pushed' \in Queues /\ Single(pushed)' /\ \A n : Sent(pushed', n) => Sent(pushed, n)
  BY Arrives DEF AnsweredNo
<1>2. CTypeOK' /\ Announced'
  BY <1>1 DEF CInv, CTypeOK, Queues, Announced, AnsweredNo
<1>3. OnSessions' /\ PeerIsTarget'
  BY DEF CInv, OnSessions, PeerIsTarget, AnsweredNo
<1> QED
  BY <1>1, <1>2, <1>3, AskedKept DEF CInv, AnsweredNo

(* An answer resolves one waiter, and its session was nobody's before.      *)
LEMMA ResolvedStep ==
  ASSUME CInv, NEW d \in Peer, Resolved(d)
  PROVE  CInv'
<1> USE PunchAssumption DEF Punches
<1> DEFINE s == Head(pushed[d]).s
<1>1. /\ pushed' \in Queues /\ Single(pushed)' /\ \A n : Sent(pushed', n) => Sent(pushed, n)
      /\ s \in 0 .. MaxPunches /\ Sent(pushed, Ok(s)) /\ ~Sent(pushed', Ok(s))
  <2>1. Pushed(d, "ok")
    BY DEF Resolved
  <2> QED
    BY <2>1, Arrives DEF Ok
<1>2. s \in 1 .. Len(sess) /\ \A c \in Punches : call[c].sess # s
  BY <1>1 DEF CInv, Announced
<1>3. PICK w \in 0 .. MaxPunches :
        \A c \in Punches : \/ call'[c] = call[c]
                           \/ call[c].st = "asking" /\ call'[c] = [call[c] EXCEPT !.st = "failed"]
                           \/ /\ call[c].st = "asking" /\ c = w
                              /\ call'[c] = [call[c] EXCEPT !.st = "shaking", !.sess = s]
  <2>1. CASE Waiting(d) = {}
    BY <2>1 DEF Resolved
  <2>2. CASE Waiting(d) # {}
    <3>1. PICK first \in Waiting(d) :
            call' = [c \in Punches |->
              IF call[c].st # "asking" \/ \A t \in Waiting(d) : waiters[d][t] # c THEN call[c]
              ELSE IF c = waiters[d][first]
                     THEN [call[c] EXCEPT !.st = "shaking", !.sess = Head(pushed[d]).s]
                     ELSE [call[c] EXCEPT !.st = "failed"]]
      BY <2>2 DEF Resolved
    <3>2. waiters[d][first] \in 0 .. MaxPunches
      BY DEF Waiting, CInv, CTypeOK
    <3> QED
      BY <3>1, <3>2
  <2> QED
    BY <2>1, <2>2
<1>4. call' = [c \in Punches |-> call'[c]]
  BY DEF Resolved, CInv, CTypeOK
<1>5. CTypeOK'
  <2>1. \A c \in Punches : call'[c] \in Call
    <3>1. \A c \in Punches : call[c] \in Call
      BY DEF CInv, CTypeOK
    <3> QED
      <4>1. \A c \in Punches : /\ [call[c] EXCEPT !.st = "failed"] \in Call
                               /\ [call[c] EXCEPT !.st = "shaking", !.sess = s] \in Call
        BY <1>1, <3>1 DEF Call
      <4> QED
        BY <1>3, <3>1, <4>1
  <2>2. call' \in [Punches -> Call]
    BY <1>4, <2>1
  <2>3. waiters' \in [Peer -> [Peer -> 0 .. MaxPunches]]
    <3>1. [t \in Peer |-> 0] \in [Peer -> 0 .. MaxPunches]
      OBVIOUS
    <3> QED
      BY <3>1 DEF CInv, CTypeOK, Resolved
  <2>4. asked' = asked /\ sess' = sess /\ accept' = accept
    BY DEF Resolved
  <2> QED
    BY <1>1, <2>2, <2>3, <2>4 DEF CInv, CTypeOK, Queues
<1>6. \A c \in Punches : call[c].st = "asking" => call[c].sess = 0
  BY DEF CInv, OnSessions
<1>7. \A c \in Punches : /\ call'[c].sess = call[c].sess \/ (call'[c].sess = s /\ c = w)
                         /\ call'[c].st \in {"none", "asking", "ok"} => call'[c] = call[c]
                         /\ call'[c].st = "shaking" => call'[c] = call[c] \/ call'[c].sess = s
  <2>1. \A c \in Punches : call[c] \in Call
    BY DEF CInv, CTypeOK
  <2> QED
    <3> TAKE c \in Punches
    <3>1. CASE call'[c] = call[c]
      BY <3>1
    <3>2. CASE call[c].st = "asking" /\ call'[c] = [call[c] EXCEPT !.st = "failed"]
      <4>1. call'[c].sess = call[c].sess /\ call'[c].st = "failed"
        BY <2>1, <3>2 DEF Call
      <4> QED
        BY <4>1
    <3>3. CASE call[c].st = "asking" /\ c = w /\ call'[c] = [call[c] EXCEPT !.st = "shaking", !.sess = s]
      BY <2>1, <3>3 DEF Call
    <3> QED
      BY <1>3, <3>1, <3>2, <3>3
<1>8. Announced'
  BY <1>1, <1>7 DEF CInv, Announced, Resolved
<1>9. OnSessions'
  <2>1. \A c \in Punches : call'[c].sess <= Len(sess)
    BY <1>2, <1>7 DEF CInv, OnSessions
  <2>2. \A c, e \in Punches : call'[c].sess = call'[e].sess /\ call'[c].sess # 0 => c = e
    BY <1>2, <1>7 DEF CInv, OnSessions
  <2>3. \A c \in Punches : /\ call'[c].st \in {"none", "asking"} => call'[c].sess = 0
                           /\ call'[c].st \in {"shaking", "ok"} => call'[c].sess # 0
    BY <1>2, <1>7 DEF CInv, OnSessions
  <2> QED
    BY <2>1, <2>2, <2>3 DEF OnSessions, CInv, Resolved
<1>10. PeerIsTarget'
  BY <1>7 DEF CInv, PeerIsTarget, Resolved
<1> QED
  BY <1>1, <1>5, <1>8, <1>9, <1>10, AskedKept DEF CInv, Resolved

(* A notice starts the acceptance of its session, once.                     *)
LEMMA NotifiedStep ==
  ASSUME CInv, NEW d \in Peer, Notified(d)
  PROVE  CInv'
<1> USE PunchAssumption DEF Punches
<1> DEFINE s == Head(pushed[d]).s
<1>1. /\ pushed' \in Queues /\ Single(pushed)' /\ \A n : Sent(pushed', n) => Sent(pushed, n)
      /\ s \in 0 .. MaxPunches /\ Sent(pushed, Notif(s)) /\ ~Sent(pushed', Notif(s))
  <2>1. Pushed(d, "notif")
    BY DEF Notified
  <2> QED
    BY <2>1, Arrives DEF Notif
<1>2. s \in 1 .. Len(sess) /\ accept[s] = "none" /\ accept' = [accept EXCEPT ![s] = "wait"]
  BY <1>1 DEF CInv, Announced, Notified
<1>3. CTypeOK'
  BY <1>1, <1>2 DEF CInv, CTypeOK, Notified, Queues
<1>4. \A u \in Punches : u # s => accept'[u] = accept[u]
  BY <1>2 DEF CInv, CTypeOK
<1>5. Announced'
  <2>1. ASSUME NEW u \in 0 .. MaxPunches, Sent(pushed', Notif(u))
        PROVE  u \in 1 .. Len(sess) /\ accept'[u] = "none"
    <3>1. u \in 1 .. Len(sess) /\ accept[u] = "none" /\ u # s
      BY <1>1, <2>1 DEF CInv, Announced
    <3>2. u \in Punches
      BY <3>1 DEF CInv, CTypeOK
    <3> QED
      BY <1>4, <3>1, <3>2
  <2>2. \A u \in 0 .. MaxPunches : Sent(pushed', Ok(u)) => Sent(pushed, Ok(u))
    BY <1>1
  <2> QED
    BY <2>1, <2>2 DEF CInv, Announced, Notified
<1>6. OnSessions'
  BY <1>2, <1>4 DEF CInv, OnSessions, Notified
<1>7. PeerIsTarget'
  <2>1. ASSUME NEW c \in Punches, call[c].st = "ok"
        PROVE  call[c].sess \in Punches /\ call[c].sess # s
    <3>1. accept[call[c].sess] = "ok"
      BY <2>1 DEF CInv, PeerIsTarget
    <3>2. call[c].sess \in 0 .. MaxPunches /\ call[c].sess # 0
      BY <2>1 DEF CInv, CTypeOK, Call, OnSessions
    <3> QED
      BY <1>2, <3>1, <3>2
  <2> QED
    BY <1>4, <2>1 DEF CInv, PeerIsTarget, Notified
<1> QED
  BY <1>1, <1>3, <1>5, <1>6, <1>7, AskedKept DEF CInv, Notified

(* The rest of a call and of an acceptance: sessions stay, and "ok" is for  *)
(* the two the session was given out to.                                    *)
LEMMA HandshakeStep ==
  ASSUME CInv, NEW c \in Punches, NEW s \in 1 .. Len(sess), HandshakeWith(c, s)
  PROVE  CInv'
<1> USE PunchAssumption DEF Punches
<1>0. s \in Punches
  BY DEF CInv, CTypeOK
<1>t. call \in [Punches -> Call] /\ accept \in [Punches -> {"none", "wait", "ok", "failed"}]
  BY DEF CInv, CTypeOK
<1>h. PICK to \in {"ok", "failed"} :
        /\ call' = [call EXCEPT ![c].st = to] /\ accept' = [accept EXCEPT ![s] = to]
        /\ to = "ok" => call[c].target = {sess[s][2]} /\ call[c].by = {sess[s][1]}
  BY DEF HandshakeWith
<1>1. CTypeOK'
  <2>1. [call[c] EXCEPT !.st = to] \in Call
    BY <1>t DEF Call
  <2>2. call' \in [Punches -> Call] /\ accept' \in [Punches -> {"none", "wait", "ok", "failed"}]
    BY <1>0, <1>t, <1>h, <2>1
  <2> QED
    BY <2>2 DEF CInv, CTypeOK, HandshakeWith
<1>2. \A e \in Punches : call'[e].sess = call[e].sess /\ (e # c => call'[e] = call[e])
  BY <1>t, <1>h DEF Call
<1>3. call'[c].st = to /\ call'[c].by = call[c].by /\ call'[c].target = call[c].target
  BY <1>t, <1>h DEF Call
<1>4. \A u \in Punches : u # s => accept'[u] = accept[u]
  BY <1>0 DEF HandshakeWith, CInv, CTypeOK
<1>5. Single(pushed)' /\ Announced'
  <2>1. accept[s] # "none" /\ pushed' = pushed /\ sess' = sess
    BY DEF HandshakeWith
  <2>2. \A u \in 1 .. Len(sess) : u \in Punches
    BY DEF CInv, CTypeOK
  <2> QED
    BY <1>2, <1>4, <2>1, <2>2 DEF CInv, Announced
<1>6. OnSessions'
  BY <1>0, <1>2, <1>3, <1>4 DEF CInv, OnSessions, HandshakeWith
<1>7. ASSUME NEW e \in Punches, call'[e].st = "ok"
      PROVE  sess[call'[e].sess] \in call'[e].by \X call'[e].target /\ accept'[call'[e].sess] = "ok"
  <2>1. CASE e = c
    <3>1. call[c].target = {sess[s][2]} /\ call[c].by = {sess[s][1]} /\ accept'[s] = "ok"
      BY <1>0, <1>t, <1>h, <1>3, <1>7, <2>1
    <3>2. sess[s] \in Peer \X Peer
      BY DEF CInv, CTypeOK
    <3> QED
      BY <1>2, <1>3, <2>1, <3>1, <3>2 DEF HandshakeWith
  <2>2. CASE e # c
    <3>1. call'[e] = call[e] /\ call[e].sess # 0 /\ call[e].sess # s /\ call[c].sess = s
      BY <1>0, <1>2, <1>7, <2>2 DEF CInv, OnSessions, HandshakeWith
    <3>2. call[e].sess \in Punches
      BY <1>t, <3>1 DEF Call
    <3> QED
      BY <1>4, <1>7, <3>1, <3>2 DEF CInv, PeerIsTarget
  <2> QED
    BY <2>1, <2>2
<1>8. PeerIsTarget'
  BY <1>7 DEF PeerIsTarget, HandshakeWith
<1> QED
  BY <1>1, <1>5, <1>6, <1>8, AskedKept DEF CInv, HandshakeWith

LEMMA TimeoutStep ==
  ASSUME CInv, Timeout
  PROVE  CInv'
<1> USE PunchAssumption DEF Punches
<1>1. ASSUME NEW c \in Punches, GivesUp(c) PROVE CInv'
  <2>1. CTypeOK'
    <3>1. call \in [Punches -> Call] /\ [call[c] EXCEPT !.st = "failed"] \in Call
      BY DEF CInv, CTypeOK, Call
    <3> QED
      BY <1>1, <3>1 DEF CInv, CTypeOK, GivesUp
  <2>2. \A e \in Punches : call'[e].sess = call[e].sess /\ (e # c => call'[e] = call[e])
    BY <1>1 DEF GivesUp, CInv, CTypeOK
  <2>3. call'[c].st = "failed"
    BY <1>1 DEF GivesUp, CInv, CTypeOK
  <2>4. Single(pushed)' /\ Announced'
    BY <1>1, <2>2 DEF CInv, Announced, GivesUp, Single, Sent
  <2>5. OnSessions' /\ PeerIsTarget'
    BY <1>1, <2>2, <2>3 DEF CInv, OnSessions, PeerIsTarget, GivesUp
  <2> QED
    BY <1>1, <2>1, <2>4, <2>5, AskedKept DEF CInv, GivesUp
<1>2. ASSUME NEW s \in Punches, AcceptGivesUp(s) PROVE CInv'
  <2>1. CTypeOK' /\ accept[s] = "wait"
    BY <1>2 DEF CInv, CTypeOK, AcceptGivesUp
  <2>2. \A u \in Punches : u # s => accept'[u] = accept[u]
    BY <1>2 DEF CInv, CTypeOK, AcceptGivesUp
  <2>3. Single(pushed)' /\ Announced'
    <3>1. pushed' = pushed /\ sess' = sess /\ call' = call
      BY <1>2 DEF AcceptGivesUp
    <3>2. \A u \in 1 .. Len(sess) : u \in Punches
      BY DEF CInv, CTypeOK
    <3> QED
      BY <2>1, <2>2, <3>1, <3>2 DEF CInv, Announced
  <2>4. OnSessions' /\ PeerIsTarget'
    BY <1>2, <2>1, <2>2 DEF CInv, OnSessions, PeerIsTarget, AcceptGivesUp, CTypeOK
  <2> QED
    BY <1>2, <2>1, <2>3, <2>4, AskedKept DEF CInv, AcceptGivesUp
<1> QED
  BY <1>1, <1>2 DEF Timeout

LEMMA DisconnectsStep ==
  ASSUME CInv, NEW d \in Peer, Disconnects(d)
  PROVE  CInv'
<1> USE PunchAssumption DEF Punches
<1>0. pushed \in Queues /\ pushed' = [pushed EXCEPT ![d] = <<>>]
  BY DEF CInv, CTypeOK, Queues, Disconnects
<1>1. pushed' \in Queues /\ Single(pushed)' /\ \A n : Sent(pushed', n) => Sent(pushed, n)
  BY <1>0, EmptySingle DEF CInv
<1>2. CTypeOK'
  <2>1. call \in [Punches -> Call] /\ \A c \in Punches : [call[c] EXCEPT !.st = "failed"] \in Call
    BY DEF CInv, CTypeOK, Call
  <2>2. call' \in [Punches -> Call]
    BY <2>1 DEF Disconnects
  <2>3. waiters' \in [Peer -> [Peer -> 0 .. MaxPunches]]
    <3>1. [t \in Peer |-> 0] \in [Peer -> 0 .. MaxPunches]
      OBVIOUS
    <3> QED
      BY <3>1 DEF CInv, CTypeOK, Disconnects
  <2>4. asked' \in [Peer -> Seq(Peer)]
    BY DEF CInv, CTypeOK, Disconnects
  <2> QED
    BY <1>1, <2>2, <2>3, <2>4 DEF CInv, CTypeOK, Disconnects, Queues
<1>3. \A e \in Punches : /\ call'[e].sess = call[e].sess
                         /\ call'[e].st # "failed" => call'[e] = call[e]
  BY DEF Disconnects, CInv, CTypeOK
<1>4. Announced'
  BY <1>1, <1>3 DEF CInv, Announced, Disconnects
<1>5. OnSessions' /\ PeerIsTarget'
  BY <1>3 DEF CInv, OnSessions, PeerIsTarget, Disconnects
<1> QED
  BY <1>1, <1>2, <1>4, <1>5, AskedKept DEF CInv, Disconnects

LEMMA CallsStep == CInv /\ [CNext]_cvars => CInv'
<1> SUFFICES ASSUME CInv, [CNext]_cvars PROVE CInv'
  OBVIOUS
<1>1. CASE \E d, t \in Peer : Punch(d, t)
  BY <1>1, PunchStep
<1>2. ASSUME NEW d \in Peer,
             Answer(d) \/ AnsweredNo(d) \/ Resolved(d) \/ Notified(d) \/ Disconnects(d)
      PROVE  CInv'
  BY <1>2, AnswerStep, AnsweredNoStep, ResolvedStep, NotifiedStep, DisconnectsStep
<1>3. CASE \E c \in Punches : InnerHandshake(c)
  BY <1>3, HandshakeStep DEF InnerHandshake
<1>4. CASE Timeout
  BY <1>4, TimeoutStep
<1>5. CASE UNCHANGED cvars
  BY <1>5, AskedKept DEF cvars, CInv, CTypeOK, Announced, OnSessions, PeerIsTarget
<1> QED
  BY <1>1, <1>2, <1>3, <1>4, <1>5 DEF CNext

(* No two calls are on one session.                                         *)
LEMMA OnePerSession == CInv => OneCallPerSession
<1> SUFFICES ASSUME CInv, NEW s \in 1 .. MaxPunches PROVE Cardinality(CallOf(s)) <= 1
  BY DEF OneCallPerSession
<1>1. \A c, e \in CallOf(s) : c = e
  BY DEF CallOf, CInv, OnSessions
<1>2. CASE CallOf(s) = {}
  BY <1>2, FS_EmptySet
<1>3. CASE CallOf(s) # {}
  <2>1. PICK c : c \in CallOf(s)
    BY <1>3
  <2>2. CallOf(s) = {c}
    BY <1>1, <2>1
  <2> QED
    BY <2>2, FS_Singleton
<1> QED
  BY <1>2, <1>3

(* A connection connect_peer returns leads to the device that was asked     *)
(* for, which accepted it from the caller, and two calls never share a      *)
(* session, in whatever order answers and notices arrive, get lost with a   *)
(* connection or come after their call gave up (client.rs:305-348).         *)
THEOREM CallsAlwaysSound == CSpec => []CallsSound
<1>1. CInv => CallsSound
  BY OnePerSession DEF CInv, CallsSound
<1> QED
  BY CallsBegin, CallsStep, <1>1, PTL DEF CSpec

-----------------------------------------------------------------------------
(* The shells' client. Of the attempts whose commands ran alone, only the   *)
(* one whose handle the shell has, or is about to store, can still take the *)
(* slot, but for the startup's of the desktop.                              *)

Active(c) == dial[c] \in {"dialling", "registered"}
Alone(c)  == c \in Client /\ c \notin crossed /\ c \notin Unheld
Ahead     == {"read", "shut", "events", "connect"} \* steps before the old attempt is aborted

(* Who is in the slot has registered, and who has just registered is live.  *)
Slotted ==
  /\ slot # Nobody => slot \in live /\ dial[slot] \in {"slotted", "done", "aborted"}
  /\ \A c \in Client : dial[c] = "registered" => c \in live

(* A client is of a command that has begun, and comes with its last step;   *)
(* commands that run at once have crossed.                                  *)
Begins ==
  /\ \A c \in Client : dial[c] # "none" => pc[c] # "none" /\ pc[c] \notin Ahead \cup {"spawn"}
  /\ \A c \in Client : pc[c] = "store" => dial[c] # "none"
  /\ connectTask # Nobody => dial[connectTask] # "none"
  /\ \A k, b \in Running : k # b => k \in crossed

OldOver ==
  /\ \A c \in Client : Active(c) /\ Alone(c) => c = connectTask \/ pc[c] = "store"
  /\ (\E k \in Client : pc[k] \in {"spawn", "store"})
       => connectTask = Nobody \/ connectTask \in crossed

(* A client that runs or is about to, and was told something else than what *)
(* was saved last, has a command behind it that will replace it.            *)
Stale(c) == Alone(c) /\ c \notin unsaid /\ carried[c] # hidden
Choice ==
  /\ \A k \in Client : phone /\ k \notin crossed /\ pc[k] \in {"shut", "events", "connect", "spawn"}
       => carried[k] = hidden
  /\ enabled /\ (\E c \in Client : Active(c) /\ Stale(c)) => \E k \in Client : pc[k] \in Ahead
  /\ enabled /\ slot # Nobody /\ Stale(slot)
       => (\E k \in Client : pc[k] \in Ahead \cup {"spawn"}) \/ (\E c \in Client : Active(c))

RInv == RTypeOK /\ Slotted /\ Begins /\ OldOver /\ Choice

LEMMA ShellBegins == RInit => RInv
<1> SUFFICES ASSUME RInit PROVE RInv
  OBVIOUS
<1> USE ShellAssumption DEF RInit, Client, Nobody, Startup
<1>1. RTypeOK
  BY DEF RTypeOK, Over
<1>2. /\ \A c \in Client : dial[c] \in {"none", "dialling"} /\ pc[c] \in {"none", "read", "done"}
      /\ \A c \in Client : pc[c] = "read" \/ dial[c] # "none" => c = 1
      /\ \A c \in Client : dial[c] # "none" => pc[c] = "done" /\ ~phone
      /\ \A c \in Client : carried[c] = hidden
  OBVIOUS
<1>3. Slotted
  BY <1>2 DEF Slotted
<1>4. Begins
  BY <1>2 DEF Begins, Running, Over, Ahead
<1>5. OldOver
  BY <1>2 DEF OldOver, Active, Alone, Unheld
<1>6. Choice
  BY <1>2 DEF Choice, Stale, Alone
<1> QED
  BY <1>1, <1>3, <1>4, <1>5, <1>6 DEF RInv

(* A command that begins changes no attempt.                                *)
LEMMA CommandStep ==
  ASSUME RInv, NEW k \in Client, NEW on \in BOOLEAN,
         Save(k, on) \/ SetHidden(k, on) \/ \E r \in BOOLEAN : SaveForm(k, on, r)
  PROVE  RInv'
<1> USE DEF Nobody
<1>0. /\ enabled \in BOOLEAN /\ hidden \in BOOLEAN /\ phone \in BOOLEAN /\ switch \in BOOLEAN
      /\ unsaid \subseteq Client /\ crossed \subseteq Client /\ Running \subseteq Client
      /\ Begun \subseteq Client
  BY DEF RInv, RTypeOK, Running, Begun
<1>1. PICK first \in {"read", "shut", "close", "restart", "done"} :
        /\ Command(k, first)
        /\ enabled' \in BOOLEAN /\ hidden' \in BOOLEAN /\ switch' \in BOOLEAN
        /\ unsaid' \subseteq Client /\ unsaid \subseteq unsaid'
        /\ phone => first # "shut"
        /\ \/ ~enabled'
           \/ first \in Ahead
           \/ enabled /\ hidden' = hidden
           \/ Begun \subseteq unsaid'
  <2>1. CASE Save(k, on)
    BY <1>0, <2>1 DEF Save, Reconnect, Ahead
  <2>2. CASE SetHidden(k, on)
    BY <1>0, <2>2 DEF SetHidden, Reconnect, Untold, Ahead
  <2>3. ASSUME NEW r \in BOOLEAN, SaveForm(k, on, r)
        PROVE  \E first \in {"read", "shut", "close", "restart", "done"} :
                 /\ Command(k, first)
                 /\ enabled' \in BOOLEAN /\ hidden' \in BOOLEAN /\ switch' \in BOOLEAN
                 /\ unsaid' \subseteq Client /\ unsaid \subseteq unsaid'
                 /\ phone => first # "shut"
                 /\ \/ ~enabled'
                    \/ first \in Ahead
                    \/ enabled /\ hidden' = hidden
                    \/ Begun \subseteq unsaid'
    BY <1>0, <2>3 DEF SaveForm, Untold, Ahead
  <2> QED
    BY <2>1, <2>2, <2>3
<1>2. /\ pc[k] = "none" /\ pc' = [pc EXCEPT ![k] = first]
      /\ crossed' = IF Running = {} THEN crossed ELSE crossed \cup Running \cup {k}
      /\ UNCHANGED <<phone, slot, connectTask, eventTask, dial, carried, live, bridges, refused>>
  BY <1>1 DEF Command, Begun, tasks
<1>3. pc'[k] = first /\ \A c \in Client : c # k => pc'[c] = pc[c]
  BY <1>2 DEF RInv, RTypeOK
<1>4. /\ crossed \subseteq crossed' /\ crossed' \subseteq Client
      /\ Running # {} => Running \subseteq crossed' /\ k \in crossed'
      /\ Running' \subseteq Running \cup {k}
  BY <1>0, <1>2, <1>3 DEF Running
<1>5. RTypeOK'
  BY <1>0, <1>1, <1>2, <1>4 DEF RInv, RTypeOK, Over
<1>6. Slotted'
  BY <1>2 DEF RInv, Slotted
<1>7. dial[k] = "none"
  BY <1>2 DEF RInv, Begins
<1>8. Begins'
  <2>1. \A a, b \in Running' : a # b => a \in crossed'
    BY <1>4
  <2> QED
    BY <1>1, <1>2, <1>3, <1>7, <2>1 DEF RInv, Begins
<1>9. Unheld' = Unheld /\ \A c \in Client : Active(c)' <=> Active(c)
  BY <1>2 DEF Unheld, Active
<1>10. OldOver'
  <2>1. ASSUME NEW c \in Client, Active(c)', Alone(c)' PROVE c = connectTask' \/ pc'[c] = "store"
    <3>1. Active(c) /\ Alone(c) /\ c # k
      BY <1>4, <1>7, <1>9, <2>1 DEF Alone, Active
    <3> QED
      BY <1>2, <1>3, <3>1 DEF RInv, OldOver
  <2>2. ASSUME \E c \in Client : pc'[c] \in {"spawn", "store"}
        PROVE  connectTask' = Nobody \/ connectTask' \in crossed'
    <3>1. \E c \in Client : pc[c] \in {"spawn", "store"}
      BY <1>3, <2>2
    <3> QED
      BY <1>2, <1>4, <3>1 DEF RInv, OldOver
  <2> QED
    BY <2>1, <2>2 DEF OldOver
<1>11. Choice'
  <2>1. ASSUME NEW c \in Client, phone', c \notin crossed', pc'[c] \in {"shut", "events", "connect", "spawn"}
        PROVE  FALSE
    <3>1. c # k
      BY <1>1, <1>2, <1>3, <2>1
    <3>2. c \in Running
      BY <1>3, <2>1, <3>1 DEF Running, Over
    <3> QED
      BY <1>4, <2>1, <3>2
  <2>2. \A c \in Client : pc[c] \in Ahead \cup {"spawn"} => pc'[c] = pc[c]
    BY <1>2, <1>3 DEF Ahead
  <2>3. ASSUME NEW c \in Client, Stale(c)', dial[c] # "none", enabled'
        PROVE  first \in Ahead \/ (enabled /\ Stale(c))
    <3>1. c \in Begun
      BY <2>3 DEF RInv, Begins, Begun
    <3>2. first \in Ahead \/ (enabled /\ hidden' = hidden)
      BY <1>1, <2>3, <3>1 DEF Stale
    <3> QED
      BY <1>1, <1>2, <1>4, <1>9, <2>3, <3>2 DEF Stale, Alone
  <2>4. ASSUME enabled', NEW c \in Client, Active(c)', Stale(c)'
        PROVE  \E b \in Client : pc'[b] \in Ahead
    <3>1. dial[c] # "none" /\ Active(c)
      BY <1>9, <2>4 DEF Active
    <3> QED
      BY <1>3, <2>2, <2>3, <2>4, <3>1 DEF RInv, Choice
  <2>5. ASSUME enabled', slot' # Nobody, Stale(slot)'
        PROVE  (\E b \in Client : pc'[b] \in Ahead \cup {"spawn"}) \/ (\E c \in Client : Active(c)')
    <3>1. slot \in Client /\ dial[slot] # "none" /\ slot # Nobody
      BY <1>2, <2>5 DEF RInv, RTypeOK, Slotted
    <3>2. first \in Ahead \/ (enabled /\ Stale(slot))
      BY <1>2, <2>3, <2>5, <3>1
    <3> QED
      BY <1>3, <1>9, <2>2, <3>1, <3>2 DEF RInv, Choice
  <2> QED
    BY <2>1, <2>4, <2>5 DEF Choice
<1> QED
  BY <1>5, <1>6, <1>8, <1>10, <1>11 DEF RInv

(* The steps of a command but those that touch an attempt or its handle.    *)
LEMMA ShutStep ==
  ASSUME RInv, NEW k \in Client, Close(k) \/ Read(k) \/ Shut(k) \/ AbortEvents(k)
  PROVE  RInv'
<1> USE DEF Nobody
<1>1. /\ pc[k] \in {"close", "read", "shut", "events"} /\ pc' = [pc EXCEPT ![k] = pc'[k]]
      /\ \/ pc[k] = "close" /\ pc'[k] = "closed"
         \/ pc[k] \in Ahead /\ pc'[k] \in Ahead
         \/ ~enabled /\ pc'[k] = "done"
      /\ pc'[k] \in {"closed", "done", "shut", "events", "connect"}
      /\ UNCHANGED <<phone, enabled, hidden, switch, refused, crossed, unsaid, connectTask, dial>>
      /\ \/ slot' = 0 /\ live' = live \ {slot}
         \/ UNCHANGED <<slot, live>>
      /\ bridges' \subseteq bridges /\ eventTask' \in {0, eventTask}
      /\ \/ carried' = carried /\ pc[k] # "read"
         \/ carried' = [carried EXCEPT ![k] = hidden]
  <2>0. pc \in [Client -> Over \cup {"close", "read", "shut", "events", "connect", "spawn", "store"}]
    BY DEF RInv, RTypeOK
  <2>1. CASE Close(k)
    BY <2>0, <2>1 DEF Close, Advances, settings
  <2>2. CASE Read(k)
    BY <2>0, <2>2 DEF Read, Advances, settings, Ahead
  <2>3. CASE Shut(k)
    BY <2>0, <2>3 DEF Shut, Advances, settings, tasks, Emptied, Ahead
  <2>4. CASE AbortEvents(k)
    BY <2>0, <2>4 DEF AbortEvents, Advances, settings, Ahead
  <2> QED
    BY <2>1, <2>2, <2>3, <2>4
<1>2. \A c \in Client : c # k => pc'[c] = pc[c] /\ carried'[c] = carried[c]
  BY <1>1 DEF RInv, RTypeOK
<1>3. RTypeOK'
  BY <1>1 DEF RInv, RTypeOK, Over
<1>4. Slotted'
  <2>1. \A c \in Client : dial[c] = "registered" => c # slot
    BY DEF RInv, Slotted, Client
  <2> QED
    BY <1>1, <2>1 DEF RInv, Slotted
<1>5. Running' \subseteq Running
  BY <1>1, <1>2 DEF Running, Over
<1>6. Begins'
  <2>1. \A a, b \in Running' : a # b => a \in crossed'
    BY <1>1, <1>5 DEF RInv, Begins
  <2>2. \A c \in Client : dial[c] # "none" => pc'[c] # "none" /\ pc'[c] \notin Ahead \cup {"spawn"}
    BY <1>1, <1>2 DEF RInv, Begins, Ahead
  <2> QED
    BY <1>1, <1>2, <2>1, <2>2 DEF RInv, Begins
<1>7. Unheld' = Unheld /\ \A c \in Client : Active(c)' <=> Active(c)
  BY <1>1 DEF Unheld, Active
<1>8. OldOver'
  BY <1>1, <1>2, <1>7 DEF RInv, OldOver, Alone
<1>9. Choice'
  <2>1. ASSUME NEW c \in Client, phone', c \notin crossed', pc'[c] \in {"shut", "events", "connect", "spawn"}
        PROVE  carried'[c] = hidden'
    <3>1. CASE c = k
      <4>1. carried' = [carried EXCEPT ![k] = hidden] \/ (carried' = carried /\ pc[k] \in {"shut", "events"})
        BY <1>1, <2>1, <3>1 DEF Ahead
      <4> QED
        BY <1>1, <2>1, <3>1, <4>1 DEF RInv, RTypeOK, Choice
    <3>2. CASE c # k
      BY <1>1, <1>2, <2>1, <3>2 DEF RInv, Choice
    <3> QED
      BY <3>1, <3>2
  <2>2. ASSUME enabled, NEW c \in Client, pc[c] \in Ahead PROVE pc'[c] \in Ahead
    BY <1>1, <1>2, <2>2 DEF Ahead
  <2>4. ASSUME NEW c \in Client, Stale(c)', dial[c] # "none" PROVE Stale(c)
    <3>1. CASE c = k /\ carried' # carried
      BY <1>1, <2>4, <3>1 DEF Stale, RInv, RTypeOK
    <3>2. CASE c # k \/ carried' = carried
      BY <1>1, <1>2, <1>7, <2>4, <3>2 DEF Stale, Alone
    <3> QED
      BY <3>1, <3>2
  <2>5. ASSUME enabled', NEW c \in Client, Active(c)', Stale(c)'
        PROVE  \E b \in Client : pc'[b] \in Ahead
    <3>1. Active(c) /\ Stale(c)
      BY <1>7, <2>4, <2>5 DEF Active
    <3> QED
      BY <1>1, <2>2, <2>5, <3>1 DEF RInv, Choice
  <2>6. ASSUME enabled', slot' # Nobody, Stale(slot)'
        PROVE  (\E b \in Client : pc'[b] \in Ahead \cup {"spawn"}) \/ (\E c \in Client : Active(c)')
    <3>1. slot' = slot /\ slot \in Client /\ dial[slot] # "none"
      BY <1>1, <2>6 DEF RInv, RTypeOK, Slotted
    <3>2. Stale(slot)
      BY <2>4, <2>6, <3>1 DEF Stale, Alone
    <3>3. (\E b \in Client : pc[b] \in Ahead \cup {"spawn"}) \/ (\E c \in Client : Active(c))
      BY <1>1, <2>6, <3>1, <3>2 DEF RInv, Choice
    <3>4. \A b \in Client : pc[b] = "spawn" => pc'[b] = "spawn"
      BY <1>1, <1>2
    <3> QED
      BY <1>1, <1>7, <2>2, <2>6, <3>3, <3>4
  <2> QED
    BY <2>1, <2>5, <2>6 DEF Choice
<1> QED
  BY <1>3, <1>4, <1>6, <1>8, <1>9 DEF RInv

(* The old attempt is aborted, or over; what is left ran beside a command.  *)
LEMMA AbortConnectStep ==
  ASSUME RInv, NEW k \in Client, AbortConnect(k)
  PROVE  RInv'
<1> USE DEF Nobody
<1>1. /\ pc[k] = "connect" /\ pc' = [pc EXCEPT ![k] = "spawn"] /\ connectTask' = 0
      /\ UNCHANGED <<phone, enabled, hidden, switch, refused, crossed, unsaid, slot, eventTask, carried,
                     live, bridges>>
  BY DEF AbortConnect, Advances, settings
<1>2. pc'[k] = "spawn" /\ \A c \in Client : c # k => pc'[c] = pc[c]
  BY <1>1 DEF RInv, RTypeOK
<1>3. /\ dial' \in [Client -> {"none", "dialling", "registered", "slotted", "done", "aborted"}]
      /\ \A c \in Client : dial'[c] = dial[c] \/ (c \in Aborts /\ dial'[c] = "aborted")
      /\ \A c \in Client : c = connectTask /\ c # 0 => dial'[c] \in {"done", "aborted"}
  BY DEF AbortConnect, Aborts, RInv, RTypeOK
<1>4. \A c \in Client : dial'[c] # "none" <=> dial[c] # "none"
  BY <1>3 DEF Aborts, RInv, Begins
<1>5. RTypeOK'
  BY <1>1, <1>3 DEF RInv, RTypeOK
<1>6. Slotted'
  <2>1. slot # 0 => slot \in Client
    BY DEF RInv, RTypeOK
  <2> QED
    BY <1>1, <1>3, <2>1 DEF RInv, Slotted
<1>7. Running' = Running /\ k \in Running
  BY <1>1, <1>2 DEF Running, Over
<1>8. Begins'
  <2>1. dial[k] = "none"
    BY <1>1 DEF RInv, Begins, Ahead
  <2>2. \A c \in Client : dial'[c] # "none" => pc'[c] # "none" /\ pc'[c] \notin Ahead \cup {"spawn"}
    BY <1>2, <1>4, <2>1 DEF RInv, Begins
  <2>3. \A c \in Client : pc'[c] = "store" => dial'[c] # "none"
    BY <1>2, <1>4 DEF RInv, Begins
  <2>4. \A a, b \in Running' : a # b => a \in crossed'
    BY <1>1, <1>7 DEF RInv, Begins
  <2> QED
    BY <1>1, <2>2, <2>3, <2>4 DEF Begins
<1>9. Unheld' = Unheld
  BY <1>1 DEF Unheld
<1>10. \A c \in Client : ~(Active(c)' /\ Alone(c)')
  <2> SUFFICES ASSUME NEW c \in Client, Active(c)', Alone(c)' PROVE FALSE
    OBVIOUS
  <2>1. Active(c) /\ Alone(c) /\ c # 0
    BY <1>1, <1>3, <1>9, ShellAssumption DEF Active, Alone, Client
  <2>2. c # connectTask
    BY <1>3, <2>1 DEF Active
  <2>3. pc[c] = "store"
    BY <2>1, <2>2 DEF RInv, OldOver
  <2>4. c \in Running /\ c # k
    BY <1>1, <2>3 DEF Running, Over
  <2> QED
    BY <1>7, <2>1, <2>4 DEF RInv, Begins, Alone
<1>11. OldOver'
  BY <1>1, <1>10 DEF OldOver
<1>12. Choice'
  <2>1. \A c \in Client : phone' /\ c \notin crossed' /\ pc'[c] \in {"shut", "events", "connect", "spawn"}
          => carried'[c] = hidden'
    BY <1>1, <1>2 DEF RInv, Choice
  <2> QED
    BY <1>2, <1>10, <2>1 DEF Choice, Stale, Ahead
<1> QED
  BY <1>5, <1>6, <1>8, <1>11, <1>12 DEF RInv

(* The new attempt carries what was saved last, or its command has crossed. *)
LEMMA SpawnStep ==
  ASSUME RInv, NEW k \in Client, Spawn(k)
  PROVE  RInv'
<1> USE DEF Nobody
<1>1. /\ pc[k] = "spawn" /\ pc' = [pc EXCEPT ![k] = "store"]
      /\ dial' = [dial EXCEPT ![k] = "dialling"]
      /\ carried' = IF phone THEN carried ELSE [carried EXCEPT ![k] = hidden]
      /\ UNCHANGED <<phone, enabled, hidden, switch, refused, crossed, unsaid, slot, connectTask, eventTask,
                     live, bridges>>
  BY DEF Spawn, Advances, settings
<1>2. /\ pc'[k] = "store" /\ dial'[k] = "dialling"
      /\ \A c \in Client : c # k => pc'[c] = pc[c] /\ dial'[c] = dial[c] /\ carried'[c] = carried[c]
      /\ hidden \in BOOLEAN
  BY <1>1 DEF RInv, RTypeOK
<1>3. dial[k] = "none"
  BY <1>1 DEF RInv, Begins
<1>4. RTypeOK'
  BY <1>1 DEF RInv, RTypeOK
<1>5. Slotted'
  <2>1. slot # 0 => slot \in Client /\ slot # k
    BY <1>3 DEF RInv, RTypeOK, Slotted
  <2> QED
    BY <1>1, <1>2, <2>1 DEF RInv, Slotted
<1>6. Running' = Running /\ k \in Running
  BY <1>1, <1>2 DEF Running, Over
<1>7. Begins'
  <2>1. connectTask \in Client \cup {0}
    BY DEF RInv, RTypeOK
  <2>2. \A a, b \in Running' : a # b => a \in crossed'
    BY <1>1, <1>6 DEF RInv, Begins
  <2> QED
    BY <1>1, <1>2, <2>1, <2>2 DEF RInv, Begins, Ahead
<1>8. Unheld' = Unheld /\ \A c \in Client : Alone(c)' <=> Alone(c)
  BY <1>1 DEF Unheld, Alone
<1>9. Active(k)' /\ \A c \in Client : c # k => (Active(c)' <=> Active(c))
  BY <1>2 DEF Active
<1>10. OldOver'
  BY <1>1, <1>2, <1>8, <1>9 DEF RInv, OldOver
<1>11. Choice'
  <2>1. \A c \in Client : phone' /\ c \notin crossed' /\ pc'[c] \in {"shut", "events", "connect", "spawn"}
          => carried'[c] = hidden'
    BY <1>1, <1>2 DEF RInv, Choice
  <2>2. ~Stale(k)'
    <3>1. k \notin crossed => carried'[k] = hidden
      BY <1>1 DEF RInv, RTypeOK, Choice
    <3> QED
      BY <1>1, <3>1 DEF Stale, Alone
  <2>3. \A c \in Client : c # k => (Stale(c)' <=> Stale(c))
    BY <1>1, <1>2, <1>8 DEF Stale
  <2>4. \A c \in Client : pc[c] \in Ahead => pc'[c] \in Ahead
    BY <1>1, <1>2 DEF Ahead
  <2>5. ASSUME enabled', NEW c \in Client, Active(c)', Stale(c)'
        PROVE  \E b \in Client : pc'[b] \in Ahead
    BY <1>1, <1>9, <2>2, <2>3, <2>4, <2>5 DEF RInv, Choice
  <2> QED
    BY <1>9, <2>1, <2>5 DEF Choice
<1> QED
  BY <1>4, <1>5, <1>7, <1>10, <1>11 DEF RInv

(* Its handle is stored; an attempt whose handle it replaces has crossed.   *)
LEMMA StoreStep ==
  ASSUME RInv, NEW k \in Client, Store(k)
  PROVE  RInv'
<1> USE DEF Nobody
<1>1. /\ pc[k] = "store" /\ pc' = [pc EXCEPT ![k] = "done"] /\ connectTask' = k
      /\ UNCHANGED <<phone, enabled, hidden, switch, refused, crossed, unsaid, slot, eventTask, dial,
                     carried, live, bridges>>
  BY DEF Store, Advances, settings
<1>2. pc'[k] = "done" /\ \A c \in Client : c # k => pc'[c] = pc[c]
  BY <1>1 DEF RInv, RTypeOK
<1>3. RTypeOK' /\ Slotted'
  BY <1>1 DEF RInv, RTypeOK, Slotted, Over
<1>4. k \in Running /\ Running' \subseteq Running
  BY <1>1, <1>2 DEF Running, Over
<1>5. Begins'
  <2>1. \A a, b \in Running' : a # b => a \in crossed'
    BY <1>1, <1>4 DEF RInv, Begins
  <2> QED
    BY <1>1, <1>2, <2>1 DEF RInv, Begins, Ahead
<1>6. Unheld' = Unheld /\ \A c \in Client : /\ Active(c)' <=> Active(c)
                                            /\ Alone(c)' <=> Alone(c)
                                            /\ Stale(c)' <=> Stale(c)
  BY <1>1 DEF Unheld, Active, Alone, Stale
<1>7. ASSUME NEW c \in Client, pc[c] \in {"spawn", "store"}, c # k PROVE k \in crossed /\ c \in crossed
  <2>1. c \in Running
    BY <1>7 DEF Running, Over
  <2> QED
    BY <1>4, <1>7, <2>1 DEF RInv, Begins
<1>8. OldOver'
  <2>1. ASSUME NEW c \in Client, Active(c)', Alone(c)' PROVE c = k
    <3>1. c = connectTask \/ pc[c] = "store"
      BY <1>6, <2>1 DEF RInv, OldOver
    <3>2. c = connectTask => c = 0
      BY <1>1, <2>1, <1>6 DEF RInv, OldOver, Alone
    <3>3. c # 0
      BY DEF Client
    <3> QED
      BY <1>6, <1>7, <2>1, <3>1, <3>2, <3>3 DEF Alone
  <2>2. ASSUME NEW c \in Client, pc'[c] \in {"spawn", "store"} PROVE k \in crossed
    BY <1>2, <1>7, <2>2
  <2> QED
    BY <1>1, <2>1, <2>2 DEF OldOver
<1>9. Choice'
  <2>1. \A c \in Client : pc[c] \in Ahead \cup {"spawn"} => pc'[c] = pc[c]
    BY <1>1, <1>2 DEF Ahead
  <2>2. \A c \in Client : pc'[c] \in {"shut", "events", "connect", "spawn"} => pc'[c] = pc[c]
    BY <1>2
  <2>3. \A c \in Client : phone' /\ c \notin crossed' /\ pc'[c] \in {"shut", "events", "connect", "spawn"}
          => carried'[c] = hidden'
    BY <1>1, <2>2 DEF RInv, Choice
  <2>4. enabled' /\ (\E c \in Client : Active(c)' /\ Stale(c)') => \E b \in Client : pc'[b] \in Ahead
    BY <1>1, <1>6, <2>1 DEF RInv, Choice
  <2>5. enabled' /\ slot' # Nobody /\ Stale(slot)'
          => (\E b \in Client : pc'[b] \in Ahead \cup {"spawn"}) \/ (\E c \in Client : Active(c)')
    <3>1. slot # 0 => slot \in Client
      BY DEF RInv, RTypeOK
    <3> QED
      BY <1>1, <1>6, <2>1, <3>1 DEF RInv, Choice, Stale, Alone
  <2> QED
    BY <2>3, <2>4, <2>5 DEF Choice
<1> QED
  BY <1>3, <1>5, <1>8, <1>9 DEF RInv

(* An attempt goes on to take the slot and have its events taken.           *)
LEMMA TaskStep ==
  ASSUME RInv, NEW c \in Client, Task(c) \/ Refused(c)
  PROVE  RInv'
<1> USE DEF Nobody
<1>1. /\ UNCHANGED <<phone, enabled, hidden, switch, crossed, unsaid, pc, connectTask, carried>>
      /\ refused' \in 0 .. Refusals /\ bridges' \subseteq bridges \cup {c} /\ eventTask' \in {c, eventTask}
      /\ \/ dial[c] = "dialling" /\ dial' = [dial EXCEPT ![c] = "registered"]
            /\ live' = live \cup {c} /\ slot' = slot
         \/ dial[c] = "registered" /\ dial' = [dial EXCEPT ![c] = "slotted"] /\ live' = live /\ slot' = c
         \/ dial[c] = "slotted" /\ dial' = [dial EXCEPT ![c] = "done"] /\ live' = live /\ slot' = slot
         \/ UNCHANGED <<dial, live, slot>>
  <2>1. CASE Registers(c)
    BY <2>1 DEF Registers, settings, RInv, RTypeOK
  <2>2. CASE TakesSlot(c)
    BY <2>2 DEF TakesSlot, settings, RInv, RTypeOK
  <2>3. CASE StoresEvents(c)
    BY <2>3 DEF StoresEvents, settings, RInv, RTypeOK
  <2>4. CASE EventsEnd(c)
    BY <2>4 DEF EventsEnd, settings, tasks, RInv, RTypeOK
  <2>5. CASE Refused(c)
    BY <2>5, ShellAssumption DEF Refused, AfterRefusal, RInv, RTypeOK
  <2> QED
    BY <2>1, <2>2, <2>3, <2>4, <2>5 DEF Task
<1>2. RTypeOK'
  BY <1>1 DEF RInv, RTypeOK
<1>3. /\ \A b \in Client : b # c => dial'[b] = dial[b]
      /\ dial'[c] = "none" <=> dial[c] = "none"
      /\ Active(c)' => Active(c)
  BY <1>1 DEF RInv, RTypeOK, Active
<1>4. /\ \A b \in Client : Active(b)' => Active(b)
      /\ \A b \in Client : dial'[b] = "none" <=> dial[b] = "none"
  BY <1>3 DEF Active
<1>5. Slotted'
  <2>1. slot # 0 => slot \in Client
    BY DEF RInv, RTypeOK
  <2> QED
    BY <1>1, <2>1 DEF RInv, RTypeOK, Slotted
<1>6. Unheld' = Unheld /\ Running' = Running /\ \A b : /\ Alone(b)' <=> Alone(b)
                                                       /\ Stale(b)' <=> Stale(b)
  BY <1>1 DEF Unheld, Running, Alone, Stale
<1>7. Begins'
  <2>1. connectTask \in Client \cup {0}
    BY DEF RInv, RTypeOK
  <2>2. connectTask # 0 => dial'[connectTask] # "none"
    BY <1>4, <2>1 DEF RInv, Begins
  <2> QED
    BY <1>1, <1>4, <1>6, <2>2 DEF RInv, Begins
<1>8. OldOver'
  BY <1>1, <1>4, <1>6 DEF RInv, OldOver
<1>9. Choice'
  <2>1. slot' # slot => slot' = c /\ Active(c)
    BY <1>1 DEF Active
  <2>2. slot' = slot => \A b \in Client : Active(b) => Active(b)'
    BY <1>1, <1>3, ShellAssumption DEF Active, RInv, RTypeOK, Slotted, Client
  <2> QED
    BY <1>1, <1>4, <1>6, <2>1, <2>2 DEF RInv, Choice
<1> QED
  BY <1>2, <1>5, <1>7, <1>8, <1>9 DEF RInv

LEMMA ShellStep == RInv /\ [RNext]_rvars => RInv'
<1> SUFFICES ASSUME RInv, [RNext]_rvars PROVE RInv'
  OBVIOUS
<1>1. ASSUME NEW c \in Client, NEW on \in BOOLEAN,
             Save(c, on) \/ SetHidden(c, on) \/ \E r \in BOOLEAN : SaveForm(c, on, r)
      PROVE  RInv'
  BY <1>1, CommandStep
<1>2. ASSUME NEW c \in Client, Steps(c) PROVE RInv'
  BY <1>2, ShutStep, AbortConnectStep, SpawnStep, StoreStep DEF Steps
<1>3. ASSUME NEW c \in Client, Task(c) \/ Refused(c) PROVE RInv'
  BY <1>3, TaskStep
<1>4. CASE UNCHANGED rvars
  BY <1>4 DEF rvars, RInv, RTypeOK, Slotted, Begins, Running, OldOver, Active, Alone, Unheld, Choice, Stale
<1> QED
  BY <1>1, <1>2, <1>3, <1>4 DEF RNext

(* Who takes the client from the slot to open a session gets a live one, in *)
(* whatever order commands, attempts and the tasks they spawn go on, and    *)
(* when nothing is under way it has registered with the visibility saved    *)
(* last, but for the cases SettingsCurrent names (commands.rs:2938-3200,    *)
(* relay_state.rs spawn_relay).                                             *)
THEOREM ClientAlwaysSound == RSpec => []ClientSound
<1>1. RInv => ClientSound
  <2> SUFFICES ASSUME RInv PROVE ClientSound
    OBVIOUS
  <2>1. RTypeOK /\ SlotLive
    BY DEF RInv, Slotted, SlotLive
  <2>2. ASSUME Quiet, enabled, slot \notin {Nobody} \cup crossed \cup Unheld \cup unsaid,
               carried[slot] # hidden
        PROVE  FALSE
    <3>1. slot \in Client /\ slot # Nobody /\ Stale(slot)
      BY <2>2 DEF RInv, RTypeOK, Stale, Alone
    <3>2. (\E k \in Client : pc[k] \in Ahead \cup {"spawn"}) \/ (\E c \in Client : Active(c))
      BY <2>2, <3>1 DEF RInv, Choice
    <3> QED
      BY <2>2, <3>2 DEF Quiet, Running, Over, Active, Ahead
  <2> QED
    BY <2>1, <2>2 DEF ClientSound, SettingsCurrent
<1> QED
  BY ShellBegins, ShellStep, <1>1, PTL DEF RSpec

USE NoneAssumption, PoolAssumption, BoundAssumption

-----------------------------------------------------------------------------
(* The smallest of some numbers is one of them (alloc takes the smallest    *)
(* free port, lease.rs:91-97).                                              *)
LEMMA MinInSet ==
  ASSUME NEW S \in SUBSET Nat, S # {}
  PROVE  Min(S) \in S /\ \A y \in S : Min(S) =< y
<1>1. PICK x \in S : \A y \in S : ~(<<y, x>> \in OpToRel(<, Nat))
  BY NatLessThanWellFounded, WFMin
<1>2. \A y \in S : x =< y
  <2>1. SUFFICES ASSUME NEW y \in S PROVE x =< y
    OBVIOUS
  <2>2. x \in Nat /\ y \in Nat
    OBVIOUS
  <2>3. ~(y < x)
    BY <1>1, <2>2 DEF OpToRel
  <2>4. QED
    BY <2>2, <2>3
<1>3. QED
  BY <1>2 DEF Min

(* A new lease gets a free port of the pool.                                *)
LEMMA FreePort ==
  ASSUME Free # {}
  PROVE  Min(Free) \in Ports /\ portMap[Min(Free)] = None
<1>1. Free \in SUBSET Nat
  BY DEF Free, Ports
<1>2. Min(Free) \in Free
  BY <1>1, MinInSet
<1>3. QED
  BY <1>2 DEF Free

-----------------------------------------------------------------------------
(* Type correctness.                                                        *)

(* A lease that is refreshed, has aged or is exchanged for one of another   *)
(* token is a lease.                                                        *)
LEMMA LeaseParts ==
  ASSUME TypeOK, NEW d \in Device, leases[d] # NoLease
  PROVE  /\ leases[d] \in Lease
         /\ leases[d].port \in Ports /\ leases[d].token \in Tokens /\ leases[d].fresh \in BOOLEAN
         /\ \A t \in Tokens, f \in BOOLEAN :
              [port |-> leases[d].port, token |-> t, fresh |-> f] \in Lease
         /\ \A f \in BOOLEAN : [leases[d] EXCEPT !.fresh = f] \in Lease
BY DEF TypeOK, Lease

(* A renewed lease is typed,                                                *)
LEMMA RefreshedType ==
  ASSUME TypeOK, NEW d \in Device, Refreshed(d)
  PROVE  leases' \in [Device -> Lease \cup {NoLease}]
<1>1. CASE leases[d] = NoLease
  BY <1>1 DEF Refreshed, TypeOK
<1>2. CASE leases[d] # NoLease
  BY <1>2, LeaseParts DEF Refreshed, TypeOK
<1>3. QED
  BY <1>1, <1>2

(* so is what a removal leaves,                                             *)
LEMMA TakenType ==
  ASSUME TypeOK, NEW d \in Device, NEW who \in {"conn", "reaper"}, Taken(d, who)
  PROVE  /\ leases' \in [Device -> Lease \cup {NoLease}]
         /\ removing' \subseteq Removal
BY LeaseParts DEF Taken, TypeOK, Removal

(* and what alloc makes.                                                    *)
LEMMA AllocType ==
  ASSUME TypeOK, NEW d \in Device, Alloc(d)
  PROVE  TypeOK'
<1>1. issued \in Nat /\ issued < MaxTokens /\ issued' = issued + 1
  BY DEF Alloc, TypeOK
<1>2. issued' \in Tokens /\ issued' \in 0 .. MaxTokens
  BY <1>1 DEF Tokens
<1>3. CASE AllocNew(d)
  <2>1. Min(Free) \in Ports
    BY <1>3, FreePort DEF AllocNew
  <2>2. [port |-> Min(Free), token |-> issued', fresh |-> TRUE] \in Lease
    BY <1>2, <2>1 DEF Lease
  <2>3. leases' \in [Device -> Lease \cup {NoLease}]
    BY <1>3, <2>2 DEF AllocNew, TypeOK
  <2>4. QED
    BY <1>2, <1>3, <2>1, <2>3 DEF AllocNew, Alloc, TypeOK, reaper
<1>4. CASE AllocAgain(d)
  <2>1. [port |-> leases[d].port, token |-> issued', fresh |-> TRUE] \in Lease
    BY <1>2, <1>4, LeaseParts DEF AllocAgain
  <2>2. leases' \in [Device -> Lease \cup {NoLease}]
    BY <1>4, <2>1 DEF AllocAgain, TypeOK
  <2>3. QED
    BY <1>2, <1>4, <2>2 DEF AllocAgain, Alloc, TypeOK, reaper
<1>5. QED
  BY <1>3, <1>4 DEF Alloc

(* The empty table is typed.                                                *)
LEMMA InitType == Init => TypeOK
BY DEF Init, TypeOK

(* Every step keeps the types.                                              *)
LEMMA NextType == TypeOK /\ [Next]_vars => TypeOK'
<1>1. SUFFICES ASSUME TypeOK, [Next]_vars PROVE TypeOK'
  OBVIOUS
<1>2. ASSUME NEW d \in Device, Alloc(d) PROVE TypeOK'
  BY <1>1, <1>2, AllocType
<1>3. ASSUME NEW d \in Device, Remove(d) PROVE TypeOK'
  BY <1>1, <1>3, TakenType DEF Remove, Taken, TypeOK, reaper
<1>4. ASSUME NEW d \in Device, Heartbeat(d) PROVE TypeOK'
  BY <1>1, <1>4, RefreshedType DEF Heartbeat, TypeOK, reaper
<1>5. ASSUME NEW d \in Device, Ages(d) PROVE TypeOK'
  <2>1. leases[d] # NoLease
    BY <1>5 DEF Ages, NoLease
  <2>2. leases' \in [Device -> Lease \cup {NoLease}]
    BY <1>1, <1>5, <2>1, LeaseParts DEF Ages, TypeOK
  <2>3. QED
    BY <1>1, <1>5, <2>2 DEF Ages, TypeOK, reaper
<1>6. ASSUME NEW d \in Device, PowerLost(d) PROVE TypeOK'
  BY <1>1, <1>6 DEF PowerLost, TypeOK, reaper
<1>7. ASSUME NEW t \in Tokens, Packet(t) PROVE TypeOK'
  <2>1. tokenMap[t] \in Device
    BY <1>1, <1>7 DEF Packet, TypeOK
  <2>2. leases' \in [Device -> Lease \cup {NoLease}]
    BY <1>1, <1>7, <2>1, RefreshedType DEF Packet
  <2>3. QED
    BY <1>1, <1>7, <2>2 DEF Packet, TypeOK, reaper
<1>8. CASE Removes
  <2>1. PICK r \in removing : RemovePort(r) \/ RemoveToken(r)
    BY <1>8 DEF Removes
  <2>2. r \in Removal
    BY <1>1, <2>1 DEF TypeOK
  <2>3. CASE RemovePort(r)
    BY <1>1, <2>2, <2>3 DEF RemovePort, TypeOK, Removal, reaper
  <2>4. CASE RemoveToken(r)
    BY <1>1, <2>2, <2>4 DEF RemoveToken, TypeOK, Removal, reaper
  <2>5. QED
    BY <2>1, <2>3, <2>4
<1>9. CASE ReapRead
  BY <1>1, <1>9 DEF ReapRead, Expired, TypeOK
<1>10. CASE ReapNext
  <2>1. ASSUME NEW d \in todo, todo' = todo \ {d}, Taken(d, "reaper"), UNCHANGED reaping
        PROVE  TypeOK'
    <3>1. d \in Device
      BY <1>1, <2>1 DEF TypeOK
    <3>2. QED
      BY <1>1, <1>10, <2>1, <3>1, TakenType DEF ReapNext, Taken, TypeOK
  <2>2. CASE UNCHANGED <<leases, portMap, tokenMap, removing>>
    BY <1>1, <1>10, <2>2 DEF ReapNext, TypeOK
  <2>3. QED
    BY <1>10, <2>1, <2>2 DEF ReapNext
<1>11. CASE UNCHANGED vars
  BY <1>1, <1>11 DEF vars, TypeOK, reaper
<1>12. QED
  BY <1>1, <1>2, <1>3, <1>4, <1>5, <1>6, <1>7, <1>8, <1>9, <1>10, <1>11 DEF Next, Reaps

(* Every variable of the lease table always holds a value its type in       *)
(* lease.rs allows.                                                         *)
THEOREM TypeCorrect == Spec => []TypeOK
BY InitType, NextType, PTL DEF Spec

-----------------------------------------------------------------------------
(* Tokens. The types and the property itself are inductive.                 *)

TokenInv == TypeOK /\ TokensCurrent

(* Tokens are current in an empty table.                                    *)
LEMMA InitToken == Init => TokenInv
BY InitType DEF Init, TokenInv, TokensCurrent

(* What may happen to a lease and leaves the tokens right: the lease keeps  *)
(* its token, and what is being removed is still being removed.             *)
LEMMA TokensStay ==
  ASSUME TokenInv, UNCHANGED tokenMap, removing \subseteq removing',
         \A d \in Device : leases[d] # NoLease => leases'[d].token = leases[d].token
  PROVE  TokensCurrent'
<1>1. SUFFICES ASSUME NEW t \in Tokens, tokenMap[t] # None
              PROVE  \/ leases'[tokenMap[t]].token = t
                     \/ \E r \in removing' : r.token = t
  BY DEF TokensCurrent
<1>2. tokenMap[t] \in Device
  BY <1>1 DEF TokenInv, TypeOK
<1>3. CASE leases[tokenMap[t]].token = t
  <2>1. leases[tokenMap[t]] # NoLease
    BY <1>3 DEF NoLease, Tokens
  <2>2. QED
    BY <1>2, <1>3, <2>1
<1>4. CASE \E r \in removing : r.token = t
  BY <1>4
<1>5. \/ leases[tokenMap[t]].token = t
      \/ \E r \in removing : r.token = t
  BY <1>1 DEF TokenInv, TokensCurrent
<1>6. QED
  BY <1>3, <1>4, <1>5

(* Renewing a lease does not change its token.                              *)
LEMMA RefreshedTokens ==
  ASSUME TokenInv, NEW d \in Device, Refreshed(d), UNCHANGED <<tokenMap, removing>>
  PROVE  TokensCurrent'
<1>1. \A e \in Device : leases[e] # NoLease => leases'[e].token = leases[e].token
  <2>1. SUFFICES ASSUME NEW e \in Device, leases[e] # NoLease
                PROVE  leases'[e].token = leases[e].token
    OBVIOUS
  <2>2. leases[e] \in Lease
    BY <2>1, LeaseParts DEF TokenInv
  <2>3. QED
    BY <2>1, <2>2 DEF Refreshed, TokenInv, TypeOK, Lease
<1>2. QED
  BY <1>1, TokensStay

(* remove: the token of the lease that goes is listed with its removal.     *)
LEMMA TakenTokens ==
  ASSUME TokenInv, NEW d \in Device, NEW who \in {"conn", "reaper"}, Taken(d, who)
  PROVE  TokensCurrent'
<1>1. SUFFICES ASSUME NEW t \in Tokens, tokenMap[t] # None
              PROVE  \/ leases'[tokenMap[t]].token = t
                     \/ \E r \in removing' : r.token = t
  BY DEF TokensCurrent, Taken
<1>2. tokenMap[t] \in Device
  BY <1>1 DEF TokenInv, TypeOK
<1>3. CASE tokenMap[t] = d /\ leases[d].token = t
  <2> DEFINE q == [port |-> leases[d].port, token |-> leases[d].token,
                   step |-> "port", by |-> who]
  <2>1. q \in removing'
    BY DEF Taken
  <2>2. q.token = t
    BY <1>3
  <2>3. QED
    BY <2>1, <2>2
<1>4. CASE tokenMap[t] # d /\ leases[tokenMap[t]].token = t
  BY <1>2, <1>4 DEF Taken, TokenInv, TypeOK
<1>5. CASE \E r \in removing : r.token = t
  BY <1>5 DEF Taken
<1>6. QED
  BY <1>1, <1>3, <1>4, <1>5 DEF TokenInv, TokensCurrent

(* alloc: the token issued is the one in the lease, and the old one is gone *)
(* from the map in the same step.                                           *)
LEMMA AllocTokens ==
  ASSUME TokenInv, NEW d \in Device, Alloc(d)
  PROVE  TokensCurrent'
<1>1. SUFFICES ASSUME NEW t \in Tokens, tokenMap'[t] # None
              PROVE  \/ leases'[tokenMap'[t]].token = t
                     \/ \E r \in removing' : r.token = t
  BY DEF TokensCurrent
<1>2. removing' = removing
  BY DEF Alloc
<1>3. CASE t = issued'
  <2>1. tokenMap'[t] = d
    BY <1>1, <1>3 DEF Alloc, AllocNew, AllocAgain, TokenInv, TypeOK
  <2>2. leases'[d].token = issued'
    BY DEF Alloc, AllocNew, AllocAgain, TokenInv, TypeOK
  <2>3. QED
    BY <1>3, <2>1, <2>2
<1>4. CASE t # issued'
  <2>1. tokenMap'[t] = tokenMap[t] /\ tokenMap[t] \in Device
    BY <1>1, <1>4 DEF Alloc, AllocNew, AllocAgain, TokenInv, TypeOK
  <2>2. CASE \E r \in removing : r.token = t
    BY <1>2, <2>2
  <2>3. CASE leases[tokenMap[t]].token = t /\ tokenMap[t] # d
    BY <2>1, <2>3 DEF Alloc, AllocNew, AllocAgain, TokenInv, TypeOK
  <2>4. CASE leases[tokenMap[t]].token = t /\ tokenMap[t] = d
    <3>1. leases[d] # NoLease
      BY <2>4 DEF NoLease, Tokens
    <3>2. tokenMap'[t] = None
      BY <1>4, <2>4, <3>1 DEF Alloc, AllocNew, AllocAgain, TokenInv, TypeOK
    <3>3. QED
      BY <1>1, <3>2
  <2>5. QED
    BY <1>1, <2>1, <2>2, <2>3, <2>4 DEF TokenInv, TokensCurrent
<1>5. QED
  BY <1>3, <1>4

(* Every step keeps the tokens current.                                     *)
LEMMA NextToken == TokenInv /\ [Next]_vars => TokenInv'
<1>1. SUFFICES ASSUME TokenInv, [Next]_vars PROVE TokensCurrent'
  BY NextType DEF TokenInv
<1>2. ASSUME NEW d \in Device, Alloc(d) PROVE TokensCurrent'
  BY <1>1, <1>2, AllocTokens
<1>3. ASSUME NEW d \in Device, Remove(d) PROVE TokensCurrent'
  BY <1>1, <1>3, TakenTokens DEF Remove
<1>4. ASSUME NEW d \in Device, Heartbeat(d) PROVE TokensCurrent'
  BY <1>1, <1>4, RefreshedTokens DEF Heartbeat
<1>5. ASSUME NEW d \in Device, Ages(d) PROVE TokensCurrent'
  <2>1. \A e \in Device : leases[e] # NoLease => leases'[e].token = leases[e].token
    <3>1. SUFFICES ASSUME NEW e \in Device, leases[e] # NoLease
                  PROVE  leases'[e].token = leases[e].token
      OBVIOUS
    <3>2. leases[e] \in Lease
      BY <1>1, <3>1, LeaseParts DEF TokenInv
    <3>3. QED
      BY <1>1, <1>5, <3>2 DEF Ages, TokenInv, TypeOK, Lease
  <2>2. QED
    BY <1>1, <1>5, <2>1, TokensStay DEF Ages
<1>6. ASSUME NEW d \in Device, PowerLost(d) PROVE TokensCurrent'
  BY <1>1, <1>6 DEF PowerLost, TokenInv, TokensCurrent
<1>7. ASSUME NEW t \in Tokens, Packet(t) PROVE TokensCurrent'
  <2>1. tokenMap[t] \in Device
    BY <1>1, <1>7 DEF Packet, TokenInv, TypeOK
  <2>2. QED
    BY <1>1, <1>7, <2>1, RefreshedTokens DEF Packet
<1>8. ASSUME NEW r \in removing, RemovePort(r) PROVE TokensCurrent'
  <2>1. r \in Removal
    BY <1>1, <1>8 DEF TokenInv, TypeOK
  <2>2. ASSUME NEW q \in removing PROVE \E s \in removing' : s.token = q.token
    <3>1. CASE q = r
      <4>1. [r EXCEPT !.step = "token"].token = r.token
        BY <2>1 DEF Removal
      <4>2. QED
        BY <1>8, <3>1, <4>1 DEF RemovePort
    <3>2. CASE q # r
      BY <1>8, <3>2 DEF RemovePort
    <3>3. QED
      BY <3>1, <3>2
  <2>3. QED
    BY <1>1, <1>8, <2>2 DEF RemovePort, TokenInv, TokensCurrent
<1>9. ASSUME NEW r \in removing, RemoveToken(r) PROVE TokensCurrent'
  <2>1. SUFFICES ASSUME NEW t \in Tokens, tokenMap'[t] # None
                PROVE  \/ leases'[tokenMap'[t]].token = t
                       \/ \E s \in removing' : s.token = t
    BY DEF TokensCurrent
  <2>2. r.token \in Tokens
    BY <1>1, <1>9 DEF TokenInv, TypeOK, Removal
  <2>3. t # r.token /\ tokenMap'[t] = tokenMap[t]
    BY <1>1, <1>9, <2>1, <2>2 DEF RemoveToken, TokenInv, TypeOK
  <2>4. \A s \in removing : s.token = t => s \in removing'
    BY <1>9, <2>3 DEF RemoveToken
  <2>5. QED
    BY <1>1, <1>9, <2>1, <2>3, <2>4 DEF RemoveToken, TokenInv, TokensCurrent
<1>10. CASE ReapRead
  BY <1>1, <1>10 DEF ReapRead, TokenInv, TokensCurrent
<1>11. CASE ReapNext
  <2>1. ASSUME NEW d \in todo, Taken(d, "reaper") PROVE TokensCurrent'
    <3>1. d \in Device
      BY <1>1, <2>1 DEF TokenInv, TypeOK
    <3>2. QED
      BY <1>1, <2>1, <3>1, TakenTokens
  <2>2. CASE UNCHANGED <<leases, portMap, tokenMap, removing>>
    BY <1>1, <2>2 DEF TokenInv, TokensCurrent
  <2>3. QED
    BY <1>11, <2>1, <2>2 DEF ReapNext
<1>12. CASE UNCHANGED vars
  BY <1>1, <1>12 DEF vars, TokenInv, TokensCurrent
<1>13. QED
  BY <1>1, <1>2, <1>3, <1>4, <1>5, <1>6, <1>7, <1>8, <1>9, <1>10, <1>11, <1>12
  DEF Next, Removes, Reaps

(* A token that opens something is its device's own current one, or the     *)
(* call that removes it has not reached it yet.                             *)
THEOREM TokensAreCurrent == Spec => []TokensCurrent
<1>1. TokenInv => TokensCurrent
  BY DEF TokenInv
<1>2. QED
  BY InitToken, NextToken, <1>1, PTL DEF Spec

-----------------------------------------------------------------------------
(* Ports. A removal frees its port in a step of its own: until then the     *)
(* port belongs to no lease and has no other removal, although its device   *)
(* may have registered again (lease.rs:124-134).                            *)

Freeing == {r \in removing : r.step = "port"}

PortsPending ==
  /\ \A r \in Freeing : /\ portMap[r.port] # None
                        /\ \A d \in Device : leases[d].port # r.port
  /\ \A r, s \in Freeing : r.port = s.port => r = s

PortInv == TypeOK /\ PortOwned /\ PortsPending

(* No port is taken at first.                                               *)
LEMMA InitPort == Init => PortInv
BY InitType DEF Init, PortInv, PortOwned, PortsPending, Freeing

(* What leaves the ports right: the maps of ports and of removals stay, and *)
(* every lease keeps its port.                                              *)
LEMMA PortsStay ==
  ASSUME PortInv, UNCHANGED <<portMap, removing>>,
         \A d \in Device : /\ leases[d] = NoLease <=> leases'[d] = NoLease
                           /\ leases'[d].port = leases[d].port
  PROVE  PortOwned' /\ PortsPending'
<1>1. \A p \in Ports : portMap[p] # None => portMap[p] \in Device
  BY DEF PortInv, TypeOK
<1>2. PortOwned'
  BY <1>1 DEF PortInv, PortOwned
<1>3. PortsPending'
  BY DEF PortInv, PortsPending, Freeing
<1>4. QED
  BY <1>2, <1>3

(* Marking a lease as fresh or stale leaves the ports alone.                *)
LEMMA FreshKeepsPort ==
  ASSUME PortInv, NEW d \in Device, NEW f \in BOOLEAN, leases[d] # NoLease,
         leases' = [leases EXCEPT ![d].fresh = f], UNCHANGED <<portMap, removing>>
  PROVE  PortOwned' /\ PortsPending'
<1>1. ASSUME NEW e \in Device
      PROVE  /\ leases[e] = NoLease <=> leases'[e] = NoLease
             /\ leases'[e].port = leases[e].port
  <2>1. CASE e = d
    <3>1. leases[d] \in Lease
      BY LeaseParts DEF PortInv
    <3>2. leases'[d] = [leases[d] EXCEPT !.fresh = f]
      BY DEF PortInv, TypeOK
    <3>3. leases'[d].port = leases[d].port /\ leases[d].port \in Ports
      BY <3>1, <3>2 DEF Lease
    <3>4. leases'[d] # NoLease
      BY <3>3 DEF NoLease, Ports
    <3>5. QED
      BY <2>1, <3>3, <3>4
  <2>2. CASE e # d
    BY <2>2 DEF PortInv, TypeOK
  <2>3. QED
    BY <2>1, <2>2
<1>2. QED
  BY <1>1, PortsStay

(* Renewing a lease does not change its port.                               *)
LEMMA RefreshedPorts ==
  ASSUME PortInv, NEW d \in Device, Refreshed(d), UNCHANGED <<portMap, removing>>
  PROVE  PortOwned' /\ PortsPending'
<1>1. CASE leases[d] = NoLease
  BY <1>1, PortsStay DEF Refreshed
<1>2. CASE leases[d] # NoLease
  BY <1>2, FreshKeepsPort DEF Refreshed
<1>3. QED
  BY <1>1, <1>2

(* No two devices have the same port.                                       *)
LEMMA PortsDiffer ==
  ASSUME PortInv, NEW d \in Device, NEW e \in Device, d # e, leases[d] # NoLease
  PROVE  leases[e].port # leases[d].port
<1>1. leases[d].port \in Ports /\ portMap[leases[d].port] = d
  BY LeaseParts DEF PortInv, PortOwned
<1>2. CASE leases[e] = NoLease
  BY <1>1, <1>2 DEF NoLease, Ports
<1>3. CASE leases[e] # NoLease
  BY <1>1, <1>3 DEF PortInv, PortOwned
<1>4. QED
  BY <1>2, <1>3

(* remove: the port of the lease that goes has one removal, which owns it.  *)
LEMMA TakenPorts ==
  ASSUME PortInv, NEW d \in Device, NEW who \in {"conn", "reaper"}, Taken(d, who)
  PROVE  PortOwned' /\ PortsPending'
<1> DEFINE q == [port |-> leases[d].port, token |-> leases[d].token, step |-> "port", by |-> who]
<1>1. /\ leases[d] # NoLease /\ removing' = removing \cup {q} /\ portMap' = portMap
      /\ leases' = [leases EXCEPT ![d] = NoLease]
  BY DEF Taken
<1>2. q.port = leases[d].port /\ q.step = "port"
  OBVIOUS
<1>3. leases[d].port \in Ports /\ portMap[leases[d].port] = d
  BY <1>1, LeaseParts DEF PortInv, PortOwned
<1>4. \A e \in Device : leases'[e] = IF e = d THEN NoLease ELSE leases[e]
  BY <1>1 DEF PortInv, TypeOK
<1>5. \A e \in Device : leases'[e].port # leases[d].port
  BY <1>1, <1>3, <1>4, PortsDiffer DEF NoLease, Ports
<1>6. \A r \in Freeing : r.port # leases[d].port
  BY DEF PortInv, PortsPending
<1>7. Freeing' = Freeing \cup {q}
  BY <1>1, <1>2 DEF Freeing
<1> HIDE DEF q
<1>8. PortOwned'
  <2>1. \A e \in Device : leases'[e] # NoLease => portMap'[leases'[e].port] = e
    BY <1>1, <1>4 DEF PortInv, PortOwned
  <2>2. ASSUME NEW p \in Ports, portMap[p] # None
        PROVE  \/ leases'[portMap[p]].port = p
               \/ \E r \in removing' : r.port = p /\ r.step = "port"
    <3>1. portMap[p] \in Device
      BY <2>2 DEF PortInv, TypeOK
    <3>2. CASE leases[portMap[p]].port = p /\ portMap[p] = d
      BY <1>1, <1>2, <3>2
    <3>3. CASE leases[portMap[p]].port = p /\ portMap[p] # d
      BY <1>4, <3>1, <3>3
    <3>4. CASE \E r \in removing : r.port = p /\ r.step = "port"
      BY <1>1, <3>4
    <3>5. QED
      BY <2>2, <3>2, <3>3, <3>4 DEF PortInv, PortOwned
  <2>3. QED
    BY <1>1, <2>1, <2>2 DEF PortOwned
<1>9. PortsPending'
  <2>1. ASSUME NEW r \in Freeing'
        PROVE  portMap'[r.port] # None /\ \A e \in Device : leases'[e].port # r.port
    <3>1. CASE r = q
      BY <1>1, <1>2, <1>3, <1>5, <3>1
    <3>2. CASE r \in Freeing
      <4>1. portMap[r.port] # None /\ \A e \in Device : leases[e].port # r.port
        BY <3>2 DEF PortInv, PortsPending
      <4>2. r.port \in Ports
        BY <3>2 DEF Freeing, PortInv, TypeOK, Removal
      <4>3. QED
        BY <1>1, <1>4, <4>1, <4>2 DEF NoLease, Ports
    <3>3. QED
      BY <1>7, <2>1, <3>1, <3>2
  <2>2. \A r, s \in Freeing' : r.port = s.port => r = s
    BY <1>2, <1>6, <1>7 DEF PortInv, PortsPending
  <2>3. QED
    BY <2>1, <2>2 DEF PortsPending
<1>10. QED
  BY <1>8, <1>9

(* alloc: a new lease gets a port that portMap gives to nobody, hence that  *)
(* no lease and no removal has.                                             *)
LEMMA AllocPorts ==
  ASSUME PortInv, NEW d \in Device, Alloc(d)
  PROVE  PortOwned' /\ PortsPending'
<1>1. removing' = removing
  BY DEF Alloc
<1>2. CASE AllocAgain(d)
  <2>1. ASSUME NEW e \in Device
        PROVE  /\ leases[e] = NoLease <=> leases'[e] = NoLease
               /\ leases'[e].port = leases[e].port
    <3>1. leases[d].port \in Ports
      BY <1>2, LeaseParts DEF AllocAgain, PortInv
    <3>2. CASE e = d
      <4>1. leases'[d] = [port |-> leases[d].port, token |-> issued', fresh |-> TRUE]
        BY <1>2 DEF AllocAgain, PortInv, TypeOK
      <4>2. leases'[d] # NoLease /\ leases[d] # NoLease
        BY <1>2, <3>1, <4>1 DEF AllocAgain, NoLease, Ports
      <4>3. QED
        BY <3>2, <4>1, <4>2
    <3>3. CASE e # d
      BY <1>2, <3>3 DEF AllocAgain, PortInv, TypeOK
    <3>4. QED
      BY <3>2, <3>3
  <2>2. QED
    BY <1>1, <1>2, <2>1, PortsStay DEF AllocAgain
<1>3. CASE AllocNew(d)
  <2> DEFINE p == Min(Free)
  <2>1. p \in Ports /\ portMap[p] = None
    BY <1>3, FreePort DEF AllocNew
  <2>2. /\ leases[d] = NoLease
        /\ leases' = [leases EXCEPT ![d] = [port |-> p, token |-> issued', fresh |-> TRUE]]
        /\ portMap' = [portMap EXCEPT ![p] = d]
    BY <1>3 DEF AllocNew
  <2> HIDE DEF p
  <2>3. /\ leases'[d].port = p
        /\ \A e \in Device \ {d} : leases'[e] = leases[e]
        /\ portMap'[p] = d
        /\ \A o \in Ports \ {p} : portMap'[o] = portMap[o]
    BY <2>1, <2>2 DEF PortInv, TypeOK
  <2>4. ASSUME NEW e \in Device, leases[e] # NoLease
        PROVE  e # d /\ leases[e].port \in Ports \ {p} /\ portMap[leases[e].port] = e
    <3>1. leases[e].port \in Ports /\ portMap[leases[e].port] = e
      BY <2>4, LeaseParts DEF PortInv, PortOwned
    <3>2. QED
      BY <2>1, <2>2, <2>4, <3>1
  <2>5. PortOwned'
    <3>1. ASSUME NEW e \in Device, leases'[e] # NoLease PROVE portMap'[leases'[e].port] = e
      BY <2>3, <2>4, <3>1
    <3>2. ASSUME NEW o \in Ports, portMap'[o] # None
          PROVE  \/ leases'[portMap'[o]].port = o
                 \/ \E r \in removing' : r.port = o /\ r.step = "port"
      <4>1. CASE o = p
        BY <2>3, <4>1
      <4>2. CASE o # p
        <5>1. portMap'[o] = portMap[o] /\ portMap[o] \in Device
          BY <2>3, <3>2, <4>2 DEF PortInv, TypeOK
        <5>2. CASE leases[portMap[o]].port = o
          <6>1. portMap[o] # d
            BY <2>2, <5>2 DEF NoLease, Ports
          <6>2. QED
            BY <2>3, <5>1, <5>2, <6>1
        <5>3. CASE \E r \in removing : r.port = o /\ r.step = "port"
          BY <1>1, <5>3
        <5>4. QED
          BY <3>2, <5>1, <5>2, <5>3 DEF PortInv, PortOwned
      <4>3. QED
        BY <4>1, <4>2
    <3>3. QED
      BY <3>1, <3>2 DEF PortOwned
  <2>6. PortsPending'
    <3>1. Freeing' = Freeing
      BY <1>1 DEF Freeing
    <3>2. ASSUME NEW r \in Freeing
          PROVE  portMap'[r.port] # None /\ \A e \in Device : leases'[e].port # r.port
      <4>1. /\ r.port \in Ports /\ portMap[r.port] # None
            /\ \A e \in Device : leases[e].port # r.port
        BY DEF Freeing, PortInv, PortsPending, TypeOK, Removal
      <4>2. r.port # p
        BY <2>1, <4>1
      <4>3. QED
        BY <2>3, <4>1, <4>2
    <3>3. QED
      BY <3>1, <3>2 DEF PortsPending, PortInv
  <2>7. QED
    BY <2>5, <2>6
<1>4. QED
  BY <1>2, <1>3 DEF Alloc

(* The port's own section of remove: nobody else has the port it frees.     *)
LEMMA RemovePortPorts ==
  ASSUME PortInv, NEW r \in removing, RemovePort(r)
  PROVE  PortOwned' /\ PortsPending'
<1> DEFINE q == [r EXCEPT !.step = "token"]
<1>1. r \in Freeing /\ r.port \in Ports /\ r \in Removal
  BY DEF RemovePort, Freeing, PortInv, TypeOK, Removal
<1>2. q.step = "token"
  BY <1>1 DEF Removal
<1>3. /\ removing' = (removing \ {r}) \cup {q}
      /\ portMap' = [portMap EXCEPT ![r.port] = None] /\ leases' = leases
  BY DEF RemovePort
<1> HIDE DEF q
<1>4. /\ portMap'[r.port] = None
      /\ \A o \in Ports \ {r.port} : portMap'[o] = portMap[o]
  BY <1>1, <1>3 DEF PortInv, TypeOK
<1>5. Freeing' = Freeing \ {r}
  BY <1>1, <1>2, <1>3 DEF Freeing
<1>6. PortOwned'
  <2>1. ASSUME NEW e \in Device, leases[e] # NoLease PROVE portMap'[leases[e].port] = e
    <3>1. leases[e].port \in Ports \ {r.port} /\ portMap[leases[e].port] = e
      BY <1>1, <2>1, LeaseParts DEF PortInv, PortOwned, PortsPending
    <3>2. QED
      BY <1>4, <3>1
  <2>2. ASSUME NEW o \in Ports, portMap'[o] # None
        PROVE  \/ leases[portMap'[o]].port = o
               \/ \E s \in removing' : s.port = o /\ s.step = "port"
    <3>1. o # r.port /\ portMap'[o] = portMap[o]
      BY <1>4, <2>2
    <3>2. CASE \E s \in removing : s.port = o /\ s.step = "port"
      BY <1>3, <3>1, <3>2
    <3>3. QED
      BY <2>2, <3>1, <3>2 DEF PortInv, PortOwned
  <2>3. QED
    BY <1>3, <2>1, <2>2 DEF PortOwned
<1>7. PortsPending'
  <2>1. ASSUME NEW s \in Freeing'
        PROVE  portMap'[s.port] # None /\ \A e \in Device : leases'[e].port # s.port
    <3>1. s \in Freeing /\ s # r
      BY <1>5, <2>1
    <3>2. s.port # r.port /\ s.port \in Ports
      BY <1>1, <3>1 DEF PortInv, PortsPending, Freeing, TypeOK, Removal
    <3>3. QED
      BY <1>3, <1>4, <3>1, <3>2 DEF PortInv, PortsPending
  <2>2. \A s, t \in Freeing' : s.port = t.port => s = t
    BY <1>5 DEF PortInv, PortsPending
  <2>3. QED
    BY <2>1, <2>2 DEF PortsPending
<1>8. QED
  BY <1>6, <1>7

(* Every step keeps the ports owned or on their way back.                   *)
LEMMA NextPort == PortInv /\ [Next]_vars => PortInv'
<1>1. SUFFICES ASSUME PortInv, [Next]_vars PROVE PortOwned' /\ PortsPending'
  BY NextType DEF PortInv
<1>2. ASSUME NEW d \in Device, Alloc(d) PROVE PortOwned' /\ PortsPending'
  BY <1>1, <1>2, AllocPorts
<1>3. ASSUME NEW d \in Device, Remove(d) PROVE PortOwned' /\ PortsPending'
  BY <1>1, <1>3, TakenPorts DEF Remove
<1>4. ASSUME NEW d \in Device, Heartbeat(d) PROVE PortOwned' /\ PortsPending'
  BY <1>1, <1>4, RefreshedPorts DEF Heartbeat
<1>5. ASSUME NEW d \in Device, Ages(d) PROVE PortOwned' /\ PortsPending'
  <2>1. leases[d] # NoLease /\ leases' = [leases EXCEPT ![d].fresh = FALSE]
        /\ UNCHANGED <<portMap, removing>>
    BY <1>5 DEF Ages, NoLease
  <2>2. QED
    BY <1>1, <2>1, FreshKeepsPort
<1>6. ASSUME NEW d \in Device, PowerLost(d) PROVE PortOwned' /\ PortsPending'
  BY <1>1, <1>6, PortsStay DEF PowerLost
<1>7. ASSUME NEW t \in Tokens, Packet(t) PROVE PortOwned' /\ PortsPending'
  <2>1. tokenMap[t] \in Device
    BY <1>1, <1>7 DEF Packet, PortInv, TypeOK
  <2>2. QED
    BY <1>1, <1>7, <2>1, RefreshedPorts DEF Packet
<1>8. ASSUME NEW r \in removing, RemovePort(r) PROVE PortOwned' /\ PortsPending'
  BY <1>1, <1>8, RemovePortPorts
<1>9. ASSUME NEW r \in removing, RemoveToken(r) PROVE PortOwned' /\ PortsPending'
  <2>1. Freeing' = Freeing
    BY <1>9 DEF RemoveToken, Freeing
  <2>2. QED
    BY <1>1, <1>9, <2>1 DEF RemoveToken, PortInv, PortOwned, PortsPending
<1>10. CASE ReapRead
  BY <1>1, <1>10, PortsStay DEF ReapRead
<1>11. CASE ReapNext
  <2>1. ASSUME NEW d \in todo, Taken(d, "reaper") PROVE PortOwned' /\ PortsPending'
    <3>1. d \in Device
      BY <1>1, <2>1 DEF PortInv, TypeOK
    <3>2. QED
      BY <1>1, <2>1, <3>1, TakenPorts
  <2>2. CASE UNCHANGED <<leases, portMap, tokenMap, removing>>
    BY <1>1, <2>2, PortsStay
  <2>3. QED
    BY <1>11, <2>1, <2>2 DEF ReapNext
<1>12. CASE UNCHANGED vars
  BY <1>1, <1>12, PortsStay DEF vars
<1>13. QED
  BY <1>1, <1>2, <1>3, <1>4, <1>5, <1>6, <1>7, <1>8, <1>9, <1>10, <1>11, <1>12
  DEF Next, Removes, Reaps

(* No port of the pool is given to two leases and none is lost: whose       *)
(* portMap says it is has it, or is about to give it back.                  *)
THEOREM PortsAreOwned == Spec => []PortOwned
<1>1. PortInv => PortOwned
  BY DEF PortInv
<1>2. QED
  BY InitPort, NextPort, <1>1, PTL DEF Spec
===============================================================================

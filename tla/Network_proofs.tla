---------------------------- MODULE Network_proofs ----------------------------
(***************************************************************************)
(* Proofs about finding devices and staying in touch: the loops that       *)
(* reconnect (Reconnect), the relay's session ports (RelaySession),        *)
(* discovery, its nonce window and the list of devices, and the channels   *)
(* to a peer (Routing), for any number of devices, addresses, ports,       *)
(* connections, failures, packets, probes and sessions.                    *)
(***************************************************************************)
EXTENDS Reconnect, RelaySession, Contact, SequenceTheorems, WellFoundedInduction, FiniteSetTheorems, TLAPS

-----------------------------------------------------------------------------
(* Reconnection. A SessionDown that the pump has not read.                  *)
DownQueued == \E i \in 1 .. Len(events) : events[i] = "down"

(* A device that wants a session has a loop, or something is still to come  *)
(* that makes the pump look at it - or its SessionDown was swallowed.       *)
Attended ==
  Wanted => \/ pc \in {"check", "sleep", "trying"} \/ swallowed
            \/ starting \/ pump = "schedule"
            \/ live # {} \/ down # {} \/ DownQueued

(* A loop that may try has not failed too often, and one that gave up has   *)
(* seen the device since, unless it has seen it vanish.                     *)
Paced ==
  /\ pc = "sleep"  => gaveUp \/ fails < MaxFails
  /\ pc = "trying" => ~absent /\ fails < MaxFails
  /\ pc \in {"check", "sleep"} /\ gaveUp /\ absent => vanished
  /\ pc = "check" /\ fails >= MaxFails /\ ~gaveUp => ~absent

BInv ==
  /\ TypeOK /\ Attended /\ Paced
  /\ table \in live \cup {0}
  /\ reg <=> pc # "none"

(* The channel: what is appended stays, what is read is the head.           *)
LEMMA Queued ==
  ASSUME TypeOK
  PROVE  /\ \A s \in Seq({"up", "down", "paired", "broken"}) :
              /\ events' = events \o s => (DownQueued => DownQueued')
         /\ \A e \in {"up", "down", "paired", "broken"} : events' = Append(events, e) =>
              /\ DownQueued => DownQueued'
              /\ e = "down" => DownQueued'
              /\ events' \in Seq({"up", "down", "paired", "broken"})
         /\ events # <<>> /\ events' = Tail(events) =>
              /\ DownQueued => DownQueued' \/ Head(events) = "down"
              /\ events' \in Seq({"up", "down", "paired", "broken"})
<1> DEFINE E == {"up", "down", "paired", "broken"}
<1>0. events \in Seq(E) /\ Len(events) \in Nat
  BY DEF TypeOK
<1>1. ASSUME NEW s \in Seq(E), events' = events \o s, DownQueued PROVE DownQueued'
  <2>1. PICK i \in 1 .. Len(events) : events[i] = "down"
    BY <1>1 DEF DownQueued
  <2>2. i \in 1 .. Len(events') /\ events'[i] = "down"
    BY <1>0, <1>1, <2>1
  <2> QED
    BY <2>2 DEF DownQueued
<1>2. ASSUME NEW e \in E, events' = Append(events, e)
      PROVE  (DownQueued => DownQueued') /\ (e = "down" => DownQueued') /\ events' \in Seq(E)
  <2>1. /\ Len(events') = Len(events) + 1 /\ events'[Len(events) + 1] = e /\ events' \in Seq(E)
        /\ \A i \in 1 .. Len(events) : events'[i] = events[i]
    BY <1>0, <1>2
  <2> QED
    BY <1>0, <2>1 DEF DownQueued
<1>3. ASSUME events # <<>>, events' = Tail(events)
      PROVE  (DownQueued => DownQueued' \/ Head(events) = "down") /\ events' \in Seq(E)
  <2>1. /\ Len(events') = Len(events) - 1 /\ events' \in Seq(E) /\ Head(events) = events[1]
        /\ \A i \in 1 .. Len(events) : i = 1 \/ (i - 1 \in 1 .. Len(events') /\ events'[i - 1] = events[i])
    BY <1>0, <1>3
  <2> QED
    BY <2>1 DEF DownQueued
<1> QED
  BY <1>1, <1>2, <1>3

LEMMA BackoffBegins == ConstantsOK /\ Init => BInv
<1> SUFFICES ASSUME ConstantsOK, Init PROVE BInv
  OBVIOUS
<1>1. TypeOK
  <2>1. events \in Seq({"up", "down", "paired", "broken"})
    BY DEF Init
  <2>2. 0 \in 0 .. MaxConns /\ 0 \in 0 .. MaxFails /\ -1 \in -1 .. MaxHeals - 1
    BY DEF ConstantsOK
  <2> QED
    BY <2>1, <2>2 DEF Init, TypeOK
<1>2. Attended /\ Paced
  BY DEF Init, Attended, Paced
<1> QED
  BY <1>1, <1>2 DEF Init, BInv

(* A connection is made, by whomever.                                       *)
LEMMA OpensStep ==
  ASSUME ConstantsOK, BInv, Opens
  PROVE  /\ table' \in 0 .. MaxConns /\ made' \in 0 .. MaxConns /\ table' \in live'
         /\ live' \subseteq 1 .. made' /\ up' \subseteq 1 .. made' /\ down' \subseteq 1 .. made'
<1> USE DEF ConstantsOK
<1>1. made \in Nat /\ made < MaxConns /\ made' = made + 1 /\ table' = made + 1 /\ down' = down
      /\ live' = live \cup {made + 1} /\ up' \in {up, up \cup {made + 1}}
  BY DEF Opens, BInv, TypeOK
<1>2. 1 .. made \subseteq 1 .. made' /\ made + 1 \in 1 .. made'
  BY <1>1
<1> QED
  BY <1>1, <1>2 DEF BInv, TypeOK

LEMMA ConnectsStep ==
  ASSUME ConstantsOK, BInv, PeerConnects \/ TryOk \/ HealOk \/ Connect
  PROVE  BInv'
<1> USE DEF ConstantsOK
<1>1. \/ Opens
      \/ UNCHANGED <<table, made, live, up, down>> /\ pc' = pc
  BY DEF PeerConnects, TryOk, HealOk, Connect, sess, loop
<1>2. /\ UNCHANGED <<events, pump, badge, starting, removal, swallowed, trusted, remembered, seen,
                     reg, fails, gaveUp, absent, vanished>>
      /\ pc' = pc \/ (pc = "trying" /\ pc' = "opened")
      /\ cmd' \in {"no", "made"} /\ healing' \in {-1, healing}
  BY DEF PeerConnects, TryOk, HealOk, Connect, shell, known, loop, BInv, TypeOK
<1>3. TypeOK'
  <2>1. healing' \in -1 .. MaxHeals - 1
    BY <1>2 DEF BInv, TypeOK
  <2>2. CASE Opens
    BY <1>2, <2>1, <2>2, OpensStep DEF BInv, TypeOK
  <2>3. CASE UNCHANGED <<table, made, live, up, down>>
    BY <1>2, <2>1, <2>3 DEF BInv, TypeOK
  <2> QED
    BY <1>1, <2>2, <2>3
<1>4. table' \in live' \cup {0} /\ (reg' <=> pc' # "none")
  BY <1>1, <1>2, OpensStep DEF BInv
<1>5. Attended'
  <2>1. CASE Opens
    BY <2>1, OpensStep DEF Attended
  <2>2. CASE UNCHANGED <<table, made, live, up, down>> /\ pc' = pc
    BY <1>2, <2>2 DEF BInv, Attended, Wanted, DownQueued
  <2> QED
    BY <1>1, <2>1, <2>2
<1>6. Paced'
  BY <1>2 DEF BInv, Paced
<1> QED
  BY <1>3, <1>4, <1>5, <1>6 DEF BInv

(* A connection ends: as the one in the table with a SessionDown to come,   *)
(* as another one while the one in the table lives.                         *)
LEMMA EndsStep ==
  ASSUME ConstantsOK, BInv, NEW c \in Conns, Dies(c) \/ TrustBroken(c)
  PROVE  BInv'
<1> USE DEF ConstantsOK
<1>1. /\ c \in live /\ live' = live \ {c}
      /\ \/ table' = 0 /\ down' = down \cup {c}
         \/ table \notin {c, 0} /\ table' = table /\ down' = down
  BY DEF Dies, TrustBroken, Ends
<1>2. /\ UNCHANGED <<made, up, pump, badge, starting, cmd, removal, swallowed, remembered, seen, reg,
                     pc, fails, gaveUp, absent, vanished, healing>>
      /\ \/ trusted' = FALSE /\ events' = Append(events, "broken")
         \/ trusted' = trusted /\ events' = events
  BY DEF Dies, TrustBroken, shell, known, loop, Send
<1>3. events' \in Seq({"up", "down", "paired", "broken"})
  BY <1>2, Queued DEF BInv, TypeOK
<1>4. c \in 1 .. made
  BY <1>1 DEF BInv, TypeOK
<1>5. TypeOK'
  <2>1. table' \in 0 .. MaxConns /\ live' \subseteq 1 .. made /\ down' \subseteq 1 .. made
    <3>1. /\ table \in 0 .. MaxConns /\ 0 \in 0 .. MaxConns
          /\ live \subseteq 1 .. made /\ down \subseteq 1 .. made
      BY DEF BInv, TypeOK
    <3> QED
      BY <1>1, <1>4, <3>1
  <2>2. trusted' \in BOOLEAN
    BY <1>2 DEF BInv, TypeOK
  <2> QED
    BY <1>2, <1>3, <2>1, <2>2 DEF BInv, TypeOK
<1>6. Attended'
  BY <1>1 DEF BInv, Attended
<1>7. Paced' /\ table' \in live' \cup {0} /\ (reg' <=> pc' # "none")
  BY <1>1, <1>2 DEF BInv, Paced
<1> QED
  BY <1>5, <1>6, <1>7 DEF BInv

(* The session events on their way.                                         *)
LEMMA SentStep ==
  ASSUME ConstantsOK, BInv, NEW c \in Conns, UpSent(c) \/ DownSent(c) \/ Paired(c)
  PROVE  BInv'
<1> USE DEF ConstantsOK
<1>1. /\ UNCHANGED <<table, made, live, pump, badge, starting, cmd, removal, swallowed, remembered,
                     seen, reg, pc, fails, gaveUp, absent, vanished, healing>>
      /\ up' \subseteq up /\ down' \subseteq down
  BY DEF UpSent, DownSent, Paired, sess, known, loop
<1>2. /\ events' \in Seq({"up", "down", "paired", "broken"})
      /\ DownQueued => DownQueued'
      /\ trusted' \in BOOLEAN
      /\ down' = down \/ DownQueued'
      /\ trusted' = trusted \/ live # {}
  <2>1. CASE UpSent(c)
    BY <2>1, Queued DEF UpSent, BInv, Send, known, TypeOK
  <2>2. CASE DownSent(c)
    BY <2>2, Queued DEF DownSent, BInv, Send, known, TypeOK
  <2>3. CASE Paired(c)
    <3>1. <<"up", "paired">> \in Seq({"up", "down", "paired", "broken"})
      OBVIOUS
    <3>2. events' = events \o <<"up", "paired">>
      BY <2>3 DEF Paired
    <3>3. events' \in Seq({"up", "down", "paired", "broken"})
      BY <3>1, <3>2 DEF BInv, TypeOK
    <3>4. DownQueued => DownQueued'
      BY <3>1, <3>2, Queued DEF BInv
    <3> QED
      BY <2>3, <3>3, <3>4 DEF Paired, sess
  <2> QED
    BY <2>1, <2>2, <2>3
<1>3. TypeOK'
  BY <1>1, <1>2 DEF BInv, TypeOK
<1>4. Attended'
  BY <1>1, <1>2 DEF BInv, Attended, Wanted
<1>5. Paced' /\ table' \in live' \cup {0} /\ (reg' <=> pc' # "none")
  BY <1>1 DEF BInv, Paced
<1> QED
  BY <1>3, <1>4, <1>5 DEF BInv

(* The pump reads them.                                                     *)
LEMMA PumpStep ==
  ASSUME ConstantsOK, BInv, PumpUp \/ PumpPaired \/ PumpBroken \/ PumpDown
  PROVE  BInv'
<1> USE DEF ConstantsOK
<1>1. /\ UNCHANGED <<table, made, live, up, down, starting, cmd, removal, swallowed, trusted, seen,
                     reg, pc, fails, gaveUp, absent, vanished>>
      /\ events # <<>> /\ events' = Tail(events)
      /\ badge' \in BOOLEAN /\ remembered' \in BOOLEAN /\ healing' \in {healing, 0}
      /\ \/ Head(events) # "down" /\ pump' = pump /\ (badge' \/ ~remembered')
         \/ pump' = "schedule"
  <2>1. CASE PumpUp
    BY <2>1 DEF PumpUp, sess, known, loop, BInv, TypeOK
  <2>2. CASE PumpPaired
    BY <2>2 DEF PumpPaired, sess, loop, BInv, TypeOK
  <2>3. CASE PumpBroken
    BY <2>3 DEF PumpBroken, sess, loop, BInv, TypeOK
  <2>4. CASE PumpDown
    BY <2>4 DEF PumpDown, sess, known, loop, BInv, TypeOK
  <2> QED
    BY <2>1, <2>2, <2>3, <2>4
<1>2. events' \in Seq({"up", "down", "paired", "broken"})
  BY <1>1, Queued DEF BInv
<1>3. TypeOK'
  BY <1>1, <1>2 DEF BInv, TypeOK
<1>4. Attended'
  BY <1>1 DEF Attended, Wanted
<1>5. Paced' /\ table' \in live' \cup {0} /\ (reg' <=> pc' # "none")
  BY <1>1 DEF BInv, Paced
<1> QED
  BY <1>3, <1>4, <1>5 DEF BInv

(* The registry is asked for a loop: there is one that will look again, or  *)
(* one is started, or the one there is about to leave.                      *)
LEMMA ScheduleStep ==
  ASSUME ConstantsOK, BInv, PumpSchedule \/ StartupScan
  PROVE  BInv'
<1> USE DEF ConstantsOK
<1>1. /\ UNCHANGED <<table, made, live, up, down, events, badge, cmd, removal, trusted, remembered,
                     seen, healing>>
      /\ pump' \in {"idle", "schedule"} /\ starting' \in BOOLEAN
      /\ Schedule
  BY DEF PumpSchedule, StartupScan, sess, known, BInv, TypeOK
<1>2. CASE Wanted /\ ~reg
  <2>1. /\ reg' = TRUE /\ pc' = "check" /\ fails' = 0 /\ gaveUp' = FALSE /\ absent' = TRUE
        /\ vanished' = FALSE /\ swallowed' = FALSE
    BY <1>1, <1>2 DEF Schedule
  <2>2. TypeOK'
    <3>1. /\ pc' \in {"none", "check", "sleep", "trying", "opened", "ending"} /\ fails' \in 0 .. MaxFails
          /\ reg' \in BOOLEAN /\ gaveUp' \in BOOLEAN /\ absent' \in BOOLEAN
          /\ swallowed' \in BOOLEAN /\ vanished' \in BOOLEAN
      <4>1. 0 \in 0 .. MaxFails
        OBVIOUS
      <4> QED
        BY <2>1, <4>1
    <3> QED
      BY <1>1, <3>1 DEF BInv, TypeOK
  <2> QED
    BY <1>1, <2>1, <2>2 DEF BInv, Attended, Paced
<1>3. CASE ~(Wanted /\ ~reg)
  <2>1. /\ swallowed' = (swallowed \/ (Wanted /\ pc \in {"opened", "ending"}))
        /\ UNCHANGED <<reg, pc, fails, gaveUp, absent, vanished>>
    BY <1>1, <1>3 DEF Schedule, loop
  <2>2. TypeOK'
    BY <1>1, <2>1 DEF BInv, TypeOK
  <2>3. Wanted => pc \in {"check", "sleep", "trying", "opened", "ending"}
    BY <1>3 DEF BInv, TypeOK
  <2>4. Attended'
    BY <1>1, <2>1, <2>3 DEF Attended, Wanted
  <2> QED
    BY <1>1, <2>1, <2>2, <2>4 DEF BInv, Paced
<1> QED
  BY <1>2, <1>3

(* The commands and the announcements.                                      *)
LEMMA CommandsStep ==
  ASSUME ConstantsOK, BInv,
         ConnectDone \/ RemoveTrust \/ RemoveMemory \/ RemoveSession \/ Discovery \/ HealFails
  PROVE  BInv'
<1> USE DEF ConstantsOK
<1>1. /\ UNCHANGED <<made, live, up, down, events, pump, starting, swallowed, reg, pc, fails, gaveUp,
                     absent, vanished>>
      /\ table' \in {0, table}
      /\ Wanted' => Wanted
      /\ badge' \in BOOLEAN /\ trusted' \in BOOLEAN /\ remembered' \in BOOLEAN /\ seen' \in BOOLEAN
      /\ cmd' \in {"no", "made"} /\ removal' \in {"no", "memory", "disconnect"}
      /\ healing' \in -1 .. MaxHeals - 1
  <2>0. /\ healing \in -1 .. MaxHeals - 1
        /\ badge \in BOOLEAN /\ trusted \in BOOLEAN /\ remembered \in BOOLEAN /\ seen \in BOOLEAN
        /\ cmd \in {"no", "made"} /\ removal \in {"no", "memory", "disconnect"}
    BY DEF BInv, TypeOK
  <2>1. CASE ConnectDone
    BY <2>0, <2>1 DEF ConnectDone, sess, loop, Wanted
  <2>2. CASE RemoveTrust
    BY <2>0, <2>2 DEF RemoveTrust, sess, loop, Wanted
  <2>3. CASE RemoveMemory
    BY <2>0, <2>3 DEF RemoveMemory, sess, loop, Wanted
  <2>4. CASE RemoveSession
    BY <2>0, <2>4 DEF RemoveSession, known, loop, Wanted
  <2>5. CASE Discovery
    BY <2>0, <2>5 DEF Discovery, sess, shell, loop, Wanted
  <2>6. CASE HealFails
    BY <2>0, <2>6 DEF HealFails, sess, shell, known, loop, Wanted
  <2> QED
    BY <2>1, <2>2, <2>3, <2>4, <2>5, <2>6
<1>2. TypeOK'
  BY <1>1 DEF BInv, TypeOK
<1>3. Attended'
  BY <1>1 DEF BInv, Attended, DownQueued
<1>4. Paced' /\ table' \in live' \cup {0} /\ (reg' <=> pc' # "none")
  BY <1>1 DEF BInv, Paced
<1> QED
  BY <1>2, <1>3, <1>4 DEF BInv

(* The loop itself.                                                         *)
LEMMA LoopStep ==
  ASSUME ConstantsOK, BInv, LoopCheck \/ LoopWakes \/ TryReturns \/ TryFails \/ LoopLeaves
  PROVE  BInv'
<1> USE DEF ConstantsOK
<1>1. UNCHANGED <<table, made, live, up, down, events, pump, badge, starting, cmd, removal, swallowed,
                  trusted, remembered, seen, healing>>
  BY DEF LoopCheck, LoopWakes, TryReturns, TryFails, LoopLeaves, sess, shell, known
<1>2. /\ gaveUp \in BOOLEAN /\ absent \in BOOLEAN /\ vanished \in BOOLEAN
      /\ seen \in BOOLEAN /\ badge \in BOOLEAN /\ reg \in BOOLEAN
      /\ fails \in 0 .. MaxFails
  BY DEF BInv, TypeOK
<1>3. /\ pc' \in {"none", "check", "sleep", "trying", "opened", "ending"}
      /\ gaveUp' \in BOOLEAN /\ absent' \in BOOLEAN /\ vanished' \in BOOLEAN /\ reg' \in BOOLEAN
      /\ fails' \in 0 .. MaxFails
      /\ reg' <=> pc' # "none"
      /\ pc' \in {"check", "sleep", "trying"} \/ ~Wanted \/ (pc' = pc \/ pc \in {"opened", "ending"})
      /\ Paced'
  <2>1. CASE LoopCheck
    <3>1. CASE Over
      <4>1. /\ pc = "check" /\ pc' = "ending" /\ ~Wanted /\ reg
            /\ UNCHANGED <<gaveUp, vanished, absent, fails, reg>>
        BY <2>1, <3>1 DEF LoopCheck, Over, Wanted, BInv
      <4> QED
        BY <1>2, <4>1 DEF Paced
    <3>2. CASE ~Over
      <4>1. /\ pc = "check" /\ pc' = "sleep" /\ reg
            /\ gaveUp' = (gaveUp \/ fails >= MaxFails) /\ vanished' = (vanished /\ gaveUp)
            /\ UNCHANGED <<absent, fails, reg>>
        BY <2>1, <3>2 DEF LoopCheck, BInv
      <4>2. gaveUp' \in BOOLEAN /\ vanished' \in BOOLEAN
        BY <4>1
      <4>3. Paced'
        <5>1. fails \in Int /\ MaxFails \in Int /\ (fails >= MaxFails \/ fails < MaxFails)
          BY <1>2
        <5>2. /\ gaveUp /\ absent => vanished
              /\ fails >= MaxFails /\ ~gaveUp => ~absent
          BY <4>1 DEF BInv, Paced
        <5> QED
          BY <1>2, <4>1, <5>1, <5>2 DEF Paced
      <4> QED
        BY <1>2, <4>1, <4>2, <4>3
    <3> QED
      BY <3>1, <3>2
  <2>2. CASE LoopWakes
    <3>0. /\ pc = "sleep" /\ reg /\ reg' = reg /\ UNCHANGED <<seen, badge>>
          /\ absent' = (IF badge THEN absent ELSE ~seen) /\ vanished' = (vanished \/ ~seen)
      BY <2>2 DEF LoopWakes, Sampled, known, shell, BInv
    <3>1. absent' \in BOOLEAN /\ vanished' \in BOOLEAN
      BY <1>2, <3>0
    <3>2. CASE badge /\ pc' = "ending" /\ UNCHANGED <<fails, gaveUp>>
      BY <1>2, <3>0, <3>1, <3>2 DEF Wanted, Paced
    <3>3. CASE ~badge /\ Idle /\ pc' = "check" /\ UNCHANGED <<fails, gaveUp>>
      BY <1>2, <3>0, <3>1, <3>3 DEF BInv, Paced
    <3>4. CASE /\ ~badge /\ ~Idle /\ pc' = "trying"
               /\ fails' = (IF Rearm THEN 0 ELSE fails) /\ gaveUp' = (gaveUp /\ ~Rearm)
      <4>1. seen /\ (~gaveUp \/ Rearm)
        BY <3>4 DEF Idle
      <4>2. fails' \in 0 .. MaxFails /\ fails' < MaxFails /\ gaveUp' \in BOOLEAN /\ ~absent'
        BY <1>2, <3>0, <3>4, <4>1 DEF BInv, Paced
      <4> QED
        BY <3>0, <3>1, <3>4, <4>2 DEF Paced
    <3> QED
      BY <2>2, <3>2, <3>3, <3>4 DEF LoopWakes
  <2>3. CASE TryReturns
    BY <1>2, <2>3 DEF TryReturns, BInv, Paced
  <2>4. CASE TryFails
    BY <1>2, <2>4 DEF TryFails, BInv, Paced
  <2>5. CASE LoopLeaves
    BY <1>2, <2>5 DEF LoopLeaves, BInv, Paced
  <2> QED
    BY <2>1, <2>2, <2>3, <2>4, <2>5
<1>4. TypeOK'
  BY <1>1, <1>3 DEF BInv, TypeOK
<1>5. Attended'
  BY <1>1, <1>3 DEF BInv, Attended, Wanted, DownQueued
<1> QED
  BY <1>1, <1>3, <1>4, <1>5 DEF BInv

LEMMA BackoffStep == ConstantsOK /\ BInv /\ [Next]_vars => BInv'
<1> SUFFICES ASSUME ConstantsOK, BInv, [Next]_vars PROVE BInv'
  OBVIOUS
<1>1. ASSUME NEW c \in Conns, UpSent(c) \/ Dies(c) \/ DownSent(c) \/ Paired(c) \/ TrustBroken(c)
      PROVE  BInv'
  BY <1>1, SentStep, EndsStep
<1>2. CASE PeerConnects \/ TryOk \/ HealOk \/ Connect
  BY <1>2, ConnectsStep
<1>3. CASE Pumps \/ StartupScan
  BY <1>3, PumpStep, ScheduleStep DEF Pumps
<1>4. CASE Loops
  BY <1>2, <1>4, LoopStep DEF Loops
<1>5. CASE ConnectDone \/ RemoveTrust \/ RemoveMemory \/ RemoveSession \/ Discovery \/ HealFails
  BY <1>5, CommandsStep
<1>6. CASE UNCHANGED vars
  BY <1>6 DEF vars, sess, shell, known, loop, BInv, TypeOK, Attended, Wanted, DownQueued, Paced
<1> QED
  BY <1>1, <1>2, <1>3, <1>4, <1>5, <1>6 DEF Next

(* A remembered, trusted device that lost its session is watched by a loop  *)
(* whatever ended the session and whatever ran meanwhile, except the one    *)
(* whose SessionDown came while its loop was leaving (reconnect.rs:187).    *)
THEOREM AlwaysWatched ==
  ASSUME ConstantsOK
  PROVE  Spec => []Watched
<1>1. Init => BInv
  BY BackoffBegins
<1>2. BInv /\ [Next]_vars => BInv'
  BY BackoffStep
<1>3. BInv => Watched
  BY DEF BInv, Attended, Watched, Quiet, DownQueued
<1> QED
  BY <1>1, <1>2, <1>3, PTL DEF Spec

(* A loop that gave up leaves the device in peace until it has been away,   *)
(* for every number of failures it is allowed (reconnect.rs:11-12).         *)
THEOREM GivesUpForGood ==
  ASSUME ConstantsOK
  PROVE  Spec => QuietAfterGiveUp
<1>1. Init => BInv
  BY BackoffBegins
<1>2. BInv /\ [Next]_vars => BInv'
  BY BackoffStep
<1>3. BInv /\ [Next]_vars => [pc = "sleep" /\ pc' = "trying" /\ gaveUp => vanished]_vars
  <2> SUFFICES ASSUME BInv, [Next]_vars, pc = "sleep", pc' = "trying", gaveUp PROVE vanished
    OBVIOUS
  <2>1. LoopWakes
    BY DEF Next, vars, loop, UpSent, Dies, DownSent, Paired, TrustBroken, PeerConnects, Pumps, PumpUp,
           PumpPaired, PumpBroken, PumpDown, PumpSchedule, StartupScan, Schedule, Loops, LoopCheck,
           TryOk, TryReturns, TryFails, LoopLeaves, Connect, ConnectDone, RemoveTrust, RemoveMemory,
           RemoveSession, Discovery, HealOk, HealFails
  <2>2. absent
    BY <2>1 DEF LoopWakes, Idle, Rearm
  <2> QED
    BY <2>2 DEF BInv, Paced
<1> QED
  BY <1>1, <1>2, <1>3, PTL DEF Spec, QuietAfterGiveUp

-----------------------------------------------------------------------------
(* Session ports. What a recv_loop has admitted is the last thing its       *)
(* sender said, and a loop that gives its port back admits nothing more.    *)
Latest == \A p \in Ports : hand[p] # NoPacket => heard[p][hand[p].src] = hand[p].from

Deaf == \A c \in closing : c.by = "loop" => hand[c.port] = NoPacket

PortsInv == PTypeOK /\ Latest /\ Deaf /\ AddressCurrent /\ ClosedByLast

Closing == [port : Ports, step : {"ports", "members", "activity"}, by : {"loop", "reaper"}]
Datagram == [src : Device, flag : Flags, from : Addr]

(* The smallest of some numbers is one of them (alloc_session_port).        *)
LEMMA MinInSet ==
  ASSUME NEW S \in SUBSET Nat, S # {}
  PROVE  Min(S) \in S
<1>1. PICK x \in S : \A y \in S : ~(<<y, x>> \in OpToRel(<, Nat))
  BY NatLessThanWellFounded, WFMin
<1>2. \A y \in S : x =< y
  <2> SUFFICES ASSUME NEW y \in S PROVE x =< y
    OBVIOUS
  <2>1. x \in Nat /\ y \in Nat
    OBVIOUS
  <2>2. ~(y < x)
    BY <1>1, <2>1 DEF OpToRel
  <2> QED
    BY <2>1, <2>2
<1> QED
  BY <1>2 DEF Min

LEMMA PortsBegin == PInit => PortsInv
<1> SUFFICES ASSUME PInit PROVE PortsInv
  OBVIOUS
<1>1. sessions \in 0 .. MaxSessions /\ packets \in 0 .. MaxPackets
  BY PortsAssumption DEF PInit
<1>2. PTypeOK
  BY <1>1 DEF PInit, PTypeOK, NoPair
<1> QED
  BY <1>2 DEF PInit, PortsInv, Latest, Deaf, AddressCurrent, ClosedByLast

(* A recv_loop that handles a packet waits for the next one afterwards.     *)
LEMMA Handled ==
  ASSUME PortsInv, NEW p \in Ports, NEW flag \in Flags, Handles(p, flag)
  PROVE  /\ hand[p] \in Datagram /\ hand[p] # NoPacket
         /\ heard[p][hand[p].src] = hand[p].from
         /\ \A c \in closing : c.by = "loop" => c.port # p
         /\ hand' \in [Ports -> Datagram \cup {NoPacket}] /\ hand'[p] = NoPacket
         /\ \A q \in Ports \ {p} : hand'[q] = hand[q]
<1>1. hand \in [Ports -> Datagram \cup {NoPacket}]
  BY DEF PortsInv, PTypeOK, Datagram
<1>2. hand[p] # NoPacket
  BY DEF Handles, NoPacket, Flags
<1> QED
  BY <1>1, <1>2 DEF Handles, PortsInv, Latest, Deaf

(* What handling a packet does to what is learned keeps the addresses.      *)
LEMMA Learning ==
  ASSUME PortsInv, NEW p \in Ports, NEW flag \in Flags, Handles(p, flag), heard' = heard,
         NEW a \in {hand[p].from, None},
         learned' = [learned EXCEPT ![p][hand[p].src] = a] \/ (learned' = learned /\ hand[p].src \notin Known(p))
  PROVE  /\ learned' \in [Ports -> [Device -> Addr \cup {None}]]
         /\ AddressCurrent' /\ Latest'
         /\ \A q \in Ports \ {p} : Known(q)' = Known(q)
<1>1. /\ hand[p] \in Datagram /\ hand[p].src \in Device /\ hand[p].from \in Addr
      /\ learned \in [Ports -> [Device -> Addr \cup {None}]]
      /\ heard[p][hand[p].src] = hand[p].from
  BY Handled DEF Datagram, PortsInv, PTypeOK
<1>2. learned' \in [Ports -> [Device -> Addr \cup {None}]]
  BY <1>1
<1>3. /\ \A q \in Ports, d \in Device : <<q, d>> # <<p, hand[p].src>> => learned'[q][d] = learned[q][d]
      /\ learned'[p][hand[p].src] \in {hand[p].from, None}
  BY <1>1 DEF Known
<1>4. AddressCurrent'
  <2> SUFFICES ASSUME NEW q \in Ports, NEW d \in Device, learned'[q][d] # None, hand'[q].src # d
               PROVE  learned'[q][d] = heard[q][d]
    BY DEF AddressCurrent
  <2>1. CASE q = p /\ d = hand[p].src
    BY <1>1, <1>3, <2>1
  <2>2. CASE q # p \/ d # hand[p].src
    <3>1. learned'[q][d] = learned[q][d] /\ hand[q].src # d
      BY <1>3, <2>2, Handled
    <3> QED
      BY <3>1 DEF PortsInv, AddressCurrent
  <2> QED
    BY <2>1, <2>2
<1>5. Latest'
  BY Handled DEF Latest, PortsInv
<1>6. \A q \in Ports \ {p} : Known(q)' = Known(q)
  BY <1>3 DEF Known
<1> QED
  BY <1>2, <1>4, <1>5, <1>6

(* The packets of members.                                                  *)
LEMMA PacketsStep ==
  ASSUME PortsInv, NEW p \in Ports, Knock(p) \/ Goodbye(p) \/ Data(p)
  PROVE  PortsInv'
<1>1. /\ UNCHANGED <<leased, sessionPorts, members, activity, reap, heard, sessions, packets>>
      /\ \E flag \in Flags : Handles(p, flag)
      /\ \/ /\ learned' = [learned EXCEPT ![p][hand[p].src] = hand[p].from] /\ closing' = closing
         \/ /\ learned' = learned /\ hand[p].src \notin Known(p) /\ closing' = closing
         \/ /\ learned' = [learned EXCEPT ![p][hand[p].src] = None]
            /\ \/ closing' = closing
               \/ /\ Known(p) \subseteq {hand[p].src}
                  /\ closing' = closing \cup {[port |-> p, step |-> "ports", by |-> "loop"]}
  BY DEF Knock, Goodbye, Data, Flags, CloseBegun
<1>2. PICK flag \in Flags : Handles(p, flag)
  BY <1>1
<1>3. /\ hand[p] \in Datagram
      /\ \A c \in closing : c.by = "loop" => c.port # p
      /\ hand' \in [Ports -> Datagram \cup {NoPacket}] /\ hand'[p] = NoPacket
      /\ \A q \in Ports \ {p} : hand'[q] = hand[q]
  BY <1>2, Handled
<1>4. /\ learned' \in [Ports -> [Device -> Addr \cup {None}]]
      /\ AddressCurrent' /\ Latest'
      /\ \A q \in Ports \ {p} : Known(q)' = Known(q)
  <2>1. \E a \in {hand[p].from, None} :
          \/ learned' = [learned EXCEPT ![p][hand[p].src] = a]
          \/ (learned' = learned /\ hand[p].src \notin Known(p))
    BY <1>1
  <2> QED
    BY <1>1, <1>2, <2>1, Learning
<1>5. closing' \subseteq Closing
  BY <1>1 DEF PortsInv, PTypeOK, Closing
<1>6. PTypeOK'
  BY <1>1, <1>3, <1>4, <1>5 DEF PortsInv, PTypeOK, Closing, Datagram
<1>7. ASSUME NEW c \in closing', c.by = "loop" PROVE hand'[c.port] = NoPacket /\ Known(c.port)' = {}
  <2>0. c.port \in Ports
    BY <1>5 DEF Closing
  <2>1. CASE c \in closing
    <3>1. c.port # p /\ Known(c.port) = {} /\ hand[c.port] = NoPacket
      BY <1>3, <1>7, <2>1 DEF PortsInv, ClosedByLast, Deaf
    <3> QED
      BY <1>3, <1>4, <2>0, <3>1
  <2>2. CASE c \notin closing
    <3>1. /\ c.port = p /\ Known(p) \subseteq {hand[p].src}
          /\ learned' = [learned EXCEPT ![p][hand[p].src] = None]
      BY <1>1, <2>2
    <3>2. Known(p)' = {}
      BY <1>3, <3>1 DEF Known, PortsInv, PTypeOK, Datagram
    <3> QED
      BY <1>3, <3>1, <3>2
  <2> QED
    BY <2>1, <2>2
<1> QED
  BY <1>4, <1>6, <1>7 DEF PortsInv, Deaf, ClosedByLast

(* A packet is admitted.                                                    *)
LEMMA AdmitStep ==
  ASSUME PortsInv, NEW p \in Ports, NEW src \in Device, NEW flag \in Flags, NEW from \in Addr,
         Admit(p, src, flag, from)
  PROVE  PortsInv'
<1>1. /\ UNCHANGED <<leased, sessionPorts, members, closing, reap, learned, sessions>>
      /\ hand[p] = NoPacket /\ (\A c \in closing : c.by = "loop" => c.port # p)
      /\ packets < MaxPackets /\ packets' = packets + 1
      /\ activity' = [activity EXCEPT ![p] = IF @ = "none" THEN "none" ELSE "fresh"]
      /\ hand' = [hand EXCEPT ![p] = [src |-> src, flag |-> flag, from |-> from]]
      /\ heard' = [heard EXCEPT ![p][src] = from]
  BY DEF Admit, Busy
<1>2. PTypeOK'
  <2>1. packets' \in 0 .. MaxPackets
    BY <1>1, PortsAssumption DEF PortsInv, PTypeOK
  <2>2. activity' \in [Ports -> {"fresh", "idle", "none"}]
    BY <1>1 DEF PortsInv, PTypeOK
  <2>3. hand' \in [Ports -> [src : Device, flag : Flags, from : Addr] \cup {NoPacket}]
    BY <1>1 DEF PortsInv, PTypeOK
  <2>4. heard' \in [Ports -> [Device -> Addr \cup {None}]]
    BY <1>1 DEF PortsInv, PTypeOK
  <2> QED
    BY <1>1, <2>1, <2>2, <2>3, <2>4 DEF PortsInv, PTypeOK
<1>3. /\ \A q \in Ports, d \in Device : <<q, d>> # <<p, src>> => heard'[q][d] = heard[q][d]
      /\ heard'[p][src] = from /\ hand'[p].src = src /\ hand'[p].from = from
      /\ \A q \in Ports \ {p} : hand'[q] = hand[q]
  BY <1>1 DEF PortsInv, PTypeOK
<1>4. Latest'
  <2> SUFFICES ASSUME NEW q \in Ports, hand'[q] # NoPacket PROVE heard'[q][hand'[q].src] = hand'[q].from
    BY DEF Latest
  <2>1. CASE q = p
    BY <1>3, <2>1
  <2>2. CASE q # p
    <3>1. hand'[q] = hand[q] /\ hand[q].src \in Device
      BY <1>3, <2>2 DEF PortsInv, PTypeOK
    <3> QED
      BY <1>3, <2>2, <3>1 DEF PortsInv, Latest
  <2> QED
    BY <2>1, <2>2
<1>5. AddressCurrent'
  <2> SUFFICES ASSUME NEW q \in Ports, NEW d \in Device, learned[q][d] # None, hand'[q].src # d
               PROVE  learned[q][d] = heard'[q][d]
    BY <1>1 DEF AddressCurrent
  <2>1. hand[q].src # d /\ <<q, d>> # <<p, src>>
    BY <1>1, <1>3, PortsAssumption DEF NoPacket
  <2> QED
    BY <1>3, <2>1 DEF PortsInv, AddressCurrent
<1>6. Deaf'
  BY <1>1, <1>3 DEF PortsInv, PTypeOK, Deaf
<1>7. ClosedByLast'
  BY <1>1 DEF PortsInv, ClosedByLast, Known
<1> QED
  BY <1>2, <1>4, <1>5, <1>6, <1>7 DEF PortsInv

(* Leases, sessions and their removal do not touch the data plane.          *)
LEMMA PoolStep ==
  ASSUME PortsInv,
         \/ LeaseTaken \/ \E p \in Ports : LeaseFreed(p) \/ Ages(p)
         \/ \E a, b \in Device : AllocSession(a, b)
         \/ Closes \/ Reaps
  PROVE  PortsInv'
<1>1. UNCHANGED <<learned, hand, heard, packets>>
  BY DEF LeaseTaken, LeaseFreed, Ages, AllocSession, Closes, CloseStep, Reaps, ReapRead, ReapNext
<1>2. \A c \in closing' : \/ c.by = "reaper"
                          \/ \E e \in closing : e.by = c.by /\ e.port = c.port
  <2>1. CASE Closes
    <3>1. PICK c \in closing : CloseStep(c)
      BY <2>1 DEF Closes
    <3>2. /\ [c EXCEPT !.step = "members"].by = c.by /\ [c EXCEPT !.step = "members"].port = c.port
          /\ [c EXCEPT !.step = "activity"].by = c.by /\ [c EXCEPT !.step = "activity"].port = c.port
      BY DEF PortsInv, PTypeOK
    <3> QED
      BY <3>1, <3>2 DEF CloseStep, PortsInv, PTypeOK
  <2>2. CASE ~Closes
    BY <2>2 DEF LeaseTaken, LeaseFreed, Ages, AllocSession, Reaps, ReapRead, ReapNext, CloseBegun
  <2> QED
    BY <2>1, <2>2
<1>3. /\ leased' \subseteq Ports /\ sessionPorts' \subseteq Ports /\ reap' \subseteq Ports
      /\ members' \in [Ports -> SUBSET Device]
      /\ activity' \in [Ports -> {"fresh", "idle", "none"}]
      /\ closing' \subseteq Closing
      /\ sessions' \in 0 .. MaxSessions
  <2>0. /\ leased \subseteq Ports /\ sessionPorts \subseteq Ports /\ reap \subseteq Ports
        /\ members \in [Ports -> SUBSET Device]
        /\ activity \in [Ports -> {"fresh", "idle", "none"}]
        /\ closing \subseteq Closing
        /\ sessions \in 0 .. MaxSessions
    BY DEF PortsInv, PTypeOK, Closing
  <2>1. CASE LeaseTaken \/ \E p \in Ports : LeaseFreed(p) \/ Ages(p)
    <3>1. Ports \ leased # {} => Min(Ports \ leased) \in Ports
      <4>1. Ports \ leased \in SUBSET Nat
        BY DEF Ports
      <4> QED
        BY <4>1, MinInSet
    <3>2. CASE LeaseTaken
      BY <2>0, <3>1, <3>2 DEF LeaseTaken
    <3>3. ASSUME NEW p \in Ports, LeaseFreed(p) \/ Ages(p)
          PROVE  /\ leased' \subseteq leased /\ UNCHANGED <<sessionPorts, reap, members, closing, sessions>>
                 /\ activity' \in [Ports -> {"fresh", "idle", "none"}]
      BY <2>0, <3>3 DEF LeaseFreed, Ages
    <3> QED
      BY <2>0, <2>1, <3>2, <3>3
  <2>2. ASSUME NEW a \in Device, NEW b \in Device, AllocSession(a, b)
        PROVE  /\ UNCHANGED <<leased, reap, closing>>
               /\ sessionPorts' \subseteq Ports
               /\ members' \in [Ports -> SUBSET Device]
               /\ activity' \in [Ports -> {"fresh", "idle", "none"}]
               /\ sessions' \in 0 .. MaxSessions
    <3>1. Min(Free) \in Ports
      <4>1. Free \in SUBSET Nat /\ Free \subseteq Ports
        BY DEF Free, Ports
      <4> QED
        BY <2>2, <4>1, MinInSet DEF AllocSession
    <3>2. sessions' \in 0 .. MaxSessions
      BY <2>0, <2>2, PortsAssumption DEF AllocSession
    <3> QED
      BY <2>0, <2>2, <3>1, <3>2 DEF AllocSession
  <2>3. CASE Closes
    <3>1. PICK c \in closing : CloseStep(c)
      BY <2>3 DEF Closes
    <3>2. c \in Closing
      BY <2>0, <3>1
    <3>3. [c EXCEPT !.step = "members"] \in Closing /\ [c EXCEPT !.step = "activity"] \in Closing
      BY <3>2 DEF Closing
    <3>4. UNCHANGED <<leased, reap, sessions>>
      BY <3>1 DEF CloseStep
    <3>5. sessionPorts' \subseteq Ports /\ closing' \subseteq Closing
      <4>1. CASE c.step = "ports"
        BY <2>0, <3>1, <3>3, <4>1 DEF CloseStep
      <4>2. CASE c.step = "members"
        BY <2>0, <3>1, <3>3, <4>2 DEF CloseStep
      <4>3. CASE c.step = "activity"
        BY <2>0, <3>1, <3>3, <4>3 DEF CloseStep
      <4> QED
        BY <3>2, <4>1, <4>2, <4>3 DEF Closing
    <3>6. /\ members' \in [Ports -> SUBSET Device]
          /\ activity' \in [Ports -> {"fresh", "idle", "none"}]
      BY <2>0, <3>1, <3>2 DEF CloseStep, Closing, NoPair
    <3> QED
      BY <2>0, <3>4, <3>5, <3>6
  <2>4. CASE Reaps
    BY <2>0, <2>4 DEF Reaps, ReapRead, ReapNext, CloseBegun, Closing
  <2> QED
    BY <2>0, <2>1, <2>2, <2>3, <2>4
<1>4. PTypeOK'
  BY <1>1, <1>3 DEF PortsInv, PTypeOK, Closing
<1>5. Latest' /\ AddressCurrent'
  BY <1>1 DEF PortsInv, Latest, AddressCurrent
<1>6. Deaf' /\ ClosedByLast'
  <2>1. \A q : Known(q)' = Known(q)
    BY <1>1 DEF Known
  <2> QED
    BY <1>1, <1>2, <2>1 DEF PortsInv, Deaf, ClosedByLast
<1> QED
  BY <1>4, <1>5, <1>6 DEF PortsInv

(* Packets go to where the device last spoke from, and the last member that *)
(* leaves closes the port: with every number of ports, devices and packets, *)
(* whoever registers, moves, leaves or is reaped meanwhile                  *)
(* (data_plane.rs:120-226).                                                 *)
THEOREM PortsAlwaysSound == PSpec => []PortsSound
<1>1. PInit => PortsInv
  BY PortsBegin
<1>2. PortsInv /\ [PNext]_pvars => PortsInv'
  <2> SUFFICES ASSUME PortsInv, [PNext]_pvars PROVE PortsInv'
    OBVIOUS
  <2>1. CASE UNCHANGED pvars
    BY <2>1 DEF pvars, PortsInv, PTypeOK, Latest, Deaf, AddressCurrent, ClosedByLast, Known
  <2> QED
    BY <2>1, PoolStep, PacketsStep, AdmitStep DEF PNext
<1>3. PortsInv => PortsSound
  BY DEF PortsInv, PortsSound
<1> QED
  BY <1>1, <1>2, <1>3, PTL DEF PSpec

-----------------------------------------------------------------------------
(* Discovery. Packets under way are between devices; what a step adds to    *)
(* the targets or takes from them it also writes to the file.               *)
FoundInv ==
  /\ on \in [Dev -> BOOLEAN]
  /\ \A k \in net : k.from \in Dev /\ k.to \in Dev
  /\ DTypeOK /\ FileCurrent

LEMMA Steps == NoTarget \in Nat /\ 0 # NoTarget /\ Gone \in Nat /\ Retry \in 0 .. NoTarget /\ Retry # NoTarget
               /\ NoTarget \in 0 .. NoTarget /\ 0 \in 0 .. NoTarget /\ 0 \in 0 .. Eviction - 1
               /\ Gone \in 0 .. Gone /\ 0 \in 0 .. Gone
  BY DiscoveryAssumption DEF NoTarget, Gone

LEMMA PacketsEnds ==
  ASSUME NEW d \in Dev, NEW to \in SUBSET Dev, NEW kind
  PROVE  \A k \in Packets(d, to, kind) : k.from \in Dev /\ k.to \in Dev
  BY DEF Packets

LEMMA FoundBegins == DInit => FoundInv
  BY Steps DEF DInit, FoundInv, DTypeOK, FileCurrent

(* A step that leaves the targets and the file alone.                       *)
LEMMA Untargeted ==
  ASSUME FoundInv, UNCHANGED <<due, file, heardOf, probeFails>>, on' \in [Dev -> BOOLEAN],
         \A d \in Dev : on'[d] => on[d], \A k \in net' : k.from \in Dev /\ k.to \in Dev
  PROVE  FoundInv'
  BY DEF FoundInv, DTypeOK, FileCurrent, Targets

(* A step of one device that changes its targets.                           *)
LEMMA Targeted ==
  ASSUME FoundInv, NEW d \in Dev, on' \in [Dev -> BOOLEAN], \A x \in Dev \ {d} : on'[x] = on[x],
         heardOf' \in [Dev -> [Dev -> 0 .. Gone]], probeFails' \in [Dev -> [Host -> 0 .. Eviction - 1]],
         NEW row \in [Host -> 0 .. NoTarget], due' = [due EXCEPT ![d] = row],
         NEW kept \in SUBSET Host, file' = [file EXCEPT ![d] = kept],
         kept = {p \in Host : row[p] # NoTarget}, \A k \in net' : k.from \in Dev /\ k.to \in Dev
  PROVE  FoundInv'
<1>1. due' \in [Dev -> [Host -> 0 .. NoTarget]] /\ file' \in [Dev -> SUBSET Host]
  BY DEF FoundInv, DTypeOK
<1>2. ASSUME NEW x \in Dev, on'[x] PROVE file'[x] = {p \in Host : due'[x][p] # NoTarget}
  BY <1>2 DEF FoundInv, DTypeOK, FileCurrent, Targets
<1> QED
  BY <1>1, <1>2 DEF FoundInv, DTypeOK, FileCurrent, Targets

LEMMA ServiceStep ==
  ASSUME FoundInv, NEW d \in Dev,
         Stop(d) \/ ProbeNow(d) \/ SetName(d) \/ Hide(d) \/ Presence(d)
  PROVE  FoundInv'
<1>1. UNCHANGED <<due, file, heardOf, probeFails>> /\ on' \in [Dev -> BOOLEAN] /\ \A x \in Dev : on'[x] => on[x]
  BY DEF FoundInv, Stop, ProbeNow, SetName, Hide, Presence
<1>2. \A to \in SUBSET Dev : \A kind : \A k \in Packets(d, to, kind) : k.from \in Dev /\ k.to \in Dev
  BY PacketsEnds
<1>3. {p \in Dev : {d, p} \in Segment} \in SUBSET Dev /\ Targets(d) \cap Dev \in SUBSET Dev
  OBVIOUS
<1>4. \A k \in net' : k.from \in Dev /\ k.to \in Dev
  BY <1>2, <1>3 DEF FoundInv, Stop, ProbeNow, SetName, Hide, Presence, Broadcast
<1> QED
  BY <1>1, <1>4, Untargeted

LEMMA StartStep ==
  ASSUME FoundInv, NEW d \in Dev, Start(d)
  PROVE  FoundInv'
<1> DEFINE row == [p \in Host |-> IF p \in file[d] THEN 0 ELSE NoTarget]
<1>1. row \in [Host -> 0 .. NoTarget] /\ file[d] \in SUBSET Host /\ file[d] = {p \in Host : row[p] # NoTarget}
  BY Steps DEF FoundInv, DTypeOK
<1>2. due' = [due EXCEPT ![d] = row] /\ on' \in [Dev -> BOOLEAN] /\ \A x \in Dev \ {d} : on'[x] = on[x]
  BY DEF Start, FoundInv
<1>3. file' = [file EXCEPT ![d] = file[d]]
  BY DEF Start, FoundInv, DTypeOK
<1>4. heardOf' \in [Dev -> [Dev -> 0 .. Gone]] /\ probeFails' \in [Dev -> [Host -> 0 .. Eviction - 1]]
  BY Steps DEF Start, FoundInv, DTypeOK
<1>5. \A k \in net' : k.from \in Dev /\ k.to \in Dev
  BY PacketsEnds DEF Start, FoundInv, Broadcast
<1> HIDE DEF row
<1> QED
  BY <1>1, <1>2, <1>3, <1>4, <1>5, Targeted

LEMMA TargetStep ==
  ASSUME FoundInv, NEW d \in Dev, NEW p \in Host, ProbeAddr(d, p)
  PROVE  FoundInv'
<1> DEFINE row == [due[d] EXCEPT ![p] = Retry]
           kept == Targets(d) \cup {p}
<1>1. row \in [Host -> 0 .. NoTarget] /\ kept \in SUBSET Host /\ kept = {q \in Host : row[q] # NoTarget}
  BY Steps DEF FoundInv, DTypeOK, Targets
<1>2. due' = [due EXCEPT ![d] = row] /\ file' = [file EXCEPT ![d] = kept] /\ UNCHANGED <<on, heardOf, probeFails>>
  BY DEF ProbeAddr, FoundInv, DTypeOK
<1>3. \A k \in net' : k.from \in Dev /\ k.to \in Dev
  BY PacketsEnds DEF ProbeAddr, FoundInv
<1> HIDE DEF row, kept
<1>4. /\ on' \in [Dev -> BOOLEAN] /\ \A x \in Dev \ {d} : on'[x] = on[x]
      /\ heardOf' \in [Dev -> [Dev -> 0 .. Gone]] /\ probeFails' \in [Dev -> [Host -> 0 .. Eviction - 1]]
  BY <1>2 DEF FoundInv, DTypeOK
<1> QED
  BY <1>1, <1>2, <1>3, <1>4, Targeted

LEMMA ReceiveStep ==
  ASSUME FoundInv, NEW k \in net, Receive(k)
  PROVE  FoundInv'
<1> DEFINE d == k.to
           p == k.from
           row == IF p \notin Targets(d) THEN [due[d] EXCEPT ![p] = Retry] ELSE due[d]
           kept == Targets(d) \cup {p}
<1>0. d \in Dev /\ p \in Dev /\ p \in Host /\ on[d]
  BY DEF FoundInv, Host, Receive
<1>1. row \in [Host -> 0 .. NoTarget] /\ kept \in SUBSET Host /\ kept = {q \in Host : row[q] # NoTarget}
  BY <1>0, Steps DEF FoundInv, DTypeOK, Targets
<1>2. due' = [due EXCEPT ![d] = row]
  BY <1>0 DEF Receive, FoundInv, DTypeOK
<1>3. file' = [file EXCEPT ![d] = kept]
  <2>1. CASE p \notin Targets(d)
    BY <2>1 DEF Receive
  <2>2. CASE p \in Targets(d)
    <3>1. file' = file /\ kept = Targets(d) /\ file[d] = Targets(d)
      BY <1>0, <2>2 DEF Receive, FoundInv, FileCurrent
    <3> QED
      BY <1>0, <3>1 DEF FoundInv, DTypeOK
  <2> QED
    BY <2>1, <2>2
<1>4. heardOf' \in [Dev -> [Dev -> 0 .. Gone]]
  BY <1>0, Steps DEF Receive, FoundInv, DTypeOK
<1>5. probeFails' \in [Dev -> [Host -> 0 .. Eviction - 1]]
  BY <1>0, Steps DEF Receive, FoundInv, DTypeOK
<1>6. \A x \in net' : x.from \in Dev /\ x.to \in Dev
  BY <1>0, PacketsEnds DEF Receive, FoundInv
<1>7. on' \in [Dev -> BOOLEAN] /\ \A x \in Dev \ {d} : on'[x] = on[x]
  BY DEF Receive, FoundInv
<1> HIDE DEF row, kept, d
<1> QED
  BY <1>0, <1>1, <1>2, <1>3, <1>4, <1>5, <1>6, <1>7, Targeted

LEMMA TrimStep ==
  ASSUME FoundInv, NEW d \in Dev, Trim(d)
  PROVE  FoundInv'
<1>1. PICK p \in Targets(d) : due' = [due EXCEPT ![d][p] = NoTarget] /\ file' = [file EXCEPT ![d] = Targets(d) \ {p}]
  BY DEF Trim
<1> DEFINE row == [due[d] EXCEPT ![p] = NoTarget]
           kept == Targets(d) \ {p}
<1>2. row \in [Host -> 0 .. NoTarget] /\ kept \in SUBSET Host /\ kept = {q \in Host : row[q] # NoTarget}
  BY Steps DEF FoundInv, DTypeOK, Targets
<1>3. due' = [due EXCEPT ![d] = row] /\ file' = [file EXCEPT ![d] = kept] /\ UNCHANGED <<on, heardOf, probeFails, net>>
  BY <1>1 DEF Trim, FoundInv, DTypeOK
<1> HIDE DEF row, kept
<1>4. /\ on' \in [Dev -> BOOLEAN] /\ \A x \in Dev \ {d} : on'[x] = on[x]
      /\ heardOf' \in [Dev -> [Dev -> 0 .. Gone]] /\ probeFails' \in [Dev -> [Host -> 0 .. Eviction - 1]]
      /\ \A k \in net' : k.from \in Dev /\ k.to \in Dev
  BY <1>3 DEF FoundInv, DTypeOK
<1> QED
  BY <1>2, <1>3, <1>4, Targeted

LEMMA ReprobeStep ==
  ASSUME FoundInv, NEW d \in Dev, Reprobe(d)
  PROVE  FoundInv'
<1> DEFINE row == [p \in Host |-> IF p \in Silent(d) THEN NoTarget ELSE IF p \in DueNow(d) THEN Retry ELSE due[d][p]]
           cnt == [p \in Host |-> IF p \in Silent(d) THEN 0 ELSE Failed(d)[p]]
           kept == Forgotten(d)
<1>0. on[d] /\ due[d] \in [Host -> 0 .. NoTarget] /\ probeFails[d] \in [Host -> 0 .. Eviction - 1] /\ file[d] = Targets(d)
  BY DEF Reprobe, FoundInv, DTypeOK, FileCurrent
<1>1. row \in [Host -> 0 .. NoTarget] /\ kept \in SUBSET Host /\ kept = {q \in Host : row[q] # NoTarget}
  BY <1>0, Steps DEF Targets, Forgotten, DueNow
<1>2. cnt \in [Host -> 0 .. Eviction - 1]
  <2>1. \A p \in Host : Failed(d)[p] \in Nat /\ (p \notin Silent(d) => Failed(d)[p] < Eviction)
    BY <1>0, DiscoveryAssumption DEF Failed, Silent
  <2> QED
    BY <2>1, DiscoveryAssumption
<1>3. due' = [due EXCEPT ![d] = row] /\ probeFails' = [probeFails EXCEPT ![d] = cnt] /\ UNCHANGED <<on, heardOf>>
  BY DEF Reprobe
<1>4. file' = [file EXCEPT ![d] = kept]
  <2>1. CASE Silent(d) \cap Targets(d) # {}
    BY <2>1 DEF Reprobe
  <2>2. CASE Silent(d) \cap Targets(d) = {}
    <3>1. file' = file /\ kept = file[d]
      BY <1>0, <2>2 DEF Reprobe, Forgotten
    <3> QED
      BY <3>1 DEF FoundInv, DTypeOK
  <2> QED
    BY <2>1, <2>2
<1>5. \A k \in net' : k.from \in Dev /\ k.to \in Dev
  BY PacketsEnds DEF Reprobe, FoundInv
<1> HIDE DEF row, kept, cnt
<1>6. /\ on' \in [Dev -> BOOLEAN] /\ \A x \in Dev \ {d} : on'[x] = on[x]
      /\ heardOf' \in [Dev -> [Dev -> 0 .. Gone]] /\ probeFails' \in [Dev -> [Host -> 0 .. Eviction - 1]]
  BY <1>2, <1>3 DEF FoundInv, DTypeOK
<1>7. due' = [due EXCEPT ![d] = row]
  BY <1>3
<1> QED
  BY <1>1, <1>4, <1>5, <1>6, <1>7, Targeted

LEMMA TickStep ==
  ASSUME FoundInv, Tick
  PROVE  FoundInv'
<1>1. UNCHANGED <<on, file, net, probeFails>>
  BY DEF Tick
<1>2. heardOf' \in [Dev -> [Dev -> 0 .. Gone]]
  <2>1. \A d \in Dev, p \in Dev : (IF heardOf[d][p] = Gone THEN Gone ELSE heardOf[d][p] + 1) \in 0 .. Gone
    <3>1. \A n \in 0 .. Gone : n # Gone => n + 1 \in 0 .. Gone
      BY Steps
    <3> QED
      BY <3>1 DEF FoundInv, DTypeOK
  <2> QED
    BY <2>1 DEF Tick
<1>7. \A n \in 0 .. NoTarget : n \notin {0, NoTarget} => n - 1 \in 0 .. NoTarget /\ n - 1 # NoTarget
  BY Steps
<1>3. \A d \in Dev, p \in Host : due'[d][p] \in 0 .. NoTarget /\ (due'[d][p] = NoTarget <=> due[d][p] = NoTarget)
  BY <1>7 DEF Tick, FoundInv, DTypeOK
<1>4. due' \in [Dev -> [Host -> 0 .. NoTarget]]
  <2>1. \A d \in Dev, p \in Host : (IF due[d][p] \in {0, NoTarget} THEN due[d][p] ELSE due[d][p] - 1) \in 0 .. NoTarget
    BY <1>7 DEF FoundInv, DTypeOK
  <2> QED
    BY <2>1 DEF Tick
<1>5. \A d \in Dev : Targets(d)' = Targets(d)
  BY <1>3 DEF Targets
<1> QED
  BY <1>1, <1>2, <1>4, <1>5 DEF FoundInv, DTypeOK, FileCurrent

LEMMA FoundStep == FoundInv /\ [DNext]_dvars => FoundInv'
<1> SUFFICES ASSUME FoundInv, [DNext]_dvars PROVE FoundInv'
  OBVIOUS
<1>1. ASSUME NEW d \in Dev, Start(d) PROVE FoundInv'
  BY <1>1, StartStep
<1>2. ASSUME NEW d \in Dev, Stop(d) \/ ProbeNow(d) \/ SetName(d) \/ Hide(d) \/ Presence(d) PROVE FoundInv'
  BY <1>2, ServiceStep
<1>3. ASSUME NEW d \in Dev, Trim(d) \/ Reprobe(d) PROVE FoundInv'
  BY <1>3, TrimStep, ReprobeStep
<1>4. ASSUME NEW d \in Dev, NEW p \in Host, ProbeAddr(d, p) PROVE FoundInv'
  BY <1>4, TargetStep
<1>5. ASSUME NEW k \in net, Receive(k) \/ Lose(k) PROVE FoundInv'
  <2>1. CASE Receive(k)
    BY <2>1, ReceiveStep
  <2>2. CASE Lose(k)
    <3>1. UNCHANGED <<due, file, heardOf, probeFails>> /\ on' \in [Dev -> BOOLEAN] /\ (\A d \in Dev : on'[d] => on[d])
          /\ \A x \in net' : x.from \in Dev /\ x.to \in Dev
      BY <2>2 DEF Lose, FoundInv
    <3> QED
      BY <3>1, Untargeted
  <2> QED
    BY <1>5, <2>1, <2>2
<1>6. CASE Tick
  BY <1>6, TickStep
<1>7. CASE UNCHANGED dvars
  BY <1>7 DEF dvars, FoundInv, DTypeOK, FileCurrent, Targets
<1> QED
  BY <1>1, <1>2, <1>3, <1>4, <1>5, <1>6, <1>7 DEF DNext

-----------------------------------------------------------------------------
(* The window. A packet that was acted on is remembered until its stamp is  *)
(* too old for another one to be acted on.                                  *)
EndOf(p) == Stamp[p] + Skew
WindowInv ==
  /\ now \in Nat /\ nonces \subseteq Packet /\ IsFiniteSet(nonces) /\ Cardinality(nonces) <= Room
  /\ taken \in [Packet -> SUBSET Nat]
  /\ \A p \in Packet : /\ taken[p] # {} => p \in nonces \/ now >= EndOf(p)
                       /\ \A m, n \in taken[p] \ {EndOf(p)} : m = n

LEMMA WindowBegins == NInit => WindowInv
  BY FS_EmptySet, WindowAssumption DEF NInit, WindowInv

LEMMA WindowStep == WindowInv /\ [NNext]_nvars => WindowInv'
<1> SUFFICES ASSUME WindowInv, [NNext]_nvars PROVE WindowInv'
  OBVIOUS
<1>0. \A p \in Packet : EndOf(p) \in Nat
  BY WindowAssumption DEF EndOf
<1>1. CASE NPasses
  BY <1>0, <1>1 DEF WindowInv, NPasses
<1>2. ASSUME NEW p \in Packet, Arrives(p) PROVE WindowInv'
  <2>1. /\ Kept \subseteq nonces /\ IsFiniteSet(Kept) /\ Cardinality(Kept) <= Cardinality(nonces)
        /\ Cardinality(Kept) \in Nat /\ Cardinality(nonces) \in Nat
    BY FS_Subset, FS_CardinalityType DEF Kept, WindowInv
  <2>2. Room \in Nat /\ now' = now /\ now <= EndOf(p)
    BY <1>2, WindowAssumption DEF Arrives, InWindow, EndOf
  <2>3. \A q \in Packet : taken[q] # {} => q \in Kept \/ now >= EndOf(q)
    BY <1>0 DEF WindowInv, Kept, EndOf
  <2>4. CASE p \notin Kept /\ HasRoom(p)
    <3>1. nonces' = Kept \cup {p} /\ taken' = [taken EXCEPT ![p] = taken[p] \cup {now}]
      BY <1>2, <2>4 DEF Arrives
    <3>2. IsFiniteSet(Kept \cup {p}) /\ Cardinality(Kept \cup {p}) = Cardinality(Kept) + 1
      BY <2>1, <2>4, FS_AddElement
    <3>3. Cardinality(nonces') <= Room
      BY <2>1, <2>2, <2>4, <3>1, <3>2 DEF HasRoom
    <3>4. taken[p] = {} \/ now = EndOf(p)
      BY <1>0, <2>2, <2>3, <2>4 DEF WindowInv
    <3>5. \A m, n \in taken'[p] \ {EndOf(p)} : m = n
      BY <3>1, <3>4 DEF WindowInv
    <3> QED
      BY <2>1, <2>2, <2>3, <3>1, <3>2, <3>3, <3>5 DEF WindowInv
  <2>5. CASE ~(p \notin Kept /\ HasRoom(p))
    <3>1. nonces' = Kept /\ taken' = taken
      BY <1>2, <2>5 DEF Arrives
    <3>2. Cardinality(Kept) <= Room
      BY <2>1, <2>2 DEF WindowInv
    <3> QED
      BY <2>1, <2>2, <2>3, <3>1, <3>2 DEF WindowInv
  <2> QED
    BY <2>4, <2>5
<1>3. CASE UNCHANGED nvars
  BY <1>3 DEF nvars, WindowInv
<1> QED
  BY <1>1, <1>2, <1>3 DEF NNext

LEMMA WindowHolds == WindowInv => NTypeOK /\ TakenOnceInside
<1> SUFFICES ASSUME WindowInv PROVE NTypeOK /\ TakenOnceInside
  OBVIOUS
<1>1. ASSUME NEW p \in Packet PROVE Cardinality(taken[p] \ {Stamp[p] + Skew}) <= 1
  <2> DEFINE S == taken[p] \ {Stamp[p] + Skew}
  <2>1. \A m, n \in S : m = n
    BY DEF WindowInv, EndOf
  <2>2. S = {} \/ \E m : S = {m}
    BY <2>1
  <2>3. Cardinality({}) = 0 /\ \A m : Cardinality({m}) = 1
    BY FS_EmptySet, FS_Singleton
  <2> HIDE DEF S
  <2>4. Cardinality(S) \in {0, 1}
    BY <2>2, <2>3
  <2> QED
    BY <2>4 DEF S
<1> QED
  BY <1>1 DEF NTypeOK, TakenOnceInside, WindowInv

-----------------------------------------------------------------------------
(* The list, whatever it is made from.                                      *)
LEMMA ListHolds == PairedShown /\ ReachableShown
<1>1. \A i \in Local \cup roster : i \in Merged /\ Online(i)
  BY DEF Merged, Online, Source
<1>2. ReachableShown
  BY <1>1 DEF ReachableShown, Shown, Hidden
<1>3. PairedShown
  BY DEF PairedShown, Shown, Hidden, Merged
<1> QED
  BY <1>2, <1>3

(* The file holds the targets of a running service, a packet is acted on at *)
(* one moment inside the window, and whom the user paired with or can reach *)
(* is in the list (discovery.rs, device_merge.rs).                          *)
THEOREM DevicesAlwaysKnown == DSpec /\ NSpec /\ LSpec => []DevicesKnown
<1>1. FoundInv /\ WindowInv => DevicesKnown
  BY WindowHolds, ListHolds DEF DevicesKnown, FoundInv
<1> QED
  BY <1>1, FoundBegins, FoundStep, WindowBegins, WindowStep, PTL DEF DSpec, NSpec

-----------------------------------------------------------------------------
(* The choice of a channel: there is a best score and, among equals, a      *)
(* first address.                                                           *)
LEMMA ScoreRange == \A r : Score(r) \in 0 .. 100
<1> SUFFICES ASSUME NEW r PROVE Score(r) \in 0 .. 100
  OBVIOUS
<1>1. RttScore(r.rtt) \in {0, 20, 60, 100}
  BY DEF RttScore
<1>2. RateScore(r.rate) \in {0, 50, 100}
  BY DEF RateScore
<1>3. (IF r.dirty = 0 THEN 100 ELSE 0) \in {0, 100}
  OBVIOUS
<1> DEFINE x == RttScore(r.rtt)
           y == RateScore(r.rate)
           z == IF r.dirty = 0 THEN 100 ELSE 0
<1> HIDE DEF x, y, z
<1>4. x \in {0, 20, 60, 100} /\ y \in {0, 50, 100} /\ z \in {0, 100}
  BY <1>1, <1>2, <1>3 DEF x, y, z
<1> DEFINE sum == 50 * x + 35 * y + 15 * z
<1>5. sum \in 0 .. 10000
  BY <1>4
<1> HIDE DEF sum
<1>6. \A n \in 0 .. 10000 : n \div 100 \in 0 .. 100
  <2> SUFFICES ASSUME NEW n \in Nat, n <= 10000 PROVE n \div 100 \in 0 .. 100
    OBVIOUS
  <2> QED
    OBVIOUS
<1>7. sum \div 100 \in 0 .. 100
  BY <1>5, <1>6
<1> QED
  BY <1>7 DEF Score, sum, x, y, z

LEMMA LeastOf ==
  ASSUME NEW S \in SUBSET Nat, S # {}
  PROVE  \E x \in S : \A y \in S : x <= y
<1>1. PICK x \in S : \A y \in S : ~(<<y, x>> \in OpToRel(<, Nat))
  BY NatLessThanWellFounded, WFMin
<1>2. \A y \in S : x <= y
  <2> SUFFICES ASSUME NEW y \in S PROVE x <= y
    OBVIOUS
  <2>1. x \in Nat /\ y \in Nat /\ ~(y < x)
    BY <1>1 DEF OpToRel
  <2> QED
    BY <2>1
<1> QED
  BY <1>2

LEMMA BestOf ==
  ASSUME NEW R \in SUBSET Address, R # {}
  PROVE  \E b \in R : \A a \in R : Score(rec[a]) <= Score(rec[b])
<1> DEFINE S == {100 - Score(rec[a]) : a \in R}
<1>1. \A a \in R : Score(rec[a]) \in 0 .. 100
  BY ScoreRange
<1>2. S \in SUBSET Nat /\ S # {}
  BY <1>1
<1>3. PICK x \in S : \A y \in S : x <= y
  <2> HIDE DEF S
  <2> QED
    BY <1>2, LeastOf
<1>4. PICK b \in R : x = 100 - Score(rec[b])
  BY <1>3
<1>5. ASSUME NEW a \in R PROVE Score(rec[a]) <= Score(rec[b])
  <2>1. 100 - Score(rec[b]) <= 100 - Score(rec[a])
    BY <1>3, <1>4
  <2> QED
    BY <1>1, <2>1
<1> QED
  BY <1>5

LEMMA FirstOf ==
  ASSUME NEW P \in SUBSET Address, P # {}
  PROVE  \E a \in P : \A b \in P : Score(rec[b]) < Score(rec[a]) \/ (Score(rec[b]) = Score(rec[a]) /\ a <= b)
<1>1. PICK t \in P : \A a \in P : Score(rec[a]) <= Score(rec[t])
  BY BestOf
<1> DEFINE T == {a \in P : Score(rec[a]) = Score(rec[t])}
<1>2. T \in SUBSET Nat /\ T # {}
  BY RoutingAssumption
<1>3. PICK x \in T : \A y \in T : x <= y
  <2> HIDE DEF T
  <2> QED
    BY <1>2, LeastOf
<1>4. \A a \in P : Score(rec[a]) \in 0 .. 100
  BY ScoreRange
<1>5. ASSUME NEW b \in P PROVE Score(rec[b]) < Score(rec[x]) \/ (Score(rec[b]) = Score(rec[x]) /\ x <= b)
  BY <1>1, <1>3, <1>4
<1> QED
  BY <1>3, <1>5

(* The preferred channel is a candidate; if it is recorded as the relay's,  *)
(* every other that is not is behind by more than the hysteresis.           *)
LEMMA PreferredSound ==
  ASSUME NEW R \in SUBSET Address, R # {}
  PROVE  /\ Preferred(R) \in R
         /\ rec[Preferred(R)].via =>
              \A a \in R : ~rec[a].via => Score(rec[a]) + Hysteresis < Score(rec[Preferred(R)])
<1> DEFINE best == CHOOSE b \in R : \A a \in R : Score(rec[a]) <= Score(rec[b])
           near == {a \in R : Score(rec[best]) - Score(rec[a]) <= Hysteresis /\ Direct(R, a)}
           pool == IF near = {} THEN {a \in R : Score(rec[a]) = Score(rec[best])} ELSE near
           first == CHOOSE a \in pool : \A b \in pool :
                      Score(rec[b]) < Score(rec[a]) \/ (Score(rec[b]) = Score(rec[a]) /\ a <= b)
<1>1. best \in R /\ \A a \in R : Score(rec[a]) <= Score(rec[best])
  BY BestOf
<1>2. Preferred(R) = first
  BY DEF Preferred
<1> HIDE DEF best
<1>3. pool \in SUBSET Address /\ pool # {} /\ pool \subseteq R
  BY <1>1
<1>4. first \in pool
  <2> HIDE DEF pool
  <2> QED
    BY <1>3, FirstOf
<1>5. ASSUME rec[first].via, NEW a \in R, ~rec[a].via PROVE Score(rec[a]) + Hysteresis < Score(rec[first])
  <2>1. near = {}
    BY <1>4, <1>5 DEF Direct
  <2>4. Score(rec[first]) = Score(rec[best])
    BY <1>4, <2>1
  <2> DEFINE sb == Score(rec[best])
             sa == Score(rec[a])
             sf == Score(rec[first])
  <2>2. ~(Score(rec[best]) - Score(rec[a]) <= Hysteresis)
    BY <1>5, <2>1 DEF Direct
  <2>3. sb \in 0 .. 100 /\ sa \in 0 .. 100 /\ sf = sb /\ ~(sb - sa <= Hysteresis)
    BY <2>2, <2>4, ScoreRange
  <2> HIDE DEF sa, sb, sf
  <2>5. sa + Hysteresis < sf
    BY <2>3 DEF Hysteresis
  <2> QED
    BY <2>5 DEF sa, sf
<1> QED
  BY <1>2, <1>3, <1>4, <1>5

LEMMA DecideSound ==
  ASSUME NEW pool \in SUBSET Address, NEW at, Decide(pool, at) # NoAddr
  PROVE  LET d == Decide(pool, at)
         IN /\ d \in pool /\ Ready(rec[d]) /\ d # at
            /\ at \in pool /\ Ready(rec[at]) => Score(rec[d]) >= Score(rec[at]) + Hysteresis
            /\ \A a \in pool : Ready(rec[a]) /\ ~rec[a].via /\ rec[d].via
                 => Score(rec[a]) + Hysteresis < Score(rec[d])
<1> DEFINE R == {a \in pool : Ready(rec[a])}
           d == Decide(pool, at)
<1>1. R # {} /\ d = Preferred(R) /\ (at \notin R \/ (d # at /\ Score(rec[d]) - Score(rec[at]) >= Hysteresis))
  BY DEF Decide
<1>2. R \in SUBSET Address
  OBVIOUS
<1> HIDE DEF R, d
<1>3. d \in R /\ (rec[d].via => \A a \in R : ~rec[a].via => Score(rec[a]) + Hysteresis < Score(rec[d]))
  BY <1>1, <1>2, PreferredSound
<1>4. Score(rec[d]) \in 0 .. 100 /\ Score(rec[at]) \in 0 .. 100 /\ Hysteresis \in Nat
  BY ScoreRange DEF Hysteresis
<1>5. at \in R => Score(rec[d]) >= Score(rec[at]) + Hysteresis
  BY <1>1, <1>4
<1>6. d # at
  <2>1. d \in R
    BY <1>3
  <2> QED
    BY <1>1, <2>1
<1> QED
  BY <1>3, <1>5, <1>6 DEF R, d

LEMMA Chosen == ChoiceSound
<1>1. Candidates \in SUBSET Address
  BY DEF Candidates
<1>2. ASSUME Decide(Candidates, current) # NoAddr
      PROVE  LET d == Decide(Candidates, current)
             IN /\ d \in Candidates /\ Ready(rec[d]) /\ d # current
                /\ current \in Candidates /\ Ready(rec[current]) => Score(rec[d]) >= Score(rec[current]) + Hysteresis
                /\ \A a \in Candidates : Ready(rec[a]) /\ ~rec[a].via /\ rec[d].via
                     => Score(rec[a]) + Hysteresis < Score(rec[d])
  BY <1>1, <1>2, DecideSound
<1>3. \A d \in Candidates : rec[d].via => relayUp
  BY DEF Candidates
<1> QED
  BY <1>2, <1>3 DEF ChoiceSound

-----------------------------------------------------------------------------
(* The records. One address is recorded as the relay's and is one of the    *)
(* relay's, and so is every one a task was told this of; a streak of         *)
(* doublings was measured since the last move.                              *)
Record == [known : BOOLEAN, via : BOOLEAN, rtt : Int, rate : Int, full : Int, dirty : Int, fails : Int,
           off : BOOLEAN, streak : Nat]
Task   == [to : Address, gen : Nat, via : BOOLEAN, step : {"wait", "probe"}]
Work   == [pc : {"idle", "move", "quick", "full"}, conn : [to : Address \cup {NoAddr}, gen : Nat],
           at : Address \cup {NoAddr}, plan : Address \cup {NoAddr}, via : BOOLEAN]

RecordsInv ==
  /\ rec \in [Address -> Record] /\ doubled \in [Address -> Nat]
  /\ \A a \in Address : rec[a].via => a \in Relays /\ rec[a].known
  /\ \A a, b \in Address : rec[a].via /\ rec[b].via => a = b
  /\ \A a \in Address : rec[a].streak <= doubled[a]

TasksInv ==
  /\ current \in Address \cup {NoAddr} /\ gen \in Nat
  /\ session \in [to : Address \cup {NoAddr}, gen : Nat]
  /\ ups \subseteq Task /\ prober \in [Prober -> Work]
  /\ \A u \in ups : u.via => u.to \in Relays
  /\ \A p \in Prober : /\ prober[p].pc = "move" => prober[p].plan \in Address
                       /\ prober[p].pc \in {"quick", "full"} => prober[p].at \in Address

LEMMA Empty ==
  /\ NoRec \in Record /\ ~NoRec.known /\ ~NoRec.via /\ NoRec.streak = 0 /\ NoRec.rtt = -1
  /\ \A v \in BOOLEAN : Fresh(v) \in Record /\ Fresh(v).streak = 0 /\ Fresh(v).known /\ Fresh(v).via = v
<1>1. NoRec \in Record /\ ~NoRec.known /\ ~NoRec.via /\ NoRec.streak = 0 /\ NoRec.rtt = -1
  BY DEF NoRec, Record
<1>2. ASSUME NEW v \in BOOLEAN
      PROVE  Fresh(v) \in Record /\ Fresh(v).streak = 0 /\ Fresh(v).known /\ Fresh(v).via = v
  <2>1. Fresh(v) = [NoRec EXCEPT !.known = TRUE, !.via = v]
    BY DEF Fresh
  <2> QED
    BY <1>1, <2>1 DEF Record
<1> QED
  BY <1>1, <1>2

(* What a measurement makes of a record.                                    *)
Measures(r, q, measured) ==
  /\ q \in Record /\ (q.known => r.known) /\ (q.via => r.via /\ q.known = r.known)
  /\ q.streak <= r.streak + (IF r.known /\ q.rtt >= 0 /\ measured /\ Doubles(r, q.rtt) THEN 1 ELSE 0)

LEMMA LossNoted ==
  ASSUME NEW r \in Record, NEW ok \in BOOLEAN
  PROVE  /\ Sample(r, ok) \in Record /\ Sample(r, ok).known = r.known /\ Sample(r, ok).via = r.via
         /\ Sample(r, ok).rtt = r.rtt /\ Sample(r, ok).streak = r.streak
<1>1. CASE ~r.known
  BY <1>1 DEF Sample
<1>2. CASE r.known /\ ok
  <2> DEFINE d == IF r.dirty = 0 THEN 0 ELSE r.dirty - 1
  <2>1. Sample(r, ok) = [r EXCEPT !.dirty = d, !.fails = 0]
    BY <1>2 DEF Sample
  <2>2. d \in Int /\ 0 \in Int
    BY DEF Record
  <2> HIDE DEF d
  <2> QED
    BY <2>1, <2>2 DEF Record
<1>3. CASE r.known /\ ~ok
  <2> DEFINE f == r.fails + 1
  <2>1. Sample(r, ok) = [r EXCEPT !.dirty = Window, !.fails = f, !.off = TRUE]
    BY <1>3 DEF Sample
  <2>2. f \in Int /\ Window \in Int
    BY RoutingAssumption DEF Record
  <2> HIDE DEF f
  <2> QED
    BY <2>1, <2>2 DEF Record
<1> QED
  BY <1>1, <1>2, <1>3

LEMMA ReapedTo ==
  ASSUME NEW r \in Record
  PROVE  Reaped(r) \in {r, NoRec} /\ Reaped(r) \in Record
  BY Empty DEF Reaped

LEMMA RttTo ==
  ASSUME NEW r \in Record, NEW t \in Nat
  PROVE  /\ RttNoted(r, t) \in Record /\ RttNoted(r, t).known = r.known /\ RttNoted(r, t).via = r.via
         /\ ~r.known => RttNoted(r, t) = r
         /\ r.known => RttNoted(r, t).rtt = t
                       /\ RttNoted(r, t).streak = IF Doubles(r, t) THEN r.streak + 1 ELSE 0
<1>1. CASE ~r.known
  BY <1>1 DEF RttNoted
<1>2. CASE r.known
  <2> DEFINE n == IF Doubles(r, t) THEN r.streak + 1 ELSE 0
  <2>1. RttNoted(r, t) = [r EXCEPT !.rtt = t, !.streak = n]
    BY <1>2 DEF RttNoted
  <2>2. n \in Nat /\ t \in Int
    BY DEF Record
  <2> HIDE DEF n
  <2>3. /\ RttNoted(r, t) \in Record /\ RttNoted(r, t).known = r.known /\ RttNoted(r, t).via = r.via
        /\ RttNoted(r, t).rtt = t /\ RttNoted(r, t).streak = n
    BY <2>1, <2>2 DEF Record
  <2> QED
    BY <1>2, <2>3 DEF n
<1> QED
  BY <1>1, <1>2

LEMMA RateTo ==
  ASSUME NEW r \in Record, NEW kind, NEW b \in Nat
  PROVE  /\ RateNoted(r, kind, b) \in Record /\ RateNoted(r, kind, b).known = r.known /\ RateNoted(r, kind, b).via = r.via
         /\ RateNoted(r, kind, b).rtt = r.rtt /\ RateNoted(r, kind, b).streak = r.streak
<1>1. CASE ~r.known
  BY <1>1 DEF RateNoted
<1>2. CASE r.known
  <2> DEFINE f == IF kind = "full" THEN b ELSE r.full
  <2>1. RateNoted(r, kind, b) = [r EXCEPT !.rate = b, !.full = f]
    BY <1>2 DEF RateNoted
  <2>2. f \in Int /\ b \in Int
    BY DEF Record
  <2> HIDE DEF f
  <2> QED
    BY <2>1, <2>2 DEF Record
<1> QED
  BY <1>1, <1>2

LEMMA Answers3 ==
  ASSUME NEW o \in [1 .. 3 -> BOOLEAN]
  PROVE  Answered(o) \in Nat
<1>1. 1 \in Int /\ 3 \in Int
  OBVIOUS
<1>2. IsFiniteSet(1 .. 3)
  BY <1>1, FS_Interval
<1>3. {i \in 1 .. 3 : o[i]} \subseteq 1 .. 3
  OBVIOUS
<1> QED
  BY <1>2, <1>3, FS_Subset, FS_CardinalityType DEF Answered

LEMMA PingedTo ==
  ASSUME NEW r \in Record, NEW t \in Nat, NEW o \in [1 .. 3 -> BOOLEAN]
  PROVE  Measures(r, Pinged(r, t, o), Answered(o) > 1)
<1> DEFINE s1 == Sample(r, o[1])
           s2 == Sample(s1, o[2])
           s3 == Sample(s2, o[3])
           kept == Reaped(s3)
           n == Answered(o)
<1>0. n \in Nat
  BY Answers3
<1>1. s1 \in Record /\ s1.known = r.known /\ s1.via = r.via /\ s1.rtt = r.rtt /\ s1.streak = r.streak
  BY LossNoted
<1> HIDE DEF s1
<1>2. s2 \in Record /\ s2.known = r.known /\ s2.via = r.via /\ s2.rtt = r.rtt /\ s2.streak = r.streak
  BY <1>1, LossNoted
<1> HIDE DEF s2
<1>3. s3 \in Record /\ s3.known = r.known /\ s3.via = r.via /\ s3.rtt = r.rtt /\ s3.streak = r.streak
  BY <1>2, LossNoted
<1> HIDE DEF s3
<1>4. kept \in Record /\ kept \in {s3, NoRec}
  BY <1>3, ReapedTo
<1>5. Pinged(r, t, o) = IF n = 0 THEN kept ELSE RttNoted(kept, Median(t, n))
  BY DEF Pinged, kept, s3, s2, s1
<1> HIDE DEF kept, n
<1>6. r.streak \in Nat /\ r.rtt \in Int /\ r.known \in BOOLEAN
  BY DEF Record
<1>7. /\ kept.streak <= r.streak
      /\ (kept.known => r.known /\ kept.rtt = r.rtt /\ kept.streak = r.streak)
      /\ (kept.via => r.via /\ kept.known = r.known)
  BY <1>3, <1>4, <1>6, Empty
<1>8. CASE n = 0 \/ ~kept.known
  <2>1. Pinged(r, t, o) = kept
    <3>1. Median(t, n) \in Nat
      BY DEF Median
    <3> QED
      BY <1>4, <1>5, <1>8, <3>1, RttTo
  <2>2. kept.streak \in Nat
    BY <1>4 DEF Record
  <2> QED
    BY <1>4, <1>6, <1>7, <2>1, <2>2 DEF Measures
<1>9. CASE n # 0 /\ kept.known
  <2> DEFINE m == Median(t, n)
             q == RttNoted(kept, m)
  <2>1. m \in Nat /\ (m = 0 \/ n > 1)
    BY <1>0, <1>9 DEF Median
  <2> HIDE DEF m
  <2>2. q \in Record /\ q.known /\ q.via = kept.via /\ q.rtt = m /\ q.streak = IF Doubles(kept, m) THEN kept.streak + 1 ELSE 0
    BY <1>4, <1>9, <2>1, RttTo
  <2> HIDE DEF q
  <2>3. Pinged(r, t, o) = q
    BY <1>5, <1>9 DEF q, m
  <2>4. Doubles(kept, m) => Doubles(r, m) /\ n > 1
    BY <1>6, <1>7, <1>9, <2>1 DEF Doubles
  <2>5. q.streak <= r.streak + (IF r.known /\ q.rtt >= 0 /\ n > 1 /\ Doubles(r, q.rtt) THEN 1 ELSE 0)
    BY <1>6, <1>7, <1>9, <2>1, <2>2, <2>4
  <2> QED
    BY <1>7, <1>9, <2>2, <2>3, <2>5 DEF Measures, n
<1> QED
  BY <1>8, <1>9

LEMMA LadderedTo ==
  ASSUME NEW r \in Record, NEW q \in Record, NEW m \in BOOLEAN, Measures(r, q, m),
         NEW done, NEW b \in Nat
  PROVE  Measures(r, Laddered(q, done, b), m)
<1> DEFINE s == Sample(q, FALSE)
           kept == IF done < 3 THEN Reaped(s) ELSE q
           t == Sample(kept, TRUE)
           l == RateNoted(t, "full", b)
<1>1. s \in Record /\ s.known = q.known /\ s.via = q.via /\ s.rtt = q.rtt /\ s.streak = q.streak
  BY LossNoted
<1> HIDE DEF s
<1>2. kept \in Record /\ (kept = NoRec \/ (kept.known = q.known /\ kept.via = q.via /\ kept.rtt = q.rtt /\ kept.streak = q.streak))
  BY <1>1, ReapedTo
<1> HIDE DEF kept
<1>3. t \in Record /\ t.known = kept.known /\ t.via = kept.via /\ t.rtt = kept.rtt /\ t.streak = kept.streak
  BY <1>2, LossNoted
<1> HIDE DEF t
<1>4. l \in Record /\ l.known = kept.known /\ l.via = kept.via /\ l.rtt = kept.rtt /\ l.streak = kept.streak
  BY <1>3, RateTo
<1>5. Laddered(q, done, b) \in {kept, l}
  BY DEF Laddered, l, t, kept, s
<1> HIDE DEF l
<1>6. \A x \in {kept, l} : x \in Record /\ (\/ ~x.known /\ ~x.via /\ x.streak = 0
                                            \/ x.known = q.known /\ x.via = q.via /\ x.rtt = q.rtt /\ x.streak = q.streak)
  BY <1>2, <1>4, Empty
<1>7. r.streak \in Nat
  BY DEF Record
<1> QED
  BY <1>5, <1>6, <1>7 DEF Measures

LEMMA QuickTo ==
  ASSUME NEW r \in Record, NEW t \in Nat, NEW b \in Nat
  PROVE  /\ Measures(r, RateNoted(Sample(RttNoted(Sample(r, TRUE), t), TRUE), "quick", b), TRUE)
         /\ Measures(r, Reaped(Sample(RttNoted(Sample(r, TRUE), t), FALSE)), TRUE)
         /\ Measures(r, Reaped(Sample(r, FALSE)), TRUE)
<1> DEFINE s1 == Sample(r, TRUE)
           s2 == RttNoted(s1, t)
           s3 == Sample(s2, TRUE)
           s4 == RateNoted(s3, "quick", b)
           s5 == Sample(s2, FALSE)
           s6 == Reaped(s5)
           s7 == Sample(r, FALSE)
           s8 == Reaped(s7)
<1>0. r.streak \in Nat /\ r.rtt \in Int /\ r.known \in BOOLEAN
  BY DEF Record
<1>1. s1 \in Record /\ s1.known = r.known /\ s1.via = r.via /\ s1.rtt = r.rtt /\ s1.streak = r.streak
  BY LossNoted
<1>7. s7 \in Record /\ s7.known = r.known /\ s7.via = r.via /\ s7.rtt = r.rtt /\ s7.streak = r.streak
  BY LossNoted
<1> HIDE DEF s1, s7
<1>2. /\ s2 \in Record /\ s2.known = r.known /\ s2.via = r.via /\ (~r.known => s2 = s1)
      /\ r.known => s2.rtt = t /\ s2.streak = IF Doubles(s1, t) THEN s1.streak + 1 ELSE 0
  BY <1>1, RttTo
<1>8. s8 \in Record /\ s8 \in {s7, NoRec}
  BY <1>7, ReapedTo
<1> HIDE DEF s2, s8
<1>3. Measures(r, s2, TRUE)
  BY <1>0, <1>1, <1>2 DEF Measures, Doubles
<1>4. s3 \in Record /\ s3.known = s2.known /\ s3.via = s2.via /\ s3.rtt = s2.rtt /\ s3.streak = s2.streak
  BY <1>2, LossNoted
<1>5. s5 \in Record /\ s5.known = s2.known /\ s5.via = s2.via /\ s5.rtt = s2.rtt /\ s5.streak = s2.streak
  BY <1>2, LossNoted
<1> HIDE DEF s3, s5
<1>6. s4 \in Record /\ s4.known = s2.known /\ s4.via = s2.via /\ s4.rtt = s2.rtt /\ s4.streak = s2.streak
  BY <1>4, RateTo
<1>9. s6 \in Record /\ s6 \in {s5, NoRec}
  BY <1>5, ReapedTo
<1> HIDE DEF s4, s6
<1>10. Measures(r, s4, TRUE)
  BY <1>3, <1>6 DEF Measures
<1>11. Measures(r, s6, TRUE)
  BY <1>0, <1>3, <1>5, <1>9, Empty DEF Measures
<1>12. Measures(r, s8, TRUE)
  BY <1>0, <1>7, <1>8, Empty DEF Measures
<1> QED
  BY <1>10, <1>11, <1>12 DEF s1, s2, s3, s4, s5, s6, s7, s8

(* The steps of the records.                                                *)
Probed(a) == \E q \in Record, m \in BOOLEAN : Noted(a, q, m) /\ Measures(rec[a], q, m)

LEMMA FullProbes ==
  ASSUME RecordsInv, NEW conn, NEW a \in Address, FullProbe(conn, a)
  PROVE  Probed(a)
<1> DEFINE r == rec[a]
<1>0. r \in Record
  BY DEF RecordsInv
<1> HIDE DEF r
<1>1. ASSUME NEW t \in Rtts, NEW o \in [1 .. 3 -> BOOLEAN], NEW done \in {0, 2, 3}, NEW b \in Rates,
             Noted(a, Laddered(Pinged(r, t, o), done, b), Answered(o) > 1)
      PROVE  Probed(a)
  <2> DEFINE q == Pinged(r, t, o)
             l == Laddered(q, done, b)
             m == Answered(o) > 1
  <2>1. t \in Nat /\ b \in Nat /\ m \in BOOLEAN
    BY RoutingAssumption
  <2>2. Measures(r, q, m)
    BY <1>0, <2>1, PingedTo
  <2> HIDE DEF q, m
  <2>3. Measures(r, l, m)
    BY <1>0, <2>1, <2>2, LadderedTo DEF Measures
  <2>4. Noted(a, l, m)
    BY <1>1 DEF q, m
  <2> HIDE DEF l
  <2>5. l \in Record
    BY <2>3 DEF Measures
  <2> QED
    BY <2>1, <2>3, <2>4, <2>5 DEF Probed, r
<1>2. ASSUME Noted(a, Pinged(r, 0, [i \in 1 .. 3 |-> FALSE]), FALSE)
      PROVE  Probed(a)
  <2> DEFINE o == [i \in 1 .. 3 |-> FALSE]
             q == Pinged(r, 0, o)
  <2>1. o \in [1 .. 3 -> BOOLEAN] /\ 0 \in Nat
    OBVIOUS
  <2>2. Answered(o) = 0
    <3>1. {i \in 1 .. 3 : o[i]} = {}
      OBVIOUS
    <3> QED
      BY <3>1, FS_EmptySet DEF Answered
  <2>3. ~(Answered(o) > 1)
    BY <2>2
  <2> HIDE DEF o
  <2>4. Measures(r, q, Answered(o) > 1)
    BY <1>0, <2>1, PingedTo
  <2>5. Measures(r, q, FALSE)
    BY <2>3, <2>4 DEF Measures
  <2>6. Noted(a, q, FALSE)
    BY <1>2 DEF o
  <2> HIDE DEF q
  <2>7. q \in Record
    BY <2>5 DEF Measures
  <2> QED
    BY <2>5, <2>6, <2>7 DEF Probed, r
<1> QED
  BY <1>1, <1>2 DEF FullProbe, r

LEMMA QuickProbes ==
  ASSUME RecordsInv, NEW a \in Address,
         (\E b \in Rates : QuickGood(a, b)) \/ QuickHalf(a) \/ QuickLost(a)
  PROVE  Probed(a)
<1> DEFINE r == rec[a]
<1>0. r \in Record /\ 0 \in Nat
  BY DEF RecordsInv
<1> HIDE DEF r
<1>1. ASSUME NEW b \in Rates, NEW t \in Rtts,
             Noted(a, RateNoted(Sample(RttNoted(Sample(r, TRUE), t), TRUE), "quick", b), TRUE)
      PROVE  Probed(a)
  <2> DEFINE q == RateNoted(Sample(RttNoted(Sample(r, TRUE), t), TRUE), "quick", b)
  <2>1. t \in Nat /\ b \in Nat
    BY RoutingAssumption
  <2>2. Measures(r, q, TRUE)
    BY <1>0, <2>1, QuickTo
  <2> HIDE DEF q
  <2> QED
    BY <1>1, <2>2 DEF Probed, Measures, r, q
<1>2. ASSUME NEW t \in Rtts, Noted(a, Reaped(Sample(RttNoted(Sample(r, TRUE), t), FALSE)), TRUE)
      PROVE  Probed(a)
  <2> DEFINE q == Reaped(Sample(RttNoted(Sample(r, TRUE), t), FALSE))
  <2>1. t \in Nat
    BY RoutingAssumption
  <2>2. Measures(r, q, TRUE)
    BY <1>0, <2>1, QuickTo
  <2> HIDE DEF q
  <2> QED
    BY <1>2, <2>2 DEF Probed, Measures, r, q
<1>3. ASSUME Noted(a, Reaped(Sample(r, FALSE)), FALSE)
      PROVE  Probed(a)
  <2> DEFINE s == Sample(r, FALSE)
             q == Reaped(s)
  <2>1. s \in Record /\ s.known = r.known /\ s.via = r.via /\ s.streak = r.streak
    BY <1>0, LossNoted
  <2> HIDE DEF s
  <2>2. q \in Record /\ q \in {s, NoRec}
    BY <2>1, ReapedTo
  <2>3. Noted(a, q, FALSE)
    BY <1>3 DEF s
  <2> HIDE DEF q
  <2>4. Measures(r, q, FALSE)
    BY <1>0, <2>1, <2>2, Empty DEF Measures, Record
  <2> QED
    BY <2>2, <2>3, <2>4 DEF Probed, r
<1> QED
  BY <1>1, <1>2, <1>3 DEF QuickGood, QuickHalf, QuickLost, r

LEMMA ProbedKeeps ==
  ASSUME RecordsInv, NEW a \in Address, Probed(a)
  PROVE  RecordsInv'
<1>1. PICK q \in Record, m \in BOOLEAN : Noted(a, q, m) /\ Measures(rec[a], q, m)
  BY DEF Probed
<1> DEFINE twice == rec[a].known /\ q.rtt >= 0 /\ m /\ Doubles(rec[a], q.rtt)
<1>2. rec' = [rec EXCEPT ![a] = q] /\ doubled' = IF twice THEN [doubled EXCEPT ![a] = doubled[a] + 1] ELSE doubled
  BY <1>1 DEF Noted
<1>3. /\ q.via => rec[a].via /\ q.known = rec[a].known
      /\ q.streak <= rec[a].streak + (IF twice THEN 1 ELSE 0)
  BY <1>1 DEF Measures
<1> HIDE DEF twice
<1>4. rec[a].streak \in Nat /\ q.streak \in Nat /\ doubled[a] \in Nat /\ rec[a].streak <= doubled[a]
  BY DEF RecordsInv, Record
<1>5. q.streak <= doubled'[a] /\ doubled' \in [Address -> Nat] /\ \A x \in Address \ {a} : doubled'[x] = doubled[x]
  BY <1>2, <1>3, <1>4 DEF RecordsInv
<1>6. rec' \in [Address -> Record] /\ rec'[a] = q /\ \A x \in Address \ {a} : rec'[x] = rec[x]
  BY <1>2 DEF RecordsInv
<1>7. \A x \in Address : rec'[x].via => rec[x].via /\ rec'[x].known = rec[x].known
  BY <1>3, <1>6
<1>8. \A x \in Address : rec'[x].streak <= doubled'[x]
  BY <1>5, <1>6 DEF RecordsInv
<1>9. \A x \in Address : rec'[x].via => x \in Relays /\ rec'[x].known
  BY <1>7 DEF RecordsInv
<1>10. \A x, y \in Address : rec'[x].via /\ rec'[y].via => x = y
  BY <1>7 DEF RecordsInv
<1> QED
  BY <1>5, <1>6, <1>8, <1>9, <1>10 DEF RecordsInv

LEMMA RegisterKeeps ==
  ASSUME RecordsInv, NEW a \in Address, NEW via \in BOOLEAN, via => a \in Relays, NoteConnected(a, via)
  PROVE  RecordsInv' /\ current' = a
<1>1. current' = a /\ doubled' = [doubled EXCEPT ![a] = 0] /\ rec' = Registered(a, via)
  BY DEF NoteConnected
<1> DEFINE new == IF rec[a].known THEN [rec[a] EXCEPT !.off = FALSE, !.streak = 0] ELSE Fresh(via)
           gone == Replaced(a, via)
<1>2. /\ new \in Record /\ new.streak = 0 /\ new.known
      /\ new.via => rec[a].via \/ via
  <2> DEFINE r == rec[a]
             q == [r EXCEPT !.off = FALSE, !.streak = 0]
  <2>1. r \in Record
    BY DEF RecordsInv
  <2> HIDE DEF r
  <2>2. q \in Record /\ q.streak = 0 /\ q.known = r.known /\ q.via = r.via
    BY <2>1 DEF Record
  <2>3. new = IF r.known THEN q ELSE Fresh(via)
    BY DEF r
  <2> HIDE DEF q, new
  <2>4. CASE r.known
    BY <2>2, <2>3, <2>4 DEF r
  <2>5. CASE ~r.known
    BY <2>3, <2>5, Empty
  <2> QED
    BY <2>4, <2>5
<1>3. rec' = [b \in Address |-> IF b \in gone THEN NoRec ELSE IF b # a THEN rec[b] ELSE new]
  BY <1>1 DEF Registered
<1>4. a \notin gone /\ (via => gone = {b \in Address \ {a} : rec[b].via})
  BY DEF Replaced
<1> HIDE DEF new, gone
<1>5. /\ rec' \in [Address -> Record] /\ rec'[a] = new
      /\ \A b \in Address \ {a} : rec'[b] = IF b \in gone THEN NoRec ELSE rec[b]
  BY <1>2, <1>3, <1>4, Empty DEF RecordsInv
<1>6. doubled' \in [Address -> Nat] /\ doubled'[a] = 0 /\ \A b \in Address \ {a} : doubled'[b] = doubled[b]
  BY <1>1 DEF RecordsInv
<1>7. \A x \in Address : rec'[x].streak <= doubled'[x]
  <2>1. \A x \in Address : doubled[x] \in Nat
    BY DEF RecordsInv
  <2> QED
    BY <1>2, <1>5, <1>6, <2>1, Empty DEF RecordsInv
<1>8. ASSUME NEW x \in Address, rec'[x].via PROVE x \in Relays /\ rec'[x].known
  BY <1>2, <1>5, <1>8, Empty DEF RecordsInv
<1>9. ASSUME NEW x \in Address, NEW y \in Address, rec'[x].via, rec'[y].via PROVE x = y
  <2>1. CASE via
    <3>1. \A b \in Address \ {a} : ~rec'[b].via
      BY <1>4, <1>5, <2>1, Empty
    <3> QED
      BY <1>9, <3>1
  <2>2. CASE ~via
    <3>1. \A b \in Address : rec'[b].via => rec[b].via
      BY <1>2, <1>5, <2>2, Empty
    <3> QED
      BY <1>9, <3>1 DEF RecordsInv
  <2> QED
    BY <2>1, <2>2
<1> QED
  BY <1>1, <1>5, <1>6, <1>7, <1>8, <1>9 DEF RecordsInv

(* A record that a failure leaves as it was, or removes; or whose streak is *)
(* taken.                                                                   *)
LEMMA LessKeeps ==
  ASSUME RecordsInv, NEW a \in Address, NEW q \in Record, rec' = [rec EXCEPT ![a] = q],
         q.via => rec[a].via /\ q.known = rec[a].known, q.streak <= rec[a].streak,
         doubled' = doubled \/ (q.streak = 0 /\ doubled' = [doubled EXCEPT ![a] = 0])
  PROVE  RecordsInv'
<1>1. rec' \in [Address -> Record] /\ rec'[a] = q /\ \A x \in Address \ {a} : rec'[x] = rec[x]
  BY DEF RecordsInv
<1>2. /\ doubled' \in [Address -> Nat] /\ \A x \in Address \ {a} : doubled'[x] = doubled[x]
      /\ doubled'[a] = doubled[a] \/ (q.streak = 0 /\ doubled'[a] = 0)
  BY DEF RecordsInv
<1>3. \A x \in Address : rec'[x].via => rec[x].via /\ rec'[x].known = rec[x].known
  BY <1>1
<1>4. rec[a].streak \in Nat /\ q.streak \in Nat /\ doubled[a] \in Nat /\ rec[a].streak <= doubled[a]
  BY DEF RecordsInv, Record
<1>5. \A x \in Address : rec'[x].streak <= doubled'[x]
  BY <1>1, <1>2, <1>4 DEF RecordsInv
<1> QED
  BY <1>1, <1>2, <1>3, <1>5, RoutingAssumption DEF RecordsInv

(* The steps of sessions and tasks. A new session waits to be registered.   *)
RoutingInv == RecordsInv /\ TasksInv
MoveEarned == prober["loop"].pc = "idle" /\ prober'["loop"].pc = "move" => doubled[current] >= DegradeAfter

LEMMA RoutingBegins == OInit => RoutingInv
<1> SUFFICES ASSUME OInit PROVE RoutingInv
  OBVIOUS
<1>1. RecordsInv
  BY Empty, RoutingAssumption DEF OInit, RecordsInv
<1>2. Resting \in Work /\ Resting.pc = "idle"
  BY DEF Resting, Work
<1>3. TasksInv
  BY <1>2 DEF OInit, TasksInv, Resting
<1> QED
  BY <1>1, <1>3 DEF RoutingInv

LEMMA SessionTo ==
  ASSUME TasksInv, NEW a \in Address, NewSession(a)
  PROVE  /\ gen' \in Nat /\ session' \in [to : Address \cup {NoAddr}, gen : Nat] /\ ups' \subseteq Task
         /\ \A u \in ups' : u.via => u.to \in Relays
<1>0. PICK v \in Recognised(a) : ups' = ups \cup {[to |-> a, gen |-> gen', via |-> v, step |-> "wait"]}
  BY DEF NewSession
<1> DEFINE u == [to |-> a, gen |-> gen', via |-> v, step |-> "wait"]
<1>1. gen' = gen + 1 /\ gen' \in Nat /\ session' = [to |-> a, gen |-> gen'] /\ ups' = ups \cup {u}
  BY <1>0 DEF NewSession, TasksInv
<1>2. u \in Task /\ (u.via => u.to \in Relays) /\ session' \in [to : Address \cup {NoAddr}, gen : Nat]
  BY <1>0, <1>1 DEF Task, Recognised
<1> HIDE DEF u
<1> QED
  BY <1>1, <1>2 DEF TasksInv

LEMMA Candidate == Decide(Candidates, current) # NoAddr => Decide(Candidates, current) \in Address
<1>1. Candidates \in SUBSET Address
  BY DEF Candidates
<1> QED
  BY <1>1, DecideSound

LEMMA SessionStep ==
  ASSUME RoutingInv, (\E a \in Address : Inbound(a)) \/ Connects \/ Down \/ Switches
  PROVE  RoutingInv' /\ MoveEarned
<1>1. UNCHANGED prober /\ MoveEarned
  <2>1. UNCHANGED prober
    BY DEF Inbound, Connects, Down, Switches
  <2> QED
    BY <2>1 DEF MoveEarned
<1>2. CASE \E a \in Address : Inbound(a)
  <2>1. PICK a \in Address : Inbound(a)
    BY <1>2
  <2>2. NewSession(a) /\ UNCHANGED <<rec, doubled, current, prober>>
    BY <2>1 DEF Inbound
  <2> QED
    BY <1>1, <2>2, SessionTo DEF RoutingInv, RecordsInv, TasksInv
<1>3. CASE Connects
  <2>1. PICK several \in BOOLEAN : \E a \in Path(several) :
          /\ NewSession(a)
          /\ IF a \in Relays THEN NoteConnected(a, TRUE) ELSE UNCHANGED <<rec, current, doubled>>
    BY <1>3 DEF Connects
  <2>2. PICK a \in Path(several) :
          /\ NewSession(a)
          /\ IF a \in Relays THEN NoteConnected(a, TRUE) ELSE UNCHANGED <<rec, current, doubled>>
    BY <2>1
  <2>3. Path(several) \subseteq Address
    <3> DEFINE d == Decide(Candidates, current)
    <3>1. d # NoAddr => d \in Address
      BY Candidate
    <3> HIDE DEF d
    <3>2. Path(several) = IF forced THEN Relays
                          ELSE IF several /\ d # NoAddr THEN Reach(d, rec[d].via) ELSE Address
      BY DEF Path, d
    <3> QED
      BY <3>1, <3>2, RoutingAssumption DEF Reach
  <2>4. a \in Address
    BY <2>2, <2>3
  <2>5. RecordsInv' /\ current' \in Address \cup {NoAddr}
    <3>1. CASE a \in Relays
      BY <2>2, <2>4, <3>1, RegisterKeeps DEF RoutingInv
    <3>2. CASE a \notin Relays
      BY <2>2, <3>2 DEF RoutingInv, RecordsInv, TasksInv
    <3> QED
      BY <3>1, <3>2
  <2> QED
    BY <1>1, <2>2, <2>4, <2>5, SessionTo DEF RoutingInv, TasksInv
<1>4. CASE Down
  <2>1. UNCHANGED <<rec, doubled, current, ups, gen, prober>> /\ session' = [session EXCEPT !.to = NoAddr]
    BY <1>4 DEF Down
  <2>2. session' \in [to : Address \cup {NoAddr}, gen : Nat]
    BY <2>1 DEF RoutingInv, TasksInv
  <2>3. RecordsInv'
    BY <2>1 DEF RoutingInv, RecordsInv
  <2>4. TasksInv'
    BY <2>1, <2>2 DEF RoutingInv, TasksInv
  <2> QED
    BY <1>1, <2>3, <2>4 DEF RoutingInv
<1>5. CASE Switches
  <2>1. UNCHANGED <<rec, doubled, current, session, ups, gen, prober>>
    BY <1>5 DEF Switches
  <2>2. RecordsInv'
    BY <2>1 DEF RoutingInv, RecordsInv
  <2>3. TasksInv'
    BY <2>1 DEF RoutingInv, TasksInv
  <2> QED
    BY <1>1, <2>2, <2>3 DEF RoutingInv
<1> QED
  BY <1>1, <1>2, <1>3, <1>4, <1>5

LEMMA UpStep ==
  ASSUME RoutingInv, NEW u \in ups, UpRegisters(u) \/ UpProbes(u)
  PROVE  RoutingInv' /\ MoveEarned
<1> DEFINE w == [u EXCEPT !.step = "probe"]
<1>0. /\ u \in Task /\ u.to \in Address /\ u.via \in BOOLEAN /\ (u.via => u.to \in Relays)
      /\ w \in Task /\ w.to = u.to /\ w.via = u.via
  BY DEF RoutingInv, TasksInv, Task
<1> HIDE DEF w
<1>1. UNCHANGED prober /\ UNCHANGED <<session, gen>> /\ MoveEarned
  <2>1. UNCHANGED prober /\ UNCHANGED <<session, gen>>
    BY DEF UpRegisters, UpProbes
  <2> QED
    BY <2>1 DEF MoveEarned
<1>2. CASE UpRegisters(u)
  <2>1. NoteConnected(u.to, u.via) /\ ups' = (ups \ {u}) \cup {w}
    BY <1>2 DEF UpRegisters, w
  <2>2. RecordsInv' /\ current' = u.to
    BY <1>0, <2>1, RegisterKeeps DEF RoutingInv
  <2>3. ups' \subseteq Task /\ \A x \in ups' : x.via => x.to \in Relays
    BY <1>0, <2>1 DEF RoutingInv, TasksInv
  <2> QED
    BY <1>0, <1>1, <2>2, <2>3 DEF RoutingInv, TasksInv
<1>3. CASE UpProbes(u)
  <2>1. FullProbe(u, u.to) /\ ups' = ups \ {u} /\ UNCHANGED current
    BY <1>3 DEF UpProbes
  <2>2. RecordsInv'
    BY <1>0, <2>1, FullProbes, ProbedKeeps DEF RoutingInv
  <2> QED
    BY <1>1, <2>1, <2>2 DEF RoutingInv, TasksInv
<1> QED
  BY <1>1, <1>2, <1>3

LEMMA MoveStep ==
  ASSUME RoutingInv, Moves \/ Moved
  PROVE  RoutingInv' /\ MoveEarned
<1> DEFINE me == prober["loop"]
<1>0. "loop" \in Prober /\ me \in Work /\ Resting \in Work /\ Resting.pc = "idle"
  BY RoutingAssumption DEF RoutingInv, TasksInv, Resting, Work
<1> HIDE DEF me
<1>1. CASE Moves
  <2>1. current \in Address /\ rec[current] \in Record /\ rec[current].streak >= DegradeAfter
        /\ rec[current].streak <= doubled[current] /\ doubled[current] \in Nat
    BY <1>1 DEF Moves, Degraded, RoutingInv, TasksInv, RecordsInv
  <2>2. doubled[current] >= DegradeAfter
    BY <2>1, RoutingAssumption DEF Record
  <2>3. RecordsInv'
    <3> DEFINE q == Consumed(rec[current])
    <3>1. q \in Record /\ q.known = rec[current].known /\ q.via = rec[current].via /\ q.streak = 0 /\ q.streak <= rec[current].streak
      BY <2>1 DEF Consumed, Record
    <3>2. rec' = [rec EXCEPT ![current] = q] /\ doubled' = [doubled EXCEPT ![current] = 0]
      BY <1>1 DEF Moves
    <3> HIDE DEF q
    <3> QED
      BY <2>1, <3>1, <3>2, LessKeeps DEF RoutingInv
  <2> DEFINE d == Decide(Candidates, current)
             w == [Resting EXCEPT !.pc = "move", !.at = current, !.plan = d, !.via = rec[d].via]
  <2>4. d # NoAddr => d \in Address /\ rec[d].via \in BOOLEAN
    BY Candidate DEF RoutingInv, RecordsInv, Record
  <2> HIDE DEF d
  <2>5. d # NoAddr => w \in Work /\ w.pc = "move" /\ w.plan \in Address
    BY <1>0, <2>1, <2>4 DEF Work, Resting
  <2>6. prober' = IF forced \/ d = NoAddr THEN prober ELSE [prober EXCEPT !["loop"] = w]
    BY <1>1 DEF Moves, d
  <2> HIDE DEF w
  <2>7. prober' \in [Prober -> Work] /\ \A p \in Prober : prober'[p] = prober[p] \/ (d # NoAddr /\ prober'[p] = w)
    BY <2>5, <2>6 DEF RoutingInv, TasksInv
  <2>8. UNCHANGED <<current, session, ups, gen>>
    BY <1>1 DEF Moves
  <2>9. TasksInv'
    BY <2>5, <2>7, <2>8 DEF RoutingInv, TasksInv
  <2> QED
    BY <2>2, <2>3, <2>9 DEF RoutingInv, MoveEarned
<1>2. CASE Moved
  <2> DEFINE plan == me.plan
             via  == me.via
  <2>1. plan \in Address /\ via \in BOOLEAN /\ me.pc = "move" /\ prober' = [prober EXCEPT !["loop"] = Resting]
    BY <1>0, <1>2 DEF Moved, RoutingInv, TasksInv, Work, me
  <2> HIDE DEF plan, via
  <2>2. /\ prober' \in [Prober -> Work]
        /\ \A p \in Prober : prober'[p] = prober[p] \/ prober'[p].pc = "idle"
    BY <1>0, <2>1 DEF RoutingInv, TasksInv
  <2>3. MoveEarned
    BY <1>0, <2>1 DEF MoveEarned, me
  <2>4. \/ \E a \in Reach(plan, via) : NewSession(a) /\ NoteConnected(a, via)
        \/ rec' = [rec EXCEPT ![plan] = Reaped(Sample(rec[plan], FALSE))] /\ UNCHANGED <<current, session, ups, gen, doubled>>
        \/ UNCHANGED <<rec, current, session, ups, gen, doubled>>
    BY <1>2 DEF Moved, plan, via, me
  <2>5. ASSUME NEW a \in Reach(plan, via), NewSession(a), NoteConnected(a, via)
        PROVE  RecordsInv' /\ TasksInv'
    <3>1. a \in Address /\ (via => a \in Relays)
      BY <2>1, RoutingAssumption DEF Reach
    <3>2. RecordsInv' /\ current' = a
      BY <2>1, <2>5, <3>1, RegisterKeeps DEF RoutingInv
    <3> QED
      BY <2>2, <2>5, <3>1, <3>2, SessionTo DEF RoutingInv, TasksInv
  <2>6. CASE /\ rec' = [rec EXCEPT ![plan] = Reaped(Sample(rec[plan], FALSE))]
             /\ UNCHANGED <<current, session, ups, gen, doubled>>
    <3> DEFINE s == Sample(rec[plan], FALSE)
               q == Reaped(s)
    <3>1. rec[plan] \in Record
      BY <2>1 DEF RoutingInv, RecordsInv
    <3>2. s \in Record /\ s.known = rec[plan].known /\ s.via = rec[plan].via /\ s.streak = rec[plan].streak
      BY <3>1, LossNoted
    <3> HIDE DEF s
    <3>3. q \in Record /\ q \in {s, NoRec}
      BY <3>2, ReapedTo
    <3>4. rec' = [rec EXCEPT ![plan] = q] /\ doubled' = doubled
      BY <2>6 DEF s
    <3> HIDE DEF q
    <3>5. (q.via => rec[plan].via /\ q.known = rec[plan].known) /\ q.streak <= rec[plan].streak
      BY <3>1, <3>2, <3>3, Empty DEF Record
    <3>6. RecordsInv'
      BY <2>1, <3>3, <3>4, <3>5, LessKeeps DEF RoutingInv
    <3>7. TasksInv'
      BY <2>2, <2>6 DEF RoutingInv, TasksInv
    <3> QED
      BY <2>3, <3>6, <3>7 DEF RoutingInv
  <2>7. CASE UNCHANGED <<rec, current, session, ups, gen, doubled>>
    <3>1. RecordsInv'
      BY <2>7 DEF RoutingInv, RecordsInv
    <3>2. TasksInv'
      BY <2>2, <2>7 DEF RoutingInv, TasksInv
    <3> QED
      BY <2>3, <3>1, <3>2 DEF RoutingInv
  <2> QED
    BY <2>3, <2>4, <2>5, <2>6, <2>7 DEF RoutingInv
<1> QED
  BY <1>1, <1>2

LEMMA ProberStep ==
  ASSUME RoutingInv, NEW p \in Prober, Picks(p) \/ Quick(p) \/ Full(p)
  PROVE  RoutingInv' /\ MoveEarned
<1> DEFINE me == prober[p]
<1>0. me \in Work /\ Resting \in Work /\ Resting.pc = "idle" /\ session \in [to : Address \cup {NoAddr}, gen : Nat]
  BY DEF RoutingInv, TasksInv, Resting, Work
<1>1. UNCHANGED <<current, session, ups, gen>>
  BY DEF Picks, Quick, Full
<1> HIDE DEF me
<1>2. \E w \in Work : /\ prober' = [prober EXCEPT ![p] = w] /\ w.pc # "move"
                      /\ w.pc \in {"quick", "full"} => w.at \in Address
  <2>1. CASE Picks(p)
    <3> DEFINE w == [Resting EXCEPT !.pc = "quick", !.conn = session, !.at = current]
    <3>1. current \in Address
      BY <2>1 DEF Picks, RoutingInv, TasksInv
    <3>2. w \in Work /\ w.pc = "quick" /\ w.at = current
      BY <1>0, <3>1 DEF Work, Resting
    <3>3. prober' = [prober EXCEPT ![p] = w]
      BY <2>1 DEF Picks
    <3> HIDE DEF w
    <3> QED
      BY <3>1, <3>2, <3>3
  <2>2. CASE Quick(p)
    <3> DEFINE w == [me EXCEPT !.pc = "full"]
    <3>1. me.pc = "quick" /\ (prober' = [prober EXCEPT ![p] = Resting] \/ prober' = [prober EXCEPT ![p] = w])
      BY <2>2 DEF Quick, me
    <3>2. me.at \in Address
      BY <3>1 DEF RoutingInv, TasksInv, me
    <3>3. w \in Work /\ w.pc = "full" /\ w.at = me.at
      BY <1>0 DEF Work
    <3> HIDE DEF w
    <3> QED
      BY <1>0, <3>1, <3>2, <3>3
  <2>3. CASE Full(p)
    BY <1>0, <2>3 DEF Full
  <2> QED
    BY <2>1, <2>2, <2>3
<1>3. PICK w \in Work : /\ prober' = [prober EXCEPT ![p] = w] /\ w.pc # "move"
                        /\ w.pc \in {"quick", "full"} => w.at \in Address
  BY <1>2
<1>4. TasksInv'
  <2>1. prober' \in [Prober -> Work] /\ \A x \in Prober : prober'[x] = prober[x] \/ prober'[x] = w
    BY <1>3 DEF RoutingInv, TasksInv
  <2> QED
    BY <1>1, <1>3, <2>1 DEF RoutingInv, TasksInv
<1>5. MoveEarned
  <2>1. prober'["loop"] = prober["loop"] \/ prober'["loop"] = w
    BY <1>3, RoutingAssumption DEF RoutingInv, TasksInv
  <2> QED
    BY <1>3, <2>1 DEF MoveEarned
<1>6. RecordsInv'
  <2>1. CASE Picks(p)
    BY <2>1 DEF Picks, RoutingInv, RecordsInv
  <2>2. CASE Quick(p)
    <3>1. me.at \in Address /\ ((\E b \in Rates : QuickGood(me.at, b)) \/ QuickHalf(me.at) \/ QuickLost(me.at))
      BY <2>2 DEF Quick, me, RoutingInv, TasksInv
    <3> QED
      BY <3>1, QuickProbes, ProbedKeeps DEF RoutingInv
  <2>3. CASE Full(p)
    <3>1. me.at \in Address /\ FullProbe(me.conn, me.at)
      BY <2>3 DEF Full, me, RoutingInv, TasksInv
    <3> QED
      BY <3>1, FullProbes, ProbedKeeps DEF RoutingInv
  <2> QED
    BY <2>1, <2>2, <2>3
<1> QED
  BY <1>4, <1>5, <1>6 DEF RoutingInv

LEMMA RoutingStep == RoutingInv /\ [ONext]_ovars => RoutingInv' /\ (MoveEarned \/ UNCHANGED ovars)
<1> SUFFICES ASSUME RoutingInv, [ONext]_ovars PROVE RoutingInv' /\ (MoveEarned \/ UNCHANGED ovars)
  OBVIOUS
<1>1. CASE UNCHANGED ovars
  BY <1>1 DEF ovars, RoutingInv, RecordsInv, TasksInv
<1>2. CASE (\E a \in Address : Inbound(a)) \/ Connects \/ Down \/ Switches
  BY <1>2, SessionStep
<1>3. CASE Moves \/ Moved
  BY <1>3, MoveStep
<1>4. ASSUME NEW u \in ups, UpRegisters(u) \/ UpProbes(u) PROVE RoutingInv' /\ MoveEarned
  BY <1>4, UpStep
<1>5. ASSUME NEW p \in Prober, Picks(p) \/ Quick(p) \/ Full(p) PROVE RoutingInv' /\ MoveEarned
  BY <1>5, ProberStep
<1> QED
  BY <1>1, <1>2, <1>3, <1>4, <1>5 DEF ONext

LEMMA RoutingHolds == RoutingInv => RoutingSound
<1> SUFFICES ASSUME RoutingInv PROVE RoutingSound
  OBVIOUS
<1> DEFINE S == {a \in Address : rec[a].via}
<1>1. S = {} \/ \E m : S = {m}
  BY DEF RoutingInv, RecordsInv
<1>2. Cardinality({}) = 0 /\ \A m : Cardinality({m}) = 1
  BY FS_EmptySet, FS_Singleton
<1> HIDE DEF S
<1>3. Cardinality(S) \in {0, 1}
  BY <1>1, <1>2
<1>4. OneRelay
  BY <1>3 DEF OneRelay, S, RoutingInv, RecordsInv
<1> QED
  BY <1>4, Chosen DEF RoutingSound

(* Whatever sessions, probes and moves cross, one address of a peer is      *)
(* recorded as the relay's and it is one of the relay's, and the choice     *)
(* among its channels leads by the hysteresis and prefers one not recorded  *)
(* so (routing/: register, score, decide).                                  *)
THEOREM RoutingAlwaysSound == OSpec => []RoutingSound
<1>1. RoutingInv /\ [ONext]_ovars => RoutingInv'
  BY RoutingStep
<1> QED
  BY <1>1, RoutingBegins, RoutingHolds, PTL DEF OSpec

(* A move answers delays that doubled DegradeAfter times since the last     *)
(* move (routing/, take_rtt_degradation).                                   *)
THEOREM MovesAlwaysPaced == OSpec => [][MovesPaced]_ovars
<1>1. RoutingInv /\ [ONext]_ovars => RoutingInv' /\ [MovesPaced]_ovars
  BY RoutingStep DEF MoveEarned, MovesPaced
<1> QED
  BY <1>1, RoutingBegins, PTL DEF OSpec

(* Nobody is tried over and over for one reason: not a better channel, for  *)
(* delays that were answered before, nor a device the loop gave up.         *)
THEOREM TriesAlwaysPaced ==
  ASSUME ConstantsOK
  PROVE  OSpec /\ Spec => TriesPaced
<1> QED
  BY MovesAlwaysPaced, GivesUpForGood DEF TriesPaced

-----------------------------------------------------------------------------
(* Staying in the list. A device that is there and was heard of is heard of  *)
(* again in two ways: it answers the probes of this one, and it probes this  *)
(* one itself. Each way has its timer or a packet under way, and a packet is *)
(* of one way only.                                                          *)
Spared == Losses \in {0, 1} /\ Retry < Offline

OnTheWay(d, p, kinds) == \E k \in net : k.from = d /\ k.to = p /\ k.kind \in kinds
Linked(d, p) == on[d] /\ p \notin away[d]

ByOwn(d, p) ==
  \/ heardOf[d][p] + due[d][p] <= Retry
  \/ heardOf[d][p] <= Retry /\ (OnTheWay(d, p, {"probe"}) \/ OnTheWay(p, d, {"resp"}))

(* Its target may be forgotten there by the very probe that is under way;    *)
(* the answer makes it a target again.                                       *)
ByTheirs(d, p) ==
  \/ d \in Targets(p) /\ heardOf[d][p] + due[p][d] <= Retry
  \/ heardOf[d][p] <= Retry /\ OnTheWay(p, d, {"probe"})
  \/ heardOf[d][p] = 0 /\ OnTheWay(d, p, {"resp"})

PairOK(d, p) ==
  /\ d # p /\ on[p] /\ ~hidden[d] /\ ~hidden[p] /\ p \in Targets(d)
  /\ lost = 0 => ByOwn(d, p) /\ ByTheirs(d, p)
  /\ ByOwn(d, p) \/ ByTheirs(d, p)

LinkInv ==
  /\ FoundInv
  /\ hidden \in [Dev -> BOOLEAN] /\ away \in [Dev -> SUBSET Host] /\ lost \in {0, 1}
  /\ \A k \in net : k.from # k.to /\ k.kind \in Lists
  /\ \A d, p \in Dev : Linked(d, p) => PairOK(d, p)

LEMMA HowOld ==
  ASSUME FoundInv, NEW d \in Dev, NEW p \in Dev
  PROVE  /\ heardOf[d][p] \in Nat /\ due[d][p] \in Nat /\ due[p][d] \in Nat /\ Retry \in Nat
         /\ p \in Targets(d) <=> due[d][p] # NoTarget
         /\ p \in Targets(d) => due[d][p] <= Retry
         /\ ByOwn(d, p) \/ ByTheirs(d, p) => heardOf[d][p] <= Retry
<1>1. p \in Host /\ d \in Host /\ Retry \in Nat /\ NoTarget = Retry + 1 /\ Gone \in Nat
  BY DiscoveryAssumption DEF Host, NoTarget, Gone
<1>2. heardOf[d][p] \in 0 .. Gone /\ due[d][p] \in 0 .. NoTarget /\ due[p][d] \in 0 .. NoTarget
  BY <1>1 DEF FoundInv, DTypeOK
<1>3. heardOf[d][p] \in Nat /\ due[d][p] \in Nat /\ due[p][d] \in Nat
  BY <1>1, <1>2
<1>4. p \in Targets(d) <=> due[d][p] # NoTarget
  BY <1>1 DEF Targets
<1>5. p \in Targets(d) => due[d][p] <= Retry
  BY <1>1, <1>2, <1>4
<1>6. ByOwn(d, p) \/ ByTheirs(d, p) => heardOf[d][p] <= Retry
  BY <1>1, <1>3 DEF ByOwn, ByTheirs
<1> QED
  BY <1>1, <1>3, <1>4, <1>5, <1>6

(* A packet under way stays there unless the step took it.                   *)
LEMMA StillOnTheWay ==
  ASSUME NEW d, NEW p, NEW kinds, OnTheWay(d, p, kinds),
         \A k \in net : k.from = d /\ k.to = p => k \in net'
  PROVE  OnTheWay(d, p, kinds)'
BY DEF OnTheWay

(* What the step does not touch between two devices stays right.             *)
LEMMA PairKept ==
  ASSUME NEW d \in Dev, NEW p \in Dev, PairOK(d, p), heardOf'[d][p] = heardOf[d][p],
         due'[d][p] = due[d][p], due'[p][d] = due[p][d], p \in Host, d \in Host,
         on'[p], ~hidden'[d], ~hidden'[p], lost' = lost,
         \A k \in net : {k.from, k.to} = {d, p} => k \in net'
  PROVE  PairOK(d, p)'
<1>1. \A kinds : /\ OnTheWay(d, p, kinds) => OnTheWay(d, p, kinds)'
                 /\ OnTheWay(p, d, kinds) => OnTheWay(p, d, kinds)'
  BY StillOnTheWay
<1>2. (p \in Targets(d) => p \in Targets(d)') /\ (d \in Targets(p) => d \in Targets(p)')
  BY DEF Targets
<1>3. (ByOwn(d, p) => ByOwn(d, p)') /\ (ByTheirs(d, p) => ByTheirs(d, p)')
  BY <1>1, <1>2 DEF ByOwn, ByTheirs
<1> QED
  BY <1>2, <1>3 DEF PairOK

(* Both ways are open at the moment it is heard of, if it is a target there.  *)
LEMMA JustHeard ==
  ASSUME FoundInv', NEW d \in Dev, NEW p \in Dev, heardOf'[d][p] = 0, p \in Targets(d)'
  PROVE  /\ ByOwn(d, p)' /\ heardOf'[d][p] <= Retry
         /\ d \in Targets(p)' \/ OnTheWay(p, d, {"probe"})' \/ OnTheWay(d, p, {"resp"})' => ByTheirs(d, p)'
<1>1. p \in Host /\ d \in Host /\ Retry \in Nat /\ NoTarget = Retry + 1
  BY DiscoveryAssumption DEF Host, NoTarget
<1>2. due'[d][p] \in 0 .. NoTarget /\ due'[p][d] \in 0 .. NoTarget
  BY <1>1 DEF FoundInv, DTypeOK
<1>3. ByOwn(d, p)' /\ heardOf'[d][p] <= Retry
  BY <1>1, <1>2 DEF ByOwn, Targets
<1>4. d \in Targets(p)' => ByTheirs(d, p)'
  BY <1>1, <1>2 DEF ByTheirs, Targets
<1>5. OnTheWay(p, d, {"probe"})' \/ OnTheWay(d, p, {"resp"})' => ByTheirs(d, p)'
  BY <1>3 DEF ByTheirs
<1> QED
  BY <1>3, <1>4, <1>5

(* A pair that is linked afterwards was linked before, except by a packet.   *)
LEMMA LinksOf ==
  ASSUME LinkInv, NEW d \in Dev, NEW p \in Dev, Linked(d, p)', on'[d] => on[d], away[d] \cap Dev \subseteq away'[d]
  PROVE  Linked(d, p) /\ PairOK(d, p)
BY DEF LinkInv, Linked

LEMMA Apart ==
  ASSUME NEW d, NEW to, NEW kind, NEW k \in Packets(d, to, kind)
  PROVE  k.from = d /\ k.to \in to /\ k.kind = kind /\ k.from # k.to
BY DEF Packets

LEMMA Departs ==
  ASSUME NEW d, NEW p, NEW to, NEW kind, d # p, p \in to, Packets(d, to, kind) \subseteq net'
  PROVE  OnTheWay(d, p, {kind})'
<1> DEFINE k == [from |-> d, to |-> p, kind |-> kind]
<1>1. k \in Packets(d, to, kind)
  BY DEF Packets
<1>2. k.from = d /\ k.to = p /\ k.kind = kind
  OBVIOUS
<1> HIDE DEF k
<1> QED
  BY <1>1, <1>2 DEF OnTheWay

(* Commands, and the announcement.                                           *)
LEMMA LinkService ==
  ASSUME LinkInv, FoundInv', NEW x \in Dev,
         Stop(x) \/ ProbeNow(x) \/ SetName(x) \/ Hide(x) \/ Presence(x)
  PROVE  LinkInv'
<1>1. hidden' \in [Dev -> BOOLEAN] /\ away' \in [Dev -> SUBSET Host] /\ lost' = lost
  <2>1. hidden \in [Dev -> BOOLEAN] /\ away \in [Dev -> SUBSET Host]
    BY DEF LinkInv
  <2>2. CASE Stop(x)
    BY <2>1, <2>2 DEF Stop, Host
  <2>3. CASE Hide(x)
    BY <2>1, <2>3 DEF Hide, Host
  <2>4. CASE ProbeNow(x) \/ SetName(x) \/ Presence(x)
    BY <2>1, <2>4 DEF ProbeNow, SetName, Presence
  <2> QED
    BY <2>2, <2>3, <2>4
<1>2. \A k \in net' : k.from # k.to /\ k.kind \in Lists
  <2>1. \A k \in net : k.from # k.to /\ k.kind \in Lists
    BY DEF LinkInv
  <2>2. \A to : \A kind \in Lists : \A k \in Packets(x, to, kind) : k.from # k.to /\ k.kind \in Lists
    BY Apart
  <2>3. \A kind \in Lists : \A k \in Broadcast(x, kind) : k.from # k.to /\ k.kind \in Lists
    BY <2>2 DEF Broadcast
  <2> QED
    BY <2>1, <2>2, <2>3 DEF Stop, ProbeNow, SetName, Hide, Presence, Lists
<1>3. ASSUME NEW d \in Dev, NEW p \in Dev, Linked(d, p)' PROVE PairOK(d, p)'
  <2>1. UNCHANGED <<heardOf, due>> /\ (\A q \in Dev : on'[q] => on[q] /\ away[q] \cap Dev \subseteq away'[q])
    <3>1. away \in [Dev -> SUBSET Host] /\ on \in [Dev -> BOOLEAN]
      BY DEF LinkInv, FoundInv
    <3>2. CASE Stop(x)
      BY <3>1, <3>2 DEF Stop
    <3>3. CASE Hide(x)
      BY <3>1, <3>3 DEF Hide, Linked
    <3>4. CASE ProbeNow(x) \/ SetName(x) \/ Presence(x)
      BY <3>4 DEF ProbeNow, SetName, Presence
    <3> QED
      BY <3>2, <3>3, <3>4
  <2>2. Linked(d, p) /\ PairOK(d, p)
    BY <1>3, <2>1, LinksOf DEF Linked
  <2>3. on'[p] /\ ~hidden'[d] /\ ~hidden'[p]
    <3>1. CASE Stop(x)
      BY <1>3, <2>2, <3>1 DEF Stop, Linked, PairOK, LinkInv, FoundInv
    <3>2. CASE Hide(x)
      BY <1>3, <2>2, <3>2 DEF Hide, Linked, PairOK, LinkInv, FoundInv
    <3>3. CASE ProbeNow(x) \/ SetName(x) \/ Presence(x)
      BY <2>2, <3>3 DEF ProbeNow, SetName, Presence, PairOK
    <3> QED
      BY <3>1, <3>2, <3>3
  <2>4. on[d] /\ on'[d]
    BY <1>3, <2>2 DEF Linked
  <2>5. \A k \in net : {k.from, k.to} = {d, p} => k \in net'
    <3>1. CASE Stop(x)
      <4>1. x # d /\ x # p
        BY <2>3, <2>4, <3>1 DEF Stop, LinkInv, FoundInv
      <4> QED
        BY <3>1, <4>1 DEF Stop
    <3>2. CASE ~Stop(x)
      BY <3>2 DEF ProbeNow, SetName, Presence, Hide
    <3> QED
      BY <3>1, <3>2
  <2>6. d \in Host /\ p \in Host
    BY DEF Host
  <2> QED
    BY <1>1, <2>1, <2>2, <2>3, <2>5, <2>6, PairKept
<1> QED
  BY <1>1, <1>2, <1>3 DEF LinkInv

LEMMA LinkStart ==
  ASSUME LinkInv, FoundInv', NEW x \in Dev, Start(x)
  PROVE  LinkInv'
<1>1. hidden' \in [Dev -> BOOLEAN] /\ away' \in [Dev -> SUBSET Host] /\ lost' = lost
  BY DEF LinkInv, Start, Host
<1>2. \A k \in net' : k.from # k.to /\ k.kind \in Lists
  <2>1. \A k \in Broadcast(x, "presence") : k.from # k.to /\ k.kind \in Lists
    BY Apart DEF Broadcast, Lists
  <2> QED
    BY <2>1 DEF LinkInv, Start
<1>3. ASSUME NEW d \in Dev, NEW p \in Dev, Linked(d, p)' PROVE PairOK(d, p)'
  <2>1. d # x /\ Linked(d, p)
    BY <1>3 DEF Start, Linked, LinkInv
  <2>2. PairOK(d, p) /\ p # x
    BY <2>1 DEF LinkInv, PairOK, Start
  <2>3. /\ heardOf'[d][p] = heardOf[d][p] /\ due'[d][p] = due[d][p] /\ due'[p][d] = due[p][d]
        /\ on'[p] /\ ~hidden'[d] /\ ~hidden'[p] /\ \A k \in net : k \in net'
    BY <2>1, <2>2 DEF Start, LinkInv, FoundInv, DTypeOK, PairOK
  <2>4. d \in Host /\ p \in Host
    BY DEF Host
  <2> QED
    BY <1>1, <2>2, <2>3, <2>4, PairKept
<1> QED
  BY <1>1, <1>2, <1>3 DEF LinkInv

LEMMA LinkTarget ==
  ASSUME LinkInv, FoundInv', NEW x \in Dev, NEW t \in Host, ProbeAddr(x, t)
  PROVE  LinkInv'
<1>1. UNCHANGED <<on, hidden, away, lost, heardOf>> /\ t # x
  BY DEF ProbeAddr
<1>2. \A k \in net' : k.from # k.to /\ k.kind \in Lists
  BY Apart DEF LinkInv, ProbeAddr, Lists
<1>3. ASSUME NEW d \in Dev, NEW p \in Dev, Linked(d, p)' PROVE PairOK(d, p)'
  <2>1. Linked(d, p) /\ PairOK(d, p) /\ d \in Host /\ p \in Host
    BY <1>1, <1>3, LinksOf DEF Linked, Host
  <2>2. on'[p] /\ ~hidden'[d] /\ ~hidden'[p] /\ \A k \in net : k \in net'
    BY <1>1, <2>1 DEF PairOK, ProbeAddr
  <2>3. due' = [due EXCEPT ![x][t] = Retry] /\ due \in [Dev -> [Host -> 0 .. NoTarget]]
    BY DEF ProbeAddr, LinkInv, FoundInv, DTypeOK
  <2>4. CASE ~(x = d /\ t = p) /\ ~(x = p /\ t = d)
    <3>1. due'[d][p] = due[d][p] /\ due'[p][d] = due[p][d]
      BY <2>1, <2>3, <2>4
    <3> QED
      BY <1>1, <2>1, <2>2, <3>1, PairKept
  <2>5. heardOf[d][p] <= Retry /\ d # p /\ heardOf'[d][p] <= Retry
    <3>1. ByOwn(d, p) \/ ByTheirs(d, p)
      BY <2>1 DEF PairOK
    <3>2. heardOf[d][p] <= Retry
      <4>1. FoundInv
        BY DEF LinkInv
      <4> QED
        BY <3>1, <4>1, HowOld
    <3> QED
      BY <1>1, <2>1, <3>2 DEF PairOK
  <2>6. CASE x = d /\ t = p
    <3>1. OnTheWay(d, p, {"probe"})'
      BY <2>5, <2>6, Departs DEF ProbeAddr
    <3>2. ByOwn(d, p)'
      BY <2>5, <3>1 DEF ByOwn
    <3>3. ByTheirs(d, p) => ByTheirs(d, p)'
      <4>1. due'[p] = due[p] /\ (OnTheWay(p, d, {"probe"}) => OnTheWay(p, d, {"probe"})')
            /\ (OnTheWay(d, p, {"resp"}) => OnTheWay(d, p, {"resp"})')
        BY <2>2, <2>3, <2>5, <2>6, StillOnTheWay
      <4> QED
        BY <1>1, <4>1 DEF ByTheirs, Targets
    <3>4. p \in Targets(d)'
      BY <2>1, <2>3, <2>6, Steps DEF Targets
    <3> QED
      BY <1>1, <2>1, <2>2, <3>2, <3>3, <3>4 DEF PairOK
  <2>7. CASE x = p /\ t = d
    <3>1. OnTheWay(p, d, {"probe"})'
      BY <2>5, <2>7, Departs DEF ProbeAddr
    <3>2. ByTheirs(d, p)'
      BY <2>5, <3>1 DEF ByTheirs
    <3>3. ByOwn(d, p) => ByOwn(d, p)'
      <4>1. due'[d] = due[d] /\ (OnTheWay(d, p, {"probe"}) => OnTheWay(d, p, {"probe"})')
            /\ (OnTheWay(p, d, {"resp"}) => OnTheWay(p, d, {"resp"})')
        BY <2>2, <2>3, <2>5, <2>7, StillOnTheWay
      <4> QED
        BY <1>1, <4>1 DEF ByOwn
    <3>4. p \in Targets(d)'
      BY <2>1, <2>3, <2>5, <2>7 DEF Targets, PairOK
    <3> QED
      BY <1>1, <2>1, <2>2, <3>2, <3>3, <3>4 DEF PairOK
  <2> QED
    BY <2>4, <2>6, <2>7
<1> QED
  BY <1>1, <1>2, <1>3 DEF LinkInv

(* Too many targets: whom the table drops, nobody counts on.                 *)
LEMMA LinkTrim ==
  ASSUME LinkInv, FoundInv', NEW x \in Dev, Trim(x)
  PROVE  LinkInv'
<1>1. PICK t \in Targets(x) :
        /\ due' = [due EXCEPT ![x][t] = NoTarget]
        /\ away' = [q \in Dev |-> away[q] \cup (IF q = x THEN {t} ELSE IF q = t THEN {x} ELSE {})]
        /\ UNCHANGED <<on, hidden, heardOf, net, lost>>
  BY DEF Trim
<1>2. ASSUME NEW d \in Dev, NEW p \in Dev, Linked(d, p)' PROVE PairOK(d, p)'
  <2>1. Linked(d, p) /\ PairOK(d, p) /\ d \in Host /\ p \in Host
    BY <1>1, <1>2, LinksOf DEF Linked, Host
  <2>2. ~(x = d /\ t = p) /\ ~(x = p /\ t = d)
    BY <1>1, <1>2, <2>1 DEF Linked, PairOK
  <2>3. due'[d][p] = due[d][p] /\ due'[p][d] = due[p][d]
    BY <1>1, <2>1, <2>2 DEF LinkInv, FoundInv, DTypeOK
  <2> QED
    BY <1>1, <2>1, <2>3, PairKept DEF PairOK
<1>3. away' \in [Dev -> SUBSET Host]
  <2>1. t \in Host /\ x \in Host /\ away \in [Dev -> SUBSET Host]
    BY DEF LinkInv, Targets, Host
  <2> QED
    BY <1>1, <2>1
<1> QED
  BY <1>1, <1>2, <1>3 DEF LinkInv

(* Who is listed is not counted as silent, so that it stays a target; who    *)
(* forgets a target sends it a last probe.                                   *)
LEMMA LinkReprobe ==
  ASSUME LinkInv, FoundInv', Spared, NEW x \in Dev, Reprobe(x)
  PROVE  LinkInv'
<1>1. /\ UNCHANGED <<on, hidden, away, lost, heardOf>> /\ net' = net \cup Packets(x, DueNow(x) \cap Dev, "probe")
      /\ due' = [due EXCEPT ![x] = [t \in Host |-> IF t \in Silent(x) THEN NoTarget
                                                ELSE IF t \in DueNow(x) THEN Retry ELSE due[x][t]]]
  BY DEF Reprobe
<1>2. \A k \in net' : k.from # k.to /\ k.kind \in Lists
  BY <1>1, Apart DEF LinkInv, Lists
<1>3. ASSUME NEW t \in Host, t \in Listed(x) \/ t \notin DueNow(x) PROVE t \notin Silent(x)
  <2>1. probeFails[x][t] \in 0 .. Eviction - 1
    BY DEF LinkInv, FoundInv, DTypeOK
  <2>2. Failed(x)[t] = probeFails[x][t]
    BY <1>3 DEF Failed
  <2> QED
    BY <2>1, <2>2, DiscoveryAssumption DEF Silent
<1>4. ASSUME NEW d \in Dev, NEW p \in Dev, Linked(d, p)' PROVE PairOK(d, p)'
  <2>1. Linked(d, p) /\ PairOK(d, p) /\ d \in Host /\ p \in Host
    BY <1>1, <1>4, LinksOf DEF Linked, Host
  <2>2. on'[p] /\ ~hidden'[d] /\ ~hidden'[p] /\ (\A k \in net : k \in net') /\ d # p
    BY <1>1, <2>1 DEF PairOK
  <2>3. due \in [Dev -> [Host -> 0 .. NoTarget]] /\ FoundInv
    BY DEF LinkInv, FoundInv, DTypeOK
  <2>4. heardOf[d][p] <= Retry /\ p \in Listed(d)
    <3>1. ByOwn(d, p) \/ ByTheirs(d, p)
      BY <2>1 DEF PairOK
    <3>2. heardOf[d][p] <= Retry /\ heardOf[d][p] \in Nat /\ Retry \in Nat
      BY <2>3, <3>1, HowOld
    <3> QED
      BY <3>2, DiscoveryAssumption DEF Spared, Listed, Gone
  <2>5. /\ \A kinds : OnTheWay(d, p, kinds) => OnTheWay(d, p, kinds)'
        /\ \A kinds : OnTheWay(p, d, kinds) => OnTheWay(p, d, kinds)'
    BY <2>2, StillOnTheWay
  <2>6. CASE ~(x = d /\ p \in DueNow(d)) /\ ~(x = p /\ d \in DueNow(p))
    <3>1. due'[d][p] = due[d][p] /\ due'[p][d] = due[p][d]
      BY <1>1, <1>3, <2>1, <2>3, <2>6, <2>4
    <3> QED
      BY <1>1, <2>1, <2>2, <3>1, PairKept
  <2>7. CASE x = d /\ p \in DueNow(d)
    <3>1. ByOwn(d, p)'
      BY <1>1, <2>2, <2>4, <2>7, Departs DEF ByOwn
    <3>2. ByTheirs(d, p) => ByTheirs(d, p)'
      <4>1. due'[p] = due[p]
        BY <1>1, <2>2, <2>7
      <4> QED
        BY <1>1, <2>5, <4>1 DEF ByTheirs, Targets
    <3>3. p \in Targets(d)'
      <4>1. due'[d][p] = Retry
        BY <1>1, <1>3, <2>1, <2>3, <2>4, <2>7
      <4> QED
        BY <2>1, <4>1, Steps DEF Targets
    <3> QED
      BY <1>1, <2>1, <2>2, <3>1, <3>2, <3>3 DEF PairOK
  <2>8. CASE x = p /\ d \in DueNow(p)
    <3>1. ByTheirs(d, p)'
      BY <1>1, <2>2, <2>4, <2>8, Departs DEF ByTheirs
    <3>2. due'[d] = due[d]
      BY <1>1, <2>2, <2>8
    <3>3. ByOwn(d, p) => ByOwn(d, p)'
      BY <1>1, <2>5, <3>2 DEF ByOwn
    <3>4. p \in Targets(d)'
      BY <2>1, <3>2 DEF Targets, PairOK
    <3> QED
      BY <1>1, <2>1, <2>2, <3>1, <3>3, <3>4 DEF PairOK
  <2> QED
    BY <2>6, <2>7, <2>8
<1> QED
  BY <1>1, <1>2, <1>4 DEF LinkInv

(* A packet that is lost was of one way; the other is open. One for a device *)
(* that is off was nobody's way.                                             *)
LEMMA LinkLose ==
  ASSUME LinkInv, FoundInv', Spared, NEW k \in net, Lose(k)
  PROVE  LinkInv'
<1>1. UNCHANGED <<on, hidden, away, heardOf, due>> /\ net' = net \ {k}
  BY DEF Lose
<1>2. lost' \in {0, 1} /\ ((lost' = lost /\ ~on[k.to]) \/ (lost = 0 /\ lost' = 1))
  <2>1. lost \in {0, 1} /\ Losses \in {0, 1}
    BY DEF LinkInv, Spared
  <2>2. (lost < Losses /\ lost' = lost + 1) \/ (~on[k.to] /\ lost' = lost)
    BY DEF Lose
  <2> QED
    BY <2>1, <2>2
<1>3. ASSUME NEW d \in Dev, NEW p \in Dev, Linked(d, p)' PROVE PairOK(d, p)'
  <2>1. Linked(d, p) /\ PairOK(d, p) /\ d \in Host /\ p \in Host
    BY <1>1, <1>3, LinksOf DEF Linked, Host
  <2>2. CASE lost' = lost /\ ~on[k.to]
    <3>1. k.to # d /\ k.to # p
      BY <2>1, <2>2 DEF Linked, PairOK
    <3>2. \A q \in net : {q.from, q.to} = {d, p} => q \in net'
      BY <1>1, <3>1
    <3> QED
      BY <1>1, <2>1, <2>2, <3>2, PairKept DEF PairOK
  <2>3. CASE lost = 0 /\ lost' = 1
    <3> DEFINE mine == \/ k.from = d /\ k.to = p /\ k.kind = "probe"
                       \/ k.from = p /\ k.to = d /\ k.kind = "resp"
    <3>1. ByOwn(d, p) /\ ByTheirs(d, p) /\ d # p
      BY <2>1, <2>3 DEF PairOK
    <3>2. UNCHANGED <<Targets(d), Targets(p)>>
      BY <1>1 DEF Targets
    <3>3. ~mine => ByOwn(d, p)'
      <4>1. ASSUME ~mine
            PROVE  /\ OnTheWay(d, p, {"probe"}) => OnTheWay(d, p, {"probe"})'
                   /\ OnTheWay(p, d, {"resp"}) => OnTheWay(p, d, {"resp"})'
        BY <1>1, <4>1 DEF OnTheWay
      <4> QED
        BY <1>1, <3>1, <4>1 DEF ByOwn
    <3>4. mine => ByTheirs(d, p)'
      <4>1. ASSUME mine
            PROVE  /\ OnTheWay(p, d, {"probe"}) => OnTheWay(p, d, {"probe"})'
                   /\ OnTheWay(d, p, {"resp"}) => OnTheWay(d, p, {"resp"})'
        BY <1>1, <3>1, <4>1 DEF OnTheWay
      <4> QED
        BY <1>1, <3>1, <3>2, <4>1 DEF ByTheirs
    <3> QED
      BY <1>1, <2>1, <2>3, <3>2, <3>3, <3>4 DEF PairOK
  <2> QED
    BY <1>2, <2>2, <2>3
<1> QED
  BY <1>1, <1>2, <1>3 DEF LinkInv

(* Time passes when no packet is under way and nothing is due: an age and a  *)
(* timer together stay what they were.                                       *)
LEMMA LinkTick ==
  ASSUME LinkInv, FoundInv', Spared, Tick
  PROVE  LinkInv'
<1>1. /\ net = {} /\ \A d \in Dev : on[d] => DueNow(d) = {}
      /\ UNCHANGED <<on, hidden, away, lost, net>>
      /\ \A d, p \in Dev : heardOf'[d][p] = IF heardOf[d][p] = Gone THEN Gone ELSE heardOf[d][p] + 1
      /\ \A d \in Dev : \A p \in Host : due'[d][p] = IF due[d][p] \in {0, NoTarget} THEN due[d][p]
                                                                              ELSE due[d][p] - 1
  BY DEF Tick
<1>2. FoundInv /\ Retry \in Nat /\ NoTarget = Retry + 1 /\ Retry < Gone /\ Gone \in Nat
  BY DiscoveryAssumption DEF LinkInv, NoTarget, Spared, Gone
<1>3. ASSUME NEW d \in Dev, NEW p \in Dev, Linked(d, p)' PROVE PairOK(d, p)'
  <2>1. Linked(d, p) /\ PairOK(d, p) /\ d \in Host /\ p \in Host
    BY <1>1, <1>3, LinksOf DEF Linked, Host
  <2>2. \A kinds : ~OnTheWay(d, p, kinds) /\ ~OnTheWay(p, d, kinds)
    BY <1>1 DEF OnTheWay
  <2>3. heardOf[d][p] \in Nat /\ due[d][p] \in Nat /\ due[p][d] \in Nat
    BY <1>2, HowOld
  <2>4. heardOf[d][p] <= Retry
    BY <1>2, <2>1, HowOld DEF PairOK
  <2>5. heardOf'[d][p] = heardOf[d][p] + 1
    BY <1>1, <1>2, <2>3, <2>4
  <2>6. due[d][p] # 0 /\ due[d][p] # NoTarget
    BY <1>1, <2>1 DEF DueNow, Targets, Linked, PairOK
  <2>7. due'[d][p] = due[d][p] - 1
    BY <1>1, <2>1, <2>6
  <2>8. d \in Targets(p) => due'[p][d] = due[p][d] - 1 /\ due[p][d] # 0 /\ due[p][d] # NoTarget
    BY <1>1, <2>1 DEF DueNow, Targets, PairOK
  <2>9. ByOwn(d, p) => ByOwn(d, p)'
    BY <1>2, <2>2, <2>3, <2>5, <2>7 DEF ByOwn
  <2>10. ByTheirs(d, p) => ByTheirs(d, p)'
    <3>1. ASSUME d \in Targets(p) PROVE d \in Targets(p)'
      BY <1>2, <2>1, <2>3, <2>8, <3>1, HowOld DEF Targets
    <3> QED
      BY <1>2, <2>2, <2>3, <2>5, <2>8, <3>1 DEF ByTheirs
  <2>11. p \in Targets(d)'
    BY <1>2, <2>1, <2>3, <2>6, <2>7, HowOld DEF Targets
  <2> QED
    BY <1>1, <2>1, <2>9, <2>10, <2>11 DEF PairOK
<1> QED
  BY <1>1, <1>3 DEF LinkInv

(* A packet is heard, and a probe among them is answered.                    *)
LEMMA LinkReceive ==
  ASSUME LinkInv, FoundInv', Spared, NEW k \in net, Receive(k)
  PROVE  LinkInv'
<1> DEFINE r == k.to
           f == k.from
           back == IF k.kind = "probe" /\ ~hidden[r] THEN Packets(r, {f}, "resp") ELSE {}
<1>1. /\ r \in Dev /\ f \in Dev /\ f \in Host /\ r \in Host /\ r # f /\ k.kind \in Lists /\ on[r]
      /\ FoundInv
  BY DEF LinkInv, FoundInv, Receive, Host
<1>2. /\ UNCHANGED <<on, hidden, lost>> /\ net' = (net \ {k}) \cup back
      /\ heardOf' = [heardOf EXCEPT ![r][f] = 0]
      /\ due' = IF f \notin Targets(r) THEN [due EXCEPT ![r][f] = Retry] ELSE due
      /\ away' = IF ~hidden[f] /\ ~hidden[r] /\ on[f] /\ r \in Targets(f)
                 THEN [away EXCEPT ![r] = @ \ {f}] ELSE away
  BY <1>1 DEF Receive
<1>3. /\ heardOf \in [Dev -> [Dev -> 0 .. Gone]] /\ due \in [Dev -> [Host -> 0 .. NoTarget]]
      /\ away \in [Dev -> SUBSET Host]
  BY DEF LinkInv, FoundInv, DTypeOK
<1> HIDE DEF r, f, back
<1>4. away' \in [Dev -> SUBSET Host]
  BY <1>1, <1>2, <1>3
<1>5. \A q \in net' : q.from # q.to /\ q.kind \in Lists
  <2>1. \A q \in back : q.from # q.to /\ q.kind \in Lists
    BY Apart DEF back, Lists
  <2> QED
    BY <1>2, <2>1 DEF LinkInv
<1>6. ASSUME NEW d \in Dev, NEW p \in Dev, Linked(d, p)' PROVE PairOK(d, p)'
  <2>0. d \in Host /\ p \in Host /\ on[d]
    BY <1>2, <1>6 DEF Host, Linked
  <2>1. CASE ~(d = r /\ p = f) /\ ~(d = f /\ p = r)
    <3>1. /\ heardOf'[d][p] = heardOf[d][p] /\ due'[d][p] = due[d][p] /\ due'[p][d] = due[p][d]
          /\ p \notin away[d]
      BY <1>1, <1>2, <1>3, <1>6, <2>0, <2>1 DEF Linked
    <3>2. PairOK(d, p)
      BY <2>0, <3>1 DEF LinkInv, Linked
    <3>3. \A q \in net : {q.from, q.to} = {d, p} => q \in net'
      BY <1>1, <1>2, <2>1 DEF r, f
    <3> QED
      BY <1>2, <2>0, <3>1, <3>2, <3>3, PairKept DEF PairOK
  <2>2. CASE d = r /\ p = f
    <3>1. heardOf'[d][p] = 0 /\ p \in Targets(d)' /\ (d \in Targets(p) => d \in Targets(p)')
      BY <1>1, <1>2, <1>3, <2>2, Steps DEF Targets
    <3>2. /\ d # p /\ on'[p] /\ ~hidden'[d] /\ ~hidden'[p]
          /\ d \in Targets(p) \/ (lost = 0 => ByTheirs(d, p))
      <4>1. CASE Linked(d, p)
        BY <1>2, <4>1 DEF LinkInv, PairOK
      <4>2. CASE ~Linked(d, p)
        BY <1>1, <1>2, <1>3, <1>6, <2>0, <2>2, <4>2 DEF Linked
      <4> QED
        BY <4>1, <4>2
    <3>3. ByOwn(d, p)'
      BY <3>1, JustHeard
    <3>4. lost = 0 => ByTheirs(d, p)'
      <4>1. CASE d \in Targets(p)
        BY <3>1, <4>1, JustHeard
      <4>2. CASE OnTheWay(p, d, {"probe"})
        <5>1. PICK q \in net : q.from = p /\ q.to = d /\ q.kind = "probe"
          BY <4>2 DEF OnTheWay
        <5>2. CASE q = k
          <6>1. Packets(d, {p}, "resp") \subseteq net'
            BY <1>2, <2>2, <3>2, <5>1, <5>2 DEF back
          <6>2. OnTheWay(d, p, {"resp"})'
            BY <3>2, <6>1, Departs
          <6> QED
            BY <3>1, <6>2, JustHeard
        <5>3. CASE q # k
          <6>1. OnTheWay(p, d, {"probe"})'
            BY <1>2, <5>1, <5>3 DEF OnTheWay
          <6> QED
            BY <3>1, <6>1, JustHeard
        <5> QED
          BY <5>2, <5>3
      <4>3. CASE OnTheWay(d, p, {"resp"})
        <5>1. OnTheWay(d, p, {"resp"})'
          BY <1>1, <1>2, <2>2, <4>3 DEF OnTheWay, r, f
        <5> QED
          BY <3>1, <5>1, JustHeard
      <4> QED
        BY <3>2, <4>1, <4>2, <4>3 DEF ByTheirs
    <3> QED
      BY <1>2, <3>1, <3>2, <3>3, <3>4 DEF PairOK
  <2>3. CASE d = f /\ p = r
    <3>1. /\ heardOf'[d][p] = heardOf[d][p] /\ due'[d] = due[d] /\ away'[d] = away[d] /\ d # p
      BY <1>1, <1>2, <1>3, <2>3
    <3>2. Linked(d, p) /\ PairOK(d, p)
      BY <1>6, <2>0, <3>1 DEF LinkInv, Linked
    <3>3. heardOf[d][p] \in Nat /\ Retry \in Nat /\ due'[p][d] \in Nat /\ due'[p][d] <= Retry /\ d \in Targets(p)'
      <4>1. due'[p][d] = IF d \notin Targets(p) THEN Retry ELSE due[p][d]
        BY <1>1, <1>2, <1>3, <2>3
      <4>2. Retry \in Nat /\ NoTarget = Retry + 1 /\ due[p][d] \in 0 .. NoTarget /\ heardOf[d][p] \in 0 .. Gone
        BY <1>1, <1>3, <2>0, <2>3, DiscoveryAssumption DEF NoTarget
      <4>3. due'[p][d] # NoTarget /\ due'[p][d] \in Nat /\ due'[p][d] <= Retry
        BY <2>0, <4>1, <4>2 DEF Targets
      <4> QED
        BY <2>0, <4>2, <4>3 DEF Targets
    <3>4. OnTheWay(d, p, {"probe"}) => OnTheWay(d, p, {"probe"})' \/ OnTheWay(p, d, {"resp"})'
      <4>1. ASSUME NEW q \in net, q.from = d, q.to = p, q.kind = "probe"
            PROVE  OnTheWay(d, p, {"probe"})' \/ OnTheWay(p, d, {"resp"})'
        <5>1. CASE q = k
          <6>1. Packets(p, {d}, "resp") \subseteq net'
            BY <1>2, <2>3, <3>2, <4>1, <5>1 DEF back, PairOK
          <6> QED
            BY <3>1, <6>1, Departs
        <5>2. CASE q # k
          BY <1>2, <4>1, <5>2 DEF OnTheWay
        <5> QED
          BY <5>1, <5>2
      <4> QED
        BY <4>1 DEF OnTheWay
    <3>5. \A kinds : OnTheWay(p, d, kinds) => OnTheWay(p, d, kinds)'
      BY <1>1, <1>2, <2>3 DEF OnTheWay, r, f
    <3>6. ByOwn(d, p) => ByOwn(d, p)'
      BY <3>1, <3>4, <3>5 DEF ByOwn
    <3>7. ByTheirs(d, p) => ByTheirs(d, p)'
      <4>1. CASE d \in Targets(p) /\ heardOf[d][p] + due[p][d] <= Retry
        <5>1. due'[p][d] = due[p][d]
          BY <1>2, <2>3, <4>1
        <5> QED
          BY <3>1, <3>3, <4>1, <5>1 DEF ByTheirs
      <4>2. CASE heardOf[d][p] <= Retry /\ OnTheWay(p, d, {"probe"})
        BY <3>1, <3>5, <4>2 DEF ByTheirs
      <4>3. CASE heardOf[d][p] = 0
        BY <3>1, <3>3, <4>3 DEF ByTheirs
      <4> QED
        BY <4>1, <4>2, <4>3 DEF ByTheirs
    <3>8. p \in Targets(d)'
      BY <3>1, <3>2 DEF Targets, PairOK
    <3> QED
      BY <1>2, <3>2, <3>6, <3>7, <3>8 DEF PairOK
  <2> QED
    BY <2>1, <2>2, <2>3
<1> QED
  BY <1>2, <1>4, <1>5, <1>6 DEF LinkInv

LEMMA LinkBegins == DInit => LinkInv
BY FoundBegins DEF DInit, LinkInv, Linked

LEMMA LinkStep ==
  ASSUME LinkInv, Spared, [DNext]_dvars
  PROVE  LinkInv'
<1>1. FoundInv'
  BY FoundStep DEF LinkInv
<1>2. ASSUME NEW d \in Dev, Start(d) PROVE LinkInv'
  BY <1>1, <1>2, LinkStart
<1>3. ASSUME NEW d \in Dev, Stop(d) \/ ProbeNow(d) \/ SetName(d) \/ Hide(d) \/ Presence(d) PROVE LinkInv'
  BY <1>1, <1>3, LinkService
<1>4. ASSUME NEW d \in Dev, Trim(d) \/ Reprobe(d) PROVE LinkInv'
  BY <1>1, <1>4, LinkTrim, LinkReprobe
<1>5. ASSUME NEW d \in Dev, NEW p \in Host, ProbeAddr(d, p) PROVE LinkInv'
  BY <1>1, <1>5, LinkTarget
<1>6. ASSUME NEW k \in net, Receive(k) \/ Lose(k) PROVE LinkInv'
  BY <1>1, <1>6, LinkReceive, LinkLose
<1>7. CASE Tick
  BY <1>1, <1>7, LinkTick
<1>8. CASE UNCHANGED dvars
  <2>1. UNCHANGED <<on, hidden, heardOf, due, away, lost, net>>
    BY <1>8 DEF dvars
  <2>2. ASSUME NEW d \in Dev, NEW p \in Dev, Linked(d, p)' PROVE PairOK(d, p)'
    <3>1. Linked(d, p) /\ PairOK(d, p) /\ d \in Host /\ p \in Host
      BY <2>1, <2>2, LinksOf DEF Linked, Host
    <3> QED
      BY <2>1, <3>1, PairKept DEF PairOK
  <2> QED
    BY <1>1, <2>1, <2>2 DEF LinkInv
<1> QED
  BY <1>2, <1>3, <1>4, <1>5, <1>6, <1>7, <1>8 DEF DNext

(* A listed device stays listed: whom this one still counts on was heard of  *)
(* within the period; the step that gives another up changes no age.         *)
LEMMA ListedStep ==
  ASSUME LinkInv, LinkInv', Spared, [DNext]_dvars, NEW d \in Dev, NEW p \in Listed(d) \ away[d], on[d], on'[d]
  PROVE  heardOf'[d][p] # Gone
<1>1. p \in Dev /\ heardOf[d][p] # Gone
  BY DEF Listed
<1>2. CASE p \notin away'[d]
  <2>1. PairOK(d, p)'
    BY <1>1, <1>2 DEF LinkInv, Linked
  <2>2. heardOf'[d][p] \in Nat /\ due'[d][p] \in Nat /\ due'[p][d] \in Nat /\ Retry \in Nat /\ Gone \in Nat
    BY <1>1, DiscoveryAssumption DEF LinkInv, FoundInv, DTypeOK, Host, Gone, NoTarget
  <2>3. heardOf'[d][p] <= Retry
    BY <2>1, <2>2 DEF PairOK, ByOwn, ByTheirs
  <2> QED
    BY <2>2, <2>3 DEF Spared, Gone
<1>3. CASE p \in away'[d]
  <2>1. heardOf' = heardOf
    <3>1. away' # away /\ away \in [Dev -> SUBSET Host]
      BY <1>3 DEF LinkInv
    <3>2. ASSUME NEW x \in Dev, Start(x) PROVE FALSE
      <4>1. x # d
        BY <3>2 DEF Start
      <4> QED
        BY <1>3, <3>1, <3>2, <4>1 DEF Start
    <3>3. ASSUME NEW k \in net, Receive(k) PROVE FALSE
      BY <1>3, <3>1, <3>3 DEF Receive
    <3>4. ~Tick /\ ~UNCHANGED dvars /\ (\A k \in net : ~Lose(k))
      BY <3>1 DEF Tick, dvars, Lose
    <3>5. \A x \in Dev : ~ProbeNow(x) /\ ~SetName(x) /\ ~Presence(x) /\ ~Reprobe(x) /\ \A q \in Host : ~ProbeAddr(x, q)
      BY <3>1 DEF ProbeNow, SetName, Presence, Reprobe, ProbeAddr
    <3>6. \E x \in Dev : Stop(x) \/ Hide(x) \/ Trim(x)
      BY <3>2, <3>3, <3>4, <3>5 DEF DNext
    <3> QED
      BY <3>6 DEF Stop, Hide, Trim
  <2> QED
    BY <1>1, <2>1
<1> QED
  BY <1>2, <1>3

(* A device that is there and answers does not drop out of the list, if at   *)
(* most one packet is lost and the probing period is less than the time after *)
(* which silence counts (discovery.rs, PROBE_RETRY_PERIOD).                   *)
THEOREM AlwaysListed == ASSUME Spared PROVE DSpec => StaysListed
<1>1. LinkInv /\ [DNext]_dvars => LinkInv'
  BY LinkStep
<1>2. LinkInv /\ LinkInv' /\ [DNext]_dvars =>
        [\A d \in Dev : \A p \in Listed(d) \ away[d] : on[d] /\ on'[d] => heardOf'[d][p] # Gone]_dvars
  BY ListedStep
<1> QED
  BY <1>1, <1>2, LinkBegins, PTL DEF DSpec, StaysListed

===============================================================================

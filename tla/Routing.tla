------------------------------ MODULE Routing ------------------------------
(* The channels to one peer (core routing/, the shells' probe.rs): what is   *)
(* remembered of each address, the probes that measure it, the choice among  *)
(* addresses and the desktop's move of a session away from a channel that    *)
(* gets worse.  Delays in milliseconds, rates in Mbit/s.                     *)
(* Whether an address is the relay's is asked when a session comes up, and   *)
(* kept in the record: no while the relay is down or does not know it yet.   *)
EXTENDS Integers, FiniteSets

CONSTANTS Address, Relays, \* addresses of the peer; those of the relay's data plane
          Rtts, Rates,     \* what a probe may measure
          DegradeAfter,    \* DEGRADE_AFTER_RTT_DOUBLES
          RemoveAfter,     \* REMOVE_AFTER_TIMEOUTS
          Window,          \* LOSS_WINDOW_CAP
          Prober,          \* "loop", the scheduler, and "hand", the user's probe
          MaxGen, MaxTries \* bounds: sessions; probes, switches and wishes of the user

ASSUME RoutingAssumption ==
  /\ Address \subseteq Nat \ {0} /\ Relays \subseteq Address /\ Rtts \subseteq Nat /\ Rates \subseteq Nat
  /\ {DegradeAfter, RemoveAfter, Window} \subseteq Nat /\ "loop" \in Prober

Hysteresis == 15
NoAddr == 0
NoRec == [known |-> FALSE, via |-> FALSE, rtt |-> -1, rate |-> -1, full |-> -1, dirty |-> 0,
          fails |-> 0, off |-> FALSE, streak |-> 0]
Fresh(via) == [NoRec EXCEPT !.known = TRUE, !.via = via]

VARIABLES rec,      \* [Address -> record]; via: recorded as the relay's; dirty: samples until the
                    \* last failure leaves the window
          current,  \* the address last connected to
          session,  \* [to, gen] of the session, to = NoAddr without one
          ups,      \* SessionUp tasks that wait or probe, with what they were told of the address
          prober,   \* the scheduler and the user's probe: [pc, conn, at, plan, via]
          busy,     \* a transfer is active or paused
          relayUp, forced,
          gen, tries,
          doubled   \* ghost: doublings measured since the last move or registration
ovars == <<rec, current, session, ups, prober, busy, relayUp, forced, gen, tries, doubled>>

Resting == [pc |-> "idle", conn |-> [to |-> NoAddr, gen |-> 0], at |-> NoAddr, plan |-> NoAddr, via |-> FALSE]

OInit ==
  /\ rec = [a \in Address |-> NoRec] /\ current = NoAddr
  /\ session = [to |-> NoAddr, gen |-> 0] /\ ups = {}
  /\ prober = [p \in Prober |-> Resting]
  /\ busy \in BOOLEAN /\ relayUp \in BOOLEAN /\ forced = FALSE
  /\ gen = 0 /\ tries = 0 /\ doubled = [a \in Address |-> 0]

Tries == tries < MaxTries /\ tries' = tries + 1

------------------------------------------------------------------------------
(* score.rs.  With ten samples in the window one failure is ten percent, that *)
(* is no point for stability.                                                 *)
RttScore(t)  == CASE t <= 5 -> 100 [] t = 50 -> 60 [] t = 200 -> 20 [] OTHER -> 0
RateScore(b) == CASE b >= 100 -> 100 [] b = 10 -> 50 [] OTHER -> 0
Ready(r) == r.known /\ r.rtt >= 0 /\ r.rate >= 0
Score(r) == (50 * RttScore(r.rtt) + 35 * RateScore(r.rate)
             + 15 * (IF r.dirty = 0 THEN 100 ELSE 0)) \div 100

(* of the channels close to the best a direct one, the best of these *)
Direct_any(R, a) == TRUE
Direct(R, a) == ~rec[a].via
Preferred(R) ==
  LET best == CHOOSE b \in R : \A a \in R : Score(rec[a]) <= Score(rec[b])
      near == {a \in R : Score(rec[best]) - Score(rec[a]) <= Hysteresis /\ Direct(R, a)}
      pool == IF near = {} THEN {a \in R : Score(rec[a]) = Score(rec[best])} ELSE near
  IN CHOOSE a \in pool : \A b \in pool :
       Score(rec[b]) < Score(rec[a]) \/ (Score(rec[b]) = Score(rec[a]) /\ a <= b)

(* decide: nothing while the lead is short of the hysteresis *)
Decide(known, at) ==
  LET R == {a \in known : Ready(rec[a])} IN
  IF R = {} THEN NoAddr
  ELSE LET p == Preferred(R) IN
       IF at \notin R \/ (p # at /\ Score(rec[p]) - Score(rec[at]) >= Hysteresis)
       THEN p ELSE NoAddr
Candidates == {a \in Address : rec[a].via => relayUp}

------------------------------------------------------------------------------
(* ChannelTable.  A registration makes an address probed again, and leaves it *)
(* what it was recorded as; one as the relay's replaces the others, whose     *)
(* lease is gone.                                                            *)
Replaced(a, via) == IF via THEN {b \in Address \ {a} : rec[b].via} ELSE {}
Registered(a, via) ==
  [b \in Address |-> IF b \in Replaced(a, via) THEN NoRec
                  ELSE IF b # a THEN rec[b]
                  ELSE IF rec[a].known THEN [rec[a] EXCEPT !.off = FALSE, !.streak = 0] ELSE Fresh(via)]
NoteConnected(a, via) ==
  /\ rec' = Registered(a, via) /\ current' = a
  /\ doubled' = [doubled EXCEPT ![a] = 0]

(* one sample of the loss window; nothing is kept of an address removed *)
Sample(r, ok) ==
  IF ~r.known THEN r
  ELSE IF ok THEN [r EXCEPT !.dirty = IF @ = 0 THEN 0 ELSE @ - 1, !.fails = 0]
  ELSE [r EXCEPT !.dirty = Window, !.fails = @ + 1, !.off = TRUE]
Reaped(r) == IF r.fails >= RemoveAfter THEN NoRec ELSE r
Doubles(r, t) == r.rtt > 0 /\ t >= 2 * r.rtt
RttNoted(r, t) ==
  IF ~r.known THEN r
  ELSE [r EXCEPT !.rtt = t, !.streak = IF Doubles(r, t) THEN @ + 1 ELSE 0]
RateNoted(r, kind, b) ==
  IF ~r.known THEN r
  ELSE [r EXCEPT !.rate = b, !.full = IF kind = "full" THEN b ELSE @]

(* the middle of three delays, with 0 for a ping that was not answered *)
Median(t, answered) == IF answered = 1 THEN 0 ELSE t
Answered(o) == Cardinality({i \in 1 .. 3 : o[i]})

(* probe_full: three pings, then the ladder of three sizes, of which any may fail *)
Pinged(r, t, o) ==
  LET kept == Reaped(Sample(Sample(Sample(r, o[1]), o[2]), o[3]))
  IN IF Answered(o) = 0 THEN kept ELSE RttNoted(kept, Median(t, Answered(o)))
Laddered(r, done, b) ==
  LET kept == IF done < 3 THEN Reaped(Sample(r, FALSE)) ELSE r
  IN IF done = 0 THEN kept ELSE RateNoted(Sample(kept, TRUE), "full", b)

Noted(a, r, measured) ==
  /\ Tries /\ rec' = [rec EXCEPT ![a] = r]
  /\ doubled' = IF rec[a].known /\ r.rtt >= 0 /\ measured /\ Doubles(rec[a], r.rtt)
                THEN [doubled EXCEPT ![a] = @ + 1] ELSE doubled

Alive(conn) == conn.gen = session.gen /\ session.to # NoAddr
FullProbe(conn, a) ==
  \/ /\ Alive(conn)
     /\ \E t \in Rtts, o \in [1 .. 3 -> BOOLEAN], done \in {0, 2, 3}, b \in Rates :
          /\ Answered(o) > 0
          /\ Noted(a, Laddered(Pinged(rec[a], t, o), done, b), Answered(o) > 1)
  \/ Noted(a, Pinged(rec[a], 0, [i \in 1 .. 3 |-> FALSE]), FALSE)

(* probe_quick: one ping, then the smallest size *)
QuickGood(a, b) ==
  \E t \in Rtts : Noted(a, RateNoted(Sample(RttNoted(Sample(rec[a], TRUE), t), TRUE), "quick", b), TRUE)
QuickHalf(a) ==
  \E t \in Rtts : Noted(a, Reaped(Sample(RttNoted(Sample(rec[a], TRUE), t), FALSE)), TRUE)
QuickLost(a) == Noted(a, Reaped(Sample(rec[a], FALSE)), FALSE)
Escalates(a, b) == rec[a].full >= 0 /\ 2 * b <= rec[a].full

------------------------------------------------------------------------------
(* is_relay_data_addr: no without the client or its connection, and before *)
(* the client has heard of the address                                     *)
Recognised(a) == IF a \in Relays /\ relayUp THEN BOOLEAN ELSE {FALSE}

NewSession(a) ==
  /\ gen < MaxGen /\ gen' = gen + 1
  /\ session' = [to |-> a, gen |-> gen']
  /\ \E v \in Recognised(a) : ups' = ups \cup {[to |-> a, gen |-> gen', via |-> v, step |-> "wait"]}

(* A connection: the peer's own, or this side's to the address chosen or found *)
Inbound(a) ==
  /\ a \in Relays => relayUp
  /\ NewSession(a)
  /\ UNCHANGED <<rec, current, prober, busy, relayUp, forced, tries, doubled>>

(* Over the relay whatever address it gives, or directly: the data plane lets *)
(* nobody in who dials an address of its own.                                 *)
Reach(a, via) == IF via THEN Relays ELSE {a} \ Relays

(* several: the peer is discovered and on the roster, else there is no choice *)
Path(several) ==
  LET d == Decide(Candidates, current) IN
  CASE forced -> Relays
    [] ~forced /\ several /\ d # NoAddr -> Reach(d, rec[d].via)
    [] OTHER -> Address
Connects ==
  /\ session.to = NoAddr \/ forced
  /\ \E several \in BOOLEAN : \E a \in Path(several) :
       /\ a \in Relays => relayUp
       /\ NewSession(a)
       /\ IF a \in Relays THEN NoteConnected(a, TRUE) ELSE UNCHANGED <<rec, current, doubled>>
  /\ UNCHANGED <<prober, busy, relayUp, forced, tries>>

Down ==
  /\ session.to # NoAddr /\ session' = [session EXCEPT !.to = NoAddr]
  /\ UNCHANGED <<rec, current, ups, prober, busy, relayUp, forced, gen, tries, doubled>>

Switches ==
  /\ Tries
  /\ \/ busy' = ~busy /\ UNCHANGED <<relayUp, forced>>
     \/ relayUp' = ~relayUp /\ UNCHANGED <<busy, forced>>
     \/ forced' = ~forced /\ UNCHANGED <<busy, relayUp>>
  /\ UNCHANGED <<rec, current, session, ups, prober, gen, doubled>>

(* on_session_up: registered, and probed, once no transfer is under way *)
UpRegisters(u) ==
  /\ u.step = "wait" /\ ~busy
  /\ NoteConnected(u.to, u.via)
  /\ ups' = (ups \ {u}) \cup {[u EXCEPT !.step = "probe"]}
  /\ UNCHANGED <<session, prober, busy, relayUp, forced, gen, tries>>
UpProbes(u) ==
  /\ u.step = "probe"
  /\ FullProbe(u, u.to)
  /\ ups' = ups \ {u}
  /\ UNCHANGED <<current, session, prober, busy, relayUp, forced, gen>>

------------------------------------------------------------------------------
(* the streak stays for the next round *)
Consumed_kept(r) == r
Consumed(r) == [r EXCEPT !.streak = 0]

(* spawn_scheduler: a channel that got worse is left for a better one *)
Degraded == current # NoAddr /\ rec[current].streak >= DegradeAfter
Moves ==
  /\ prober["loop"].pc = "idle" /\ session.to # NoAddr /\ Degraded
  /\ LET d == Decide(Candidates, current) IN
       prober' = IF forced \/ d = NoAddr THEN prober
                 ELSE [prober EXCEPT !["loop"] = [Resting EXCEPT !.pc = "move", !.at = current, !.plan = d, !.via = rec[d].via]]
  /\ rec' = [rec EXCEPT ![current] = Consumed(@)]
  /\ doubled' = [doubled EXCEPT ![current] = 0]
  /\ UNCHANGED <<current, session, ups, busy, relayUp, forced, gen, tries>>

Moved ==
  /\ prober["loop"].pc = "move"
  /\ LET plan == prober["loop"].plan
         via  == prober["loop"].via
     IN
     \/ \E a \in Reach(plan, via) :
          /\ via => relayUp
          /\ NewSession(a) /\ NoteConnected(a, via) /\ tries' = tries
     \/ /\ rec' = [rec EXCEPT ![plan] = Reaped(Sample(@, FALSE))]
        /\ UNCHANGED <<current, session, ups, gen, tries, doubled>>
     \/ session.to = NoAddr /\ UNCHANGED <<rec, current, session, ups, gen, tries, doubled>>
  /\ prober' = [prober EXCEPT !["loop"] = Resting]
  /\ UNCHANGED <<busy, relayUp, forced>>

(* The session and the address are read before the wait for the transfers *)
Picks(p) ==
  /\ prober[p].pc = "idle" /\ session.to # NoAddr /\ current # NoAddr
  /\ p = "loop" => ~Degraded
  /\ IF p = "hand" THEN Tries ELSE UNCHANGED tries
  /\ ~rec[current].off
  /\ prober' = [prober EXCEPT ![p] = [Resting EXCEPT !.pc = "quick", !.conn = session, !.at = current]]
  /\ UNCHANGED <<rec, current, session, ups, busy, relayUp, forced, gen, doubled>>

Quick(p) ==
  LET me == prober[p] IN
  /\ me.pc = "quick" /\ (p = "loop" => ~busy)
  /\ \/ \E b \in Rates : /\ Alive(me.conn) /\ QuickGood(me.at, b)
                         /\ prober' = [prober EXCEPT ![p] = IF Escalates(me.at, b)
                                          THEN [me EXCEPT !.pc = "full"] ELSE Resting]
     \/ Alive(me.conn) /\ QuickHalf(me.at) /\ prober' = [prober EXCEPT ![p] = Resting]
     \/ QuickLost(me.at) /\ prober' = [prober EXCEPT ![p] = Resting]
  /\ UNCHANGED <<current, session, ups, busy, relayUp, forced, gen>>

Full(p) ==
  /\ prober[p].pc = "full"
  /\ FullProbe(prober[p].conn, prober[p].at)
  /\ prober' = [prober EXCEPT ![p] = Resting]
  /\ UNCHANGED <<current, session, ups, busy, relayUp, forced, gen>>

ONext ==
  \/ \E a \in Address : Inbound(a)
  \/ Connects \/ Down \/ Switches \/ Moves \/ Moved
  \/ \E u \in ups : UpRegisters(u) \/ UpProbes(u)
  \/ \E p \in Prober : Picks(p) \/ Quick(p) \/ Full(p)
OSpec == OInit /\ [][ONext]_ovars

------------------------------------------------------------------------------
(* Whatever sessions, probes and moves crossed, what is recorded as the relay's *)
(* is an address of the relay's, and only one is remembered of the peer ("the   *)
(* old lease is dead", register).                                               *)
OneRelay ==
  /\ \A a \in Address : rec[a].via => a \in Relays /\ rec[a].known
  /\ Cardinality({a \in Address : rec[a].via}) <= 1

(* The choice is one of the measured channels that leads the current one by *)
(* the hysteresis, and none recorded as the relay's while the relay is down *)
(* or a channel not recorded so is about as good (score.rs, rules 2 and 3). *)
ChoiceSound ==
  LET d == Decide(Candidates, current) IN
  d # NoAddr =>
    /\ Ready(rec[d]) /\ d # current /\ (rec[d].via => relayUp)
    /\ current \in Candidates /\ Ready(rec[current])
         => Score(rec[d]) >= Score(rec[current]) + Hysteresis
    /\ \A a \in Candidates : Ready(rec[a]) /\ ~rec[a].via /\ rec[d].via
         => Score(rec[a]) + Hysteresis < Score(rec[d])

(* One address of a peer is remembered as the relay's, the choice leads by *)
(* the hysteresis and prefers what is not (routing/).                      *)
RoutingSound == OneRelay /\ ChoiceSound

(* A move is tried only after the delay doubled DegradeAfter times since the *)
(* last try and since the channel was registered (take_rtt_degradation:      *)
(* taking it consumes it, so that a failing move is not repeated every tick). *)
MovesPaced ==
  prober["loop"].pc = "idle" /\ prober'["loop"].pc = "move" => doubled[current] >= DegradeAfter

(* One relay address of a peer is remembered ("each device has one via_relay *)
(* channel at a time", register), and none chosen while the relay is down     *)
(* (failover_plan).  The code does not keep this: see the README.             *)
OneLease == Cardinality({a \in Relays : rec[a].known}) <= 1
NoStaleLease == Decide(Candidates, current) \in Relays => relayUp

(* "The median of three pings": a delay remembered was measured. *)
(* The code does not keep this: see the README.                  *)
RttMeasured == \A a \in Address : rec[a].rtt # 0

(* "After the first failure this address is not probed again until the next  *)
(* session": no probe starts of an address whose record is gone with what it *)
(* said of the failures.  The code does not keep this: see the README.       *)
Silenced ==
  [][\A p \in Prober : prober[p].pc = "idle" /\ prober'[p].pc = "quick"
       => rec[prober'[p].at].known]_ovars

(* Once the SessionUp tasks are done, the current address is the session's. *)
(* The code does not keep this: see the README.                             *)
CurrentSettles == ups = {} /\ session.to # NoAddr => current = session.to
============================================================================

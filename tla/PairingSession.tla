---------------------------- MODULE PairingSession ----------------------------
(***************************************************************************)
(* Sessions and pairing between two devices (core session.rs, pairing.rs). *)
(* A device has at most one entry for its peer in the table "sessions",    *)
(* while it runs one control loop per connection; an entry is replaced     *)
(* when a newer connection is set up, and the older connection's loop      *)
(* lives on. Whoever does not trust its peer when the connection arrives   *)
(* asks its user for consent; consent produces a code that the dialling    *)
(* user types in, and the right code makes each side trust the other.      *)
(*                                                                         *)
(* Connections are numbered in the order they are dialled: stable_id and   *)
(* the generation of an entry are both that number here, since a device    *)
(* makes at most one entry per connection. Codes are numbered in the order *)
(* they are generated; a code typed before it exists is a wrong one (the   *)
(* code has six random digits, a blind guess is right once in 10^6).       *)
(* ConsentGrant, names and the dialogs' own timers are left out: they open *)
(* or close windows and decide nothing here.                               *)
(***************************************************************************)
EXTENDS Integers, Sequences, FiniteSets

CONSTANTS
  Device,    \* the two machines
  None,
  MaxConns,  \* bound: connections ever dialled
  MaxCodes,  \* bound: codes generated
  MaxTyped,  \* bound: codes typed in
  MaxUpsets, \* bound: refusals, cancellations, disconnections, removals of trust, restarts
             \* and lost links
  MaxFails   \* wrong codes a PairingMachine takes, 3 in the code

ASSUME DeviceAssumption == IsFiniteSet(Device) /\ Cardinality(Device) = 2 /\ None \notin Device
ASSUME BoundsAssumption ==
  MaxConns \in Nat \ {0} /\ MaxCodes \in Nat /\ MaxTyped \in Nat /\ MaxUpsets \in Nat
    /\ MaxFails \in Nat \ {0}

Conn    == 1 .. MaxConns
Code    == 1 .. MaxCodes
Wrong   == 0
Peer(d) == CHOOSE e \in Device : e # d

VARIABLES
  dialer,    \* who dialled a connection, None before
  open,      \* the QUIC connections that live
  loop,      \* per connection and side: none, checked (trust and cool-down read), running
             \* (the control loop), broken or failed (it left its loop), over
  knew,      \* per connection and side: is_trusted, as read at the start
  settled,   \* per connection and side: terminal_result_sent
  wire,      \* per connection and side: control messages under way to it
  gates,     \* armed consent timers
  sessions,  \* the table's entry for the peer
  granting,  \* the entry whose consent is being sent
  trust,     \* the peer is in the trust store
  cooldown,  \* the peer is refused for COOLDOWN_SECS
  event,     \* the PairingResult the last step sent to a shell, None if none
  used,      \* codes generated so far
  typed, upsets

vars == <<dialer, open, loop, knew, settled, wire, gates, sessions, granting, trust, cooldown,
          event, used, typed, upsets>>

Message == [kind : {"code", "ok", "bad", "deny", "cancel", "bye", "broken"}, code : 0 .. MaxCodes]
Outcome == {"ok", "mismatch", "failed", "denied", "cancelled", "refused", "ended", "timeout", "lost"}
Session == [conn : Conn, consent : {"initiator", "awaiting", "granted"},
            pending : (0 .. MaxCodes) \cup {None}, code : Code \cup {None}, fails : Nat]

ASSUME NoneAssumption == None \notin Session /\ None \notin Conn /\ None \notin 0 .. MaxCodes

Init ==
  /\ dialer = [c \in Conn |-> None]
  /\ open = {}
  /\ loop = [c \in Conn |-> [d \in Device |-> "none"]]
  /\ knew = [c \in Conn |-> [d \in Device |-> FALSE]]
  /\ settled = [c \in Conn |-> [d \in Device |-> FALSE]]
  /\ wire = [c \in Conn |-> [d \in Device |-> <<>>]]
  /\ gates = {}
  /\ sessions = [d \in Device |-> None]
  /\ granting = [d \in Device |-> None]
  /\ trust \in {[d \in Device |-> b] : b \in BOOLEAN}
  /\ cooldown = [d \in Device |-> FALSE]
  /\ event = None
  /\ used = 0 /\ typed = 0 /\ upsets = 0


Consent(d)  == IF sessions[d] = None THEN "none" ELSE sessions[d].consent
Live(c, d)  == loop[c][d] = "running"
Reads(c, d) == c \in open /\ loop[c][d] \in {"none", "checked", "running"}
Told(d, r)  == event' = [to |-> d, what |-> r]
Silent      == event' = None
At(c, d, s) == loop' = [loop EXCEPT ![c][d] = s]
Drop(d)     == sessions' = [sessions EXCEPT ![d] = None]

Msg(k)      == [kind |-> k, code |-> 0]

(* w with message m of d behind what is under way on connection c.         *)
Post(w, c, d, m) == IF Reads(c, Peer(d)) THEN [w EXCEPT ![c][Peer(d)] = Append(@, m)] ELSE w
(* What the API sends goes through the loop of the entry's connection.     *)
Send(c, d, m)    == wire' = IF Live(c, d) THEN Post(wire, c, d, m) ELSE wire

setup  == <<dialer, knew, cooldown, used>>
bounds == <<used, typed, upsets>>
Upset  == upsets < MaxUpsets /\ upsets' = upsets + 1
------------------------------------------------------------------------------
(* Setting up a connection.                                                *)

(* connect, adopt_as_initiator: nothing here stops a second connection to  *)
(* a peer (the shells look for a session first, but not under force_relay, *)
(* and not when two of their tasks connect at a time).                     *)
Connect(d) ==
  /\ ~cooldown[d]
  /\ \E c \in Conn :
       /\ dialer[c] = None
       /\ \A b \in 1 .. (c - 1) : dialer[b] # None
       /\ dialer' = [dialer EXCEPT ![c] = d]
       /\ open' = open \cup {c}
       /\ At(c, d, "checked")
       /\ knew' = [knew EXCEPT ![c][d] = trust[d]]
  /\ UNCHANGED <<settled, wire, gates, sessions, granting, trust, cooldown, bounds>>
  /\ Silent

(* handle_incoming, up to accept_bi.                                       *)
Accept(c, d) ==
  /\ dialer[c] = Peer(d)
  /\ c \in open
  /\ loop[c][d] = "none"
  /\ IF cooldown[d]
       THEN At(c, d, "over") /\ open' = open \ {c} /\ UNCHANGED knew
       ELSE At(c, d, "checked") /\ knew' = [knew EXCEPT ![c][d] = trust[d]] /\ UNCHANGED open
  /\ UNCHANGED <<dialer, settled, wire, gates, sessions, granting, trust, cooldown, bounds>>
  /\ Silent

Fresh(c, asks) ==
  [conn |-> c, consent |-> IF asks THEN "awaiting" ELSE "initiator", pending |-> None,
   code |-> None, fails |-> 0]

(* Mutant: no second timer for the same peer.                              *)
Armed_once(c, d, asks) == IF asks /\ sessions[d] = None THEN gates \cup {<<c, d>>} ELSE gates

Armed(c, d, asks) == IF asks THEN gates \cup {<<c, d>>} ELSE gates

(* Hello exchanged: insert_session_and_spawn. Trust may have changed since *)
(* it was read, and another connection may have made an entry.             *)
Insert(c, d) ==
  LET asks == dialer[c] # d /\ ~knew[c][d]
  IN  /\ loop[c][d] = "checked"
      /\ loop[c][Peer(d)] # "none"
      /\ sessions' = [sessions EXCEPT ![d] = Fresh(c, asks)]
      /\ gates' = Armed(c, d, asks)
      /\ At(c, d, "running")
      /\ knew' = [knew EXCEPT ![c][d] = FALSE]
      /\ UNCHANGED <<dialer, open, settled, wire, granting, trust, cooldown, bounds>>
      /\ Silent

(* The other side went away before its Hello. One that stays sends it before *)
(* the 10 s run out (session.rs:1285), which therefore end no wait of their   *)
(* own here.                                                                 *)
GiveUp(c, d) ==
  /\ loop[c][d] = "checked"
  /\ c \notin open \/ loop[c][Peer(d)] = "over"
  /\ At(c, d, "over")
  /\ open' = open \ {c}
  /\ wire' = [wire EXCEPT ![c][d] = <<>>]
  /\ knew' = [knew EXCEPT ![c][d] = FALSE]
  /\ UNCHANGED <<dialer, settled, gates, sessions, granting, trust, cooldown, bounds>>
  /\ Silent
------------------------------------------------------------------------------
(* The commands of the user.                                               *)

(* submit_pair_code: only a side that was never asked for consent types.   *)
Submit(d) ==
  /\ Consent(d) = "initiator"
  /\ Live(sessions[d].conn, d)
  /\ typed < MaxTyped
  /\ typed' = typed + 1
  /\ \E k \in 0 .. used : Send(sessions[d].conn, d, [kind |-> "code", code |-> k])
  /\ UNCHANGED <<setup, open, loop, settled, gates, sessions, granting, trust, upsets>>
  /\ Silent

(* grant_consent under the lock: the code exists from here on.             *)
Grant(d) ==
  /\ Consent(d) = "awaiting"
  /\ granting[d] = None
  /\ used < MaxCodes
  /\ used' = used + 1
  /\ sessions' = [sessions EXCEPT ![d].consent = "granted", ![d].code = used + 1, ![d].fails = 0]
  /\ granting' = [granting EXCEPT ![d] = sessions[d].conn]
  /\ UNCHANGED <<dialer, open, loop, knew, settled, wire, gates, trust, cooldown, typed, upsets>>
  /\ Silent

Disconnected(d) ==
  /\ Drop(d)
  /\ open' = open \ {sessions[d].conn}

(* The rest of it: ConsentGrant is sent, then the code that came before    *)
(* consent is judged (try_release_pending, judge_code), in whatever entry  *)
(* the table has by now. Its sender is told nothing of the verdict.        *)
Release(d) ==
  LET s     == sessions[d]
      judge == /\ Live(granting[d], d)
               /\ Consent(d) = "granted"
               /\ s.pending # None /\ s.code # None
  IN  /\ granting[d] # None
      /\ granting' = [granting EXCEPT ![d] = None]
      /\ \/ ~judge /\ UNCHANGED <<sessions, open, cooldown>> /\ Silent
         \/ /\ judge
            /\ s.fails + 1 < MaxFails
            /\ sessions' = [sessions EXCEPT ![d].pending = None, ![d].fails = @ + 1]
            /\ Told(d, "mismatch")
            /\ UNCHANGED <<open, cooldown>>
         \/ /\ judge
            /\ s.fails + 1 >= MaxFails
            /\ cooldown' = [cooldown EXCEPT ![d] = TRUE]
            /\ Disconnected(d)
            /\ Told(d, "failed")
      /\ UNCHANGED <<dialer, loop, knew, settled, wire, gates, trust, bounds>>

(* deny_consent: the entry stays, the peer will break the connection.      *)
Deny(d) ==
  /\ Consent(d) = "awaiting"
  /\ Live(sessions[d].conn, d)
  /\ Send(sessions[d].conn, d, Msg("deny"))
  /\ Told(d, "refused")
  /\ Upset
  /\ UNCHANGED <<setup, open, loop, settled, gates, sessions, granting, trust, typed>>

CancelWait(d) ==
  /\ Consent(d) = "granted"
  /\ Live(sessions[d].conn, d)
  /\ Send(sessions[d].conn, d, Msg("cancel"))
  /\ Told(d, "ended")
  /\ Upset
  /\ UNCHANGED <<setup, open, loop, settled, gates, sessions, granting, trust, typed>>

Disconnect(d) ==
  /\ Consent(d) # "none"
  /\ Send(sessions[d].conn, d, Msg("bye"))
  /\ Disconnected(d)
  /\ Upset
  /\ UNCHANGED <<setup, loop, settled, gates, granting, trust, typed>>
  /\ Silent

(* remove_trusted_inner: TrustBroken, then disconnect.                     *)
RemoveTrust(d) ==
  /\ trust[d]
  /\ trust' = [trust EXCEPT ![d] = FALSE]
  /\ IF Consent(d) = "none" THEN UNCHANGED <<wire, open, sessions>>
       ELSE Send(sessions[d].conn, d, Msg("broken")) /\ Disconnected(d)
  /\ Upset
  /\ UNCHANGED <<setup, loop, settled, gates, granting, typed>>
  /\ Silent
------------------------------------------------------------------------------
(* The control loop.                                                       *)

Read(c, d)    == Live(c, d) /\ wire[c][d] # <<>>
Taken(c, d)   == [wire EXCEPT ![c][d] = Tail(@)]
Settle(c, d)  == settled' = [settled EXCEPT ![c][d] = TRUE]

(* Mutant: without an entry pairing is not completed (BUG03).              *)
Completed_needsEntry(d) ==
  IF trust[d] \/ sessions[d] = None THEN UNCHANGED <<trust, sessions>> /\ Silent
  ELSE /\ trust' = [trust EXCEPT ![d] = TRUE]
       /\ sessions' = [sessions EXCEPT ![d].code = None]
       /\ Told(d, "ok")

(* complete_pairing: nothing but the first time. The entry may be gone.    *)
Completed(d) ==
  IF trust[d] THEN UNCHANGED <<trust, sessions>> /\ Silent
  ELSE /\ trust' = [trust EXCEPT ![d] = TRUE]
       /\ sessions' = IF sessions[d] = None THEN sessions ELSE [sessions EXCEPT ![d].code = None]
       /\ Told(d, "ok")

(* A code is judged by the entry of the table, whatever connection it came *)
(* on.                                                                     *)
HandleCode(c, d) ==
  LET k == Head(wire[c][d]).code
      s == sessions[d]
      judge == Consent(d) = "granted" /\ s.code # None
  IN  /\ Read(c, d)
      /\ Head(wire[c][d]).kind = "code"
      /\ \/ /\ ~judge
            /\ sessions' = IF Consent(d) = "awaiting" THEN [sessions EXCEPT ![d].pending = k]
                           ELSE sessions
            /\ wire' = Taken(c, d)
            /\ UNCHANGED <<loop, settled, trust, cooldown>>
            /\ Silent
         \/ /\ judge /\ k = s.code
            /\ wire' = Post(Taken(c, d), c, d, Msg("ok"))
            /\ Settle(c, d)
            /\ Completed(d)
            /\ UNCHANGED <<loop, cooldown>>
         \/ /\ judge /\ k # s.code /\ s.fails + 1 < MaxFails
            /\ sessions' = [sessions EXCEPT ![d].fails = @ + 1]
            /\ wire' = Post(Taken(c, d), c, d, Msg("bad"))
            /\ UNCHANGED <<loop, settled, trust, cooldown>>
            /\ Silent
         \/ /\ judge /\ k # s.code /\ s.fails + 1 >= MaxFails
            /\ sessions' = [sessions EXCEPT ![d].fails = @ + 1]
            /\ cooldown' = [cooldown EXCEPT ![d] = TRUE]
            /\ wire' = Post(Taken(c, d), c, d, Msg("bad"))
            /\ Settle(c, d)
            /\ Told(d, "failed")
            /\ At(c, d, "failed")
            /\ UNCHANGED trust
      /\ UNCHANGED <<dialer, open, knew, gates, granting, bounds>>

(* PairResult.                                                             *)
HandleResult(c, d) ==
  LET m == Head(wire[c][d]).kind
  IN  /\ Read(c, d)
      /\ m \in {"ok", "bad"}
      /\ wire' = Taken(c, d)
      /\ Settle(c, d)
      /\ IF m = "ok" THEN Completed(d) ELSE Told(d, "mismatch") /\ UNCHANGED <<trust, sessions>>
      /\ UNCHANGED <<setup, open, loop, gates, granting, typed, upsets>>

(* The messages that end the session.                                      *)
HandleEnd(c, d) ==
  LET m == Head(wire[c][d]).kind
  IN  /\ Read(c, d)
      /\ m \in {"deny", "cancel", "bye", "broken"}
      /\ wire' = Taken(c, d)
      /\ At(c, d, "broken")
      /\ \/ m = "deny"   /\ Settle(c, d) /\ Told(d, "denied") /\ UNCHANGED trust
         \/ m = "cancel" /\ Settle(c, d) /\ Told(d, "cancelled") /\ UNCHANGED trust
         \/ m = "bye"    /\ UNCHANGED <<settled, trust>> /\ Silent
         \/ m = "broken" /\ trust' = [trust EXCEPT ![d] = FALSE]
                           /\ UNCHANGED settled /\ Silent
      /\ UNCHANGED <<setup, open, gates, sessions, granting, typed, upsets>>

(* The stream ends when the other loop has, the connection at any time     *)
(* with what is still on its way.                                          *)
ReadEnd(c, d) ==
  /\ Live(c, d)
  /\ c \notin open \/ (loop[c][Peer(d)] = "over" /\ wire[c][d] = <<>>)
  /\ At(c, d, "broken")
  /\ UNCHANGED <<setup, open, settled, wire, gates, sessions, granting, trust, typed, upsets>>
  /\ Silent

(* Mutant: a loop leaves whatever entry there is.                          *)
Superseded_any(c, d) == sessions[d] # None

Superseded(c, d) == sessions[d] # None /\ sessions[d].conn # c

(* Behind the loop: the entry is removed unless a newer connection has     *)
(* taken it, and an initiator that has not paired is told.                 *)
Exit(c, d) ==
  LET s == sessions[d]
      initiator  == s = None \/ s.consent = "initiator"
      trusted    == s # None /\ trust[d]
  IN  /\ loop[c][d] \in {"broken", "failed"}
      /\ At(c, d, "over")
      /\ wire' = [wire EXCEPT ![c][d] = <<>>]
      /\ open' = IF loop[c][d] = "failed" THEN open \ {c} ELSE open
      /\ IF Superseded(c, d) THEN UNCHANGED sessions ELSE Drop(d)
      /\ IF ~Superseded(c, d) /\ initiator /\ ~trusted /\ ~settled[c][d]
           THEN Told(d, "lost") ELSE Silent
      /\ settled' = [settled EXCEPT ![c][d] = FALSE]
      /\ UNCHANGED <<setup, gates, granting, trust, typed, upsets>>
------------------------------------------------------------------------------
(* Time and faults.                                                        *)

(* Mutant: the timer does not look at the generation (M-B1).               *)
Overdue_any(c, d) == Consent(d) = "awaiting"

Overdue(c, d) == Consent(d) = "awaiting" /\ sessions[d].conn = c

(* The consent timer of the connection the entry was made for.             *)
GateFires(c, d) ==
  /\ <<c, d>> \in gates
  /\ gates' = gates \ {<<c, d>>}
  /\ IF Overdue(c, d)
       THEN Drop(d) /\ open' = open \ {c} /\ Told(d, "timeout")
       ELSE UNCHANGED <<sessions, open>> /\ Silent
  /\ UNCHANGED <<setup, loop, settled, wire, granting, trust, typed, upsets>>

CooldownEnds(d) ==
  /\ cooldown[d]
  /\ cooldown' = [cooldown EXCEPT ![d] = FALSE]
  /\ UNCHANGED <<dialer, open, loop, knew, settled, wire, gates, sessions, granting, trust,
                 bounds>>
  /\ Silent

LinkDrops(c) ==
  /\ c \in open
  /\ Upset
  /\ open' = open \ {c}
  /\ UNCHANGED <<dialer, loop, knew, settled, wire, gates, sessions, granting, trust, cooldown, used,
                 typed>>
  /\ Silent

(* The process dies and starts again; only the trust store is on disk.     *)
Restart(d) ==
  LET dialled == {c \in Conn : dialer[c] # None}
  IN  /\ Upset
      /\ open' = {}
      /\ loop' = [c \in Conn |-> IF c \in dialled THEN [loop[c] EXCEPT ![d] = "over"] ELSE loop[c]]
      /\ wire' = [c \in Conn |-> [wire[c] EXCEPT ![d] = <<>>]]
      /\ gates' = {g \in gates : g[2] # d}
      /\ Drop(d)
      /\ granting' = [granting EXCEPT ![d] = None]
      /\ cooldown' = [cooldown EXCEPT ![d] = FALSE]
      /\ UNCHANGED <<dialer, knew, settled, trust, used, typed>>
      /\ Silent

Side(c, d) ==
  \/ Accept(c, d)
  \/ Insert(c, d)
  \/ GiveUp(c, d)
  \/ HandleCode(c, d)
  \/ HandleResult(c, d)
  \/ HandleEnd(c, d)
  \/ ReadEnd(c, d)
  \/ Exit(c, d)
  \/ GateFires(c, d)

User(d) ==
  \/ Connect(d)
  \/ Submit(d)
  \/ Grant(d)
  \/ Deny(d)
  \/ CancelWait(d)
  \/ Disconnect(d)
  \/ RemoveTrust(d)

Next ==
  \/ \E d \in Device : User(d) \/ Release(d) \/ CooldownEnds(d) \/ Restart(d)
  \/ \E c \in Conn, d \in Device : Side(c, d)
  \/ \E c \in Conn : LinkDrops(c)

Spec == Init /\ [][Next]_vars

(* Tasks that are ready run; users, faults and the cool-down may never.    *)
Fairness ==
  /\ \A c \in Conn, d \in Device : WF_vars(Side(c, d))
  /\ \A d \in Device : WF_vars(Release(d))

FairSpec == Spec /\ Fairness
------------------------------------------------------------------------------
(* Properties *)

(* Every variable has its type.                                            *)
TypeOK ==
  /\ dialer \in [Conn -> Device \cup {None}]
  /\ open \subseteq Conn
  /\ loop \in [Conn -> [Device -> {"none", "checked", "running", "broken", "failed", "over"}]]
  /\ knew \in [Conn -> [Device -> BOOLEAN]]
  /\ settled \in [Conn -> [Device -> BOOLEAN]]
  /\ wire \in [Conn -> [Device -> Seq(Message)]]
  /\ gates \subseteq Conn \X Device
  /\ sessions \in [Device -> Session \cup {None}]
  /\ granting \in [Device -> Conn \cup {None}]
  /\ trust \in [Device -> BOOLEAN]
  /\ cooldown \in [Device -> BOOLEAN]
  /\ event \in [to : Device, what : Outcome] \cup {None}
  /\ used \in 0 .. MaxCodes /\ typed \in 0 .. MaxTyped /\ upsets \in 0 .. MaxUpsets

(* No phantom sessions: an entry of the table always has the control loop  *)
(* of its own connection behind it, so that the end of that connection is  *)
(* noticed. (insert_session_and_spawn; the end of ctrl_loop.)              *)
SessionHasLoop == \A d \in Device :
  sessions[d] # None => loop[sessions[d].conn][d] \in {"running", "broken", "failed"}

(* Nobody is asked for ever: the timer of a pending consent is armed.      *)
GateArmed == \A d \in Device :
  Consent(d) = "awaiting" => <<sessions[d].conn, d>> \in gates

(* An older connection's loop or timer never takes away the entry of a     *)
(* newer one: an entry goes with its own connection (M-B1, T6-FR6).        *)
NewestKept == [][\A d \in Device :
  sessions[d] # None /\ sessions'[d] = None =>
     sessions[d].conn \notin open' \/ loop'[sessions[d].conn][d] = "over"]_vars

(* Why SessionHasLoop and GateArmed hold, in a form every step preserves:  *)
(* no task runs for a connection that is yet to be dialled.                *)
NoLoopBeforeDial == \A c \in Conn :
  dialer[c] = None => \A d \in Device : loop[c][d] = "none"

SessionInv == NoLoopBeforeDial /\ SessionHasLoop /\ GateArmed

(* Nothing is under way and no timer of the code is due.                   *)
Quiet ==
  /\ granting = [d \in Device |-> None]
  /\ \A c \in Conn, d \in Device :
       \/ dialer[c] = None
       \/ loop[c][d] = "over" /\ loop[c][Peer(d)] = "over"
       \/ Live(c, d) /\ Live(c, Peer(d)) /\ c \in open /\ wire[c][d] = <<>>

(* Pairing is mutual: with no command against it and no fault, whatever    *)
(* the order of dials, consents, timers and codes, the code one device has *)
(* shown makes both trust or none (complete_pairing_core: "otherwise the   *)
(* trust is one-sided").                                                   *)
TrustMutual ==
  Quiet /\ upsets = 0 /\ used <= 1 => \A d, e \in Device : trust[d] = trust[e]

(* Why TrustMutual holds, in a form every step preserves.                  *)

Elems(s)    == {s[i] : i \in 1 .. Len(s)}
Under(c, d) == Elems(wire[c][d])
EntryOn(c, d) == sessions[d] # None /\ sessions[d].conn = c

(* Side d of connection c has typed: it was not asked for consent there.   *)
Typed(c, d) == loop[c][d] \notin {"none", "checked"} /\ (EntryOn(c, d) => Consent(d) = "initiator")

(* Nothing ends a session, a code that arrives exists and was typed, and   *)
(* who says yes trusts.                                                    *)
WireInv == \A c \in Conn, d \in Device : \A m \in Under(c, d) :
  /\ m.kind \in {"code", "ok", "bad"}
  /\ m.kind = "ok" => trust[Peer(d)]
  /\ m.kind = "code" => m.code <= used /\ Typed(c, Peer(d))

EntryInv == \A d \in Device : sessions[d] # None /\ sessions[d].code # None =>
  Consent(d) = "granted" /\ sessions[d].code <= used

(* Only the device that showed the code judges, or has judged, any.        *)
Judges(d) == Consent(d) = "granted" \/ \E c \in Conn : loop[c][d] = "failed"
JudgeInv  == \A d \in Device : Judges(d) => used >= 1 /\ ~Judges(Peer(d))

(* Who typed the code that is looked for waits for the answer.             *)
WaitInv == \A c \in Conn, d \in Device : \A m \in Under(c, d) :
  /\ m.kind = "code" /\ sessions[d] # None /\ m.code = sessions[d].code
  /\ loop[c][d] \in {"none", "checked", "running"}
  => c \in open /\ loop[c][Peer(d)] = "running"

(* The answer that d has sent on c will be read.                           *)
Answered(c, d) ==
  /\ c \in open /\ \E m \in Under(c, Peer(d)) : m.kind = "ok"
  /\ loop[c][Peer(d)] = "running" /\ Typed(c, Peer(d))
  /\ loop[c][d] \notin {"none", "checked", "failed"} /\ (EntryOn(c, d) => Consent(d) # "awaiting")

AnswerInv == \A d \in Device : trust[d] /\ ~trust[Peer(d)] =>
  /\ used >= 1 /\ ~Judges(Peer(d)) /\ (sessions[d] # None => sessions[d].code = None)
  /\ \E c \in Conn : Answered(c, d)

TrustInv ==
  upsets = 0 /\ used <= 1 => WireInv /\ EntryInv /\ JudgeInv /\ WaitInv /\ AnswerInv

(* What comments say, and does not hold.                                   *)

(* Trust is never one-sided, whatever has been shown and typed: after a    *)
(* right code a device may show a second one for a crossing connection;    *)
(* what was typed for the first is then wrong, and at the limit it closes  *)
(* the connection on which its answer is unread.                           *)
(* The code does not keep this: see the README.                            *)
NeverOneSided == Quiet /\ upsets = 0 => \A d, e \in Device : trust[d] = trust[e]

(* "Repeated connections are covered idempotently by the session           *)
(* generations" (reconnect.rs): two devices that trust each other and both *)
(* have a session agree which connection it is, as the engine needs, which *)
(* opens streams on one and accepts them on the other.                     *)
(* The code does not keep this: see the README.                            *)
SameConnection ==
  Quiet => \A d, e \in Device :
    trust[d] /\ trust[e] /\ sessions[d] # None /\ sessions[e] # None
      => sessions[d].conn = sessions[e].conn

(* "The peer removes its trust entry when it gets TrustBroken": a notice   *)
(* sent on a living session is acted on.                                   *)
(* The code does not keep this: see the README.                            *)
TrustBrokenHeard == \A c \in Conn, d \in Device :
  (\E i \in DOMAIN wire[c][d] : wire[c][d][i] = Msg("broken")) ~> ~trust[d]
==============================================================================

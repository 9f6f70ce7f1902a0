------------------------------- MODULE Reconnect -------------------------------
(***************************************************************************)
(* How the desktop shell keeps a session with one device alive (reconnect.rs,*)
(* main.rs, commands.rs, core autoheal.rs and connect_memory.rs): the event *)
(* pump that turns session events into the badge connected_fps, the back-off*)
(* loop of a remembered device, the healing task through the relay, and the *)
(* commands that connect a device or remove its trust.                      *)
(*                                                                          *)
(* The session table is PairingSession's; here a connection is a number, and*)
(* a ctrl_loop is its membership in live. Delays are not modelled: a sleep  *)
(* is a program counter that may move at any time.                          *)
(***************************************************************************)
EXTENDS Integers, Sequences

CONSTANTS
  MaxConns,   \* bound: connections ever made
  MaxFails,   \* MAX_CONSECUTIVE_FAILURES of the back-off loop
  MaxHeals    \* MAX_FAILS of the healing task

ConstantsOK == MaxConns \in Nat /\ MaxFails \in Nat \ {0} /\ MaxHeals \in Nat \ {0}

Conns == 1 .. MaxConns

VARIABLES
  table,       \* the connection in the session table, 0 if none
  made,        \* connections made so far
  live,        \* connections whose ctrl_loop runs
  up, down,    \* SessionUp and SessionDown about to be sent, by connection
  events,      \* the channel to the pump
  pump,        \* "idle", or "schedule": past the badge in a SessionDown
  badge,       \* the device is in connected_fps
  trusted, remembered,
  seen,        \* the discovery table has an address
  starting,    \* the scan at startup has not come to this device
  cmd,         \* the command connect: "no", "made"
  removal,     \* remove_trusted: "no", "memory", "disconnect"
  reg,         \* the loop is in reconnect_tasks
  pc,          \* "none", "check", "sleep", "trying", "opened", "ending"
  fails, gaveUp, absent,  \* the loop's locals
  healing,     \* failures of the healing task, -1 if none runs
  swallowed,   \* a SessionDown found the loop registered but past its last test
  vanished     \* the loop has seen the device absent since it gave up

sess  == <<table, made, live, up, down>>
shell == <<events, pump, badge, starting, cmd, removal, swallowed>>
known == <<trusted, remembered, seen>>
loop  == <<reg, pc, fails, gaveUp, absent, vanished>>
vars  == <<sess, shell, known, loop, healing>>

Init ==
  /\ table = 0 /\ made = 0 /\ live = {} /\ up = {} /\ down = {}
  /\ events = <<>> /\ pump = "idle" /\ badge = FALSE
  /\ trusted \in BOOLEAN /\ remembered \in BOOLEAN /\ seen = FALSE
  /\ starting = TRUE /\ cmd = "no" /\ removal = "no"
  /\ reg = FALSE /\ pc = "none" /\ fails = 0 /\ gaveUp = FALSE /\ absent = TRUE
  /\ healing = -1 /\ swallowed = FALSE /\ vanished = FALSE

Send(e) == events' = Append(events, e)

(***************************************************************************)
(* Sessions.                                                               *)
(***************************************************************************)

\* A connection is made and enters the table, over the one that is there; a
\* trusted device's SessionUp is sent next.
Opens ==
  /\ made < MaxConns /\ made' = made + 1
  /\ table' = made' /\ live' = live \cup {made'}
  /\ up' = IF trusted THEN up \cup {made'} ELSE up
  /\ UNCHANGED down

PeerConnects == Opens /\ UNCHANGED <<shell, known, loop, healing>>

UpSent(c) ==
  /\ c \in up /\ up' = up \ {c} /\ Send("up")
  /\ UNCHANGED <<table, made, live, down, pump, badge, starting, cmd, removal, swallowed, known, loop, healing>>

\* The ctrl_loop of c ends: silently if another connection has taken c's place.
Ends(c) ==
  /\ c \in live /\ live' = live \ {c}
  /\ IF table \in {c, 0}
       THEN table' = 0 /\ down' = down \cup {c}
       ELSE UNCHANGED <<table, down>>

Dies(c) == Ends(c) /\ UNCHANGED <<made, up, shell, known, loop, healing>>

DownSent(c) ==
  /\ c \in down /\ down' = down \ {c} /\ Send("down")
  /\ UNCHANGED <<table, made, live, up, pump, badge, starting, cmd, removal, swallowed, known, loop, healing>>

\* The codes matched on the connection of a device that was not trusted.
Paired(c) ==
  /\ c \in live /\ table = c /\ ~trusted /\ removal = "no"
  /\ trusted' = TRUE /\ events' = events \o <<"up", "paired">>
  /\ UNCHANGED <<sess, pump, badge, starting, cmd, removal, swallowed, remembered, seen, loop, healing>>

\* The device says that it removed its trust: ours goes, then the session.
TrustBroken(c) ==
  /\ c \in live /\ table = c /\ trusted
  /\ trusted' = FALSE /\ Send("broken") /\ Ends(c)
  /\ UNCHANGED <<made, up, pump, badge, starting, cmd, removal, swallowed, remembered, seen, loop, healing>>

(***************************************************************************)
(* The event pump and the commands.                                        *)
(***************************************************************************)

PumpUp ==
  /\ pump = "idle" /\ events # <<>> /\ Head(events) = "up"
  /\ badge' = TRUE /\ events' = Tail(events)
  /\ UNCHANGED <<sess, pump, starting, cmd, removal, swallowed, known, loop, healing>>

PumpPaired ==
  /\ pump = "idle" /\ events # <<>> /\ Head(events) = "paired"
  /\ badge' = TRUE /\ remembered' = TRUE /\ events' = Tail(events)
  /\ UNCHANGED <<sess, pump, starting, cmd, removal, swallowed, trusted, seen, loop, healing>>

PumpBroken ==
  /\ pump = "idle" /\ events # <<>> /\ Head(events) = "broken"
  /\ badge' = FALSE /\ remembered' = FALSE /\ events' = Tail(events)
  /\ UNCHANGED <<sess, pump, starting, cmd, removal, swallowed, trusted, seen, loop, healing>>

\* SessionDown: the badge goes; a trusted device that only the relay's roster
\* has (which is not modelled) gets a healing task unless one runs.
PumpDown ==
  /\ pump = "idle" /\ events # <<>> /\ Head(events) = "down"
  /\ badge' = FALSE /\ events' = Tail(events) /\ pump' = "schedule"
  /\ \/ ~seen /\ trusted /\ healing = -1 /\ healing' = 0
     \/ UNCHANGED healing
  /\ UNCHANGED <<sess, starting, cmd, removal, swallowed, known, loop>>

Wanted == remembered /\ trusted /\ ~badge

\* schedule: a loop is started for a remembered, trusted device without a
\* session unless the registry has one.
Schedule ==
  IF Wanted /\ ~reg
    THEN /\ reg' = TRUE /\ pc' = "check"
         /\ fails' = 0 /\ gaveUp' = FALSE /\ absent' = TRUE /\ vanished' = FALSE
         /\ swallowed' = FALSE
    ELSE /\ swallowed' = (swallowed \/ (Wanted /\ pc \in {"opened", "ending"}))
         /\ UNCHANGED loop

PumpSchedule ==
  /\ pump = "schedule" /\ pump' = "idle" /\ Schedule
  /\ UNCHANGED <<sess, events, badge, starting, cmd, removal, known, healing>>

StartupScan ==
  /\ starting /\ starting' = FALSE /\ Schedule
  /\ UNCHANGED <<sess, events, pump, badge, cmd, removal, known, healing>>

\* connect: a session that is there is enough, otherwise one is made ...
Connect ==
  /\ cmd = "no" /\ cmd' = "made"
  /\ IF table # 0 THEN UNCHANGED sess ELSE Opens
  /\ UNCHANGED <<events, pump, badge, starting, removal, swallowed, known, loop, healing>>

\* ... then the command sets the badge and remembers the device.
ConnectDone ==
  /\ cmd = "made" /\ cmd' = "no" /\ badge' = TRUE /\ remembered' = TRUE
  /\ UNCHANGED <<sess, events, pump, starting, removal, swallowed, trusted, seen, loop, healing>>

\* remove_trusted: the trust goes, then the memory, then the session.
RemoveTrust ==
  /\ removal = "no" /\ trusted /\ trusted' = FALSE /\ removal' = "memory"
  /\ UNCHANGED <<sess, events, pump, badge, starting, cmd, swallowed, remembered, seen, loop, healing>>

RemoveMemory ==
  /\ removal = "memory" /\ remembered' = FALSE /\ removal' = "disconnect"
  /\ UNCHANGED <<sess, events, pump, badge, starting, cmd, swallowed, trusted, seen, loop, healing>>

RemoveSession ==
  /\ removal = "disconnect" /\ removal' = "no" /\ table' = 0
  /\ UNCHANGED <<made, live, up, down, events, pump, badge, starting, cmd, swallowed, known, loop, healing>>

\* The device's announcements arrive, or run out.
Discovery ==
  /\ seen' = ~seen
  /\ UNCHANGED <<sess, shell, trusted, remembered, loop, healing>>

(***************************************************************************)
(* The back-off loop and the healing task.                                 *)
(***************************************************************************)

\* A loop ends that has nothing left to do.
Over == badge \/ ~trusted \/ ~remembered

\* The tests at the top of a round, and the give-up after MaxFails failures.
LoopCheck ==
  /\ pc = "check"
  /\ IF Over
       THEN pc' = "ending" /\ UNCHANGED <<gaveUp, vanished>>
       ELSE /\ pc' = "sleep" /\ gaveUp' = (gaveUp \/ fails >= MaxFails)
            /\ vanished' = (vanished /\ gaveUp)
  /\ UNCHANGED <<sess, shell, known, reg, fails, absent, healing>>

\* What the round saw is the next one's peer_absent.
Sampled == IF badge THEN absent ELSE ~seen

\* A device that gave up is tried again when it reappears.
Rearm == gaveUp /\ seen /\ absent

Idle == ~seen \/ (gaveUp /\ ~Rearm)

\* After the sleep only the badge is looked at again. A device without an
\* address is no failure.
LoopWakes ==
  /\ pc = "sleep"
  /\ absent' = Sampled /\ vanished' = (vanished \/ ~seen)
  /\ \/ badge /\ pc' = "ending" /\ UNCHANGED <<fails, gaveUp>>
     \/ ~badge /\ Idle /\ pc' = "check" /\ UNCHANGED <<fails, gaveUp>>
     \/ /\ ~badge /\ ~Idle /\ pc' = "trying"
        /\ fails' = (IF Rearm THEN 0 ELSE fails)
        /\ gaveUp' = (gaveUp /\ ~Rearm)
  /\ UNCHANGED <<sess, shell, known, reg, healing>>

TryOk ==
  /\ pc = "trying" /\ Opens /\ pc' = "opened"
  /\ UNCHANGED <<shell, known, reg, fails, gaveUp, absent, vanished, healing>>

\* connect_pinned returns when it has sent SessionUp; the loop breaks.
TryReturns ==
  /\ pc = "opened" /\ up = {} /\ pc' = "ending"
  /\ UNCHANGED <<sess, shell, known, reg, fails, gaveUp, absent, vanished, healing>>

TryFails ==
  /\ pc = "trying" /\ pc' = "check" /\ fails' = fails + 1
  /\ UNCHANGED <<sess, shell, known, reg, gaveUp, absent, vanished, healing>>

LoopLeaves_keepsReg ==
  /\ pc = "ending" /\ pc' = "none"
  /\ UNCHANGED <<sess, shell, known, reg, fails, gaveUp, absent, vanished, healing>>

\* The loop takes itself out of the registry, some time after it broke off.
LoopLeaves ==
  /\ pc = "ending" /\ pc' = "none" /\ reg' = FALSE
  /\ UNCHANGED <<sess, shell, known, fails, gaveUp, absent, vanished, healing>>

\* One round of auto_reconnect: a call through the relay, adopted as initiator.
HealOk ==
  /\ healing >= 0 /\ Opens /\ healing' = -1
  /\ UNCHANGED <<shell, known, loop>>

HealFails ==
  /\ healing >= 0
  /\ healing' = IF healing + 1 >= MaxHeals THEN -1 ELSE healing + 1
  /\ UNCHANGED <<sess, shell, known, loop>>

Loops == LoopCheck \/ LoopWakes \/ TryOk \/ TryReturns \/ TryFails \/ LoopLeaves
Pumps == PumpUp \/ PumpPaired \/ PumpBroken \/ PumpDown \/ PumpSchedule

Next ==
  \/ \E c \in Conns : UpSent(c) \/ Dies(c) \/ DownSent(c) \/ Paired(c) \/ TrustBroken(c)
  \/ PeerConnects \/ Pumps \/ StartupScan \/ Loops
  \/ Connect \/ ConnectDone \/ RemoveTrust \/ RemoveMemory \/ RemoveSession
  \/ Discovery \/ HealOk \/ HealFails

Spec == Init /\ [][Next]_vars

\* The loop's sleeps end and its attempts are bounded by CONNECT_TIMEOUT.
Fairness == WF_vars(Loops) /\ WF_vars(\E c \in Conns : UpSent(c))
FairSpec == Spec /\ Fairness

TypeOK ==
  /\ table \in 0 .. MaxConns /\ made \in 0 .. MaxConns
  /\ live \subseteq 1 .. made /\ up \subseteq 1 .. made /\ down \subseteq 1 .. made
  /\ events \in Seq({"up", "down", "paired", "broken"}) /\ pump \in {"idle", "schedule"}
  /\ cmd \in {"no", "made"} /\ removal \in {"no", "memory", "disconnect"}
  /\ pc \in {"none", "check", "sleep", "trying", "opened", "ending"}
  /\ fails \in 0 .. MaxFails /\ healing \in -1 .. MaxHeals - 1
  /\ badge \in BOOLEAN /\ trusted \in BOOLEAN /\ remembered \in BOOLEAN /\ seen \in BOOLEAN
  /\ starting \in BOOLEAN /\ reg \in BOOLEAN /\ gaveUp \in BOOLEAN /\ absent \in BOOLEAN
  /\ swallowed \in BOOLEAN /\ vanished \in BOOLEAN

\* Nothing about the sessions is on its way to the shell.
Quiet ==
  /\ table = 0 /\ live = {} /\ up = {} /\ down = {} /\ events = <<>>
  /\ pump = "idle" /\ cmd = "no" /\ removal = "no" /\ ~starting

\* A remembered, trusted device that lost its session is being watched by a
\* loop, whatever ended the session and whatever ran meanwhile - unless its
\* SessionDown came while the loop was leaving (reconnect.rs:187): the one way
\* in which a device is abandoned.
Watched ==
  /\ TypeOK
  /\ Quiet /\ Wanted => pc \in {"check", "sleep", "trying"} \/ swallowed

\* A loop that has given up leaves the device in peace until it has been away
\* (reconnect.rs:11-12, the transition from absent to present).
QuietAfterGiveUp == [][pc = "sleep" /\ pc' = "trying" /\ gaveUp => vanished]_vars

\* Once the trust in a device is gone for good its loop ends (reconnect.rs:87).
RemovedStops == <>[](~trusted) => <>[](~reg)

\* "Removing the trust by hand stops it at once" (reconnect.rs:87): the loop does
\* not dial a device that is not trusted.
\* The code does not keep this: see the README.
DialsTrusted == [][pc = "sleep" /\ pc' = "trying" => trusted]_vars

================================================================================

----------------------------- MODULE RelayControl -----------------------------
(***************************************************************************)
(* The control plane of the relay: devices dial the server, prove that     *)
(* they know the key, register, ping, and are told who else is there       *)
(* (localtrans-relay control.rs); each device has one RelayClient with a   *)
(* background task that pings, reads what the server pushes and dials      *)
(* again (localtrans-core relay/client.rs).                                *)
(*                                                                         *)
(* The server runs one task per connection. conns and leases are keyed by  *)
(* fingerprint and have a lock each, so removing a device takes two steps, *)
(* during which it may register again on a new connection. Ports and       *)
(* tokens of a lease are in RelayLease, punching in RelayPunch.            *)
(***************************************************************************)
EXTENDS Integers, Sequences, FiniteSets

CONSTANTS
  Device,     \* fingerprints
  MaxDials,   \* bound: connections ever dialled
  Backlog,    \* pushes a connection takes before the next one waits for its reader
  Ports,      \* leases the pool has room for
  MaxLost,    \* bound: connections the network drops
  Quitters,   \* devices whose user may shut the client down
  Talkers     \* devices with sessions through the relay's data ports

Conns == 1 .. MaxDials
Push  == [type : {"ack", "full", "roster"}, devs : SUBSET Device]
Alive == {"auth", "alloced", "entered", "serving", "leave", "left", "closed", "dropped"}
NoConn == [dev |-> {}, up |-> FALSE, task |-> "none"]

VARIABLES
  conn,     \* each connection: its device, whether it is up, the server's task
  pushed,   \* uni streams pushed on each connection and not read
  conns,    \* server: fp -> registered connection, 0 if none
  lease,    \* server: "none", "fresh", or "old" when the ttl went by without ping and packet
  sending,  \* server: rosters a broadcast has computed and not pushed: [to, fp, devs, by]
  evicting, \* server: evicted devices: [fp, what is to be removed next]
  talking,  \* devices whose sessions send packets with the token of the lease
  dial,     \* client: the connection do_connect works on, 0 if none
  live,     \* client: its conn, 0 if none
  status,   \* client: what it tells the shell
  bg,       \* client: "first" (connect), "run" and "retry" (run_background), "over" (returned)
  roster,   \* client: the devices it shows
  quit,     \* client: shut down by its user
  lost

server == <<conns, lease, sending, evicting, talking>>
client == <<dial, live, status, bg, roster, quit, lost>>
vars   == <<conn, pushed, server, client>>

Init ==
  /\ conn = [k \in Conns |-> NoConn]
  /\ pushed = [k \in Conns |-> <<>>]
  /\ conns = [d \in Device |-> 0]
  /\ lease = [d \in Device |-> "none"]
  /\ sending = {} /\ evicting = {} /\ talking = {}
  /\ dial = [d \in Device |-> 0]
  /\ live = [d \in Device |-> 0]
  /\ status = [d \in Device |-> "connecting"]
  /\ bg = [d \in Device |-> "first"]
  /\ roster = [d \in Device |-> {}]
  /\ quit = {} /\ lost = 0

Dialled == {k \in Conns : conn[k] # NoConn}
Has(k, d) == conn[k].dev = {d}
Task(k, from, to) == conn[k].task = from /\ conn' = [conn EXCEPT ![k].task = to]
Entry(k) == {d \in Device : conns[d] = k}
Leased == {d \in Device : lease[d] # "none"}
Listed(d) == Leased \ {d}
Drained(k) == \A x \in sending : x.by # k
Up(k) == k # 0 /\ conn[k].up
Serving(k) == Up(k) /\ conn[k].task = "serving" /\ Drained(k)

(***************************** server **************************************)

\* The proof, the nonce or the signed Register fails or times out.
AuthFails(k) ==
  /\ conn[k].task = "auth"
  /\ conn' = [conn EXCEPT ![k].task = "ended", ![k].up = FALSE]
  /\ UNCHANGED <<pushed, server, client>>

\* Register is verified: the lease is allocated or renewed. Without a free port
\* the answer says so and the connection goes on unregistered.
RegisterLease(k) == \E d \in Device :
  /\ Has(k, d) /\ conn[k].task = "auth" /\ conn[k].up
  /\ IF lease[d] # "none" \/ Cardinality(Leased) < Ports
       THEN /\ conn' = [conn EXCEPT ![k].task = "alloced"]
            /\ lease' = [lease EXCEPT ![d] = "fresh"] /\ UNCHANGED pushed
       ELSE /\ conn' = [conn EXCEPT ![k].task = "serving"]
            /\ pushed' = [pushed EXCEPT ![k] = Append(@, [type |-> "full", devs |-> {}])]
            /\ UNCHANGED lease
  /\ UNCHANGED <<conns, sending, evicting, talking, client>>

\* broadcast_roster: the connections and what each is to be told.
Broadcast(by, to) ==
  sending' = sending \cup {[to |-> conns'[d], fp |-> d, devs |-> {e \in Device : lease'[e] # "none"} \ {d},
                            by |-> by] : d \in {e \in to : conns'[e] # 0}}

\* Then the connection enters the table, over an older one of the device, ...
RegisterEntry(k) == \E d \in Device :
  /\ Has(k, d) /\ Task(k, "alloced", "entered")
  /\ conns' = [conns EXCEPT ![d] = k]
  /\ UNCHANGED <<pushed, lease, sending, evicting, talking, client>>

\* ... the answer goes out, and the rosters of the others. A broadcast that
\* found the entry in between may have been faster.
RegisterAck(k) == \E d \in Device :
  /\ Has(k, d) /\ Task(k, "entered", "serving")
  /\ pushed' = IF conn[k].up THEN [pushed EXCEPT ![k] = Append(@, [type |-> "ack", devs |-> {}])] ELSE pushed
  /\ UNCHANGED <<conns, lease>>
  /\ Broadcast(k, Device \ {d})
  /\ UNCHANGED <<evicting, talking, client>>

\* push_guarded: a dead connection, or one whose reader lets the push time out,
\* is evicted: closed, then its fingerprint is removed from both tables.
Pushed(k, fp, devs) ==
  IF conn[k].up /\ Len(pushed[k]) < Backlog
    THEN /\ pushed' = [pushed EXCEPT ![k] = Append(@, [type |-> "roster", devs |-> devs])]
         /\ UNCHANGED <<conn, conns, evicting>>
    ELSE /\ conn' = [conn EXCEPT ![k].up = FALSE]
         /\ evicting' = evicting \cup {[fp |-> fp, next |-> "entry"]}
         /\ UNCHANGED <<pushed, conns>>

SendRoster(x) ==
  /\ sending' = sending \ {x}
  /\ Pushed(x.to, x.fp, x.devs)
  /\ UNCHANGED <<lease, talking, client>>

Evict(x) ==
  /\ evicting' = (evicting \ {x}) \cup IF x.next = "entry" THEN {[fp |-> x.fp, next |-> "lease"]} ELSE {}
  /\ conns' = [conns EXCEPT ![x.fp] = IF x.next = "entry" THEN 0 ELSE @]
  /\ lease' = [lease EXCEPT ![x.fp] = IF x.next = "lease" THEN "none" ELSE @]
  /\ UNCHANGED <<conn, pushed, sending, talking, client>>

\* Ping, from the background task's tick to the server's answer: a connection that
\* is in the table refreshes its lease and is told the roster, another one gets
\* no answer.
Ping(d) ==
  /\ bg[d] = "run" /\ Serving(live[d]) /\ d \notin quit
  /\ IF conns[d] = live[d]
       THEN /\ lease' = [lease EXCEPT ![d] = IF @ = "none" THEN "none" ELSE "fresh"]
            /\ Pushed(live[d], d, Listed(d))
       ELSE UNCHANGED <<lease, conn, pushed, conns, evicting>>
  /\ UNCHANGED <<sending, talking, client>>

\* Leave: the device is looked up, then its lease goes, then its entry.
Leave(k) == conn' = [conn EXCEPT ![k].task = IF Entry(k) = {} THEN "serving" ELSE "leave"]

LeaveLease(k) == \E d \in Device :
  /\ Has(k, d) /\ Task(k, "leave", "left")
  /\ lease' = [lease EXCEPT ![d] = "none"]
  /\ UNCHANGED <<pushed, conns, sending, evicting, talking, client>>

LeaveEntry(k) == \E d \in Device :
  /\ Has(k, d) /\ Task(k, "left", "serving")
  /\ conns' = [conns EXCEPT ![d] = 0]
  /\ UNCHANGED lease
  /\ Broadcast(k, Device)
  /\ UNCHANGED <<pushed, evicting, talking, client>>

\* The connection is gone. Both branches of the task's select are ready: the
\* accept that fails ends the task as it stands, the other one looks the
\* connection up and removes its device, entry first.
NoticeError(k) ==
  /\ ~conn[k].up /\ Drained(k) /\ Task(k, "serving", "ended")
  /\ UNCHANGED <<pushed, server, client>>

NoticeClosed(k) ==
  /\ ~conn[k].up /\ Drained(k) /\ Task(k, "serving", IF Entry(k) = {} THEN "ended" ELSE "closed")
  /\ UNCHANGED <<pushed, server, client>>

ClosedEntry(k) == \E d \in Device :
  /\ Has(k, d) /\ Task(k, "closed", "dropped")
  /\ conns' = [conns EXCEPT ![d] = 0]
  /\ UNCHANGED <<pushed, lease, sending, evicting, talking, client>>

ClosedLease(k) == \E d \in Device :
  /\ Has(k, d) /\ Task(k, "dropped", "ended")
  /\ lease' = [lease EXCEPT ![d] = "none"]
  /\ UNCHANGED conns
  /\ Broadcast(k, Device)
  /\ UNCHANGED <<pushed, evicting, talking, client>>

\* Who has registered may open sessions; they end when they end.
Talks(d) ==
  /\ d \in Talkers \ talking /\ lease[d] # "none" /\ status[d] = "registered"
  /\ talking' = talking \cup {d}
  /\ UNCHANGED <<conn, pushed, conns, lease, sending, evicting, client>>

FallsSilent(d) ==
  /\ d \in talking /\ talking' = talking \ {d}
  /\ UNCHANGED <<conn, pushed, conns, lease, sending, evicting, client>>

\* get_by_token: a packet with the token of a lease refreshes it.
Packet(d) ==
  /\ d \in talking /\ lease[d] = "old" /\ lease' = [lease EXCEPT ![d] = "fresh"]
  /\ UNCHANGED <<conn, pushed, conns, sending, evicting, talking, client>>

\* The ttl (three pings) goes by without a ping and without a packet; the 5 s
\* tick reaps and tells.
Ages(d) ==
  /\ lease[d] = "fresh" /\ lease' = [lease EXCEPT ![d] = "old"]
  /\ UNCHANGED <<conn, pushed, conns, sending, evicting, talking, client>>

Reap_sparesConns ==
  /\ Drained(0) /\ \E d \in Device : lease[d] = "old" /\ conns[d] = 0
  /\ lease' = [d \in Device |-> IF lease[d] = "old" /\ conns[d] = 0 THEN "none" ELSE lease[d]]
  /\ UNCHANGED conns
  /\ Broadcast(0, Device)
  /\ UNCHANGED <<conn, pushed, evicting, talking, client>>

Reap ==
  /\ Drained(0) /\ \E d \in Device : lease[d] = "old"
  /\ lease' = [d \in Device |-> IF lease[d] = "old" THEN "none" ELSE lease[d]]
  /\ UNCHANGED conns
  /\ Broadcast(0, Device)
  /\ UNCHANGED <<conn, pushed, evicting, talking, client>>

(***************************** client **************************************)

\* connect and the reconnection loop of run_background dial.
Dial(d) ==
  /\ dial[d] = 0 /\ bg[d] \in {"first", "retry"} /\ d \notin quit
  /\ \E k \in Conns \ Dialled :
       /\ \A j \in Conns \ Dialled : k <= j
       /\ conn' = [conn EXCEPT ![k] = [dev |-> {d}, up |-> TRUE, task |-> "auth"]]
       /\ dial' = [dial EXCEPT ![d] = k]
  /\ UNCHANGED <<pushed, server, live, status, bg, roster, quit, lost>>

\* do_connect reads the first push after Register. Anything but an answer with a
\* lease is an error, also a roster that overtook the answer.
Registered(d) ==
  /\ dial[d] # 0 /\ pushed[dial[d]] # <<>>
  /\ LET k == dial[d] IN
       /\ pushed' = [pushed EXCEPT ![k] = Tail(@)]
       /\ IF Head(pushed[k]).type = "ack"
            THEN /\ live' = [live EXCEPT ![d] = k]
                 /\ status' = [status EXCEPT ![d] = "registered"]
                 /\ bg' = [bg EXCEPT ![d] = IF @ = "first" THEN "run" ELSE "over"]
                 /\ UNCHANGED conn
            ELSE conn' = [conn EXCEPT ![k].up = FALSE] /\ UNCHANGED <<live, status, bg>>
  /\ dial' = [dial EXCEPT ![d] = 0]
  /\ UNCHANGED <<server, roster, quit, lost>>

DialFails(d) ==
  /\ dial[d] # 0 /\ ~conn[dial[d]].up
  /\ dial' = [dial EXCEPT ![d] = 0]
  /\ status' = [status EXCEPT ![d] = "reconnecting"]
  /\ UNCHANGED <<conn, pushed, server, live, bg, roster, quit, lost>>

\* The background task, while it runs: read a push, notice a lost connection.
ReadPush_noRoster(d) ==
  /\ bg[d] = "run" /\ live[d] # 0 /\ pushed[live[d]] # <<>>
  /\ pushed' = [pushed EXCEPT ![live[d]] = Tail(@)]
  /\ roster' = IF roster[d] # {} THEN roster ELSE [roster EXCEPT ![d] = Head(pushed[live[d]]).devs]
  /\ UNCHANGED <<conn, server, dial, live, status, bg, quit, lost>>

ReadPush(d) ==
  /\ bg[d] = "run" /\ live[d] # 0 /\ pushed[live[d]] # <<>>
  /\ pushed' = [pushed EXCEPT ![live[d]] = Tail(@)]
  /\ roster' = [roster EXCEPT ![d] = Head(pushed[live[d]]).devs]
  /\ UNCHANGED <<conn, server, dial, live, status, bg, quit, lost>>

Disconnected(d) ==
  /\ bg[d] = "run" /\ live[d] # 0 /\ ~Up(live[d])
  /\ live' = [live EXCEPT ![d] = 0]
  /\ status' = [status EXCEPT ![d] = "reconnecting"]
  /\ bg' = [bg EXCEPT ![d] = "retry"]
  /\ UNCHANGED <<conn, pushed, server, dial, roster, quit, lost>>

\* shutdown: a Leave if the server gets to it, and then the connection closes. A
\* reconnection under way goes on; what it opens closes with the client.
Shutdown(d) ==
  /\ d \in Quitters \ quit /\ quit' = quit \cup {d} /\ (dial[d] = 0 \/ bg[d] = "retry")
  /\ \/ Serving(live[d]) /\ Leave(live[d])
     \/ UNCHANGED conn
  /\ UNCHANGED <<pushed, server, dial, live, status, bg, roster, lost>>

Close(d) ==
  /\ d \in quit /\ Up(live[d])
  /\ conn' = [conn EXCEPT ![live[d]].up = FALSE]
  /\ UNCHANGED <<pushed, server, client>>

\* The network drops a connection.
Lost(k) ==
  /\ lost < MaxLost /\ lost' = lost + 1
  /\ conn[k].up /\ conn' = [conn EXCEPT ![k].up = FALSE]
  /\ UNCHANGED <<pushed, server, dial, live, status, bg, roster, quit>>

(***************************** specification *******************************)

Task_(k) ==
  \/ RegisterLease(k) \/ RegisterEntry(k) \/ RegisterAck(k) \/ LeaveLease(k) \/ LeaveEntry(k)
  \/ NoticeError(k) \/ NoticeClosed(k) \/ ClosedEntry(k) \/ ClosedLease(k)

Server ==
  \/ \E k \in Conns : Task_(k)
  \/ \E x \in sending : SendRoster(x)
  \/ \E x \in evicting : Evict(x)
  \/ Reap

Next ==
  \/ Server
  \/ \E k \in Conns : AuthFails(k) \/ Lost(k)
  \/ \E d \in Device :
       \/ Dial(d) \/ Registered(d) \/ DialFails(d)
       \/ Ping(d) \/ ReadPush(d) \/ Disconnected(d)
       \/ Shutdown(d) \/ Close(d) \/ Ages(d)
       \/ Talks(d) \/ FallsSilent(d) \/ Packet(d)

Spec == Init /\ [][Next]_vars

\* The server goes on as long as it has something to do (apart from pings, which
\* are a third of the ttl apart, it never has for ever), and so does a background
\* task. A lease that nobody can ping for, and that no packet names, ages. No
\* fairness for dialling, for the users, for sessions or for the network.
Fairness ==
  /\ WF_vars(Server)
  /\ \A d \in Device :
       /\ WF_vars(Ping(d)) /\ WF_vars(ReadPush(d))
       /\ WF_vars(Close(d) \/ (~Up(live[d]) /\ d \notin talking /\ Ages(d)))

FairSpec == Spec /\ Fairness

(***************************** properties **********************************)

TypeOK ==
  /\ conn \in [Conns -> [dev : {{d} : d \in Device} \cup {{}}, up : BOOLEAN,
                         task : Alive \cup {"none", "ended"}]]
  /\ pushed \in [Conns -> Seq(Push)] /\ \A k \in Conns : Len(pushed[k]) <= Backlog + 1
  /\ conns \in [Device -> 0 .. MaxDials]
  /\ lease \in [Device -> {"none", "fresh", "old"}]
  /\ sending \subseteq [to : Conns, fp : Device, devs : SUBSET Device, by : 0 .. MaxDials]
  /\ evicting \subseteq [fp : Device, next : {"entry", "lease"}] /\ talking \subseteq Talkers
  /\ dial \in [Device -> 0 .. MaxDials] /\ live \in [Device -> 0 .. MaxDials]
  /\ status \in [Device -> {"connecting", "registered", "reconnecting"}]
  /\ bg \in [Device -> {"first", "run", "retry", "over"}]
  /\ roster \in [Device -> SUBSET Device] /\ quit \subseteq Device /\ lost \in 0 .. MaxLost

\* A device whose connections are all down and whose sessions send no more leaves
\* the rosters' source in the end, however its task ended: the ttl catches what
\* the task left behind (control.rs:258-264, 670-688; lease.rs:156-164).
DeadUnlisted ==
  \A d \in Device :
    <>[](d \notin talking /\ \A k \in Conns : Has(k, d) => ~conn[k].up /\ conn[k].task = "ended") => <>[](lease[d] = "none")

\* A client whose background task serves a registered connection ends up with
\* the server's list, although it ignores the revision and rosters of
\* concurrent broadcasts overtake each other: its pings repair it
\* (client.rs:221-300, control.rs:550-566).
RosterRepaired ==
  \A d \in Device : \A L \in SUBSET (Device \ {d}) :
    <>[](bg[d] = "run" /\ d \notin quit /\ Up(live[d]) /\ conns[d] = live[d] /\ Listed(d) = L)
      => <>[](roster[d] = L)

\* After a reconnection the client goes "back to the outer main loop (ping and
\* dispatch)" (client.rs:265): what calls itself registered is served.
\* The code does not keep this: see the README.
BackgroundServes == \A d \in Device : status[d] = "registered" => bg[d] = "run"
===============================================================================

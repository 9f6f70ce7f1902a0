----------------------------- MODULE RelayShell -----------------------------
(* How the two shells keep their relay client (commands.rs reconnect_relay  *)
(* and set_relay_config, main.rs at startup, relay_state.rs spawn_relay):   *)
(* a slot for the client, a handle of the task that connects and one of the *)
(* task that takes its events.  A command shuts, aborts and spawns in steps *)
(* that connecting tasks run between, and so do other commands: a Tauri     *)
(* command is a task of its own, and the phone calls from several threads.  *)
(* The roster that the events bring is in DeviceList.                       *)
EXTENDS Naturals

CONSTANTS MaxClients, \* bound: commands, the start of the program included
          Refusals    \* bound: times the relay refuses a client

ASSUME ShellAssumption == MaxClients \in Nat \ {0} /\ Refusals \in Nat

Client  == 1 .. MaxClients \* a command, and the client it spawns
Nobody  == 0
Startup == 1          \* the start of the program

VARIABLES phone,           \* which shell
          enabled, hidden, \* config.relay_enabled, config.hidden
          switch,          \* state.hidden
          pc,              \* [Client -> the command's next step]
          slot,            \* state.relay
          connectTask, eventTask, \* handles
          dial,            \* attempts: [Client -> where its task is]
          carried,         \* [Client -> the hidden flag it registers with]
          live,            \* clients connected to the relay and not shut down
          bridges,         \* clients whose event task runs
          refused,
          crossed,         \* history: commands that ran beside another one
          unsaid           \* history: commands older than a flag saved without a word to the relay
rvars == <<phone, enabled, hidden, switch, pc, slot, connectTask, eventTask, dial, carried,
           live, bridges, refused, crossed, unsaid>>
settings == <<phone, enabled, hidden, switch, refused, crossed, unsaid>>
tasks    == <<connectTask, eventTask, dial, carried>>

(* the phone's startup is a command like the others, and no other is heard  *)
(* before it is over; the desktop's task is nobody's handle                 *)
RInit ==
  /\ phone \in BOOLEAN /\ enabled \in BOOLEAN /\ hidden \in BOOLEAN /\ switch = hidden
  /\ pc = [c \in Client |-> IF c # Startup THEN "none" ELSE IF phone THEN "read" ELSE "done"]
  /\ dial = [c \in Client |-> IF c = Startup /\ enabled /\ ~phone THEN "dialling" ELSE "none"]
  /\ carried = [c \in Client |-> hidden]
  /\ slot = Nobody /\ connectTask = Nobody /\ eventTask = Nobody
  /\ live = {} /\ bridges = {} /\ refused = 0
  /\ crossed = {} /\ unsaid = {}

------------------------------------------------------------------------------
Over    == {"none", "done", "closed", "restart"}
Begun   == {k \in Client : pc[k] # "none"}
Running == {k \in Client : pc[k] \notin Over}

(* restart_relay waits to read the config, which save_settings holds for *)
(* writing: nobody gets it any more                                      *)
ConfigFree == \A k \in Client : pc[k] # "restart"

(* A command begins, maybe while others run *)
Command(k, first) ==
  /\ k \notin Begun /\ 1 .. (k - 1) \subseteq Begun
  /\ ConfigFree /\ (phone => pc[Startup] = "done")
  /\ pc' = [pc EXCEPT ![k] = first]
  /\ crossed' = IF Running = {} THEN crossed ELSE crossed \cup Running \cup {k}
  /\ UNCHANGED <<phone, slot, tasks, live, bridges, refused>>

(* reconnect_relay goes on at once, spawn_relay reads the config first *)
Reconnect == IF phone THEN "read" ELSE "shut"

(* relay settings saved: without the relay the desktop shuts its client, the *)
(* phone says "disabled"                                                     *)
Save(k, on) ==
  /\ Command(k, IF on THEN Reconnect ELSE IF phone THEN "done" ELSE "close")
  /\ enabled' = on
  /\ UNCHANGED <<hidden, switch, unsaid>>

(* the clients that are not told of the flag *)
Untold(h, told) == IF h = hidden \/ told THEN unsaid ELSE unsaid \cup Begun

(* The switch of the device's visibility registers it anew, if it moved *)
SetHidden(k, h) ==
  /\ LET told == enabled /\ h # switch IN
       /\ Command(k, IF told THEN Reconnect ELSE "done")
       /\ unsaid' = Untold(h, told)
  /\ hidden' = h /\ switch' = h
  /\ UNCHANGED enabled

(* The form of the settings holds a flag too, which may be an old one; a new  *)
(* name in it registers the device anew.  On the desktop restart_relay waits  *)
(* to read the config, which save_settings still holds for writing: no step   *)
(* leaves there.                                                              *)
SaveForm(k, h, renamed) ==
  /\ Command(k, IF ~renamed THEN "done" ELSE IF phone THEN "read"
                ELSE IF slot # Nobody THEN "restart" ELSE "done")
  /\ hidden' = h /\ unsaid' = Untold(h, renamed /\ phone /\ enabled)
  /\ UNCHANGED <<enabled, switch>>

Advances(k, from, to) == pc[k] = from /\ pc' = [pc EXCEPT ![k] = to]

(* the slot stays locked to the end; the attempt under way goes on *)
Close(k) ==
  /\ Advances(k, "close", "closed")
  /\ live' = live \ {slot} /\ slot' = Nobody
  /\ bridges' = bridges \ {eventTask} /\ eventTask' = Nobody
  /\ UNCHANGED <<settings, connectTask, dial, carried>>

------------------------------------------------------------------------------
(* reconnect_relay and spawn_relay, step by step *)

Read(k) ==
  /\ Advances(k, "read", IF enabled THEN "shut" ELSE "done")
  /\ carried' = [carried EXCEPT ![k] = hidden]
  /\ UNCHANGED <<settings, slot, connectTask, eventTask, dial, live, bridges>>

(* the client is shut and taken from the slot under one lock *)
Emptied == Nobody
Shut(k) ==
  /\ Advances(k, "shut", "events")
  /\ live' = live \ {slot} /\ slot' = Emptied
  /\ UNCHANGED <<settings, tasks, bridges>>

AbortEvents(k) ==
  /\ Advances(k, "events", "connect")
  /\ bridges' = bridges \ {eventTask} /\ eventTask' = Nobody
  /\ UNCHANGED <<settings, slot, connectTask, dial, carried, live>>

(* the attempt of the command before goes on *)
Aborts_nothing == {}
Aborts == {connectTask} \ {Nobody}

(* An attempt that has just registered leaves its client to run on its own *)
AbortConnect(k) ==
  /\ Advances(k, "connect", "spawn")
  /\ dial' = [c \in Client |-> IF c \in Aborts /\ dial[c] # "done" THEN "aborted" ELSE dial[c]]
  /\ connectTask' = Nobody
  /\ UNCHANGED <<settings, slot, eventTask, carried, live, bridges>>

Spawn(k) ==
  /\ Advances(k, "spawn", "store") /\ ConfigFree
  /\ dial' = [dial EXCEPT ![k] = "dialling"]
  /\ carried' = IF phone THEN carried ELSE [carried EXCEPT ![k] = hidden]
  /\ UNCHANGED <<settings, slot, connectTask, eventTask, live, bridges>>

Store(k) ==
  /\ Advances(k, "store", "done")
  /\ connectTask' = k
  /\ UNCHANGED <<settings, slot, eventTask, dial, carried, live, bridges>>

------------------------------------------------------------------------------
(* the connecting task: refused, it waits and tries again; registered, it   *)
(* takes the slot and has its events taken                                  *)
AfterRefusal == "dialling"
Refused(c) ==
  /\ dial[c] = "dialling" /\ refused < Refusals /\ refused' = refused + 1
  /\ dial' = [dial EXCEPT ![c] = AfterRefusal]
  /\ UNCHANGED <<phone, enabled, hidden, switch, crossed, unsaid, pc, slot, connectTask, eventTask,
                 carried, live, bridges>>

Registers(c) ==
  /\ dial[c] = "dialling"
  /\ dial' = [dial EXCEPT ![c] = "registered"] /\ live' = live \cup {c}
  /\ UNCHANGED <<settings, pc, slot, connectTask, eventTask, carried, bridges>>

TakesSlot(c) ==
  /\ dial[c] = "registered"
  /\ dial' = [dial EXCEPT ![c] = "slotted"]
  /\ slot' = c /\ bridges' = bridges \cup {c}
  /\ UNCHANGED <<settings, pc, connectTask, eventTask, carried, live>>

StoresEvents(c) ==
  /\ dial[c] = "slotted"
  /\ dial' = [dial EXCEPT ![c] = "done"] /\ eventTask' = c
  /\ UNCHANGED <<settings, pc, slot, connectTask, carried, live, bridges>>

EventsEnd(c) ==
  /\ c \in bridges \ live
  /\ bridges' = bridges \ {c}
  /\ UNCHANGED <<settings, pc, slot, tasks, live>>

Task(c)  == Registers(c) \/ TakesSlot(c) \/ StoresEvents(c) \/ EventsEnd(c)
Steps(k) == \/ Close(k) \/ Read(k) \/ Shut(k) \/ AbortEvents(k) \/ AbortConnect(k)
            \/ Spawn(k) \/ Store(k)

RNext ==
  \E c \in Client :
    \/ \E on \in BOOLEAN : Save(c, on) \/ SetHidden(c, on) \/ \E r \in BOOLEAN : SaveForm(c, on, r)
    \/ Steps(c)
    \/ Task(c) \/ Refused(c)

(* commands and tasks run; the relay answers in the end (connect retries) *)
RFair == \A c \in Client : WF_rvars(Steps(c)) /\ WF_rvars(Task(c))
RSpec == RInit /\ [][RNext]_rvars /\ RFair

------------------------------------------------------------------------------
RTypeOK ==
  /\ phone \in BOOLEAN /\ enabled \in BOOLEAN /\ hidden \in BOOLEAN /\ switch \in BOOLEAN
  /\ pc \in [Client -> Over \cup {"close", "read", "shut", "events", "connect", "spawn", "store"}]
  /\ {slot, connectTask, eventTask} \subseteq Client \cup {Nobody}
  /\ dial \in [Client -> {"none", "dialling", "registered", "slotted", "done", "aborted"}]
  /\ carried \in [Client -> BOOLEAN]
  /\ live \subseteq Client /\ bridges \subseteq Client
  /\ refused \in 0 .. Refusals
  /\ crossed \subseteq Client /\ unsaid \subseteq Client

(* Who takes the client from the slot to open a session never gets one that *)
(* has been shut down (reconnect_relay shuts it and empties the slot under  *)
(* one lock, whatever connecting tasks and other commands do meanwhile).    *)
SlotLive == slot # Nobody => slot \in live

(* Nothing is under way. *)
Quiet == Running = {} /\ \A c \in Client : dial[c] \notin {"dialling", "registered"}

(* The desktop's startup attempt, which no command can abort ("M-B3"). *)
Unheld == IF phone THEN {} ELSE {Startup}

(* When nothing is under way, the client in the slot has registered with the *)
(* visibility saved last.  There are three ways to miss that, and no other:  *)
(* the command of that client ran beside another one, it is the startup's of *)
(* the desktop, or the flag was saved since without a word to the relay.     *)
SettingsCurrent ==
  Quiet /\ enabled /\ slot \notin {Nobody} \cup crossed \cup Unheld \cup unsaid
    => carried[slot] = hidden

(* The client in the slot is live and has registered with what was saved    *)
(* last (commands.rs:2938-3020, ffi lib.rs), whatever crosses, with the     *)
(* exceptions SettingsCurrent names.                                        *)
ClientSound == RTypeOK /\ SlotLive /\ SettingsCurrent

(* With the relay enabled there is a client in the slot in the end, however  *)
(* commands and attempts crossed; only a command that switches the relay off *)
(* or that is stuck, and ran beside another, can empty the slot for good.    *)
Connects ==
  <>[](enabled => slot # Nobody \/ \E k \in crossed : pc[k] \in {"closed", "restart"})

(* "Aborting the old attempt keeps two connections from racing": no client   *)
(* is left connected beside the one in the slot when all is quiet.           *)
(* The code does not keep this: see the README.                              *)
OneClient == Quiet /\ ~phone => live \subseteq {slot}

(* Every command comes to an end ("with the relay connected, a new name      *)
(* restarts the connection so that the roster shows it at once").            *)
(* The code does not keep this: see the README.                              *)
CommandsEnd == \A k \in Client : pc[k] # "none" ~> pc[k] \in {"done", "closed"}

=============================================================================

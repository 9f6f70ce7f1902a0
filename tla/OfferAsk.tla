------------------------------ MODULE OfferAsk ------------------------------
(* A push that the user is asked about: the engine's waiting task, the table *)
(* of pending offers of the shell, keyed by the job id that the pushing      *)
(* device chose, its watchdog and the dialog.  What follows a decision is    *)
(* PushOffer's.                                                              *)
EXTENDS Integers

CONSTANTS Ask, Job,
          Secs,     \* offer_timeout_secs
          Grace,    \* the watchdog's three seconds
          Late,     \* how late a timer fires at most
          Horizon   \* bound of the time in which offers come

None == "none"

(* A timer is late by less than the watchdog waits behind the deadline.    *)
ASSUME TimersAssumption ==
  /\ Secs \in Nat /\ Grace \in Nat /\ Late \in Nat /\ Horizon \in Nat
  /\ Late < Grace
ASSUME NoneAssumption == None \notin Ask

VARIABLES job,      \* [Ask -> Job]: two devices may choose one number
          now,
          ask,      \* [Ask -> [st, deadline, extended]], as the engine's task sees it
          reply,    \* [Ask -> what is in its oneshot channel]
          note,     \* asks with a stored permit to extend
          pending,  \* [Job -> Ask]: pending_offers
          dogs,     \* watchdogs: [of, at]
          shown,    \* asks whose dialog was shown
          said      \* ghost: [Ask -> what the user answered in its dialog]
kvars == <<job, now, ask, reply, note, pending, dogs, shown, said>>

KInit ==
  /\ now = 0 /\ job \in [Ask -> Job]
  /\ ask = [a \in Ask |-> [st |-> "none", deadline |-> 0, extended |-> FALSE]]
  /\ reply = [a \in Ask |-> None] /\ note = {}
  /\ pending = [j \in Job |-> None] /\ dogs = {}
  /\ shown = {} /\ said = [a \in Ask |-> None]

Waits(a) == ask[a].st = "waits"

(* OfferReq under the policy Ask: the question, then a task that waits *)
Asked(a) ==
  /\ ask[a].st = "none" /\ now <= Horizon
  /\ ask' = [ask EXCEPT ![a] = [st |-> "waits", deadline |-> now + Secs, extended |-> FALSE]]
  /\ UNCHANGED <<job, now, reply, note, pending, dogs, shown, said>>

(* Taking a sender out of the table without an answer closes its channel. *)
Dropped(r, a) == IF a # None /\ r[a] = None THEN [r EXCEPT ![a] = "closed"] ELSE r
Patience_none == 0
Patience == Grace

(* ask_rx: the entry, in the place of one with the same number, and its watchdog *)
Stored(a) ==
  /\ ask[a].st # "none" /\ a \notin shown
  /\ reply' = Dropped(reply, pending[job[a]])
  /\ pending' = [pending EXCEPT ![job[a]] = a]
  /\ dogs' = dogs \cup {[of |-> job[a], at |-> ask[a].deadline + Patience]}
  /\ shown' = shown \cup {a}
  /\ UNCHANGED <<job, now, ask, note, said>>

Dog(d) == now >= d.at
Barks(d) ==
  /\ Dog(d) /\ dogs' = dogs \ {d}
  /\ reply' = Dropped(reply, pending[d.of])
  /\ pending' = [pending EXCEPT ![d.of] = None]
  /\ UNCHANGED <<job, now, ask, note, shown, said>>

(* respond_offer, from the dialog of a; an invalid folder loses the entry *)
Respond(a, answer) ==
  /\ a \in shown /\ said[a] = None
  /\ said' = [said EXCEPT ![a] = answer]
  /\ LET to == pending[job[a]] IN
       reply' = IF to = None THEN reply
                ELSE IF answer = "badFolder" THEN Dropped(reply, to)
                ELSE [reply EXCEPT ![to] = IF Waits(to) THEN answer ELSE @]
  /\ pending' = [pending EXCEPT ![job[a]] = None]
  /\ UNCHANGED <<job, now, ask, note, dogs, shown>>

(* offer_extend, before a folder is chosen *)
Extend(a) ==
  /\ a \in shown /\ said[a] = None
  /\ pending[job[a]] # None /\ note' = note \cup {pending[job[a]]}
  /\ UNCHANGED <<job, now, ask, reply, pending, dogs, shown, said>>

(* the task's select: an answer first, one extension, the deadline *)
Once(a) == ~ask[a].extended
Hears(a) ==
  /\ Waits(a) /\ reply[a] # None
  /\ ask' = [ask EXCEPT ![a].st = IF reply[a] = "yes" THEN "accepted" ELSE "denied"]
  /\ UNCHANGED <<job, now, reply, note, pending, dogs, shown, said>>
Extends(a) ==
  /\ Waits(a) /\ reply[a] = None /\ a \in note /\ Once(a)
  /\ note' = note \ {a}
  /\ ask' = [ask EXCEPT ![a] = [st |-> "waits", deadline |-> now + Secs, extended |-> TRUE]]
  /\ UNCHANGED <<job, now, reply, pending, dogs, shown, said>>
Due_unasked(a) == now >= ask[a].deadline /\ a \notin note
Due(a) == now >= ask[a].deadline /\ ~(a \in note /\ Once(a))
TimesOut(a) ==
  /\ Waits(a) /\ reply[a] = None /\ Due(a)
  /\ ask' = [ask EXCEPT ![a].st = "timeout"]
  /\ UNCHANGED <<job, now, reply, note, pending, dogs, shown, said>>

Tick ==
  /\ \/ \E a \in Ask : Waits(a)
     \/ dogs # {}
  /\ \A a \in Ask : Waits(a) => now < ask[a].deadline + Late /\ a \in shown
  /\ \A d \in dogs : now < d.at + Late
  /\ now' = now + 1
  /\ UNCHANGED <<job, ask, reply, note, pending, dogs, shown, said>>

Task(a) == Hears(a) \/ Extends(a) \/ TimesOut(a)
KNext ==
  \/ Tick
  \/ \E a \in Ask : \/ Asked(a) \/ Stored(a) \/ Task(a) \/ Extend(a)
                    \/ \E r \in {"yes", "no", "badFolder"} : Respond(a, r)
  \/ \E d \in dogs : Barks(d)

(* The tasks run and time passes. *)
KFair ==
  /\ WF_kvars(Tick)
  /\ \A a \in Ask : WF_kvars(Stored(a)) /\ WF_kvars(Task(a))
  /\ WF_kvars(\E d \in dogs : Barks(d))
KSpec == KInit /\ [][KNext]_kvars /\ KFair

------------------------------------------------------------------------------
(* A question that waits, that was not extended and whose number no other    *)
(* has can be answered until its time is over (main.rs:1880-1898: the        *)
(* watchdog clears what nobody answered).                                    *)
Answerable ==
  \A a \in Ask :
    /\ Waits(a) /\ a \in shown /\ said[a] = None /\ ~ask[a].extended
    /\ \A b \in Ask \ {a} : job[b] # job[a]
    => pending[job[a]] = a

(* Every question is decided, whatever is extended and lost (engine.rs:2066-2093). *)
Decides == \A a \in Ask : Waits(a) ~> ~Waits(a)

(* No entry of the table outlives its question for ever. *)
TableEmpties == \A j \in Job : pending[j] # None ~> pending[j] = None

(* "Some(save_dir) = accepted": what is accepted is what the user accepted. *)
(* The code does not keep this: see the README.                             *)
AcceptedAsSaid == \A a \in Ask : ask[a].st = "accepted" => said[a] = "yes"

(* "Extended once": the user who chooses a folder in the time he was given *)
(* finds the question.                                                      *)
(* The code does not keep this: see the README.                             *)
ExtendedAnswerable ==
  \A a \in Ask :
    /\ Waits(a) /\ a \in shown /\ said[a] = None /\ now < ask[a].deadline
    /\ \A b \in Ask \ {a} : job[b] # job[a]
    => pending[job[a]] = a
=============================================================================

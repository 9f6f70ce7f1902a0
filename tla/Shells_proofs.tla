----------------------------- MODULE Shells_proofs -----------------------------
(***************************************************************************)
(* Proofs about what the shells show. Of every question in OfferAsk, for   *)
(* any devices, job ids and timers as long as no timer is later than the   *)
(* watchdog's patience; then of the cards of the phone in MobileCards, for *)
(* any number of transfers, inbound jobs, files, permits and commands.     *)
(***************************************************************************)
EXTENDS OfferAsk, MobileCards, TLAPS

State   == {"none", "waits", "accepted", "denied", "timeout"}
Answers == {"yes", "no", "badFolder"}
Entries == [Job -> Ask \cup {None}]

(* Every variable has its type (engine.rs: the waiting task; main.rs: the  *)
(* table of pending offers, its watchdogs and dialogs).                    *)
KTypeOK ==
  /\ job \in [Ask -> Job] /\ now \in Nat
  /\ ask \in [Ask -> [st : State, deadline : Nat, extended : BOOLEAN]]
  /\ reply \in [Ask -> Answers \cup {"closed", None}]
  /\ note \subseteq Ask /\ pending \in Entries
  /\ dogs \subseteq [of : Job, at : Nat]
  /\ shown \subseteq Ask /\ said \in [Ask -> Answers \cup {None}]

Alone(a) == \A b \in Ask \ {a} : job[b] # job[a]

(* A task that waits is never further behind its deadline than a timer can *)
(* be late, and only questions that were asked are shown.                  *)
OnTime ==
  \A a \in Ask : /\ Waits(a) => now <= ask[a].deadline + Late
                 /\ a \in shown => ask[a].st # "none"

(* A watchdog of a number that one question has waits for that question's  *)
(* first deadline and the patience behind it.                              *)
DogsPatient ==
  \A a \in Ask : \A d \in dogs :
    Alone(a) /\ d.of = job[a] =>
      a \in shown /\ (~ask[a].extended => d.at = ask[a].deadline + Grace)

KInv == KTypeOK /\ OnTime /\ DogsPatient /\ Answerable

(* Before the first offer no question is open.                             *)
LEMMA InitInv == KInit => KInv
  <1> SUFFICES ASSUME KInit PROVE KInv
    OBVIOUS
  <1>1. KTypeOK
    BY DEF KInit, KTypeOK, State, Entries
  <1>2. OnTime /\ DogsPatient /\ Answerable
    BY DEF KInit, OnTime, DogsPatient, Answerable, Waits
  <1> QED
    BY <1>1, <1>2 DEF KInv

(* Taking a sender out of the table leaves replies replies.                *)
LEMMA DroppedType ==
  ASSUME NEW r \in [Ask -> Answers \cup {"closed", None}], NEW a \in Ask \cup {None}
  PROVE  Dropped(r, a) \in [Ask -> Answers \cup {"closed", None}]
  BY DEF Dropped

(* Every step keeps the types.                                             *)
LEMMA TypeStep == KTypeOK /\ [KNext]_kvars => KTypeOK'
  <1> SUFFICES ASSUME KTypeOK, [KNext]_kvars PROVE KTypeOK'
    OBVIOUS
  <1> USE TimersAssumption DEF KTypeOK, Entries
  <1>1. CASE Tick
    BY <1>1 DEF Tick
  <1>2. ASSUME NEW a \in Ask, Asked(a) PROVE KTypeOK'
    BY <1>2 DEF Asked, State
  <1>3. ASSUME NEW a \in Ask, Stored(a) PROVE KTypeOK'
    <2>1. reply' \in [Ask -> Answers \cup {"closed", None}]
      BY <1>3, DroppedType DEF Stored
    <2>2. dogs' \subseteq [of : Job, at : Nat]
      BY <1>3 DEF Stored, Patience
    <2> QED
      BY <1>3, <2>1, <2>2 DEF Stored
  <1>4. ASSUME NEW a \in Ask, Hears(a) PROVE KTypeOK'
    BY <1>4 DEF Hears, State
  <1>5. ASSUME NEW a \in Ask, Extends(a) PROVE KTypeOK'
    BY <1>5 DEF Extends, State
  <1>6. ASSUME NEW a \in Ask, TimesOut(a) PROVE KTypeOK'
    BY <1>6 DEF TimesOut, State
  <1>7. ASSUME NEW a \in Ask, Extend(a) PROVE KTypeOK'
    BY <1>7 DEF Extend
  <1>8. ASSUME NEW a \in Ask, NEW r \in Answers, Respond(a, r) PROVE KTypeOK'
    <2>1. reply' \in [Ask -> Answers \cup {"closed", None}]
      <3> DEFINE to == pending[job[a]]
      <3>1. to \in Ask \cup {None}
        OBVIOUS
      <3>2. Dropped(reply, to) \in [Ask -> Answers \cup {"closed", None}]
        BY <3>1, DroppedType
      <3> QED
        BY <1>8, <3>1, <3>2 DEF Respond, Answers
    <2>2. pending' \in Entries /\ said' \in [Ask -> Answers \cup {None}]
      BY <1>8 DEF Respond
    <2> QED
      BY <1>8, <2>1, <2>2 DEF Respond
  <1>9. ASSUME NEW d \in dogs, Barks(d) PROVE KTypeOK'
    <2>1. reply' \in [Ask -> Answers \cup {"closed", None}]
      BY <1>9, DroppedType DEF Barks
    <2> QED
      BY <1>9, <2>1 DEF Barks
  <1>10. CASE UNCHANGED kvars
    BY <1>10 DEF kvars
  <1> QED
    BY <1>1, <1>2, <1>3, <1>4, <1>5, <1>6, <1>7, <1>8, <1>9, <1>10 DEF KNext, Task, Answers

(* A question that waits is never more than its timer's delay behind its   *)
(* deadline.                                                               *)
LEMMA TimeStep == KTypeOK /\ OnTime /\ [KNext]_kvars => OnTime'
  <1> SUFFICES ASSUME KTypeOK, OnTime, [KNext]_kvars, NEW a \in Ask
               PROVE  /\ Waits(a)' => now' <= ask'[a].deadline + Late
                      /\ a \in shown' => ask'[a].st # "none"
    BY DEF OnTime
  <1> USE TimersAssumption DEF KTypeOK, OnTime, Waits
  <1>1. CASE Tick
    BY <1>1 DEF Tick
  <1>2. ASSUME NEW b \in Ask, Asked(b)
        PROVE  (Waits(a)' => now' <= ask'[a].deadline + Late) /\ (a \in shown' => ask'[a].st # "none")
    BY <1>2 DEF Asked
  <1>3. ASSUME NEW b \in Ask, Stored(b)
        PROVE  (Waits(a)' => now' <= ask'[a].deadline + Late) /\ (a \in shown' => ask'[a].st # "none")
    BY <1>3 DEF Stored
  <1>4. ASSUME NEW b \in Ask, Task(b)
        PROVE  (Waits(a)' => now' <= ask'[a].deadline + Late) /\ (a \in shown' => ask'[a].st # "none")
    BY <1>4 DEF Task, Hears, Extends, TimesOut
  <1>5. CASE UNCHANGED <<now, ask, shown>>
    BY <1>5
  <1> QED
    BY <1>1, <1>2, <1>3, <1>4, <1>5 DEF KNext, Extend, Respond, Barks, kvars

(* The watchdog of a question nobody shares a number with is due only after*)
(* that question's own deadline and the grace period.                      *)
LEMMA DogStep == KTypeOK /\ OnTime /\ DogsPatient /\ [KNext]_kvars => DogsPatient'
  <1> SUFFICES ASSUME KTypeOK, OnTime, DogsPatient, [KNext]_kvars,
                      NEW a \in Ask, NEW d \in dogs', Alone(a)', d.of = job'[a]
               PROVE  a \in shown' /\ (~ask'[a].extended => d.at = ask'[a].deadline + Grace)
    BY DEF DogsPatient
  <1>1. job' = job /\ Alone(a) /\ d.of = job[a]
    BY DEF KNext, Tick, Asked, Stored, Task, Hears, Extends, TimesOut, Extend, Respond, Barks, kvars,
           Alone
  <1> USE <1>1 DEF KTypeOK, DogsPatient
  <1>2. ASSUME NEW b \in Ask, Asked(b)
        PROVE  a \in shown' /\ (~ask'[a].extended => d.at = ask'[a].deadline + Grace)
    BY <1>2 DEF Asked, OnTime
  <1>3. ASSUME NEW b \in Ask, Stored(b)
        PROVE  a \in shown' /\ (~ask'[a].extended => d.at = ask'[a].deadline + Grace)
    <2>1. CASE b = a
      BY <1>3, <2>1 DEF Stored, Patience, OnTime
    <2>2. CASE b # a
      BY <1>3, <2>2 DEF Stored, Alone
    <2> QED
      BY <2>1, <2>2
  <1>4. ASSUME NEW b \in Ask, Task(b)
        PROVE  a \in shown' /\ (~ask'[a].extended => d.at = ask'[a].deadline + Grace)
    BY <1>4 DEF Task, Hears, Extends, TimesOut
  <1>5. CASE dogs' \subseteq dogs /\ UNCHANGED <<ask, shown>>
    BY <1>5
  <1> QED
    BY <1>2, <1>3, <1>4, <1>5 DEF KNext, Tick, Extend, Respond, Barks, kvars

(* So the watchdog cannot take such a question from the table while its    *)
(* task waits.                                                             *)
LEMMA AnswerStep ==
  KTypeOK /\ OnTime /\ DogsPatient /\ Answerable /\ [KNext]_kvars => Answerable'
  <1> SUFFICES ASSUME KTypeOK, OnTime, DogsPatient, Answerable, [KNext]_kvars,
                      NEW a \in Ask, Waits(a)', a \in shown', said'[a] = None,
                      ~ask'[a].extended, \A b \in Ask \ {a} : job'[b] # job'[a]
               PROVE  pending'[job'[a]] = a
    BY DEF Answerable
  <1>1. job' = job /\ Alone(a)
    BY DEF KNext, Tick, Asked, Stored, Task, Hears, Extends, TimesOut, Extend, Respond, Barks, kvars,
           Alone
  <1> USE <1>1 DEF KTypeOK, Entries, Answerable, Alone, Waits
  <1>2. ASSUME NEW b \in Ask, Asked(b) PROVE pending'[job[a]] = a
    BY <1>2 DEF Asked, OnTime
  <1>3. ASSUME NEW b \in Ask, Stored(b) PROVE pending'[job[a]] = a
    BY <1>3 DEF Stored
  <1>4. ASSUME NEW b \in Ask, Task(b) PROVE pending'[job[a]] = a
    BY <1>4 DEF Task, Hears, Extends, TimesOut
  <1>5. ASSUME NEW b \in Ask, NEW r \in Answers, Respond(b, r) PROVE pending'[job[a]] = a
    <2>1. b # a
      BY <1>5 DEF Respond, Answers, None
    <2> QED
      BY <1>5, <2>1 DEF Respond
  <1>6. ASSUME NEW d \in dogs, Barks(d) PROVE pending'[job[a]] = a
    <2>1. d.of # job[a]
      <3> SUFFICES ASSUME d.of = job[a] PROVE FALSE
        OBVIOUS
      <3>1. d.at = ask[a].deadline + Grace
        BY <1>6 DEF Barks, DogsPatient
      <3>2. now <= ask[a].deadline + Late /\ now >= d.at
        BY <1>6 DEF Barks, Dog, OnTime
      <3> QED
        BY <3>1, <3>2, TimersAssumption
    <2> QED
      BY <1>6, <2>1 DEF Barks
  <1>7. CASE UNCHANGED <<ask, shown, said, pending>>
    BY <1>7
  <1> QED
    BY <1>2, <1>3, <1>4, <1>5, <1>6, <1>7 DEF KNext, Tick, Extend, kvars, Answers

(* The invariant, conjunct by conjunct.                                    *)
THEOREM QuestionInvariant == KSpec => []KInv
  <1>1. KInv /\ [KNext]_kvars => KInv'
    BY TypeStep, TimeStep, DogStep, AnswerStep DEF KInv
  <1> QED
    BY InitInv, <1>1, PTL DEF KSpec

(* A question whose number no other has stays in the table while it waits  *)
(* and was not extended, so that the answer of its user is heard           *)
(* (main.rs:1880-1898: the watchdog clears what nobody answered).          *)
THEOREM AlwaysAnswerable == KSpec => []Answerable
  <1>1. KInv => Answerable
    BY DEF KInv
  <1> QED
    BY QuestionInvariant, <1>1, PTL

-----------------------------------------------------------------------------
(* The cards of the phone. A card is in a state of the table, and what an   *)
(* event makes of it is again one.                                          *)
Cards  == Open \cup Terminal \cup {"none"}
Events == {"Started", "QueueTimeout", "Failed", "Finished", "CancelRequested", "Paused", "Resumed"}

LEMMA AfterIs ==
  ASSUME NEW st \in Cards, NEW ev \in Events
  PROVE  /\ After(st, ev) \in Cards
         /\ st \in Terminal \cup {"none"} => After(st, ev) = st
         /\ st # "pending" => After(st, ev) # "pending"
         /\ After(st, ev) = "cancelling" => st = "cancelling" \/ ev = "CancelRequested"
         /\ st # "none" => After(st, ev) # "none"
         /\ st \in Open => After(st, "Failed") = "failed" /\ After(st, "CancelRequested") = "cancelling"
         /\ st \in {"active", "paused", "cancelling"} => After(st, "Finished") = "done"
         /\ st = "pending" => After(st, "Started") = "active"
<1>1. \A e \in Events : After("pending", e) =
        IF e = "Started" THEN "active" ELSE IF e \in {"QueueTimeout", "Failed"} THEN "failed"
        ELSE IF e = "CancelRequested" THEN "cancelling" ELSE "pending"
  BY DEF After, Fsm, Events
<1>2. \A e \in Events : After("active", e) =
        IF e = "Paused" THEN "paused" ELSE IF e = "Failed" THEN "failed" ELSE IF e = "Finished" THEN "done"
        ELSE IF e = "CancelRequested" THEN "cancelling" ELSE "active"
  BY DEF After, Fsm, Events
<1>3. \A e \in Events : After("paused", e) =
        IF e = "Resumed" THEN "active" ELSE IF e = "Failed" THEN "failed" ELSE IF e = "Finished" THEN "done"
        ELSE IF e = "CancelRequested" THEN "cancelling" ELSE "paused"
  BY DEF After, Fsm, Events
<1>4. \A e \in Events : After("cancelling", e) =
        IF e = "Failed" THEN "failed" ELSE IF e = "Finished" THEN "done" ELSE "cancelling"
  BY DEF After, Fsm, Events
<1>5. \A e \in Events, t \in Terminal \cup {"none"} : After(t, e) = t
  BY DEF After, Fsm, Terminal
<1>6. {"Failed", "Finished", "CancelRequested", "Started"} \subseteq Events
  BY DEF Events
<1> QED
  BY <1>1, <1>2, <1>3, <1>4, <1>5, <1>6 DEF Cards, Terminal, Open

(* The card of a job of another device never waits to begin, is watched     *)
(* while the user cancels it, and is closed when the job is over.           *)
JobKept(j) ==
  /\ card[j] # "pending"
  /\ card[j] = "cancelling" => j \in watch
  /\ inb[j].at = "over" => card[j] \notin {"active", "paused"}
  /\ inb[j].at = "run" => inb[j].left >= 1

MInv == MTypeOK /\ \A j \in In : JobKept(j)

LEMMA IdsApart ==
  /\ In \subseteq Id /\ Transfer \subseteq Id
  /\ \A t \in Transfer : JobOf(t) \in Id /\ JobOf(t) \notin In /\ t \notin In
BY MobileAssumption DEF In, Id, Transfer, JobOf

(* What is done to the table of cards.                                      *)
LEMMA TableOps ==
  ASSUME NEW c \in [Id -> Cards], NEW i \in Id, NEW ev \in Events
  PROVE  /\ Applied(c, i, ev) \in [Id -> Cards] /\ Applied(c, i, ev)[i] = After(c[i], ev)
         /\ \A k \in Id \ {i} : Applied(c, i, ev)[k] = c[k]
         /\ Created(c, i) \in [Id -> Cards] /\ Created(c, i)[i] = "pending"
         /\ \A k \in Id \ {i} : Created(c, i)[k] = c[k]
         /\ Without(c, i) \in [Id -> Cards] /\ Without(c, i)[i] = "none"
         /\ \A k \in Id \ {i} : Without(c, i)[k] = c[k]
<1>1. After(c[i], ev) \in Cards /\ "pending" \in Cards /\ "none" \in Cards
  BY AfterIs DEF Cards, Open
<1> QED
  BY <1>1 DEF Applied, Created, Without

LEMMA LiveOp ==
  ASSUME NEW c \in [Id -> Cards], NEW i \in Id
  PROVE  /\ Live(c, i) \in [Id -> Cards] /\ Live(c, i)[i] = "active"
         /\ \A k \in Id \ {i} : Live(c, i)[k] = c[k]
<1> DEFINE d == Created(c, i)
<1>0. "Started" \in Events /\ "pending" \in Cards
  BY DEF Events, Cards, Open
<1>1. d \in [Id -> Cards] /\ d[i] = "pending" /\ \A k \in Id \ {i} : d[k] = c[k]
  BY <1>0, TableOps
<1> HIDE DEF d
<1>2. Applied(d, i, "Started") \in [Id -> Cards] /\ Applied(d, i, "Started")[i] = After("pending", "Started")
      /\ \A k \in Id \ {i} : Applied(d, i, "Started")[k] = d[k]
  BY <1>0, <1>1, TableOps
<1>3. After("pending", "Started") = "active"
  BY <1>0, AfterIs
<1> QED
  BY <1>1, <1>2, <1>3 DEF Live, d

(* A step that changes the cards of S only.                                 *)
Touches(S) ==
  /\ card' \in [Id -> Cards] /\ \A k \in Id \ S : card'[k] = card[k]
  /\ hidden' \subseteq {i \in Id : card'[i] \in Terminal}
  /\ watch' \subseteq Id /\ \A k \in Id \ S : k \in watch => k \in watch'

LEMMA TableTouches ==
  ASSUME MInv, NEW S, NEW c \in [Id -> Cards], \A k \in Id \ S : c[k] = card[k], Table(c)
  PROVE  Touches(S) /\ card' = c /\ watch' = watch
BY DEF MInv, MTypeOK, Touches, Table, Shown

LEMMA SettledTouches ==
  ASSUME MInv, NEW S, NEW c \in [Id -> Cards], \A k \in Id \ S : c[k] = card[k],
         NEW i \in Id, i \in S, NEW ev \in Events, SettledIn(c, i, ev)
  PROVE  /\ Touches(S)
         /\ \/ card'[i] = "none"
            \/ card'[i] = After(c[i], ev) /\ watch' = watch /\ ~(c[i] = "cancelling" /\ card'[i] \in Terminal)
<1>1. CASE c[i] = "cancelling" /\ After(c[i], ev) \in Terminal
  <2>1. card' = Without(c, i) /\ Shown(Without(c, i)) /\ watch' = watch \ {i}
    BY <1>1 DEF SettledIn
  <2>2. card' \in [Id -> Cards] /\ card'[i] = "none" /\ \A k \in Id \ {i} : card'[k] = c[k]
    BY <2>1, TableOps
  <2> QED
    BY <2>1, <2>2 DEF MInv, MTypeOK, Touches, Shown
<1>2. CASE ~(c[i] = "cancelling" /\ After(c[i], ev) \in Terminal)
  <2> DEFINE d == Applied(c, i, ev)
  <2>1. Table(d)
    BY <1>2 DEF SettledIn
  <2>2. d \in [Id -> Cards] /\ d[i] = After(c[i], ev) /\ \A k \in Id \ {i} : d[k] = c[k]
    BY TableOps
  <2> HIDE DEF d
  <2>3. \A k \in Id \ S : d[k] = card[k]
    BY <2>2
  <2>4. Touches(S) /\ card' = d /\ watch' = watch
    BY <2>1, <2>2, <2>3, TableTouches
  <2> QED
    BY <1>2, <2>2, <2>4
<1> QED
  BY <1>1, <1>2

(* A step of a transfer leaves the jobs of other devices alone.             *)
TaskRec == [kind : {"none", "push", "pull", "retry"}, peer : Peer \cup {"none"}, alive : BOOLEAN,
            at : {"none", "queued", "permit", "run", "over", "pulling"}, left : Nat, bad : BOOLEAN]
JobRec == [kind : {"none", "recv", "source"}, at : {"none", "run", "over"}, left : 0 .. Files, open : BOOLEAN]

LEMMA TaskOnly ==
  ASSUME MInv, NEW t \in Transfer, Touches({t, JobOf(t)}), task' \in [Transfer -> TaskRec],
         creating' \subseteq Transfer, inb' = inb
  PROVE  MInv'
<1>1. MTypeOK'
  BY DEF MInv, MTypeOK, Touches, TaskRec, Cards
<1>2. ASSUME NEW j \in In PROVE JobKept(j)'
  <2>1. j \in Id \ {t, JobOf(t)}
    BY IdsApart
  <2> QED
    BY <2>1 DEF MInv, JobKept, Touches
<1> QED
  BY <1>1, <1>2 DEF MInv

(* So does one of a single job to the other jobs.                           *)
LEMMA JobOnly ==
  ASSUME MInv, NEW j \in In, Touches({j}), task' = task, creating' = creating,
         inb' \in [In -> JobRec], \A k \in In \ {j} : inb'[k] = inb[k], JobKept(j)'
  PROVE  MInv'
<1>1. MTypeOK'
  BY DEF MInv, MTypeOK, Touches, JobRec, Cards
<1>2. ASSUME NEW k \in In, k # j PROVE JobKept(k)'
  <2>1. k \in Id \ {j}
    BY <1>2, IdsApart
  <2> QED
    BY <1>2, <2>1 DEF MInv, JobKept, Touches
<1> QED
  BY <1>1, <1>2 DEF MInv

LEMMA MobileBegins == MInit => MInv
<1> SUFFICES ASSUME MInit PROVE MInv
  OBVIOUS
<1>1. NoTask \in TaskRec /\ NoJob \in JobRec
  BY MobileAssumption DEF NoTask, NoJob, TaskRec, JobRec
<1>2. MTypeOK
  BY <1>1 DEF MInit, MTypeOK, TaskRec, JobRec, Terminal
<1>3. \A j \in In : JobKept(j)
  BY IdsApart DEF MInit, JobKept, NoJob
<1> QED
  BY <1>2, <1>3 DEF MInv

LEMMA Typed ==
  ASSUME MInv
  PROVE  /\ card \in [Id -> Cards] /\ task \in [Transfer -> TaskRec] /\ inb \in [In -> JobRec]
         /\ hidden \subseteq {i \in Id : card[i] \in Terminal} /\ watch \subseteq Id /\ creating \subseteq Transfer
         /\ \A S : UNCHANGED <<card, hidden, watch>> => Touches(S)
BY DEF MInv, MTypeOK, Cards, TaskRec, JobRec, Touches

LEMMA Placed ==
  ASSUME MInv, NEW t \in Transfer, NEW where \in {"none", "queued", "permit", "run", "over", "pulling"}, At(t, where)
  PROVE  task' \in [Transfer -> TaskRec]
<1>1. task[t] \in TaskRec
  BY Typed
<1>2. [task[t] EXCEPT !.at = where] \in TaskRec
  BY <1>1 DEF TaskRec
<1> QED
  BY <1>2, Typed DEF At

(* A transfer is put into the queue, and waits for its permit and its peer. *)
LEMMA QueueStep ==
  ASSUME MInv, NEW t \in Transfer,
         \/ \E k \in {"push", "pull"}, p \in Peer, n \in 1 .. Files : Start(t, k, p, n)
         \/ \E p \in Peer : StartRetry(t, p)
         \/ Create(t) \/ Permit(t) \/ Lock(t) \/ QueueTimeout(t)
  PROVE  MInv'
<1>0. /\ t \in Id /\ card \in [Id -> Cards] /\ inb' = inb
      /\ "QueueTimeout" \in Events
  BY IdsApart, Typed DEF Start, StartRetry, Create, Permit, Lock, QueueTimeout, Events
<1>1. task' \in [Transfer -> TaskRec]
  <2>1. ASSUME NEW k \in {"push", "pull"}, NEW p \in Peer, NEW n \in 1 .. Files, Start(t, k, p, n)
        PROVE  task' \in [Transfer -> TaskRec]
    <3>1. n \in Nat
      BY MobileAssumption
    <3>2. [NoTask EXCEPT !.kind = k, !.peer = p, !.at = "queued", !.left = n] \in TaskRec
      BY <3>1 DEF NoTask, TaskRec
    <3> QED
      BY <2>1, <3>2, Typed DEF Start
  <2>2. ASSUME NEW p \in Peer, StartRetry(t, p) PROVE task' \in [Transfer -> TaskRec]
    <3>1. [NoTask EXCEPT !.kind = "retry", !.peer = p, !.at = "queued"] \in TaskRec
      BY DEF NoTask, TaskRec
    <3> QED
      BY <2>2, <3>1, Typed DEF StartRetry
  <2>3. CASE Create(t)
    BY <2>3, Typed DEF Create
  <2>4. CASE Permit(t) \/ Lock(t) \/ QueueTimeout(t)
    <3>1. At(t, "permit") \/ At(t, "run") \/ At(t, "over")
      BY <2>4 DEF Permit, Lock, QueueTimeout
    <3> QED
      BY <3>1, Placed
  <2> QED
    BY <2>1, <2>2, <2>3, <2>4
<1>2. creating' \subseteq Transfer
  BY Typed DEF Start, StartRetry, Create, Permit, Lock, QueueTimeout
<1>3. \/ UNCHANGED <<card, hidden, watch>> \/ Table(Created(card, t)) \/ Table(Applied(card, t, "QueueTimeout"))
  BY DEF Start, StartRetry, Create, Permit, Lock, QueueTimeout
<1>4. Touches({t, JobOf(t)})
  <2>1. CASE UNCHANGED <<card, hidden, watch>>
    BY <2>1, Typed
  <2>2. CASE Table(Created(card, t))
    <3> DEFINE c == Created(card, t)
    <3>1. c \in [Id -> Cards] /\ \A k \in Id \ {t, JobOf(t)} : c[k] = card[k]
      BY <1>0, TableOps
    <3> HIDE DEF c
    <3> QED
      BY <2>2, <3>1, TableTouches DEF c
  <2>3. CASE Table(Applied(card, t, "QueueTimeout"))
    <3> DEFINE c == Applied(card, t, "QueueTimeout")
    <3>1. c \in [Id -> Cards] /\ \A k \in Id \ {t, JobOf(t)} : c[k] = card[k]
      BY <1>0, TableOps
    <3> HIDE DEF c
    <3> QED
      BY <2>3, <3>1, TableTouches DEF c
  <2> QED
    BY <1>3, <2>1, <2>2, <2>3
<1> QED
  BY <1>0, <1>1, <1>2, <1>4, TaskOnly

(* A push changes its placeholder and the card of its job.                  *)
LEMMA PushStep ==
  ASSUME MInv, NEW t \in Transfer,
         PushStarted(t) \/ PushErr(t) \/ \E ev \in {"Finished", "Failed"} : PushEvent(t, ev)
  PROVE  MInv'
<1> DEFINE j == JobOf(t)
           S == {t, j}
<1>0. /\ t \in Id /\ j \in Id /\ card \in [Id -> Cards]
      /\ inb' = inb /\ creating' \subseteq Transfer
      /\ {"Finished", "Failed"} \subseteq Events
  BY IdsApart, Typed DEF PushStarted, PushErr, PushEvent, Events
<1>1. task' \in [Transfer -> TaskRec]
  <2>1. CASE PushStarted(t)
    <3>1. [task[t] EXCEPT !.alive = FALSE] \in TaskRec
      BY Typed DEF TaskRec
    <3> QED
      BY <2>1, <3>1, Typed DEF PushStarted
  <2>2. CASE ~PushStarted(t)
    <3>1. At(t, "over")
      BY <2>2 DEF PushErr, PushEvent
    <3> QED
      BY <3>1, Placed
  <2> QED
    BY <2>1, <2>2
<1> DEFINE w == Without(card, t)
<1>2. w \in [Id -> Cards] /\ \A k \in Id \ S : w[k] = card[k]
  <2>1. "Failed" \in Events
    BY DEF Events
  <2> QED
    BY <1>0, <2>1, TableOps
<1>3. ASSUME NEW c \in {card, w}
      PROVE  Live(c, j) \in [Id -> Cards] /\ \A k \in Id \ S : Live(c, j)[k] = card[k]
  <2>1. c \in [Id -> Cards] /\ \A k \in Id \ S : c[k] = card[k]
    BY <1>0, <1>2
  <2> HIDE DEF w
  <2> QED
    BY <1>0, <2>1, LiveOp
<1>4. Touches(S)
  <2>1. CASE PushStarted(t)
    <3> HIDE DEF w
    <3>1. PICK c \in [Id -> Cards] : Table(c) /\ \A k \in Id \ S : c[k] = card[k]
      <4>1. \E c \in {card, w} : Table(c) \/ Table(Live(c, j))
        BY <2>1 DEF PushStarted, w
      <4> QED
        BY <1>0, <1>2, <1>3, <4>1
    <3> QED
      BY <3>1, TableTouches
  <2>2. ASSUME NEW c \in [Id -> Cards], \A k \in Id \ S : c[k] = card[k], NEW i \in {t, j},
               NEW ev \in {"Finished", "Failed"}, SettledIn(c, i, ev)
        PROVE  Touches(S)
    <3>1. i \in Id /\ i \in S /\ ev \in Events
      BY <1>0
    <3> QED
      BY <2>2, <3>1, SettledTouches
  <2>3. CASE PushErr(t)
    <3>1. UNCHANGED <<card, hidden, watch>> \/ SettledIn(card, t, "Failed")
      BY <2>3 DEF PushErr
    <3> QED
      BY <1>0, <2>2, <3>1, Typed
  <2>4. ASSUME NEW ev \in {"Finished", "Failed"}, PushEvent(t, ev) PROVE Touches(S)
    <3> DEFINE c == Live(w, j)
               d == Created(c, j)
    <3>1. c \in [Id -> Cards] /\ \A k \in Id \ S : c[k] = card[k]
      BY <1>3
    <3>2. d \in [Id -> Cards] /\ \A k \in Id \ S : d[k] = card[k]
      <4> HIDE DEF c
      <4>1. "Failed" \in Events
        BY DEF Events
      <4> QED
        BY <1>0, <3>1, <4>1, TableOps
    <3>3. UNCHANGED <<card, hidden, watch>> \/ SettledIn(card, j, ev) \/ SettledIn(c, j, ev) \/ SettledIn(d, j, ev)
      BY <2>4 DEF PushEvent, Rekeyed
    <3> HIDE DEF c, d
    <3> QED
      BY <1>0, <2>2, <3>1, <3>2, <3>3, Typed
  <2> QED
    BY <2>1, <2>3, <2>4
<1> QED
  BY <1>0, <1>1, <1>4, TaskOnly

(* A pull changes its placeholder.                                          *)
LEMMA PullStep ==
  ASSUME MInv, NEW t \in Transfer,
         PullStarted(t) \/ PullEnds(t) \/ RetryRuns(t) \/ \E ok \in BOOLEAN : PullFile(t, ok)
  PROVE  MInv'
<1>0. /\ t \in Id /\ card \in [Id -> Cards] /\ inb' = inb /\ creating' \subseteq Transfer
      /\ {"Started", "Finished", "Failed"} \subseteq Events
  BY IdsApart, Typed DEF PullStarted, PullEnds, RetryRuns, PullFile, Events
<1>1. task' \in [Transfer -> TaskRec]
  <2>1. ASSUME NEW ok \in BOOLEAN, PullFile(t, ok) PROVE task' \in [Transfer -> TaskRec]
    <3> DEFINE m == task[t].left - 1
               b == task[t].bad \/ ~ok
               new == [task[t] EXCEPT !.left = m, !.bad = b]
    <3>1. task[t] \in TaskRec
      BY Typed
    <3>2. m \in Nat
      <4>1. task[t].left \in Nat /\ task[t].left > 0
        BY <2>1, <3>1 DEF PullFile, TaskRec
      <4> QED
        BY <4>1
    <3>3. b \in BOOLEAN
      BY <3>1 DEF TaskRec
    <3>4. task' = [task EXCEPT ![t] = new]
      BY <2>1 DEF PullFile
    <3> HIDE DEF m, b
    <3>5. new \in TaskRec
      BY <3>1, <3>2, <3>3 DEF TaskRec
    <3> HIDE DEF new
    <3> QED
      BY <3>4, <3>5, Typed
  <2>2. CASE PullStarted(t)
    BY <2>2, Typed DEF PullStarted
  <2>3. CASE PullEnds(t) \/ RetryRuns(t)
    <3>1. At(t, "over") \/ At(t, "pulling")
      BY <2>3 DEF PullEnds, RetryRuns
    <3> QED
      BY <3>1, Placed
  <2> QED
    BY <2>1, <2>2, <2>3
<1> DEFINE c == Applied(card, t, "Started")
<1>2. c \in [Id -> Cards] /\ \A k \in Id \ {t, JobOf(t)} : c[k] = card[k]
  BY <1>0, TableOps
<1>3. ASSUME NEW d \in {card, c}, NEW ev \in {"Failed", "Finished"}
      PROVE  Applied(d, t, ev) \in [Id -> Cards] /\ \A k \in Id \ {t, JobOf(t)} : Applied(d, t, ev)[k] = card[k]
  <2>1. d \in [Id -> Cards] /\ \A k \in Id \ {t, JobOf(t)} : d[k] = card[k]
    BY <1>0, <1>2
  <2>2. ev \in Events
    BY <1>0
  <2> HIDE DEF c
  <2> QED
    BY <1>0, <2>1, <2>2, TableOps
<1>4. \/ UNCHANGED <<card, hidden, watch>>
      \/ \E d \in {card, c} : Table(d) \/ \E ev \in {"Failed", "Finished"} : Table(Applied(d, t, ev))
  BY DEF PullStarted, PullEnds, RetryRuns, PullFile
<1> HIDE DEF c
<1>5. Touches({t, JobOf(t)})
  <2>1. CASE UNCHANGED <<card, hidden, watch>>
    BY <2>1, Typed
  <2>2. CASE ~UNCHANGED <<card, hidden, watch>>
    <3>1. PICK d \in [Id -> Cards] : Table(d) /\ \A k \in Id \ {t, JobOf(t)} : d[k] = card[k]
      BY <1>0, <1>2, <1>3, <1>4, <2>2
    <3> QED
      BY <3>1, TableTouches
  <2> QED
    BY <2>1, <2>2
<1> QED
  BY <1>0, <1>1, <1>5, TaskOnly

(* A file of a job of another device is over.                               *)
LEMMA NextFile ==
  ASSUME MInv, NEW j \in In, inb[j].at = "run", Next1(j)
  PROVE  /\ inb' \in [In -> JobRec] /\ \A k \in In \ {j} : inb'[k] = inb[k]
         /\ inb'[j].at = "run" => inb'[j].left >= 1
<1> DEFINE m == inb[j].left - 1
           a == IF inb[j].left = 1 THEN "over" ELSE "run"
           new == [inb[j] EXCEPT !.left = m, !.open = FALSE, !.at = a]
<1>1. inb[j] \in JobRec /\ inb[j].left \in 0 .. Files /\ inb[j].left >= 1
  BY Typed DEF JobRec, MInv, JobKept
<1>2. m \in 0 .. Files /\ (a = "run" => m >= 1) /\ a \in {"none", "run", "over"}
  BY <1>1, MobileAssumption
<1>3. inb' = [inb EXCEPT ![j] = new]
  BY DEF Next1
<1> HIDE DEF m, a
<1>4. new \in JobRec /\ new.left = m /\ new.at = a
  BY <1>1, <1>2 DEF JobRec
<1> HIDE DEF new
<1> QED
  BY <1>2, <1>3, <1>4, Typed

(* The jobs of other devices.                                               *)
LEMMA InboundStep ==
  ASSUME MInv, NEW j \in In,
         \/ \E k \in {"recv", "source"}, n \in 1 .. Files : Opens(j, k, n)
         \/ RecvStarted(j) \/ RecvDone(j) \/ RecvInstant(j) \/ RecvFailed(j) \/ SourceStarted(j)
         \/ \E ev \in {"Finished", "Failed"} : SourceEnds(j, ev)
  PROVE  MInv'
<1>0. /\ j \in Id /\ card \in [Id -> Cards] /\ task' = task /\ creating' = creating
      /\ card[j] \in Cards /\ inb[j] \in JobRec /\ JobKept(j)
      /\ {"Started", "Finished", "Failed"} \subseteq Events
  BY IdsApart, Typed DEF Opens, RecvStarted, RecvDone, RecvInstant, RecvFailed, SourceStarted, SourceEnds, Events, MInv
<1>1. ASSUME NEW k \in {"recv", "source"}, NEW n \in 1 .. Files, Opens(j, k, n) PROVE MInv'
  <2> DEFINE new == [NoJob EXCEPT !.kind = k, !.at = "run", !.left = n]
  <2>1. n \in 0 .. Files /\ n >= 1
    BY MobileAssumption
  <2>2. new \in JobRec /\ new.at = "run" /\ new.left = n
    BY <2>1 DEF NoJob, JobRec
  <2>3. inb' = [inb EXCEPT ![j] = new] /\ UNCHANGED <<card, hidden, watch>>
    BY <1>1 DEF Opens
  <2> HIDE DEF new
  <2>4. inb' \in [In -> JobRec] /\ inb'[j] = new /\ \A i \in In \ {j} : inb'[i] = inb[i]
    BY <2>2, <2>3, Typed
  <2>5. Touches({j})
    BY <2>3, Typed
  <2>6. JobKept(j)'
    BY <1>0, <2>1, <2>2, <2>3, <2>4 DEF JobKept
  <2> QED
    BY <1>0, <2>4, <2>5, <2>6, JobOnly
<1>2. ASSUME inb[j].at = "run", inb' = [inb EXCEPT ![j].open = TRUE]
      PROVE  /\ inb' \in [In -> JobRec] /\ inb'[j].at = "run" /\ inb'[j].left = inb[j].left
             /\ \A k \in In \ {j} : inb'[k] = inb[k]
  <2>1. [inb[j] EXCEPT !.open = TRUE] \in JobRec
    BY <1>0 DEF JobRec
  <2> QED
    BY <1>2, <2>1, Typed
<1>3. CASE RecvStarted(j)
  <2> DEFINE live == Live(card, j)
             on == Applied(card, j, "Started")
  <2>1. live \in [Id -> Cards] /\ live[j] = "active" /\ \A k \in Id \ {j} : live[k] = card[k]
    BY <1>0, LiveOp
  <2>2. on \in [Id -> Cards] /\ on[j] = After(card[j], "Started") /\ \A k \in Id \ {j} : on[k] = card[k]
    BY <1>0, TableOps
  <2>3. /\ inb[j].at = "run" /\ inb' = [inb EXCEPT ![j].open = TRUE] /\ hidden' = hidden \ {j} /\ watch' = watch
        /\ card' = IF card[j] \in Terminal \cup {"none"} THEN live ELSE on
    BY <1>3 DEF RecvStarted
  <2> HIDE DEF live, on
  <2>4. card' \in [Id -> Cards] /\ \A k \in Id \ {j} : card'[k] = card[k]
    BY <2>1, <2>2, <2>3
  <2>5. Touches({j})
    BY <2>3, <2>4, Typed DEF Touches
  <2>6. card'[j] # "pending" /\ (card'[j] = "cancelling" => card[j] = "cancelling")
    BY <1>0, <2>1, <2>2, <2>3, AfterIs DEF JobKept
  <2>7. JobKept(j)'
    BY <1>0, <1>2, <2>3, <2>6 DEF JobKept
  <2> QED
    BY <1>0, <1>2, <2>3, <2>5, <2>7, JobOnly
<1>4. CASE SourceStarted(j)
  <2> DEFINE c == IF card[j] = "none" THEN Live(card, j) ELSE card
  <2>1. c \in [Id -> Cards] /\ (c[j] = "active" \/ c[j] = card[j]) /\ \A k \in Id \ {j} : c[k] = card[k]
    BY <1>0, LiveOp
  <2>2. inb[j].at = "run" /\ inb' = [inb EXCEPT ![j].open = TRUE] /\ Table(c)
    BY <1>4 DEF SourceStarted
  <2> HIDE DEF c
  <2>3. Touches({j}) /\ card' = c /\ watch' = watch
    BY <2>1, <2>2, TableTouches
  <2>4. JobKept(j)'
    BY <1>0, <1>2, <2>1, <2>2, <2>3 DEF JobKept
  <2> QED
    BY <1>0, <1>2, <2>2, <2>3, <2>4, JobOnly
<1>5. ASSUME NEW c \in [Id -> Cards], \A k \in Id \ {j} : c[k] = card[k], c[j] # "pending",
             NEW ev \in {"Finished", "Failed"}, SettledIn(c, j, ev)
      PROVE  Touches({j}) /\ card'[j] \in Terminal \cup {"none"}
  <2>1. ev \in Events /\ j \in {j}
    BY <1>0
  <2>2. c[j] \in Cards
    BY <1>0
  <2>3. After(c[j], ev) \in Terminal \cup {"none"}
    BY <1>5, <2>1, <2>2, AfterIs DEF Cards, Open, Terminal
  <2>4. Touches({j}) /\ (card'[j] = "none" \/ card'[j] = After(c[j], ev))
    BY <1>0, <1>5, <2>1, SettledTouches
  <2> QED
    BY <2>3, <2>4
<1>6. ASSUME card'[j] \in Terminal \cup {"none"}, inb'[j].at = "run" => inb'[j].left >= 1
      PROVE  JobKept(j)'
  BY <1>6 DEF JobKept, Terminal
<1>7. CASE RecvDone(j) \/ \E ev \in {"Finished", "Failed"} : SourceEnds(j, ev)
  <2>1. PICK ev \in {"Finished", "Failed"} : SettledIn(card, j, ev) /\ inb[j].at = "run" /\ Next1(j)
    BY <1>7 DEF RecvDone, SourceEnds
  <2>2. Touches({j}) /\ card'[j] \in Terminal \cup {"none"}
    BY <1>0, <1>5, <2>1 DEF JobKept
  <2> QED
    BY <1>0, <1>6, <2>1, <2>2, NextFile, JobOnly
<1>8. CASE RecvInstant(j)
  <2> DEFINE c == IF card[j] = "none" THEN Created(card, j) ELSE card
             d == IF c[j] = "pending" THEN Applied(c, j, "Started") ELSE c
  <2>1. c \in [Id -> Cards] /\ \A k \in Id \ {j} : c[k] = card[k]
    BY <1>0, TableOps
  <2>2. inb[j].at = "run" /\ SettledIn(d, j, "Finished") /\ Next1(j)
    BY <1>8 DEF RecvInstant
  <2> HIDE DEF c
  <2>3. d \in [Id -> Cards] /\ d[j] # "pending" /\ \A k \in Id \ {j} : d[k] = card[k]
    <3>1. CASE c[j] = "pending"
      <4>1. d = Applied(c, j, "Started")
        BY <3>1
      <4>2. /\ Applied(c, j, "Started") \in [Id -> Cards] /\ Applied(c, j, "Started")[j] = After(c[j], "Started")
            /\ \A k \in Id \ {j} : Applied(c, j, "Started")[k] = c[k]
        BY <1>0, <2>1, TableOps
      <4>3. "pending" \in Cards /\ "Started" \in Events
        BY <1>0 DEF Cards, Open
      <4>4. After(c[j], "Started") = "active"
        BY <3>1, <4>3, AfterIs
      <4> HIDE DEF d
      <4> QED
        BY <2>1, <4>1, <4>2, <4>4
    <3>2. CASE c[j] # "pending"
      BY <2>1, <3>2
    <3> QED
      BY <3>1, <3>2
  <2> HIDE DEF d
  <2>4. Touches({j}) /\ card'[j] \in Terminal \cup {"none"}
    BY <1>5, <2>2, <2>3
  <2> QED
    BY <1>0, <1>6, <2>2, <2>4, NextFile, JobOnly
<1>9. CASE RecvFailed(j)
  <2>1. inb' = [inb EXCEPT ![j] = [@ EXCEPT !.at = "over", !.open = FALSE]] /\ SettledIn(card, j, "Failed")
    BY <1>9 DEF RecvFailed
  <2> DEFINE new == [inb[j] EXCEPT !.at = "over", !.open = FALSE]
  <2>2. new \in JobRec /\ new.at = "over"
    BY <1>0 DEF JobRec
  <2>3. inb' = [inb EXCEPT ![j] = new]
    BY <2>1
  <2> HIDE DEF new
  <2>4. inb' \in [In -> JobRec] /\ inb'[j].at = "over" /\ \A k \in In \ {j} : inb'[k] = inb[k]
    BY <2>2, <2>3, Typed
  <2>5. Touches({j}) /\ card'[j] \in Terminal \cup {"none"}
    BY <1>0, <1>5, <2>1 DEF JobKept
  <2> QED
    BY <1>0, <1>6, <2>4, <2>5, JobOnly
<1> QED
  BY <1>1, <1>3, <1>4, <1>7, <1>8, <1>9

(* What the user does to one card, and the watchdog.                        *)
LEMMA CardOnly ==
  ASSUME MInv, NEW i \in Id, Touches({i}), UNCHANGED <<creating, task, inb>>, i \in In => JobKept(i)'
  PROVE  MInv'
<1>1. MTypeOK'
  BY DEF MInv, MTypeOK, Touches, Cards
<1>2. ASSUME NEW k \in In, k # i PROVE JobKept(k)'
  <2>1. k \in Id \ {i}
    BY <1>2, IdsApart
  <2> QED
    BY <1>2, <2>1 DEF MInv, JobKept, Touches
<1> QED
  BY <1>1, <1>2 DEF MInv

LEMMA FinalStep ==
  ASSUME MInv, NEW i \in Id, Finalized(i), UNCHANGED <<creating, task, inb>>
  PROVE  MInv'
<1>1. "Failed" \in Events /\ card \in [Id -> Cards]
  BY Typed DEF Events
<1>2. /\ Without(card, i) \in [Id -> Cards] /\ Without(card, i)[i] = "none"
      /\ \A k \in Id \ {i} : Without(card, i)[k] = card[k]
  BY <1>1, TableOps
<1>3. card' = Without(card, i) /\ Shown(Without(card, i)) /\ watch' = watch \ {i}
  BY DEF Finalized
<1>4. Touches({i})
  BY <1>2, <1>3, Typed DEF Touches, Shown
<1>5. i \in In => JobKept(i)'
  BY <1>2, <1>3 DEF MInv, JobKept
<1> QED
  BY <1>4, <1>5, CardOnly

LEMMA WatchdogStep ==
  ASSUME MInv, NEW i \in Id, Watchdog(i)
  PROVE  MInv'
<1>1. UNCHANGED <<creating, task, inb>>
  BY DEF Watchdog
<1>2. CASE card[i] = "cancelling"
  <2>1. Finalized(i)
    BY <1>2 DEF Watchdog
  <2> QED
    BY <1>1, <2>1, FinalStep
<1>3. CASE card[i] # "cancelling"
  <2>1. watch' = watch \ {i} /\ UNCHANGED <<card, hidden>>
    BY <1>3 DEF Watchdog
  <2>2. Touches({i})
    BY <2>1, Typed DEF Touches
  <2>3. i \in In => JobKept(i)'
    BY <1>1, <1>3, <2>1 DEF MInv, JobKept
  <2> QED
    BY <1>1, <2>2, <2>3, CardOnly
<1> QED
  BY <1>2, <1>3

LEMMA CommandStep ==
  ASSUME MInv, Commanded
  PROVE  MInv'
<1>0. UNCHANGED <<creating, task, inb>> /\ card \in [Id -> Cards] /\ {"Paused", "Resumed", "CancelRequested"} \subseteq Events
  BY Typed DEF Commanded, Events
<1>1. ASSUME NEW i \in Id, Pause(i) \/ Resume(i) PROVE MInv'
  <2>1. PICK ev \in {"Paused", "Resumed"} : Table(Applied(card, i, ev))
    BY <1>1 DEF Pause, Resume
  <2> DEFINE c == Applied(card, i, ev)
  <2>2. c \in [Id -> Cards] /\ c[i] = After(card[i], ev) /\ \A k \in Id \ {i} : c[k] = card[k]
    BY <1>0, TableOps
  <2>3. card[i] \in {"active", "paused"} /\ card[i] \in Cards
    BY <1>1 DEF Pause, Resume, Cards, Open
  <2>4. c[i] # "pending" /\ c[i] # "cancelling"
    BY <1>0, <2>2, <2>3, AfterIs
  <2> HIDE DEF c
  <2>5. Touches({i}) /\ card' = c
    BY <2>1, <2>2, TableTouches DEF c
  <2>6. i \in In => inb[i].at = "run"
    BY <1>1, IdsApart DEF Pause, Resume, Controlled
  <2>7. i \in In => JobKept(i)'
    BY <1>0, <2>4, <2>5, <2>6 DEF MInv, JobKept
  <2> QED
    BY <1>0, <2>5, <2>7, CardOnly
<1>2. ASSUME NEW i \in Id, Cancel(i) PROVE MInv'
  <2> DEFINE c == Applied(card, i, "CancelRequested")
  <2>1. c \in [Id -> Cards] /\ c[i] = After(card[i], "CancelRequested") /\ \A k \in Id \ {i} : c[k] = card[k]
    BY <1>0, TableOps
  <2>2. card' = c /\ watch' = watch \cup {i} /\ UNCHANGED hidden /\ card[i] \in Open
    BY <1>2 DEF Cancel
  <2>3. c[i] = "cancelling"
    BY <1>0, <2>1, <2>2, AfterIs DEF Cards
  <2> HIDE DEF c
  <2>4. i \notin hidden
    BY <2>2, Typed DEF Open, Terminal
  <2>5. Touches({i})
    BY <2>1, <2>2, <2>4, Typed DEF Touches
  <2>6. i \in In => JobKept(i)'
    BY <1>0, <2>2, <2>3 DEF MInv, JobKept
  <2> QED
    BY <1>0, <2>5, <2>6, CardOnly
<1>3. ASSUME NEW i \in Id, Hide(i) \/ Restore(i) PROVE MInv'
  <2>1. /\ UNCHANGED <<card, watch>> /\ (hidden' = hidden \cup {i} \/ hidden' = hidden \ {i})
        /\ card[i] \in Terminal \/ hidden' = hidden \ {i}
    BY <1>3 DEF Hide, Restore
  <2>2. Touches({i})
    BY <2>1, Typed DEF Touches
  <2>3. i \in In => JobKept(i)'
    BY <1>0, <2>1 DEF MInv, JobKept
  <2> QED
    BY <1>0, <2>2, <2>3, CardOnly
<1>4. ASSUME NEW i \in Id, Destroy(i) PROVE MInv'
  BY <1>0, <1>4, FinalStep DEF Destroy
<1>5. CASE ClearFinished
  <2>1. /\ card' = [i \in Id |-> IF card[i] \in Terminal THEN "none" ELSE card[i]]
        /\ watch' = {i \in watch : card[i] \notin Terminal} /\ hidden' = {}
    BY <1>5 DEF ClearFinished
  <2>2. card' \in [Id -> Cards]
    BY <1>0, <2>1 DEF Cards
  <2>3. MTypeOK'
    BY <1>0, <2>1, <2>2 DEF MInv, MTypeOK, Cards
  <2>4. ASSUME NEW j \in In PROVE JobKept(j)'
    <3>1. j \in Id /\ JobKept(j)
      BY IdsApart DEF MInv
    <3>2. card'[j] = "none" \/ (card'[j] = card[j] /\ card[j] \notin Terminal)
      BY <2>1, <3>1
    <3> QED
      BY <1>0, <2>1, <3>1, <3>2 DEF JobKept
  <2> QED
    BY <2>3, <2>4 DEF MInv
<1> QED
  BY <1>1, <1>2, <1>3, <1>4, <1>5 DEF Commanded

LEMMA MobileStep == MInv /\ [MNext]_mvars => MInv'
<1> SUFFICES ASSUME MInv, [MNext]_mvars PROVE MInv'
  OBVIOUS
<1>1. CASE UNCHANGED mvars
  BY <1>1 DEF mvars, MInv, MTypeOK, JobKept
<1>2. ASSUME NEW t \in Transfer, \E k \in {"push", "pull"}, p \in Peer, n \in 1 .. Files : Start(t, k, p, n)
      PROVE  MInv'
  BY <1>2, QueueStep
<1>3. ASSUME NEW t \in Transfer,
             (\E p \in Peer : StartRetry(t, p)) \/ Create(t) \/ Permit(t) \/ Lock(t) \/ QueueTimeout(t)
      PROVE  MInv'
  BY <1>3, QueueStep
<1>4. ASSUME NEW t \in Transfer, PushStarted(t) \/ PushErr(t) \/ \E ev \in {"Finished", "Failed"} : PushEvent(t, ev)
      PROVE  MInv'
  BY <1>4, PushStep
<1>5. ASSUME NEW t \in Transfer,
             PullStarted(t) \/ PullEnds(t) \/ RetryRuns(t) \/ \E ok \in BOOLEAN : PullFile(t, ok)
      PROVE  MInv'
  BY <1>5, PullStep
<1>6. ASSUME NEW j \in In,
             \/ \E k \in {"recv", "source"}, n \in 1 .. Files : Opens(j, k, n)
             \/ RecvStarted(j) \/ RecvDone(j) \/ RecvInstant(j) \/ RecvFailed(j) \/ SourceStarted(j)
             \/ \E ev \in {"Finished", "Failed"} : SourceEnds(j, ev)
      PROVE  MInv'
  BY <1>6, InboundStep
<1>7. CASE Commanded
  BY <1>7, CommandStep
<1>8. ASSUME NEW i \in Id, Watchdog(i) PROVE MInv'
  BY <1>8, WatchdogStep
<1> QED
  BY <1>1, <1>2, <1>3, <1>4, <1>5, <1>6, <1>7, <1>8 DEF MNext, Runs

(* When a job of another device is over its card is closed, or the user is  *)
(* cancelling it and a watchdog waits to remove it, whatever the user and   *)
(* the job did in whatever order (lib.rs:3031-3282).                        *)
THEOREM InboundAlwaysClosed == MSpec => []InboundClosed
<1>1. MInv => InboundClosed
  <2> SUFFICES ASSUME MInv, NEW j \in In, inb[j].at = "over"
               PROVE  card[j] \in Terminal \cup {"none"} \/ (card[j] = "cancelling" /\ j \in watch)
    BY DEF MInv, InboundClosed, ClosedWhenOver
  <2>1. card[j] \in Cards /\ JobKept(j)
    BY IdsApart, Typed DEF MInv
  <2> QED
    BY <2>1 DEF JobKept, Cards, Open
<1> QED
  BY <1>1, MobileBegins, MobileStep, PTL DEF MSpec
=============================================================================

------------------------------ MODULE RemoteOps ------------------------------
(* Browsing and editing the shares of another device: the multiplexed      *)
(* requests of session.rs (send_rpc, pending_rpcs), the router of          *)
(* engine.rs that answers them, the registry of share.rs that does the     *)
(* work, and the user who has to confirm a deletion.  One device asks, the *)
(* other holds one shared folder.  A request is named <<task, number>>.    *)
EXTENDS Integers, FiniteSets, Sequences

CONSTANTS Task,      \* the user's operations on the asking device
          Op,        \* [Task -> [kind, path, new]]
          Name,      \* names in the folder, numbers in the order they are listed
          AtStart,     \* the names that are taken at the start
          PageSize,  \* entries of one ListResp
          Permits,   \* deletions that may wait for the user at once
          CtrlCap,   \* room of the router's inbox
          FolderEdits, \* bound: files the owner replaces or removes
          Drops,     \* bound: losses of the session
          Together   \* bound: operations of which one behaviour begins one set only

ASSUME RemoteAssumption ==
  /\ Task \subseteq Nat /\ IsFiniteSet(Task) /\ Name \subseteq Nat /\ IsFiniteSet(Name)
  /\ PageSize \in Nat
  /\ \A t \in Task : /\ Op[t].path \in Name /\ Op[t].new \in Name
                     /\ Op[t].kind \in {"shares", "list", "walk", "meta", "rename", "mkdir", "delete"}
  /\ Permits \in Nat /\ CtrlCap \in Nat /\ FolderEdits \in Nat /\ Drops \in Nat

Entries == [by : {"none", "start", "task", "owner"}, n : Nat]
NoFile == [by |-> "none", n |-> 0]
First(n) == IF n \in AtStart THEN [by |-> "start", n |-> n] ELSE NoFile

VARIABLES task,      \* [Task -> state of the operation, requests sent, listing]
          pending,   \* pending_rpcs: ids somebody is registered for
          out, inbox, back,  \* requests under way, accepted, answers under way
          link,      \* the session exists
          tree,      \* the folder: [Name -> file or None]
          shared,    \* the folder is in the registry
          rights,    \* the asking device may browse and download
          ask,       \* [Task -> the confirmation of its deletion]
          shelf,     \* pending_deletes of the shell: questions that can be answered
          permits,   \* free permits
          did,       \* ghost: [Task -> what the operation did to the folder]
          edits, drops
rvars == <<task, pending, out, inbox, back, link, tree, shared, rights, ask, shelf,
          permits, did, edits, drops>>
asking == <<task, pending>>
owner  == <<tree, shared, rights, ask, shelf, permits, did, edits>>

RInit ==
  /\ task = [t \in Task |-> [st |-> "idle", n |-> 0, cursor |-> 0, got |-> {}]]
  /\ pending = {} /\ out = <<>> /\ inbox = <<>> /\ back = <<>>
  /\ link = TRUE /\ shared = TRUE /\ rights = TRUE
  /\ tree = [n \in Name |-> First(n)]
  /\ ask = [t \in Task |-> [st |-> "none", file |-> NoFile, yes |-> FALSE]]
  /\ shelf = {} /\ permits = Permits
  /\ did = [t \in Task |-> NoFile]
  /\ edits = 0 /\ drops = 0

------------------------------------------------------------------------------
(* The asking device *)

Id(t) == <<t, task[t].n>>

(* send_rpc: registered first, sent if the session is there, withdrawn else *)
Send(t, lost) ==
  LET id == <<t, task[t].n + 1>> IN
  IF link
  THEN /\ task' = [task EXCEPT ![t] = [@ EXCEPT !.st = "waiting", !.n = id[2]]]
       /\ pending' = (pending \ lost) \cup {id}
       /\ out' = Append(out, [id |-> id, cursor |-> task[t].cursor])
  ELSE /\ task' = [task EXCEPT ![t].st = "failed"]
       /\ pending' = pending \ lost
       /\ out' = out

Begin(t) ==
  /\ task[t].st = "idle"
  /\ \E g \in Together : t \in g /\ \A u \in Task \ g : task[u].st = "idle"
  /\ Send(t, {})
  /\ UNCHANGED <<inbox, back, link, drops, owner>>

(* the caller gives up: the browser's lists are asked for once more; only    *)
(* the second request for a directory is not withdrawn when it times out too *)
GiveUp(t) ==
  /\ task[t].st = "waiting"
  /\ IF Op[t].kind \in {"shares", "list"} /\ task[t].n = 1
     THEN Send(t, {Id(t)})
     ELSE /\ task' = [task EXCEPT ![t].st = "unknown"]
          /\ pending' = IF Op[t].kind = "list" THEN pending ELSE pending \ {Id(t)}
          /\ out' = out
  /\ UNCHANGED <<inbox, back, link, drops, owner>>

(* an answer goes to every request of its kind *)
Waiter_any(r) == {t \in Task : task[t].st = "waiting" /\ Op[t].kind = Op[r.id[1]].kind}

(* an answer goes to whoever is registered for its id, or is dropped *)
Waiter(r) == {t \in Task : r.id \in pending /\ r.id = Id(t) /\ task[t].st = "waiting"}

(* a directory that is walked goes on while there is more *)
GoesOn(t, r) == IF Op[t].kind = "walk" /\ r.next # 0 THEN "paging"
                ELSE IF r.ok THEN "done" ELSE "refused"

Answered(r) ==
  [t \in Task |->
    IF t \notin Waiter(r) THEN task[t]
    ELSE [task[t] EXCEPT !.got = @ \cup r.found, !.cursor = r.next, !.st = GoesOn(t, r)]]

Answer ==
  /\ back # <<>>
  /\ back' = Tail(back)
  /\ task' = Answered(Head(back))
  /\ pending' = pending \ {Head(back).id}
  /\ UNCHANGED <<out, inbox, link, drops, owner>>

(* the next page of a directory that is walked *)
NextPage(t) ==
  /\ task[t].st = "paging"
  /\ Send(t, {})
  /\ UNCHANGED <<inbox, back, link, drops, owner>>

------------------------------------------------------------------------------
(* The session: a full inbox drops, a lost session loses what is under way *)

Arrive ==
  /\ out # <<>>
  /\ out' = Tail(out)
  /\ inbox' = IF Len(inbox) < CtrlCap THEN Append(inbox, Head(out)) ELSE inbox
  /\ UNCHANGED <<asking, back, link, drops, owner>>

SessionLost ==
  /\ link /\ drops < Drops
  /\ link' = FALSE /\ drops' = drops + 1
  /\ out' = <<>> /\ back' = <<>>
  /\ UNCHANGED <<asking, inbox, owner>>

SessionBack ==
  /\ ~link
  /\ link' = TRUE
  /\ UNCHANGED <<asking, out, inbox, back, drops, owner>>

------------------------------------------------------------------------------
(* The registry *)

There(p) == shared /\ tree[p] # NoFile

(* the folder is read and sorted again for every page; the cursor is an offset *)
Listed  == {n \in Name : tree[n] # NoFile}
Rank(n) == Cardinality({m \in Listed : m =< n})
Page(c) == IF shared THEN {tree[n] : n \in {m \in Listed : Rank(m) \in c + 1 .. c + PageSize}} ELSE {}
More(c) == IF shared /\ c + PageSize < Cardinality(Listed) THEN c + PageSize ELSE 0

CanRename(o) == There(o.path) /\ tree[o.new] = NoFile
Renamed(o)   == [tree EXCEPT ![o.new] = tree[o.path], ![o.path] = NoFile]
CanMake(o)   == shared /\ tree[o.path] = NoFile
Made(t)      == [tree EXCEPT ![Op[t].path] = [by |-> "task", n |-> t]]

------------------------------------------------------------------------------
(* The router: one request at a time, and never waiting for the user *)

Reply(id, ok, found, next) ==
  back' = IF link THEN Append(back, [id |-> id, ok |-> ok, found |-> found, next |-> next])
                ELSE back
Verdict(id, ok) == Reply(id, ok, {}, 0)

Oldest == Head(inbox)
Asker  == Oldest.id[1]
Taken(k) == inbox # <<>> /\ Op[Asker].kind \in k /\ inbox' = Tail(inbox)
Rest    == UNCHANGED <<asking, out, link, drops, shared, rights, edits>>
NoAsk   == UNCHANGED <<ask, shelf, permits>>

(* SharesReq, ListReq: refused or impossible, the answer is an empty list *)
RouteList ==
  /\ Taken({"shares", "list", "walk"})
  /\ IF rights /\ Op[Asker].kind # "shares"
     THEN Reply(Oldest.id, TRUE, Page(Oldest.cursor), More(Oldest.cursor))
     ELSE Verdict(Oldest.id, TRUE)
  /\ NoAsk /\ UNCHANGED <<tree, did>> /\ Rest

(* MetaReq: refused or impossible, there is no answer *)
RouteMetaReq ==
  /\ Taken({"meta"})
  /\ IF rights /\ There(Op[Asker].path) THEN Verdict(Oldest.id, TRUE) ELSE back' = back
  /\ NoAsk /\ UNCHANGED <<tree, did>> /\ Rest

(* ShareRename, ShareMkdir: done at once *)
RouteEdit ==
  /\ Taken({"rename", "mkdir"})
  /\ LET o == Op[Asker]
         fits == rights /\ (IF o.kind = "rename" THEN CanRename(o) ELSE CanMake(o)) IN
     /\ tree' = IF ~fits THEN tree ELSE IF o.kind = "rename" THEN Renamed(o) ELSE Made(Asker)
     /\ did' = IF fits THEN [did EXCEPT ![Asker] = tree'[IF o.kind = "rename" THEN o.new
                                                                               ELSE o.path]]
                       ELSE did
     /\ Verdict(Oldest.id, fits)
  /\ NoAsk /\ Rest

(* ShareDelete: what is there now is shown to the user, if a permit is free *)
RouteDelete ==
  /\ Taken({"delete"})
  /\ IF rights /\ There(Op[Asker].path) /\ permits > 0
     THEN /\ permits' = permits - 1
          /\ ask' = [ask EXCEPT ![Asker] = [st |-> "asked", file |-> tree[Op[Asker].path],
                                            yes |-> FALSE]]
          /\ back' = back
     ELSE /\ UNCHANGED <<permits, ask>>
          /\ Verdict(Oldest.id, FALSE)
  /\ UNCHANGED <<shelf, tree, did>> /\ Rest

------------------------------------------------------------------------------
(* The confirmation *)

Sess == UNCHANGED <<asking, out, inbox, link, drops, shared, rights, edits>>

(* the shell takes the question from the channel and shows it *)
Show(t) ==
  /\ ask[t].st = "asked" /\ t \notin shelf
  /\ shelf' = shelf \cup {t}
  /\ UNCHANGED <<ask, permits, tree, did, back>> /\ Sess

(* respond_delete: the question leaves the table whatever has become of it *)
Respond(t) ==
  /\ t \in shelf
  /\ shelf' = shelf \ {t}
  /\ \E yes \in BOOLEAN :
       ask' = IF ask[t].st = "asked"
              THEN [ask EXCEPT ![t] = [@ EXCEPT !.st = "answered", !.yes = yes]] ELSE ask
  /\ UNCHANGED <<permits, tree, did, back>> /\ Sess

(* a deletion that nobody answered goes ahead *)
Expire_open(t) ==
  /\ ask[t].st = "asked"
  /\ permits' = permits + 1
  /\ LET goes == There(Op[t].path) IN
     /\ ask' = [ask EXCEPT ![t].st = "over"]
     /\ tree' = IF goes THEN [tree EXCEPT ![Op[t].path] = NoFile] ELSE tree
     /\ did' = IF goes THEN [did EXCEPT ![t] = tree[Op[t].path]] ELSE did
     /\ Verdict(<<t, task[t].n>>, goes)
  /\ UNCHANGED shelf /\ Sess

(* nobody answered before the deadline: the answer is no *)
Expire(t) ==
  /\ ask[t].st = "asked"
  /\ ask' = [ask EXCEPT ![t].st = "over"]
  /\ permits' = permits + 1
  /\ Verdict(<<t, task[t].n>>, FALSE)
  /\ UNCHANGED <<shelf, tree, did>> /\ Sess

(* three seconds later the shell forgets the question *)
Forget(t) ==
  /\ t \in shelf /\ ask[t].st = "over"
  /\ shelf' = shelf \ {t}
  /\ UNCHANGED <<ask, permits, tree, did, back>> /\ Sess

(* the waiting task wakes: the permit is free, the path is looked up again *)
Carry(t) ==
  /\ ask[t].st = "answered"
  /\ permits' = permits + 1
  /\ LET goes == ask[t].yes /\ There(Op[t].path) IN
     /\ ask' = [ask EXCEPT ![t].st = "over"]
     /\ tree' = IF goes THEN [tree EXCEPT ![Op[t].path] = NoFile] ELSE tree
     /\ did' = IF goes THEN [did EXCEPT ![t] = tree[Op[t].path]] ELSE did
     /\ Verdict(<<t, task[t].n>>, goes)
  /\ UNCHANGED shelf /\ Sess

------------------------------------------------------------------------------
(* The owner replaces a file, removes one, stops sharing, or takes the right away *)

Owner ==
  /\ edits < FolderEdits /\ edits' = edits + 1
  /\ \/ \E n \in Name, f \in {NoFile, [by |-> "owner", n |-> edits]} :
          tree' = [tree EXCEPT ![n] = f] /\ tree[n] # NoFile /\ UNCHANGED <<shared, rights>>
     \/ shared' = FALSE /\ UNCHANGED <<tree, rights>>
     \/ rights' = FALSE /\ UNCHANGED <<tree, shared>>
  /\ UNCHANGED <<asking, out, inbox, back, link, drops, ask, shelf, permits, did>>

RNext ==
  \/ \E t \in Task : Begin(t) \/ GiveUp(t) \/ NextPage(t) \/ Show(t) \/ Respond(t)
                     \/ Expire(t) \/ Forget(t) \/ Carry(t)
  \/ Answer \/ Arrive \/ SessionLost \/ SessionBack
  \/ RouteList \/ RouteMetaReq \/ RouteEdit \/ RouteDelete
  \/ Owner

RSpec == RInit /\ [][RNext]_rvars

------------------------------------------------------------------------------
Ended == {"done", "refused", "failed", "unknown"}

RTypeOK ==
  /\ task \in [Task -> [st : Ended \cup {"idle", "waiting", "paging"}, n : Nat, cursor : Nat,
                        got : SUBSET Entries]]
  /\ Len(inbox) =< CtrlCap
  /\ permits \in 0 .. Permits
  /\ ask \in [Task -> [st : {"none", "asked", "answered", "over"}, file : Entries, yes : BOOLEAN]]
  /\ tree \in [Name -> Entries] /\ did \in [Task -> Entries]
  /\ shelf \subseteq Task /\ edits \in Nat

(* A request that is waited for is registered, so that its answer finds it  *)
(* whatever the other requests do (session.rs: pending_rpcs).               *)
WaiterRegistered == \A t \in Task : task[t].st = "waiting" => Id(t) \in pending

(* An operation that is reported done was done, and one that was refused     *)
(* left the folder alone: however long the confirmation took, whatever       *)
(* became of the session in between (engine.rs: ShareOpResult).              *)
VerdictTrue ==
  \A t \in Task : Op[t].kind \in {"rename", "mkdir", "delete"} =>
    /\ task[t].st = "done" => did[t] # NoFile
    /\ task[t].st = "refused" => did[t] = NoFile

(* A remote deletion happens only after its user has said yes to it: no      *)
(* answer, a late one or a closed channel is a no (engine.rs: fail-closed).  *)
DeletesAllowed ==
  \A t \in Task : did'[t] # did[t] /\ Op[t].kind = "delete" =>
    ask[t].st = "answered" /\ ask[t].yes /\ t \notin shelf
DeleteAllowed == [][DeletesAllowed]_rvars

(* Every permit is free or belongs to one deletion that waits for its answer *)
(* (engine.rs: delete_permits); a lost one would refuse deletions for good.  *)
PermitsConserved ==
  permits + Cardinality({t \in Task : ask[t].st \in {"asked", "answered"}}) = Permits

(* Operations on a remote folder: who waits is registered, what is reported  *)
(* is what was done, and no permit is lost (session.rs send_rpc, engine.rs). *)
RemoteSound == RTypeOK /\ WaiterRegistered /\ VerdictTrue /\ PermitsConserved
===============================================================================

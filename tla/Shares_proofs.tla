----------------------------- MODULE Shares_proofs -----------------------------
(***************************************************************************)
(* Proofs about shared folders: the operations on a remote folder          *)
(* (RemoteOps) and the watcher of the shares (ShareWatch), for any number  *)
(* of operations, files, permits, edits and lost sessions.                 *)
(***************************************************************************)
EXTENDS RemoteOps, ShareWatch, FiniteSetTheorems, SequenceTheorems, TLAPS

-----------------------------------------------------------------------------
(* The requests under way. Each is there once, and numbered by its task.    *)
Req   == [id : Task \X Nat, cursor : Nat]
Ids(s) == {s[i].id : i \in 1 .. Len(s)}
Once(s) == \A i, j \in 1 .. Len(s) : s[i].id = s[j].id => i = j

Numbered ==
  /\ out \in Seq(Req) /\ inbox \in Seq(Req)
  /\ Once(out) /\ Once(inbox) /\ Ids(out) \cap Ids(inbox) = {}
  /\ \A r \in Ids(out) \cup Ids(inbox) : 1 =< r[2] /\ r[2] =< task[r[1]].n
  /\ \A t \in Task : task[t].st = "idle" => task[t].n = 0

(* What is kept of an operation.                                            *)
State == [st : Ended \cup {"idle", "waiting", "paging"}, n : Nat, cursor : Nat, got : SUBSET Entries]

(* The answers under way.                                                   *)
Res == [id : Task \X Nat, ok : BOOLEAN, found : SUBSET Entries, next : Nat]
Replied(t) == \E i \in 1 .. Len(back) : back[i].id[1] = t

(* The operations that change the folder are asked for once.                *)
Edit == {t \in Task : Op[t].kind \in {"rename", "mkdir", "delete"}}
OnWay(t) == <<t, 1>> \in Ids(out) \cup Ids(inbox)
Untouched(t) == did[t] = NoFile /\ ~Replied(t)

(* An operation changes the folder once: until its request is served, or    *)
(* while the user is asked, nothing has been done and nothing is answered;  *)
(* what is answered then says what was done.                                *)
Served ==
  /\ back \in Seq(Res)
  /\ \A t \in Edit :
       /\ task[t].n =< 1 /\ task[t].st # "paging"
       /\ task[t].st = "idle" \/ OnWay(t) => Untouched(t) /\ ask[t].st = "none"
       /\ OnWay(t) => task[t].st \notin {"done", "refused"}
  /\ \A t \in Task : ask[t].st \in {"asked", "answered"} =>
       t \in Edit /\ Untouched(t) /\ task[t].st \notin {"done", "refused"}
  /\ \A i \in 1 .. Len(back) : back[i].id[1] \in Edit => (back[i].ok <=> did[back[i].id[1]] # NoFile)

(* The shell's table has no question that is answered.                      *)
Shelved == \A t \in shelf : ask[t].st \in {"asked", "over"}

RInv ==
  /\ RTypeOK /\ Numbered /\ Served /\ Shelved
  /\ WaiterRegistered /\ VerdictTrue /\ PermitsConserved

(* What is appended to a queue, and what is taken from it.                  *)
LEMMA Appended ==
  ASSUME NEW S, NEW s \in Seq(S), NEW e \in S
  PROVE  /\ Append(s, e) \in Seq(S)
         /\ Ids(Append(s, e)) = Ids(s) \cup {e.id}
         /\ Once(s) /\ e.id \notin Ids(s) => Once(Append(s, e))
         /\ \A i \in 1 .. Len(Append(s, e)) :
              (i \in 1 .. Len(s) /\ Append(s, e)[i] = s[i]) \/ Append(s, e)[i] = e
<1>1. /\ Append(s, e) \in Seq(S) /\ Len(Append(s, e)) = Len(s) + 1 /\ Len(s) \in Nat
      /\ Append(s, e)[Len(s) + 1] = e
      /\ \A i \in 1 .. Len(s) : Append(s, e)[i] = s[i]
  OBVIOUS
<1>2. \A i \in 1 .. Len(s) + 1 : i \in 1 .. Len(s) \/ i = Len(s) + 1
  BY <1>1
<1>3. Ids(Append(s, e)) = Ids(s) \cup {e.id}
  BY <1>1, <1>2 DEF Ids
<1>4. Once(s) /\ e.id \notin Ids(s) => Once(Append(s, e))
  BY <1>1, <1>2 DEF Ids, Once
<1> QED
  BY <1>1, <1>2, <1>3, <1>4

LEMMA Taking ==
  ASSUME NEW S, NEW s \in Seq(S), s # <<>>
  PROVE  /\ Tail(s) \in Seq(S) /\ Head(s) \in S /\ Head(s) = s[1] /\ 1 \in 1 .. Len(s)
         /\ Len(Tail(s)) = Len(s) - 1
         /\ Ids(Tail(s)) \subseteq Ids(s) /\ Head(s).id \in Ids(s)
         /\ Once(s) => Once(Tail(s)) /\ Head(s).id \notin Ids(Tail(s))
         /\ \A i \in 1 .. Len(Tail(s)) : i + 1 \in 1 .. Len(s) /\ Tail(s)[i] = s[i + 1]
<1>1. /\ Tail(s) \in Seq(S) /\ Head(s) \in S /\ Head(s) = s[1]
      /\ Len(s) \in Nat /\ Len(s) >= 1 /\ Len(Tail(s)) = Len(s) - 1
      /\ \A i \in 1 .. Len(Tail(s)) : Tail(s)[i] = s[i + 1]
  OBVIOUS
<1>2. 1 \in 1 .. Len(s) /\ \A i \in 1 .. Len(Tail(s)) : i + 1 \in 1 .. Len(s) /\ i + 1 # 1
  BY <1>1
<1>3. Ids(Tail(s)) \subseteq Ids(s) /\ Head(s).id \in Ids(s)
  BY <1>1, <1>2 DEF Ids
<1>4. ASSUME Once(s) PROVE Once(Tail(s)) /\ Head(s).id \notin Ids(Tail(s))
  <2>1. Once(Tail(s))
    BY <1>1, <1>2, <1>4 DEF Once
  <2>2. ASSUME NEW i \in 1 .. Len(Tail(s)) PROVE Tail(s)[i].id # Head(s).id
    BY <1>1, <1>2, <1>4 DEF Once
  <2> QED
    BY <2>1, <2>2 DEF Ids
<1> QED
  BY <1>1, <1>2, <1>3, <1>4

(* The request of an edit is its first one.                                 *)
LEMMA FirstRequest ==
  ASSUME RInv, inbox # <<>>, Op[Asker].kind \in {"rename", "mkdir", "delete"}
  PROVE  Oldest \in Req /\ Asker \in Edit /\ Oldest.id = <<Asker, 1>> /\ OnWay(Asker)
<1>1. Oldest \in Req /\ Oldest.id \in Ids(inbox)
  BY Taking DEF RInv, Numbered, Oldest
<1>2. Asker \in Edit /\ Oldest.id = <<Asker, Oldest.id[2]>> /\ Oldest.id[2] \in Nat
  BY <1>1 DEF Asker, Edit, Req
<1>3. 1 =< Oldest.id[2] /\ Oldest.id[2] =< task[Asker].n /\ task[Asker].n =< 1
  BY <1>1, <1>2 DEF RInv, Numbered, Served, Asker
<1>4. Oldest.id[2] = 1
  <2>1. task[Asker].n \in Nat
    BY <1>2 DEF RInv, RTypeOK, Edit
  <2> QED
    BY <1>2, <1>3, <2>1
<1> QED
  BY <1>1, <1>2, <1>4 DEF OnWay

LEMMA RemoteBegins == RInit => RInv
<1> SUFFICES ASSUME RInit PROVE RInv
  OBVIOUS
<1> USE RemoteAssumption
<1>1. RTypeOK
  <2>1. NoFile \in Entries /\ \A n \in Name : First(n) \in Entries
    BY DEF NoFile, Entries, First
  <2>2. task \in [Task -> State]
    BY DEF RInit, State
  <2>3. ask \in [Task -> [st : {"none", "asked", "answered", "over"}, file : Entries, yes : BOOLEAN]]
    BY <2>1 DEF RInit
  <2>4. Len(inbox) =< CtrlCap /\ permits \in 0 .. Permits
    BY DEF RInit
  <2> QED
    BY <2>1, <2>2, <2>3, <2>4 DEF RInit, RTypeOK, State
<1>2. /\ out = <<>> /\ inbox = <<>> /\ back = <<>> /\ Len(<<>>) = 0 /\ Ids(<<>>) = {} /\ Once(<<>>)
      /\ <<>> \in Seq(Req) /\ <<>> \in Seq(Res)
  BY DEF RInit, Ids, Once
<1>3. Numbered
  BY <1>2 DEF RInit, Numbered
<1>4. Served
  BY <1>2 DEF RInit, Served, Edit, Untouched, Replied, OnWay
<1>5. Shelved /\ WaiterRegistered /\ VerdictTrue
  BY DEF RInit, Shelved, WaiterRegistered, VerdictTrue
<1>6. PermitsConserved
  <2>1. {t \in Task : ask[t].st \in {"asked", "answered"}} = {}
    BY DEF RInit
  <2>2. Cardinality({t \in Task : ask[t].st \in {"asked", "answered"}}) = 0
    BY <2>1, FS_EmptySet
  <2> QED
    BY <2>2 DEF RInit, PermitsConserved
<1> QED
  BY <1>1, <1>3, <1>4, <1>5, <1>6 DEF RInv

(* An answer is sent, if the session is there.                              *)
LEMMA Replying ==
  ASSUME NEW b \in Seq(Res), NEW r \in Res
  PROVE  /\ Append(b, r) \in Seq(Res) /\ Append(b, r) # b
         /\ \A i \in 1 .. Len(Append(b, r)) :
              (i \in 1 .. Len(b) /\ Append(b, r)[i] = b[i]) \/ Append(b, r)[i] = r
<1>1. Len(Append(b, r)) = Len(b) + 1 /\ Len(b) \in Nat
  OBVIOUS
<1>2. Append(b, r) # b
  BY <1>1
<1> QED
  BY <1>2, Appended

(* A request is sent, or fails for want of a session.                       *)
LEMMA SendStep ==
  ASSUME RInv, NEW t \in Task, NEW lost \in SUBSET {Id(t)}, Send(t, lost),
         task[t].st \in {"idle", "paging", "waiting"}, t \in Edit => task[t].st = "idle",
         UNCHANGED <<inbox, back, link, drops, owner>>
  PROVE  RInv'
<1>0. /\ UNCHANGED <<tree, shared, rights, ask, shelf, permits, did, edits>>
      /\ task[t] \in State
      /\ task[t].n \in Nat
  BY DEF owner, RInv, RTypeOK, State
<1>1. /\ task' \in [Task -> State]
      /\ \A u \in Task \ {t} : task'[u] = task[u]
      /\ \/ /\ task'[t].st = "waiting" /\ task'[t].n = task[t].n + 1
            /\ pending' = (pending \ lost) \cup {<<t, task'[t].n>>}
            /\ out' = Append(out, [id |-> <<t, task'[t].n>>, cursor |-> task[t].cursor])
         \/ task'[t].st = "failed" /\ task'[t].n = task[t].n /\ pending' = pending \ lost /\ out' = out
  <2>1. task \in [Task -> State]
    BY DEF RInv, RTypeOK, State
  <2>2. CASE link
    <3> DEFINE m == task[t].n + 1
               new == [task[t] EXCEPT !.st = "waiting", !.n = m]
    <3>1. new \in State /\ new.st = "waiting" /\ new.n = task[t].n + 1
      <4>1. m \in Nat
        BY <1>0
      <4> HIDE DEF m
      <4>2. new \in State /\ new.st = "waiting" /\ new.n = m
        BY <1>0, <4>1 DEF State
      <4> HIDE DEF new
      <4> QED
        BY <4>2 DEF m
    <3>2. task' = [task EXCEPT ![t] = new]
      BY <2>2 DEF Send
    <3>3. /\ pending' = (pending \ lost) \cup {<<t, task[t].n + 1>>}
          /\ out' = Append(out, [id |-> <<t, task[t].n + 1>>, cursor |-> task[t].cursor])
      BY <2>2 DEF Send
    <3> HIDE DEF new, m
    <3> QED
      BY <2>1, <3>1, <3>2, <3>3
  <2>3. CASE ~link
    <3> DEFINE new == [task[t] EXCEPT !.st = "failed"]
    <3>1. new \in State /\ new.st = "failed" /\ new.n = task[t].n
      BY <1>0 DEF State, Ended
    <3>2. task' = [task EXCEPT ![t] = new] /\ pending' = pending \ lost /\ out' = out
      BY <2>3 DEF Send
    <3> HIDE DEF new
    <3> QED
      BY <2>1, <3>1, <3>2
  <2> QED
    BY <2>2, <2>3
<1>2. /\ out' \in Seq(Req) /\ Once(out') /\ Ids(out') \subseteq Ids(out) \cup {<<t, task'[t].n>>}
      /\ <<t, task'[t].n>> \in Ids(out') \/ out' = out
      /\ Ids(out') \cap Ids(inbox) = {}
      /\ \A r \in Ids(out') \cup Ids(inbox) : 1 =< r[2] /\ r[2] =< task'[r[1]].n
  <2>0. /\ out \in Seq(Req) /\ Once(out) /\ Ids(out) \cap Ids(inbox) = {}
        /\ \A r \in Ids(out) \cup Ids(inbox) : r \in Task \X Nat /\ 1 =< r[2] /\ r[2] =< task[r[1]].n
        /\ \A r \in Task \X Nat : r = <<r[1], r[2]>> /\ r[1] \in Task /\ r[2] \in Nat
    <3>1. /\ out \in Seq(Req) /\ Once(out) /\ Ids(out) \cap Ids(inbox) = {} /\ inbox \in Seq(Req)
          /\ \A r \in Ids(out) \cup Ids(inbox) : 1 =< r[2] /\ r[2] =< task[r[1]].n
      BY DEF RInv, Numbered
    <3>2. \A s \in Seq(Req) : \A r \in Ids(s) : r \in Task \X Nat
      <4> SUFFICES ASSUME NEW s \in Seq(Req), NEW i \in 1 .. Len(s) PROVE s[i].id \in Task \X Nat
        BY DEF Ids
      <4>1. s[i] \in Req
        OBVIOUS
      <4> QED
        BY <4>1 DEF Req
    <3> QED
      BY <3>1, <3>2
  <2>1. CASE out' = out
    <3>1. task'[t].n >= task[t].n /\ \A u \in Task : task[u].n \in Nat /\ task'[u].n \in Nat
      BY <1>0, <1>1 DEF RInv, RTypeOK, State
    <3>2. ASSUME NEW r \in Ids(out) \cup Ids(inbox) PROVE r[2] =< task'[r[1]].n
      <4>1. r[1] \in Task /\ r[2] \in Nat /\ r[2] =< task[r[1]].n
        BY <2>0
      <4>2. task'[r[1]].n >= task[r[1]].n /\ task[r[1]].n \in Nat /\ task'[r[1]].n \in Nat
        BY <1>0, <1>1, <3>1, <4>1
      <4> QED
        BY <4>1, <4>2
    <3> QED
      BY <2>0, <2>1, <3>2
  <2>2. CASE out' # out
    <3> DEFINE e == [id |-> <<t, task[t].n + 1>>, cursor |-> task[t].cursor]
    <3>1. e \in Req /\ e.id = <<t, task[t].n + 1>> /\ out' = Append(out, e) /\ task'[t].n = task[t].n + 1
      <4>1. task[t].cursor \in Nat /\ task[t].n + 1 \in Nat
        BY <1>0 DEF State
      <4>2. <<t, task[t].n + 1>> \in Task \X Nat
        BY <4>1
      <4>3. e \in Req /\ e.id = <<t, task[t].n + 1>>
        BY <4>1, <4>2 DEF Req
      <4> HIDE DEF e
      <4>4. task'[t].n = task[t].n + 1 /\ out' = Append(out, [id |-> <<t, task[t].n + 1>>, cursor |-> task[t].cursor])
        BY <1>1, <2>2
      <4> QED
        BY <4>3, <4>4 DEF e
    <3>2. e.id \notin Ids(out) \cup Ids(inbox)
      BY <1>0, <2>0, <3>1
    <3> HIDE DEF e
    <3>3. out' \in Seq(Req) /\ Once(out') /\ Ids(out') = Ids(out) \cup {e.id}
      <4>1. out \in Seq(Req) /\ Once(out) /\ e \in Req /\ e.id \notin Ids(out)
        BY <2>0, <3>1, <3>2
      <4>2. /\ Append(out, e) \in Seq(Req) /\ Once(Append(out, e))
            /\ Ids(Append(out, e)) = Ids(out) \cup {e.id}
        BY <4>1, Appended
      <4> QED
        BY <3>1, <4>2
    <3>4. ASSUME NEW r \in Ids(out) \cup Ids(inbox) PROVE 1 =< r[2] /\ r[2] =< task'[r[1]].n
      <4>1. r[1] \in Task /\ r[2] \in Nat /\ 1 =< r[2] /\ r[2] =< task[r[1]].n
        BY <2>0
      <4>2. task'[r[1]].n = task[r[1]].n \/ (r[1] = t /\ task'[r[1]].n = task[r[1]].n + 1)
        BY <1>1, <3>1, <4>1
      <4> QED
        BY <1>0, <4>1, <4>2
    <3>5. e.id[1] = t /\ e.id[2] = task'[t].n /\ 1 =< e.id[2]
      BY <1>0, <3>1
    <3>6. e.id[2] =< task'[e.id[1]].n
      BY <1>0, <3>1, <3>5
    <3> QED
      BY <2>0, <3>1, <3>2, <3>3, <3>4, <3>5, <3>6
  <2> QED
    BY <2>1, <2>2
<1>3. RTypeOK'
  BY <1>0, <1>1 DEF RInv, RTypeOK, State
<1>4. Numbered'
  BY <1>1, <1>2 DEF RInv, Numbered
<1>5. Served'
  <2>1. ASSUME NEW u \in Edit
        PROVE  /\ task'[u].n =< 1 /\ task'[u].st # "paging"
               /\ task'[u].st = "idle" \/ OnWay(u)' => Untouched(u) /\ ask[u].st = "none"
               /\ OnWay(u)' => task'[u].st \notin {"done", "refused"}
    <3>0. u \in Task
      BY DEF Edit
    <3>1. CASE u = t
      <4>1. task[t].st = "idle" /\ task[t].n = 0
        BY <3>1 DEF RInv, Numbered
      <4> QED
        BY <1>1, <3>1, <4>1 DEF RInv, Served
    <3>2. CASE u # t
      <4>1. OnWay(u)' => OnWay(u)
        BY <1>2, <3>2 DEF OnWay
      <4> QED
        BY <1>1, <3>0, <3>2, <4>1 DEF RInv, Served
    <3> QED
      BY <3>1, <3>2
  <2>2. \A u \in Task : ask[u].st \in {"asked", "answered"} => task'[u].st \notin {"done", "refused"}
    BY <1>1 DEF RInv, Served
  <2>3. Edit' = Edit /\ \A u : Untouched(u)' <=> Untouched(u)
    BY <1>0 DEF Edit, Untouched, Replied
  <2> QED
    BY <1>0, <2>1, <2>2, <2>3 DEF RInv, Served
<1>6. WaiterRegistered'
  <2> SUFFICES ASSUME NEW u \in Task, task'[u].st = "waiting" PROVE <<u, task'[u].n>> \in pending'
    BY DEF WaiterRegistered, Id
  <2>1. CASE u = t
    BY <1>1, <2>1
  <2>2. CASE u # t
    BY <1>1, <2>2 DEF RInv, WaiterRegistered, Id
  <2> QED
    BY <2>1, <2>2
<1>7. VerdictTrue'
  BY <1>0, <1>1 DEF RInv, VerdictTrue
<1>8. Shelved' /\ PermitsConserved'
  BY <1>0 DEF RInv, Shelved, PermitsConserved
<1> QED
  BY <1>3, <1>4, <1>5, <1>6, <1>7, <1>8 DEF RInv

(* A request names its task.                                                *)
LEMMA OnTask ==
  ASSUME RInv, NEW r \in Ids(out) \cup Ids(inbox)
  PROVE  r \in Task \X Nat /\ r[1] \in Task /\ r[2] \in Nat /\ r = <<r[1], r[2]>>
<1>1. ASSUME NEW s \in Seq(Req), NEW i \in 1 .. Len(s) PROVE s[i].id \in Task \X Nat
  <2>1. s[i] \in Req
    OBVIOUS
  <2> QED
    BY <2>1 DEF Req
<1>2. r \in Task \X Nat
  BY <1>1 DEF RInv, Numbered, Ids
<1> QED
  BY <1>2

(* A caller gives up.                                                       *)
LEMMA GiveUpStep ==
  ASSUME RInv, NEW t \in Task, GiveUp(t)
  PROVE  RInv'
<1>1. CASE Op[t].kind \in {"shares", "list"} /\ task[t].n = 1
  <2>1. Send(t, {Id(t)}) /\ task[t].st = "waiting" /\ UNCHANGED <<inbox, back, link, drops, owner>>
    BY <1>1 DEF GiveUp
  <2>2. t \notin Edit
    BY <1>1 DEF Edit
  <2> QED
    BY <2>1, <2>2, SendStep
<1>2. CASE ~(Op[t].kind \in {"shares", "list"} /\ task[t].n = 1)
  <2>1. /\ task[t].st = "waiting" /\ task' = [task EXCEPT ![t].st = "unknown"]
        /\ pending' = pending \/ pending' = pending \ {Id(t)}
        /\ UNCHANGED <<out, inbox, back, link, drops, tree, shared, rights, ask, shelf, permits, did, edits>>
    BY <1>2 DEF GiveUp, owner
  <2>2. /\ task' \in [Task -> State] /\ task'[t].st = "unknown" /\ task'[t].n = task[t].n
        /\ \A u \in Task \ {t} : task'[u] = task[u]
    BY <2>1 DEF RInv, RTypeOK, State, Ended
  <2>3. RTypeOK'
    BY <2>1, <2>2 DEF RInv, RTypeOK, State
  <2>4. \A u \in Task : task'[u].n = task[u].n
    BY <2>2
  <2>5. Numbered'
    <3>1. ASSUME NEW r \in Ids(out) \cup Ids(inbox) PROVE task'[r[1]].n = task[r[1]].n
      <4>1. r[1] \in Task
        BY OnTask
      <4> QED
        BY <2>4, <4>1
    <3>2. \A u \in Task : task'[u].st = "idle" => task'[u].n = 0
      BY <2>2 DEF RInv, Numbered
    <3> QED
      BY <2>1, <3>1, <3>2 DEF RInv, Numbered
  <2>6. Served'
    <3>1. \A u : (OnWay(u)' <=> OnWay(u)) /\ (Untouched(u)' <=> Untouched(u))
      BY <2>1 DEF OnWay, Untouched, Replied
    <3> QED
      BY <2>1, <2>2, <2>4, <3>1 DEF RInv, Served, Edit
  <2>7. WaiterRegistered'
    BY <2>1, <2>2 DEF RInv, WaiterRegistered, Id
  <2>8. VerdictTrue' /\ Shelved' /\ PermitsConserved'
    BY <2>1, <2>2 DEF RInv, VerdictTrue, Shelved, PermitsConserved
  <2> QED
    BY <2>3, <2>5, <2>6, <2>7, <2>8 DEF RInv
<1> QED
  BY <1>1, <1>2

(* An answer goes to whoever waits for it, and says what was done.          *)
LEMMA AnswerStep ==
  ASSUME RInv, Answer
  PROVE  RInv'
<1> DEFINE r == Head(back)
<1>1. /\ back # <<>> /\ back' = Tail(back) /\ task' = Answered(r) /\ pending' = pending \ {r.id}
      /\ UNCHANGED <<out, inbox, link, drops, tree, shared, rights, ask, shelf, permits, did, edits>>
  BY DEF Answer, owner
<1>2. r \in Res /\ Replied(r.id[1]) /\ (r.id[1] \in Edit => (r.ok <=> did[r.id[1]] # NoFile))
  <2>1. back \in Seq(Res)
    BY DEF RInv, Served
  <2>2. r \in Res /\ r = back[1] /\ 1 \in 1 .. Len(back)
    BY <1>1, <2>1, Taking
  <2> QED
    BY <2>2 DEF RInv, Served, Replied
<1> HIDE DEF r
<1>3. \A t \in Task : t \in Waiter(r) <=> r.id \in pending /\ r.id = <<t, task[t].n>> /\ task[t].st = "waiting"
  BY DEF Waiter, Id
<1>4. /\ task' \in [Task -> State]
      /\ \A t \in Task : t \notin Waiter(r) => task'[t] = task[t]
      /\ \A t \in Waiter(r) : /\ task'[t].n = task[t].n
                              /\ \/ Op[t].kind = "walk" /\ task'[t].st = "paging"
                                 \/ r.ok /\ task'[t].st = "done"
                                 \/ ~r.ok /\ task'[t].st = "refused"
  <2> DEFINE all(t) == task[t].got \cup r.found
             met(t) == [task[t] EXCEPT !.got = all(t), !.cursor = r.next, !.st = GoesOn(t, r)]
  <2>1. \A t \in Task : task[t] \in State
    BY DEF RInv, RTypeOK, State
  <2>2. \A t : GoesOn(t, r) \in {"paging", "done", "refused"} /\ (GoesOn(t, r) = "paging" => Op[t].kind = "walk")
                /\ (GoesOn(t, r) = "done" => r.ok) /\ (GoesOn(t, r) = "refused" => ~r.ok)
    BY DEF GoesOn
  <2>3. task' = [t \in Task |-> IF t \notin Waiter(r) THEN task[t] ELSE met(t)]
    BY <1>1 DEF Answered
  <2>4. ASSUME NEW t \in Task
        PROVE  met(t) \in State /\ met(t).n = task[t].n /\ met(t).st = GoesOn(t, r)
    <3>1. all(t) \in SUBSET Entries /\ r.next \in Nat
      BY <1>2, <2>1 DEF State, Res
    <3>2. GoesOn(t, r) \in Ended \cup {"idle", "waiting", "paging"}
      BY <2>2 DEF Ended
    <3> HIDE DEF all
    <3> QED
      BY <2>1, <3>1, <3>2 DEF State
  <2>5. Waiter(r) \subseteq Task
    BY DEF Waiter
  <2> HIDE DEF met
  <2> QED
    BY <2>1, <2>2, <2>3, <2>4, <2>5
<1>5. /\ \A t \in Task : task'[t].n = task[t].n
      /\ \A t \in Task : task'[t].st = "idle" => task[t].st = "idle"
  BY <1>4 DEF Waiter
<1>6. /\ back' \in Seq(Res)
      /\ \A t : Replied(t)' => Replied(t)
      /\ \A i \in 1 .. Len(back') : i + 1 \in 1 .. Len(back) /\ back'[i] = back[i + 1]
  <2>1. back \in Seq(Res)
    BY DEF RInv, Served
  <2>2. back' \in Seq(Res) /\ \A i \in 1 .. Len(back') : i + 1 \in 1 .. Len(back) /\ back'[i] = back[i + 1]
    BY <1>1, <2>1, Taking
  <2> QED
    BY <2>2 DEF Replied
<1>7. ASSUME NEW t \in Edit
      PROVE  t \in Waiter(r) => /\ ~OnWay(t) /\ ask[t].st \notin {"asked", "answered"}
                                /\ \/ task'[t].st = "done" /\ did[t] # NoFile
                                   \/ task'[t].st = "refused" /\ did[t] = NoFile
  <2> SUFFICES ASSUME t \in Waiter(r)
               PROVE  /\ ~OnWay(t) /\ ask[t].st \notin {"asked", "answered"}
                      /\ \/ task'[t].st = "done" /\ did[t] # NoFile
                         \/ task'[t].st = "refused" /\ did[t] = NoFile
    OBVIOUS
  <2>1. t \in Task /\ Op[t].kind # "walk" /\ r.id[1] = t
    BY <1>3 DEF Edit
  <2>2. Replied(t) /\ (r.ok <=> did[t] # NoFile)
    BY <1>2, <2>1
  <2>3. ~OnWay(t) /\ ask[t].st \notin {"asked", "answered"}
    BY <2>1, <2>2 DEF RInv, Served, Untouched
  <2> QED
    BY <1>4, <2>1, <2>2, <2>3
<1>8. RTypeOK'
  BY <1>1, <1>4 DEF RInv, RTypeOK, State
<1>9. Numbered'
  <2>1. \A x \in Ids(out) \cup Ids(inbox) : task'[x[1]].n = task[x[1]].n
    BY <1>5, OnTask
  <2> QED
    BY <1>1, <1>5, <2>1 DEF RInv, Numbered
<1>10. Served'
  <2>1. \A t : (OnWay(t)' <=> OnWay(t)) /\ (Untouched(t) => Untouched(t)')
    BY <1>1, <1>6 DEF OnWay, Untouched
  <2>2. ASSUME NEW t \in Edit
        PROVE  /\ task'[t].n =< 1 /\ task'[t].st # "paging"
               /\ task'[t].st = "idle" \/ OnWay(t) => Untouched(t)' /\ ask[t].st = "none"
               /\ OnWay(t) => task'[t].st \notin {"done", "refused"}
    <3>1. t \in Task
      BY DEF Edit
    <3> QED
      BY <1>4, <1>5, <1>7, <2>1, <3>1 DEF RInv, Served
  <2>3. ASSUME NEW t \in Task, ask[t].st \in {"asked", "answered"}
        PROVE  t \in Edit /\ Untouched(t)' /\ task'[t].st \notin {"done", "refused"}
    BY <1>4, <1>7, <2>1, <2>3 DEF RInv, Served
  <2>4. ASSUME NEW i \in 1 .. Len(back'), back'[i].id[1] \in Edit
        PROVE  back'[i].ok <=> did[back'[i].id[1]] # NoFile
    BY <1>6, <2>4 DEF RInv, Served
  <2> QED
    BY <1>1, <1>6, <2>1, <2>2, <2>3, <2>4 DEF Served, Edit
<1>11. WaiterRegistered'
  <2> SUFFICES ASSUME NEW t \in Task, task'[t].st = "waiting" PROVE <<t, task'[t].n>> \in pending'
    BY DEF WaiterRegistered, Id
  <2>1. t \notin Waiter(r) /\ task'[t] = task[t]
    BY <1>4
  <2>2. <<t, task[t].n>> \in pending
    BY <2>1 DEF RInv, WaiterRegistered, Id
  <2> QED
    BY <1>1, <1>3, <2>1, <2>2
<1>12. VerdictTrue'
  <2> SUFFICES ASSUME NEW t \in Task, Op[t].kind \in {"rename", "mkdir", "delete"}
               PROVE  /\ task'[t].st = "done" => did[t] # NoFile
                      /\ task'[t].st = "refused" => did[t] = NoFile
    BY <1>1 DEF VerdictTrue
  <2>1. t \in Edit
    BY DEF Edit
  <2> QED
    BY <1>4, <1>7, <2>1 DEF RInv, VerdictTrue
<1>13. Shelved' /\ PermitsConserved'
  BY <1>1 DEF RInv, Shelved, PermitsConserved
<1> QED
  BY <1>8, <1>9, <1>10, <1>11, <1>12, <1>13 DEF RInv

(* The session carries requests over, drops them or is lost with them.      *)
LEMMA SessionStep ==
  ASSUME RInv, Arrive \/ SessionLost \/ SessionBack
  PROVE  RInv'
<1>1. UNCHANGED <<task, pending, tree, shared, rights, ask, shelf, permits, did, edits>>
  BY DEF Arrive, SessionLost, SessionBack, asking, owner
<1>2. /\ out' \in Seq(Req) /\ inbox' \in Seq(Req) /\ Once(out') /\ Once(inbox')
      /\ Ids(out') \cap Ids(inbox') = {} /\ Ids(out') \cup Ids(inbox') \subseteq Ids(out) \cup Ids(inbox)
      /\ Len(inbox') =< CtrlCap
  <2>1. /\ out \in Seq(Req) /\ inbox \in Seq(Req) /\ Once(out) /\ Once(inbox)
        /\ Ids(out) \cap Ids(inbox) = {} /\ Len(inbox) =< CtrlCap
    BY DEF RInv, Numbered, RTypeOK
  <2>2. CASE Arrive
    <3>1. /\ out # <<>> /\ out' = Tail(out)
          /\ \/ Len(inbox) < CtrlCap /\ inbox' = Append(inbox, Head(out))
             \/ inbox' = inbox
      BY <2>2 DEF Arrive
    <3>2. /\ Tail(out) \in Seq(Req) /\ Head(out) \in Req /\ Ids(Tail(out)) \subseteq Ids(out)
          /\ Head(out).id \in Ids(out) /\ Once(Tail(out)) /\ Head(out).id \notin Ids(Tail(out))
      BY <2>1, <3>1, Taking
    <3>3. /\ Append(inbox, Head(out)) \in Seq(Req) /\ Once(Append(inbox, Head(out)))
          /\ Ids(Append(inbox, Head(out))) = Ids(inbox) \cup {Head(out).id}
      BY <2>1, <3>2, Appended
    <3>4. Len(inbox) < CtrlCap => Len(Append(inbox, Head(out))) =< CtrlCap
      BY <2>1, <3>2, RemoteAssumption
    <3> QED
      BY <2>1, <3>1, <3>2, <3>3, <3>4
  <2>3. CASE SessionLost
    <3>1. <<>> \in Seq(Req) /\ Once(<<>>) /\ Ids(<<>>) = {}
      BY DEF Once, Ids
    <3> QED
      BY <2>1, <2>3, <3>1 DEF SessionLost
  <2>4. CASE SessionBack
    BY <2>1, <2>4 DEF SessionBack
  <2> QED
    BY <2>2, <2>3, <2>4
<1>3. back' \in Seq(Res) /\ (back' = back \/ Len(back') = 0)
  <2>1. <<>> \in Seq(Res) /\ Len(<<>>) = 0
    OBVIOUS
  <2> QED
    BY <2>1 DEF Arrive, SessionLost, SessionBack, RInv, Served
<1>4. RTypeOK'
  BY <1>1, <1>2 DEF RInv, RTypeOK
<1>5. Numbered'
  BY <1>1, <1>2 DEF RInv, Numbered
<1>6. Served'
  <2>1. \A t : (OnWay(t)' => OnWay(t)) /\ (Untouched(t) => Untouched(t)')
    BY <1>1, <1>2, <1>3 DEF OnWay, Untouched, Replied
  <2>2. \A i \in 1 .. Len(back') : i \in 1 .. Len(back) /\ back'[i] = back[i]
    BY <1>3
  <2> QED
    BY <1>1, <1>3, <2>1, <2>2 DEF RInv, Served, Edit
<1>7. WaiterRegistered' /\ VerdictTrue' /\ Shelved' /\ PermitsConserved'
  BY <1>1 DEF RInv, WaiterRegistered, Id, VerdictTrue, Shelved, PermitsConserved
<1> QED
  BY <1>4, <1>5, <1>6, <1>7 DEF RInv

(* The owner of the folder.                                                 *)
LEMMA OwnerStep ==
  ASSUME RInv, Owner
  PROVE  RInv'
<1>1. UNCHANGED <<task, pending, out, inbox, back, link, drops, ask, shelf, permits, did>>
  BY DEF Owner, asking
<1>2. tree' \in [Name -> Entries]
  <2>1. edits \in Nat /\ NoFile \in Entries /\ [by |-> "owner", n |-> edits] \in Entries
    BY DEF RInv, RTypeOK, NoFile, Entries
  <2> QED
    BY <2>1 DEF Owner, RInv, RTypeOK
<1>3. RTypeOK'
  <2>1. edits' \in Nat
    BY DEF Owner, RInv, RTypeOK
  <2> QED
    BY <1>1, <1>2, <2>1 DEF RInv, RTypeOK
<1>4. Numbered'
  BY <1>1 DEF RInv, Numbered
<1>5. Served'
  <2>1. \A t : (OnWay(t)' <=> OnWay(t)) /\ (Untouched(t)' <=> Untouched(t))
    BY <1>1 DEF OnWay, Untouched, Replied
  <2> QED
    BY <1>1, <2>1 DEF RInv, Served, Edit
<1>6. WaiterRegistered' /\ VerdictTrue' /\ Shelved' /\ PermitsConserved'
  BY <1>1 DEF RInv, WaiterRegistered, Id, VerdictTrue, Shelved, PermitsConserved
<1> QED
  BY <1>3, <1>4, <1>5, <1>6 DEF RInv

(* The router takes a request from the inbox.                               *)
LEMMA TakenStep ==
  ASSUME RInv, inbox # <<>>, inbox' = Tail(inbox), UNCHANGED <<task, pending, out>>
  PROVE  /\ Numbered' /\ Len(inbox') =< CtrlCap
         /\ \A t : OnWay(t)' => OnWay(t)
         /\ Oldest.id \in Task \X Nat /\ Oldest.id \notin Ids(out') \cup Ids(inbox')
         /\ Oldest.cursor \in Nat
<1>1. /\ out \in Seq(Req) /\ inbox \in Seq(Req) /\ Once(out) /\ Once(inbox)
      /\ Ids(out) \cap Ids(inbox) = {} /\ Len(inbox) =< CtrlCap
  BY DEF RInv, Numbered, RTypeOK
<1>2. /\ Tail(inbox) \in Seq(Req) /\ Head(inbox) \in Req /\ Ids(Tail(inbox)) \subseteq Ids(inbox)
      /\ Head(inbox).id \in Ids(inbox) /\ Once(Tail(inbox)) /\ Head(inbox).id \notin Ids(Tail(inbox))
      /\ Len(Tail(inbox)) = Len(inbox) - 1
  BY <1>1, Taking
<1>3. Numbered'
  BY <1>2 DEF RInv, Numbered
<1>4. \A t : OnWay(t)' => OnWay(t)
  BY <1>2 DEF OnWay
<1>5. Len(inbox') =< CtrlCap
  BY <1>1, <1>2, RemoteAssumption
<1> QED
  BY <1>1, <1>2, <1>3, <1>4, <1>5 DEF Oldest, Req

(* What is only read is answered without a trace.                           *)
LEMMA ReadStep ==
  ASSUME RInv, RouteList \/ RouteMetaReq
  PROVE  RInv'
<1>1. /\ inbox # <<>> /\ inbox' = Tail(inbox) /\ Op[Asker].kind \notin {"rename", "mkdir", "delete"}
      /\ UNCHANGED <<task, pending, out, link, drops, tree, shared, rights, ask, shelf, permits, did, edits>>
  BY DEF RouteList, RouteMetaReq, Taken, NoAsk, Rest, asking
<1>2. /\ Numbered' /\ Len(inbox') =< CtrlCap /\ (\A t : OnWay(t)' => OnWay(t))
      /\ Oldest.id \in Task \X Nat /\ Oldest.cursor \in Nat
  BY <1>1, TakenStep
<1>3. Page(Oldest.cursor) \in SUBSET Entries /\ More(Oldest.cursor) \in Nat
  BY <1>2, RemoteAssumption DEF Page, Listed, More, RInv, RTypeOK
<1>4. \E ok \in BOOLEAN, found \in SUBSET Entries, next \in Nat :
         Reply(Oldest.id, ok, found, next) \/ back' = back
  <2>1. {} \in SUBSET Entries /\ 0 \in Nat
    OBVIOUS
  <2> QED
    BY <1>3, <2>1 DEF RouteList, RouteMetaReq, Verdict
<1>5. /\ back' \in Seq(Res)
      /\ \A t : Replied(t)' => Replied(t) \/ t = Asker
      /\ \A i \in 1 .. Len(back') : \/ i \in 1 .. Len(back) /\ back'[i] = back[i]
                                    \/ back'[i].id = Oldest.id
  <2>1. PICK ok \in BOOLEAN, found \in SUBSET Entries, next \in Nat :
          Reply(Oldest.id, ok, found, next) \/ back' = back
    BY <1>4
  <2> QED
    <3> DEFINE r == [id |-> Oldest.id, ok |-> ok, found |-> found, next |-> next]
    <3>1. back \in Seq(Res) /\ (back' = back \/ back' = Append(back, r)) /\ r \in Res /\ r.id = Oldest.id
      BY <1>2, <2>1 DEF Reply, RInv, Served, Res
    <3> HIDE DEF r
    <3>2. /\ back' \in Seq(Res)
          /\ \A i \in 1 .. Len(back') : \/ i \in 1 .. Len(back) /\ back'[i] = back[i]
                                        \/ back'[i].id = Oldest.id
      BY <3>1, Replying
    <3> QED
      BY <3>2 DEF Replied, Asker
<1>6. RTypeOK'
  BY <1>1, <1>2 DEF RInv, RTypeOK
<1>7. Served'
  <2>1. Asker \notin Edit
    BY <1>1 DEF Edit
  <2>2. \A t \in Edit : Untouched(t) => Untouched(t)'
    BY <1>1, <1>5, <2>1 DEF Untouched
  <2>3. ASSUME NEW i \in 1 .. Len(back'), back'[i].id[1] \in Edit
        PROVE  back'[i].ok <=> did[back'[i].id[1]] # NoFile
    <3>1. i \in 1 .. Len(back) /\ back'[i] = back[i]
      BY <1>5, <2>1, <2>3 DEF Asker
    <3> QED
      BY <2>3, <3>1 DEF RInv, Served
  <2> QED
    BY <1>1, <1>2, <1>5, <2>2, <2>3 DEF RInv, Served, Edit
<1>8. WaiterRegistered' /\ VerdictTrue' /\ Shelved' /\ PermitsConserved'
  BY <1>1 DEF RInv, WaiterRegistered, Id, VerdictTrue, Shelved, PermitsConserved
<1> QED
  BY <1>2, <1>6, <1>7, <1>8 DEF RInv

(* An operation is decided, or its user is asked first.                     *)
LEMMA JudgedStep ==
  ASSUME RInv, NEW t \in Edit, NEW k \in Nat, NEW ok \in BOOLEAN,
         Untouched(t), task[t].st \notin {"idle", "done", "refused"},
         ~OnWay(t)', \A u : OnWay(u)' => OnWay(u), UNCHANGED <<task, pending>>,
         RTypeOK', Numbered', Shelved', PermitsConserved',
         \A u \in Task \ {t} : did'[u] = did[u] /\ ask'[u] = ask[u],
         \/ Verdict(<<t, k>>, ok) /\ (ok <=> did'[t] # NoFile) /\ ask'[t].st \notin {"asked", "answered"}
         \/ back' = back /\ did' = did
  PROVE  RInv'
<1>0. t \in Task /\ <<t, k>> \in Task \X Nat /\ {} \in SUBSET Entries /\ 0 \in Nat /\ <<t, k>>[1] = t
  BY DEF Edit
<1>1. /\ back' \in Seq(Res)
      /\ \A u : Replied(u)' => Replied(u) \/ u = t
      /\ \A i \in 1 .. Len(back') : \/ i \in 1 .. Len(back) /\ back'[i] = back[i]
                                    \/ back' # back /\ back'[i].id = <<t, k>> /\ back'[i].ok = ok
  <2> DEFINE r == [id |-> <<t, k>>, ok |-> ok, found |-> {}, next |-> 0]
  <2>1. /\ back \in Seq(Res) /\ (back' = back \/ back' = Append(back, r))
        /\ r \in Res /\ r.id = <<t, k>> /\ r.ok = ok
    BY <1>0 DEF Verdict, Reply, RInv, Served, Res
  <2> HIDE DEF r
  <2>2. /\ back' \in Seq(Res)
        /\ \A i \in 1 .. Len(back') : \/ i \in 1 .. Len(back) /\ back'[i] = back[i]
                                      \/ back' # back /\ back'[i].id = <<t, k>> /\ back'[i].ok = ok
    BY <2>1, Replying
  <2> QED
    BY <1>0, <2>2 DEF Replied
<1>2. Edit' = Edit /\ \A u \in Task \ {t} : Untouched(u) => Untouched(u)'
  BY <1>1 DEF Edit, Untouched
<1>3. ask'[t].st \in {"asked", "answered"} => Untouched(t)'
  BY DEF Untouched, Replied
<1>4. ASSUME NEW u \in Edit
      PROVE  /\ task[u].n =< 1 /\ task[u].st # "paging"
             /\ task[u].st = "idle" \/ OnWay(u)' => Untouched(u)' /\ ask'[u].st = "none"
             /\ OnWay(u)' => task[u].st \notin {"done", "refused"}
  <2>1. u \in Task
    BY DEF Edit
  <2> QED
    BY <1>2, <2>1 DEF RInv, Served
<1>5. ASSUME NEW u \in Task, ask'[u].st \in {"asked", "answered"}
      PROVE  u \in Edit /\ Untouched(u)' /\ task[u].st \notin {"done", "refused"}
  BY <1>2, <1>3, <1>5 DEF RInv, Served
<1>6. ASSUME NEW i \in 1 .. Len(back'), back'[i].id[1] \in Edit
      PROVE  back'[i].ok <=> did'[back'[i].id[1]] # NoFile
  <2>1. CASE i \in 1 .. Len(back) /\ back'[i] = back[i]
    <3>1. back[i].id[1] # t
      BY <2>1 DEF Untouched, Replied
    <3>2. back[i].id[1] \in Task \ {t}
      BY <1>6, <2>1, <3>1 DEF Edit
    <3> QED
      BY <1>6, <2>1, <3>2 DEF RInv, Served
  <2>2. CASE ~(i \in 1 .. Len(back) /\ back'[i] = back[i])
    <3>1. back'[i].id[1] = t /\ back'[i].ok = ok
      BY <1>0, <1>1, <2>2
    <3>2. back' # back
      BY <2>2
    <3> QED
      BY <3>1, <3>2
  <2> QED
    BY <2>1, <2>2
<1>7. Served'
  BY <1>1, <1>2, <1>4, <1>5, <1>6 DEF Served
<1>8. WaiterRegistered'
  BY DEF RInv, WaiterRegistered, Id
<1>9. VerdictTrue'
  <2> SUFFICES ASSUME NEW u \in Task, Op[u].kind \in {"rename", "mkdir", "delete"}
               PROVE  /\ task[u].st = "done" => did'[u] # NoFile
                      /\ task[u].st = "refused" => did'[u] = NoFile
    BY DEF VerdictTrue
  <2> QED
    BY DEF RInv, VerdictTrue
<1> QED
  BY <1>7, <1>8, <1>9 DEF RInv

(* A change of the folder is done at once, or refused.                      *)
LEMMA EditStep ==
  ASSUME RInv, RouteEdit, NEW t, t = Asker
  PROVE  RInv'
<1> DEFINE o == Op[t]
           fits == rights /\ (IF o.kind = "rename" THEN CanRename(o) ELSE CanMake(o))
<1>1. /\ inbox # <<>> /\ inbox' = Tail(inbox) /\ o.kind \in {"rename", "mkdir"}
      /\ UNCHANGED <<task, pending, out, link, drops, shared, rights, ask, shelf, permits, edits>>
  BY DEF RouteEdit, Taken, NoAsk, Rest, asking
<1>2. /\ tree' = IF ~fits THEN tree ELSE IF o.kind = "rename" THEN Renamed(o) ELSE Made(t)
      /\ did' = IF fits THEN [did EXCEPT ![t] = tree'[IF o.kind = "rename" THEN o.new ELSE o.path]]
                        ELSE did
      /\ Verdict(Oldest.id, fits)
  BY DEF RouteEdit
<1>3. t \in Edit /\ Oldest.id = <<t, 1>> /\ OnWay(t)
  BY <1>1, FirstRequest
<1>4. /\ Numbered' /\ Len(inbox') =< CtrlCap /\ (\A u : OnWay(u)' => OnWay(u)) /\ ~OnWay(t)'
  <2>1. /\ Numbered' /\ Len(inbox') =< CtrlCap /\ (\A u : OnWay(u)' => OnWay(u))
        /\ Oldest.id \notin Ids(out') \cup Ids(inbox')
    BY <1>1, TakenStep
  <2> QED
    BY <1>3, <2>1 DEF OnWay
<1>5. Untouched(t) /\ task[t].st \notin {"idle", "done", "refused"} /\ ask[t].st = "none"
  <2>1. Untouched(t) /\ task[t].st \notin {"done", "refused"} /\ ask[t].st = "none"
    BY <1>3 DEF RInv, Served
  <2>2. 1 =< task[t].n
    <3>1. <<t, 1>> \in Ids(out) \cup Ids(inbox)
      BY <1>3 DEF OnWay
    <3>2. <<t, 1>>[2] =< task[<<t, 1>>[1]].n
      BY <3>1 DEF RInv, Numbered
    <3> QED
      BY <3>2
  <2>3. task[t].st # "idle"
    BY <1>3, <2>2 DEF RInv, Numbered, Edit
  <2> QED
    BY <2>1, <2>3
<1>6. t \in Task /\ o.path \in Name /\ o.new \in Name /\ t \in Nat
  BY <1>3, RemoteAssumption DEF Edit
<1>7. tree \in [Name -> Entries] /\ did \in [Task -> Entries] /\ NoFile \in Entries
  BY DEF RInv, RTypeOK, NoFile, Entries
<1>8. /\ tree' \in [Name -> Entries]
      /\ fits => tree'[IF o.kind = "rename" THEN o.new ELSE o.path] # NoFile
  <2>1. CASE ~fits
    BY <1>2, <1>7, <2>1
  <2>2. CASE fits /\ o.kind = "rename"
    <3>1. tree[o.path] # NoFile /\ tree[o.new] = NoFile
      BY <2>2 DEF CanRename, There
    <3>2. tree' = Renamed(o)
      BY <1>2, <2>2
    <3> HIDE DEF o, fits
    <3> QED
      BY <1>6, <1>7, <2>2, <3>1, <3>2 DEF Renamed
  <2>3. CASE fits /\ o.kind # "rename"
    <3>1. [by |-> "task", n |-> t] \in Entries /\ [by |-> "task", n |-> t] # NoFile
      BY <1>6 DEF Entries, NoFile
    <3>2. tree' = [tree EXCEPT ![o.path] = [by |-> "task", n |-> t]]
      BY <1>2, <2>3 DEF Made
    <3> HIDE DEF o, fits
    <3> QED
      BY <1>6, <1>7, <2>3, <3>1, <3>2
  <2> QED
    BY <2>1, <2>2, <2>3
<1> HIDE DEF fits, o
<1>9. /\ did' \in [Task -> Entries] /\ (fits <=> did'[t] # NoFile)
      /\ \A u \in Task \ {t} : did'[u] = did[u]
  <2>1. did[t] = NoFile
    BY <1>5 DEF Untouched
  <2>2. tree'[IF o.kind = "rename" THEN o.new ELSE o.path] \in Entries
    BY <1>6, <1>8
  <2> QED
    BY <1>2, <1>6, <1>7, <1>8, <2>1, <2>2
<1>10. fits \in BOOLEAN
  BY DEF fits, o, CanRename, CanMake, There, RInv, RTypeOK
<1>11. RTypeOK'
  BY <1>1, <1>4, <1>8, <1>9 DEF RInv, RTypeOK
<1>12. Shelved' /\ PermitsConserved'
  BY <1>1 DEF RInv, Shelved, PermitsConserved
<1>13. 1 \in Nat /\ Verdict(<<t, 1>>, fits) /\ ask'[t].st \notin {"asked", "answered"}
  BY <1>1, <1>2, <1>3, <1>5
<1> QED
  BY <1>1, <1>3, <1>4, <1>5, <1>9, <1>10, <1>11, <1>12, <1>13, JudgedStep

(* The deletions that hold a permit.                                        *)
Waits == {t \in Task : ask[t].st \in {"asked", "answered"}}

LEMMA Counting ==
  ASSUME RInv
  PROVE  /\ IsFiniteSet(Waits) /\ Cardinality(Waits) \in Nat /\ permits + Cardinality(Waits) = Permits
         /\ \A t : t \notin Waits => Cardinality(Waits \cup {t}) = Cardinality(Waits) + 1
         /\ \A t \in Waits : Cardinality(Waits) >= 1 /\ Cardinality(Waits \ {t}) = Cardinality(Waits) - 1
<1>1. IsFiniteSet(Waits)
  BY RemoteAssumption, FS_Subset DEF Waits
<1>2. Cardinality(Waits) \in Nat /\ permits + Cardinality(Waits) = Permits
  BY <1>1, FS_CardinalityType DEF RInv, PermitsConserved, Waits
<1>3. \A t : t \notin Waits => Cardinality(Waits \cup {t}) = Cardinality(Waits) + 1
  BY <1>1, FS_AddElement
<1>4. ASSUME NEW t \in Waits
      PROVE  Cardinality(Waits) >= 1 /\ Cardinality(Waits \ {t}) = Cardinality(Waits) - 1
  <2>1. IsFiniteSet(Waits \ {t}) /\ Cardinality(Waits \ {t}) = Cardinality(Waits) - 1
    BY <1>1, FS_RemoveElement
  <2>2. Cardinality(Waits \ {t}) \in Nat
    BY <2>1, FS_CardinalityType
  <2> QED
    BY <1>2, <2>1, <2>2
<1> QED
  BY <1>1, <1>2, <1>3, <1>4

(* A deletion is refused, or its user is asked and it holds a permit.       *)
LEMMA DeleteStep ==
  ASSUME RInv, RouteDelete, NEW t, t = Asker
  PROVE  RInv'
<1>1. /\ inbox # <<>> /\ inbox' = Tail(inbox) /\ Op[t].kind = "delete"
      /\ UNCHANGED <<task, pending, out, link, drops, shared, rights, shelf, tree, did, edits>>
      /\ \/ /\ permits > 0 /\ permits' = permits - 1 /\ back' = back
            /\ There(Op[t].path)
            /\ ask' = [ask EXCEPT ![t] = [st |-> "asked", file |-> tree[Op[t].path], yes |-> FALSE]]
         \/ UNCHANGED <<permits, ask>> /\ Verdict(Oldest.id, FALSE)
  BY DEF RouteDelete, Taken, Rest, asking
<1>2. t \in Edit /\ Oldest.id = <<t, 1>> /\ OnWay(t)
  BY <1>1, FirstRequest
<1>3. /\ Numbered' /\ Len(inbox') =< CtrlCap /\ (\A u : OnWay(u)' => OnWay(u)) /\ ~OnWay(t)'
  <2>1. /\ Numbered' /\ Len(inbox') =< CtrlCap /\ (\A u : OnWay(u)' => OnWay(u))
        /\ Oldest.id \notin Ids(out') \cup Ids(inbox')
    BY <1>1, TakenStep
  <2> QED
    BY <1>2, <2>1 DEF OnWay
<1>4. Untouched(t) /\ task[t].st \notin {"idle", "done", "refused"} /\ ask[t].st = "none"
  <2>1. Untouched(t) /\ task[t].st \notin {"done", "refused"} /\ ask[t].st = "none"
    BY <1>2 DEF RInv, Served
  <2>2. 1 =< task[t].n
    <3>1. <<t, 1>> \in Ids(out) \cup Ids(inbox)
      BY <1>2 DEF OnWay
    <3>2. <<t, 1>>[2] =< task[<<t, 1>>[1]].n
      BY <3>1 DEF RInv, Numbered
    <3> QED
      BY <3>2
  <2>3. task[t].st # "idle"
    BY <1>2, <2>2 DEF RInv, Numbered, Edit
  <2> QED
    BY <2>1, <2>3
<1>5. t \in Task /\ Op[t].path \in Name /\ t \notin Waits
  BY <1>2, <1>4, RemoteAssumption DEF Edit, Waits
<1>6. CASE permits > 0 /\ permits' = permits - 1 /\ back' = back /\ There(Op[t].path)
           /\ ask' = [ask EXCEPT ![t] = [st |-> "asked", file |-> tree[Op[t].path], yes |-> FALSE]]
  <2>1. /\ ask' \in [Task -> [st : {"none", "asked", "answered", "over"}, file : Entries, yes : BOOLEAN]]
        /\ ask'[t].st = "asked" /\ \A u \in Task \ {t} : ask'[u] = ask[u]
    <3> DEFINE q == [st |-> "asked", file |-> tree[Op[t].path], yes |-> FALSE]
    <3>1. q \in [st : {"none", "asked", "answered", "over"}, file : Entries, yes : BOOLEAN] /\ q.st = "asked"
      BY <1>5 DEF RInv, RTypeOK
    <3>2. ask' = [ask EXCEPT ![t] = q]
      BY <1>6
    <3> HIDE DEF q
    <3> QED
      BY <1>5, <3>1, <3>2 DEF RInv, RTypeOK
  <2>2. permits' \in 0 .. Permits
    BY <1>6, RemoteAssumption DEF RInv, RTypeOK
  <2>3. RTypeOK'
    BY <1>1, <1>3, <2>1, <2>2 DEF RInv, RTypeOK
  <2>4. Shelved'
    BY <1>1, <1>5, <2>1 DEF RInv, RTypeOK, Shelved
  <2>5. PermitsConserved'
    <3>1. {u \in Task : ask'[u].st \in {"asked", "answered"}} = Waits \cup {t}
      BY <1>5, <2>1 DEF Waits
    <3>2. Cardinality(Waits \cup {t}) = Cardinality(Waits) + 1 /\ Cardinality(Waits) \in Nat
          /\ permits + Cardinality(Waits) = Permits /\ permits \in Int
      BY <1>5, Counting, RemoteAssumption DEF RInv, RTypeOK
    <3>3. permits' + (Cardinality(Waits) + 1) = Permits
      BY <1>6, <3>2
    <3> QED
      BY <3>1, <3>2, <3>3 DEF PermitsConserved
  <2>6. 1 \in Nat /\ TRUE \in BOOLEAN
    OBVIOUS
  <2> QED
    BY <1>1, <1>2, <1>3, <1>4, <1>6, <2>1, <2>3, <2>4, <2>5, <2>6, JudgedStep
<1>7. CASE UNCHANGED <<permits, ask>> /\ Verdict(Oldest.id, FALSE)
  <2>1. RTypeOK' /\ Shelved' /\ PermitsConserved'
    BY <1>1, <1>3, <1>7 DEF RInv, RTypeOK, Shelved, PermitsConserved
  <2>2. 1 \in Nat /\ FALSE \in BOOLEAN /\ Verdict(<<t, 1>>, FALSE) /\ (FALSE <=> did'[t] # NoFile)
        /\ ask'[t].st \notin {"asked", "answered"}
    BY <1>1, <1>2, <1>4, <1>7 DEF Untouched
  <2> QED
    BY <1>1, <1>2, <1>3, <1>4, <1>7, <2>1, <2>2, JudgedStep
<1> QED
  BY <1>1, <1>6, <1>7

(* The question is shown, answered or forgotten by the shell.               *)
LEMMA QuestionStep ==
  ASSUME RInv, NEW t \in Task, Show(t) \/ Respond(t) \/ Forget(t)
  PROVE  RInv'
<1>1. UNCHANGED <<task, pending, out, inbox, back, link, drops, shared, rights, edits, permits, tree, did>>
  BY DEF Show, Respond, Forget, Sess, asking
<1>2. /\ ask' \in [Task -> [st : {"none", "asked", "answered", "over"}, file : Entries, yes : BOOLEAN]]
      /\ \A u \in Task : ask'[u].st = ask[u].st \/ (u = t /\ t \notin shelf' /\ ask[t].st = "asked"
                                                    /\ ask'[t].st = "answered")
  <2>1. CASE ask' = ask
    BY <2>1 DEF RInv, RTypeOK
  <2>2. CASE ask' # ask
    <3>1. PICK yes \in BOOLEAN : ask' = [ask EXCEPT ![t] = [@ EXCEPT !.st = "answered", !.yes = yes]]
      BY <2>2 DEF Show, Respond, Forget
    <3>2. ask[t].st = "asked" /\ t \notin shelf'
      BY <2>2 DEF Show, Respond, Forget
    <3> DEFINE q == [ask[t] EXCEPT !.st = "answered", !.yes = yes]
    <3>3. q \in [st : {"none", "asked", "answered", "over"}, file : Entries, yes : BOOLEAN] /\ q.st = "answered"
      BY DEF RInv, RTypeOK
    <3>4. ask' = [ask EXCEPT ![t] = q]
      BY <3>1
    <3> HIDE DEF q
    <3> QED
      BY <3>2, <3>3, <3>4 DEF RInv, RTypeOK
  <2> QED
    BY <2>1, <2>2
<1>3. /\ shelf' \subseteq Task
      /\ \A u \in shelf' : u \in shelf \/ (u = t /\ ask[t].st = "asked")
  BY DEF RInv, RTypeOK, Show, Respond, Forget
<1>4. RTypeOK'
  BY <1>1, <1>2, <1>3 DEF RInv, RTypeOK
<1>5. Numbered'
  BY <1>1 DEF RInv, Numbered
<1>6. Shelved'
  BY <1>2, <1>3 DEF RInv, RTypeOK, Shelved
<1>7. PermitsConserved'
  <2>1. {u \in Task : ask'[u].st \in {"asked", "answered"}} = {u \in Task : ask[u].st \in {"asked", "answered"}}
    BY <1>2
  <2> QED
    BY <1>1, <2>1 DEF RInv, PermitsConserved
<1>8. Served'
  <2>1. \A u : (OnWay(u)' <=> OnWay(u)) /\ (Untouched(u)' <=> Untouched(u))
    BY <1>1 DEF OnWay, Untouched, Replied
  <2>2. \A u \in Edit : ask[u].st = "none" => ask'[u].st = "none"
    BY <1>2 DEF Edit
  <2>3. \A u \in Task : ask'[u].st \in {"asked", "answered"} => ask[u].st \in {"asked", "answered"}
    BY <1>2
  <2> QED
    BY <1>1, <2>1, <2>2, <2>3 DEF RInv, Served, Edit
<1>9. WaiterRegistered' /\ VerdictTrue'
  BY <1>1 DEF RInv, WaiterRegistered, Id, VerdictTrue
<1> QED
  BY <1>4, <1>5, <1>6, <1>7, <1>8, <1>9 DEF RInv

(* The waiting deletion ends: its permit is free, and what is answered was  *)
(* done.                                                                    *)
LEMMA EndStep ==
  ASSUME RInv, NEW t \in Task, Expire(t) \/ Carry(t)
  PROVE  RInv'
<1>1. /\ UNCHANGED <<task, pending, out, inbox, link, drops, shared, rights, edits, shelf>>
      /\ ask[t].st \in {"asked", "answered"}
      /\ permits' = permits + 1
      /\ ask' = [ask EXCEPT ![t].st = "over"]
  BY DEF Expire, Carry, Sess, asking
<1>2. PICK ok \in BOOLEAN :
        /\ tree' = IF ok THEN [tree EXCEPT ![Op[t].path] = NoFile] ELSE tree
        /\ did' = IF ok THEN [did EXCEPT ![t] = tree[Op[t].path]] ELSE did
        /\ ok => tree[Op[t].path] # NoFile
        /\ Verdict(<<t, task[t].n>>, ok)
  <2>1. CASE Expire(t)
    <3>1. /\ tree' = tree /\ did' = did /\ Verdict(<<t, task[t].n>>, FALSE)
      BY <2>1 DEF Expire
    <3> QED
      BY <3>1
  <2>2. CASE Carry(t)
    <3> DEFINE ok == ask[t].yes /\ There(Op[t].path)
    <3>1. /\ tree' = IF ok THEN [tree EXCEPT ![Op[t].path] = NoFile] ELSE tree
          /\ did' = IF ok THEN [did EXCEPT ![t] = tree[Op[t].path]] ELSE did
          /\ Verdict(<<t, task[t].n>>, ok)
      BY <2>2 DEF Carry
    <3>2. ok \in BOOLEAN /\ (ok => tree[Op[t].path] # NoFile)
      BY DEF There, RInv, RTypeOK
    <3> HIDE DEF ok
    <3> QED
      BY <3>1, <3>2
  <2> QED
    BY <2>1, <2>2
<1>3. /\ t \in Edit /\ Untouched(t) /\ task[t].st \notin {"idle", "done", "refused"} /\ ~OnWay(t)
      /\ t \in Waits /\ Op[t].path \in Name
  BY <1>1, RemoteAssumption DEF RInv, Served, Waits
<1>4. PICK k \in Nat : k = task[t].n
  BY DEF RInv, RTypeOK
<1>5. /\ ask' \in [Task -> [st : {"none", "asked", "answered", "over"}, file : Entries, yes : BOOLEAN]]
      /\ ask'[t].st = "over" /\ \A u \in Task \ {t} : ask'[u] = ask[u]
  <2> DEFINE q == [ask[t] EXCEPT !.st = "over"]
  <2>1. q \in [st : {"none", "asked", "answered", "over"}, file : Entries, yes : BOOLEAN] /\ q.st = "over"
    BY DEF RInv, RTypeOK
  <2>2. ask' = [ask EXCEPT ![t] = q]
    BY <1>1
  <2> HIDE DEF q
  <2> QED
    BY <2>1, <2>2 DEF RInv, RTypeOK
<1>6. /\ tree' \in [Name -> Entries] /\ did' \in [Task -> Entries]
      /\ \A u \in Task \ {t} : did'[u] = did[u]
      /\ ok <=> did'[t] # NoFile
  BY <1>2, <1>3 DEF RInv, RTypeOK, Untouched, NoFile, Entries
<1>7. PermitsConserved' /\ permits' \in 0 .. Permits
  <2>1. {u \in Task : ask'[u].st \in {"asked", "answered"}} = Waits \ {t}
    BY <1>5 DEF Waits
  <2>2. /\ Cardinality(Waits \ {t}) = Cardinality(Waits) - 1 /\ Cardinality(Waits) \in Nat
        /\ Cardinality(Waits) >= 1
        /\ permits + Cardinality(Waits) = Permits /\ permits \in Nat /\ Permits \in Nat
    <3>1. permits \in Nat /\ Permits \in Nat
      BY RemoteAssumption DEF RInv, RTypeOK
    <3>2. /\ Cardinality(Waits) \in Nat /\ permits + Cardinality(Waits) = Permits
          /\ \A u \in Waits : Cardinality(Waits) >= 1 /\ Cardinality(Waits \ {u}) = Cardinality(Waits) - 1
      BY Counting
    <3> QED
      BY <1>3, <3>1, <3>2
  <2>3. permits' + (Cardinality(Waits) - 1) = Permits /\ permits' \in 0 .. Permits
    BY <1>1, <2>2
  <2> QED
    BY <2>1, <2>2, <2>3 DEF PermitsConserved
<1>8. RTypeOK'
  BY <1>1, <1>5, <1>6, <1>7 DEF RInv, RTypeOK
<1>9. Numbered'
  BY <1>1 DEF RInv, Numbered
<1>10. Shelved'
  BY <1>1, <1>5 DEF RInv, RTypeOK, Shelved
<1>11. ~OnWay(t)' /\ \A u : OnWay(u)' => OnWay(u)
  BY <1>1, <1>3 DEF OnWay
<1>12. Verdict(<<t, k>>, ok) /\ ask'[t].st \notin {"asked", "answered"}
  BY <1>2, <1>4, <1>5
<1> QED
  BY <1>1, <1>3, <1>5, <1>6, <1>7, <1>8, <1>9, <1>10, <1>11, <1>12, JudgedStep

LEMMA RemoteStep == RInv /\ [RNext]_rvars => RInv'
<1> SUFFICES ASSUME RInv, [RNext]_rvars PROVE RInv'
  OBVIOUS
<1>1. CASE UNCHANGED rvars
  <2>1. UNCHANGED <<task, pending, out, inbox, back, link, tree, shared, rights, ask, shelf, permits, did, edits, drops>>
    BY <1>1 DEF rvars
  <2>2. \A t : (OnWay(t)' <=> OnWay(t)) /\ (Untouched(t)' <=> Untouched(t))
    BY <2>1 DEF OnWay, Untouched, Replied
  <2>3. RTypeOK' /\ Numbered' /\ Shelved' /\ PermitsConserved'
    BY <2>1 DEF RInv, RTypeOK, Numbered, Shelved, PermitsConserved
  <2>4. Served'
    BY <2>1, <2>2 DEF RInv, Served, Edit
  <2>5. WaiterRegistered' /\ VerdictTrue'
    BY <2>1 DEF RInv, WaiterRegistered, Id, VerdictTrue
  <2> QED
    BY <2>3, <2>4, <2>5 DEF RInv
<1>2. ASSUME NEW t \in Task, Begin(t) \/ NextPage(t) PROVE RInv'
  <2>1. /\ Send(t, {}) /\ {} \in SUBSET {Id(t)} /\ task[t].st \in {"idle", "paging", "waiting"}
        /\ UNCHANGED <<inbox, back, link, drops, owner>>
    BY <1>2 DEF Begin, NextPage
  <2>2. t \in Edit => task[t].st = "idle"
    BY <1>2 DEF Begin, NextPage, RInv, Served
  <2> QED
    BY <2>1, <2>2, SendStep
<1>3. ASSUME NEW t \in Task, GiveUp(t) PROVE RInv'
  BY <1>3, GiveUpStep
<1>4. ASSUME NEW t \in Task, Show(t) \/ Respond(t) \/ Forget(t) PROVE RInv'
  BY <1>4, QuestionStep
<1>5. ASSUME NEW t \in Task, Expire(t) \/ Carry(t) PROVE RInv'
  BY <1>5, EndStep
<1>6. CASE Answer
  BY <1>6, AnswerStep
<1>7. CASE Arrive \/ SessionLost \/ SessionBack
  BY <1>7, SessionStep
<1>8. CASE RouteList \/ RouteMetaReq
  BY <1>8, ReadStep
<1>9. CASE RouteEdit
  <2>1. PICK t : t = Asker
    OBVIOUS
  <2> QED
    BY <1>9, <2>1, EditStep
<1>10. CASE RouteDelete
  <2>1. PICK t : t = Asker
    OBVIOUS
  <2> QED
    BY <1>10, <2>1, DeleteStep
<1>11. CASE Owner
  BY <1>11, OwnerStep
<1> QED
  BY <1>1, <1>2, <1>3, <1>4, <1>5, <1>6, <1>7, <1>8, <1>9, <1>10, <1>11 DEF RNext

(* Whoever waits for the answer to a remote operation is registered for it, *)
(* what the answer says is what was done to the folder, and every permit is *)
(* free or held by a deletion whose user was asked, for any operations and  *)
(* any losses of the session (session.rs send_rpc, engine.rs).              *)
THEOREM RemoteAlwaysSound == RSpec => []RemoteSound
<1>1. RInv => RemoteSound
  BY DEF RInv, RemoteSound
<1> QED
  BY <1>1, RemoteBegins, RemoteStep, PTL DEF RSpec

(* A step that does something for a deletion carries out a yes.             *)
LEMMA DeleteStepAllowed == RInv /\ [RNext]_rvars => [DeletesAllowed]_rvars
<1> SUFFICES ASSUME RInv, [RNext]_rvars, NEW t \in Task, Op[t].kind = "delete", did'[t] # did[t]
             PROVE  ask[t].st = "answered" /\ ask[t].yes /\ t \notin shelf
  BY DEF DeletesAllowed
<1>0. did \in [Task -> Entries]
  BY DEF RInv, RTypeOK
<1>1. ASSUME NEW u \in Task, Carry(u)
      PROVE  ask[t].st = "answered" /\ ask[t].yes /\ t \notin shelf
  <2>1. ask[u].st = "answered" /\ (did' = did \/ (ask[u].yes /\ did' = [did EXCEPT ![u] = tree[Op[u].path]]))
    BY <1>1 DEF Carry
  <2>2. u = t /\ ask[u].yes
    BY <1>0, <2>1
  <2> QED
    BY <2>1, <2>2 DEF RInv, Shelved
<1>2. ASSUME RouteEdit PROVE FALSE
  <2>1. /\ inbox # <<>> /\ Op[Asker].kind \in {"rename", "mkdir"}
        /\ did' = did \/ \E f : did' = [did EXCEPT ![Asker] = f]
    BY <1>2 DEF RouteEdit, Taken
  <2>2. Asker # t
    BY <2>1
  <2> QED
    BY <1>0, <2>1, <2>2
<1>3. ASSUME NEW u \in Task, Begin(u) \/ GiveUp(u) \/ NextPage(u) \/ Show(u) \/ Respond(u) \/ Expire(u) \/ Forget(u)
      PROVE  did' = did
  BY <1>3 DEF Begin, GiveUp, NextPage, Show, Respond, Expire, Forget, Sess, owner
<1>4. Answer \/ Arrive \/ SessionLost \/ SessionBack \/ RouteList \/ RouteMetaReq \/ RouteDelete \/ Owner
      => did' = did
  BY DEF Answer, Arrive, SessionLost, SessionBack, RouteList, RouteMetaReq, RouteDelete, Owner, owner
<1>5. UNCHANGED rvars => did' = did
  BY DEF rvars
<1> QED
  BY <1>1, <1>2, <1>3, <1>4, <1>5 DEF RNext

(* A remote deletion happens only after its user said yes to it, and never  *)
(* while the question can still be answered (engine.rs: fail-closed).       *)
THEOREM DeletesAlwaysAllowed == RSpec => DeleteAllowed
BY RemoteBegins, RemoteStep, DeleteStepAllowed, PTL DEF RSpec, DeleteAllowed

-----------------------------------------------------------------------------
(* The watcher. The shares of a round are read, with the content they have. *)
WInv ==
  /\ registered \subseteq Share /\ defs \subseteq Share
  /\ content \in [Share -> Nat \ {0}] /\ scan \in [Share -> Nat]
  /\ base \in [Share -> Nat]
  /\ \A s \in defs : scan[s] # 0

LEMMA WatchBegins == WInit => WInv
BY DEF WInit, WInv

LEMMA KnownTyped ==
  ASSUME WInv
  PROVE  /\ Kept \in [Share -> Nat] /\ defs \subseteq Known
         /\ \A s \in Share : Kept[s] = IF s \in defs THEN scan[s] ELSE base[s]
         /\ Cardinality(Known) =< Cardinality(defs) => Known = defs
<1>1. /\ Kept \in [Share -> Nat]
      /\ \A s \in Share : Kept[s] = IF s \in defs THEN scan[s] ELSE base[s]
  BY DEF WInv, Kept
<1>2. defs \in SUBSET Known /\ Known \in SUBSET Share
  BY <1>1 DEF WInv, Known
<1>3. IsFiniteSet(Known) /\ IsFiniteSet(defs)
  BY <1>2, ShareAssumption, FS_Subset
<1>4. Cardinality(Known) \in Nat /\ Cardinality(defs) \in Nat
  BY <1>3, FS_CardinalityType
<1>5. Cardinality(defs) =< Cardinality(Known) /\ (Cardinality(Known) = Cardinality(defs) => Known = defs)
  BY <1>2, <1>3, FS_Subset
<1> QED
  BY <1>1, <1>2, <1>4, <1>5

LEMMA WatchStep == WInv /\ [WNext]_wvars => WInv'
<1> SUFFICES ASSUME WInv, [WNext]_wvars PROVE WInv'
  OBVIOUS
<1>1. CASE UNCHANGED wvars
  BY <1>1 DEF WInv, wvars
<1>2. CASE Tick
  BY <1>2 DEF WInv, Tick
<1>3. CASE Compare
  <2>1. base' \in [Share -> Nat]
    BY <1>3, KnownTyped DEF Compare
  <2> QED
    BY <1>3, <2>1 DEF WInv, Compare
<1>4. ASSUME NEW s \in Share, Change(s) PROVE WInv'
  <2>1. content' \in [Share -> Nat \ {0}]
    BY <1>4 DEF WInv, Change
  <2> QED
    BY <1>4, <2>1 DEF WInv, Change
<1>5. ASSUME NEW s \in Share, Add(s) \/ Remove(s) PROVE WInv'
  BY <1>5 DEF WInv, Add, Remove
<1>6. CASE EmptyRound
  BY <1>6 DEF WInv, EmptyRound
<1> QED
  BY <1>1, <1>2, <1>3, <1>4, <1>5, <1>6 DEF WNext

LEMMA NeverSilentStep ==
  WInv /\ [WNext]_wvars =>
  [\A s \in Share : base[s] # 0 /\ base'[s] \notin {0, base[s]} => told'[s] = base'[s]]_wvars
<1> SUFFICES ASSUME WInv, [WNext]_wvars, NEW s \in Share, base[s] # 0, base'[s] \notin {0, base[s]}
             PROVE  told'[s] = base'[s]
  OBVIOUS
<1>1. Compare
  BY DEF WInv, WNext, Tick, EmptyRound, Change, Add, Remove, wvars
<1>2. base'[s] = Kept[s]
  BY <1>1, KnownTyped DEF Compare
<1>3. s \in defs /\ base'[s] = scan[s]
  BY <1>2, KnownTyped
<1>4. s \in Changed
  BY <1>3 DEF Changed
<1> QED
  BY <1>1, <1>3, <1>4 DEF Compare

LEMMA NoOldStep ==
  WInv /\ [WNext]_wvars => [defs # {} /\ defs' = {} => \A s \in Share \ defs : base'[s] = 0]_wvars
<1> SUFFICES ASSUME WInv, [WNext]_wvars, defs # {}, defs' = {}, NEW s \in Share \ defs
             PROVE  base'[s] = 0
  OBVIOUS
<1>1. Compare
  BY DEF WInv, WNext, Tick, EmptyRound, Change, Add, Remove, wvars
<1>2. CASE Cardinality(Known) > Cardinality(defs)
  BY <1>1, <1>2 DEF Compare
<1>3. CASE ~(Cardinality(Known) > Cardinality(defs))
  <2>1. Cardinality(Known) =< Cardinality(defs)
    <3>1. IsFiniteSet(Known) /\ IsFiniteSet(defs)
      BY ShareAssumption, FS_Subset DEF Known, WInv
    <3>2. Cardinality(Known) \in Nat /\ Cardinality(defs) \in Nat
      BY <3>1, FS_CardinalityType
    <3> QED
      BY <1>3, <3>2
  <2>2. s \notin Known /\ base' = Kept
    BY <1>1, <1>3, <2>1, KnownTyped DEF Compare
  <2> QED
    BY <2>2 DEF Known
<1> QED
  BY <1>2, <1>3

(* The peers of a share are told of every change the watcher sees, and a    *)
(* share that went leaves no fingerprint behind, for any shares, contents   *)
(* and order of changes (share_watch.rs).                                   *)
THEOREM WatchAlwaysSound == WSpec => WatchSound
<1>1. WSpec => NeverSilently
  BY WatchBegins, WatchStep, NeverSilentStep, PTL DEF WSpec, NeverSilently
<1>2. WSpec => NoOldBaseline
  BY WatchBegins, WatchStep, NoOldStep, PTL DEF WSpec, NoOldBaseline
<1> QED
  BY <1>1, <1>2 DEF WatchSound

===============================================================================

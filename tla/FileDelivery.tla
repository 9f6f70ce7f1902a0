---------------------------- MODULE FileDelivery ----------------------------
(***************************************************************************)
(* What the fetch pipeline promises, without windows, streams, messages or *)
(* timers. The source offers jobs, each fixing one content of the file.    *)
(* The receiver takes an offer, gathers verified chunks of that content,   *)
(* may throw them away, and lands the file only when it holds them all.    *)
(* The source confirms a job only when it has been landed.                 *)
(***************************************************************************)
EXTENDS Integers

CONSTANTS
  N,      \* number of chunks of the file
  Pulls,  \* bound: jobs the source may offer
  Edits   \* bound: contents after the first one

Chunks   == 0 .. (N - 1)
Jobs     == 1 .. Pulls
Versions == 0 .. Edits
None     == Edits + 1

VARIABLES
  offer,     \* content each job was offered with
  taken,     \* job the receiver works for
  content,   \* content the held chunks belong to
  held,      \* chunks the receiver has verified
  landed,    \* files delivered: which job, and the content of every chunk
  confirmed  \* jobs the source reports as done

vars == <<offer, taken, content, held, landed, confirmed>>

Init ==
  /\ offer = [j \in Jobs |-> None] /\ taken = 1 /\ content = 0
  /\ held = {} /\ landed = {} /\ confirmed = {}

Propose(j, v) ==
  /\ offer[j] = None
  /\ offer' = [offer EXCEPT ![j] = v]
  /\ UNCHANGED <<taken, content, held, landed, confirmed>>

(* Chunks gathered earlier are kept only for the same content.             *)
Take(j) ==
  /\ offer[j] # None
  /\ taken' = j /\ content' = offer[j]
  /\ held' = {} \/ (held' = held /\ offer[j] = content)
  /\ UNCHANGED <<offer, landed, confirmed>>

Verify(c) ==
  /\ held' = held \cup {c}
  /\ UNCHANGED <<offer, taken, content, landed, confirmed>>

Discard ==
  /\ held' = {}
  /\ UNCHANGED <<offer, taken, content, landed, confirmed>>

Land ==
  /\ held = Chunks
  /\ landed' = landed \cup {[job |-> taken, data |-> [c \in Chunks |-> offer[taken]]]}
  /\ held' = {}
  /\ UNCHANGED <<offer, taken, content, confirmed>>

Confirm(j) ==
  /\ \E f \in landed : f.job = j
  /\ confirmed' = confirmed \cup {j}
  /\ UNCHANGED <<offer, taken, content, held, landed>>

Next ==
  \/ \E j \in Jobs, v \in Versions : Propose(j, v)
  \/ \E j \in Jobs : Take(j) \/ Confirm(j)
  \/ \E c \in Chunks : Verify(c)
  \/ Discard \/ Land

Spec == Init /\ [][Next]_vars
=============================================================================

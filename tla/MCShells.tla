-------------------------------- MODULE MCShells --------------------------------
(***************************************************************************)
(* One run for what the two shells must bring to an end: the questions     *)
(* they ask and the cards of the phone.  They share no state here, so a    *)
(* run takes one of them: `which` says which one steps and is scheduled    *)
(* fairly, the other stays as it begins.                                   *)
(***************************************************************************)
EXTENDS OfferAsk, MobileCards

VARIABLE which

MCInit ==
  /\ which \in {"offer", "mobile"}
  /\ KInit /\ MInit
  /\ which # "offer" => job = [a \in Ask |-> CHOOSE j \in Job : TRUE]

MCNext ==
  /\ UNCHANGED which
  /\ \/ which = "offer" /\ KNext /\ UNCHANGED mvars
     \/ which = "mobile" /\ MNext /\ UNCHANGED kvars

(* The fairness of each module, for the machine that steps. *)
OfferFair ==
  /\ WF_kvars(which = "offer" /\ Tick) /\ WF_kvars(which = "offer" /\ \E d \in dogs : Barks(d))
  /\ \A a \in Ask : WF_kvars(which = "offer" /\ Stored(a)) /\ WF_kvars(which = "offer" /\ Task(a))

MobileFair ==
  /\ \A t \in Transfer : /\ WF_mvars(which = "mobile" /\ Create(t))
                           /\ WF_mvars(which = "mobile" /\ QueueTimeout(t))
                           /\ WF_mvars(which = "mobile" /\ Runs(t))
  /\ \A i \in Id : WF_mvars(which = "mobile" /\ Watchdog(i))

MCSpec ==
  /\ MCInit /\ [][MCNext]_<<which, kvars, mvars>>
  /\ OfferFair /\ MobileFair

-------------------------------------------------------------------------------
(* OfferAsk: every question is decided and its entry of the table goes       *)
(* (engine.rs, the waiting task; main.rs:1880-1898).                         *)
QuestionsEnd == Decides /\ TableEmpties

(* MobileCards: no card stays cancelling, no placeholder stays pending        *)
(* (ffi lib.rs:1600-3282).                                                   *)
CardsEnd == CancelEnds /\ PlaceholderEnds
===============================================================================

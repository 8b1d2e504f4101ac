-------------------------------- MODULE Post ---------------------------------
(***************************************************************************)
(* What the notification service promises of every message a transaction   *)
(* queues, whoever drains the queue and however often a send is retried:   *)
(* it reaches its recipient at most once, it is answered at most once,     *)
(* what is reported undeliverable never arrived, and it is forgotten only  *)
(* in a breakdown.                                                         *)
(***************************************************************************)
EXTENDS Naturals

CONSTANT Message

VARIABLES
    fate,    \* Message -> "unwritten", "queued", "sent", "undeliverable", "lost"
    inbox,   \* Message -> how often it reached its recipient
    lossy    \* a breakdown made the service forget what it was sending

postVars == <<fate, inbox, lossy>>

PostInit ==
    /\ fate = [m \in Message |-> "unwritten"]
    /\ inbox = [m \in Message |-> 0]
    /\ lossy = FALSE

Queue(m) ==
    /\ fate[m] = "unwritten"
    /\ fate' = [fate EXCEPT ![m] = "queued"]
    /\ UNCHANGED <<inbox, lossy>>

\* An attempt may put the message in front of its recipient, once over all the
\* attempts, and may or may not learn that it did.
Try(m) ==
    /\ fate[m] = "queued"
    /\ \/ inbox[m] = 0 /\ inbox' = [inbox EXCEPT ![m] = 1]
       \/ UNCHANGED inbox
    /\ fate' \in {fate, [fate EXCEPT ![m] = "sent"]}
    /\ UNCHANGED lossy

Bury(m) ==
    /\ fate[m] = "queued" /\ inbox[m] = 0
    /\ fate' = [fate EXCEPT ![m] = "undeliverable"]
    /\ UNCHANGED <<inbox, lossy>>

Forget(messages) ==
    /\ \A m \in messages : fate[m] = "queued"
    /\ fate' = [m \in Message |-> IF m \in messages THEN "lost" ELSE fate[m]]
    /\ lossy' = TRUE
    /\ UNCHANGED inbox

PostNext ==
    \/ \E m \in Message : Queue(m) \/ Try(m) \/ Bury(m)
    \/ \E messages \in SUBSET Message : Forget(messages)

PostSpec == PostInit /\ [][PostNext]_postVars
==============================================================================

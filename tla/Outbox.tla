------------------------------- MODULE Outbox --------------------------------
(***************************************************************************)
(* The notification outbox: the notification_outbox table, the drains that *)
(* claim its rows, and the provider that sends.  A drain runs after any    *)
(* write that commits and on a schedule, in whichever server process that  *)
(* happens to be, so several run at once; each can be cut off between any  *)
(* two awaits.                                                             *)
(***************************************************************************)
EXTENDS Naturals, FiniteSets

CONSTANTS
    Message,      \* messages transactions may queue
    Drain,        \* drains that can be under way at once
    Alike,        \* messages of one kind and subject to one recipient
    Unreachable,  \* messages with no template or no address
    Reserved,     \* messages to an address that can never receive mail
    MaxTrouble    \* bound: things that go wrong in one run

ASSUME OutboxAssumption ==
    /\ Alike \cup Unreachable \cup Reserved \subseteq Message
    /\ Unreachable \cap Reserved = {}
    /\ MaxTrouble \in Nat

VARIABLES
    rows,      \* Message -> the row: "unwritten", "waiting", "claimed" (dispatched_at)
    drains,    \* Drain -> what the drain under way holds, or Resting
    accepted,  \* keys the provider accepted a message under
    inbox,     \* Message -> how often the provider delivered it
    noted,     \* <<message, state>> pairs the processes' outbox screens recorded
    lossy,     \* a drain forgot messages it had claimed
    trouble    \* how many things went wrong so far

mail == <<accepted, inbox>>
vars == <<rows, drains, accepted, inbox, noted, lossy, trouble>>
-----------------------------------------------------------------------------
Resting == [at |-> "resting"]

Init ==
    /\ rows = [m \in Message |-> "unwritten"]
    /\ drains = [d \in Drain |-> Resting]
    /\ accepted = {}
    /\ inbox = [m \in Message |-> 0]
    /\ noted = {}
    /\ lossy = FALSE
    /\ trouble = 0

GoesWrong == trouble < MaxTrouble /\ trouble' = trouble + 1

\* A drain is between two messages of its batch, or at some await of one.
Between(d, batch) ==
    drains' = [drains EXCEPT ![d] =
                  IF batch = {} THEN Resting ELSE [at |-> "between", batch |-> batch]]

At(d, await, m, batch) ==
    drains' = [drains EXCEPT ![d] = [at |-> await, item |-> m, batch |-> batch]]

\* Mutant: the first message that had trouble ends the batch.
BetweenNone(d, batch) == drains' = [drains EXCEPT ![d] = Resting]

NextMessage(d, batch) == Between(d, batch)

\* What the drain holds: claimed, and not answered yet.
Held(drain) ==
    CASE drain.at = "resting" -> {}
      [] drain.at = "between" -> drain.batch
      [] OTHER -> drain.batch \cup {drain.item}
-----------------------------------------------------------------------------
\* The transaction that queues a message commits.
Commit(m) ==
    /\ rows[m] = "unwritten"
    /\ rows' = [rows EXCEPT ![m] = "waiting"]
    /\ UNCHANGED <<drains, accepted, inbox, noted, lossy, trouble>>

Waiting == {m \in Message : rows[m] = "waiting"}

\* Mutant: the rows are selected and stay in the queue until they are sent.
ClaimedLater == rows

Claimed == [m \in Message |-> IF m \in Waiting THEN "claimed" ELSE rows[m]]

\* take(): one UPDATE claims everything that waits.
Take(d) ==
    /\ drains[d] = Resting
    /\ Waiting # {}
    /\ rows' = Claimed
    /\ Between(d, Waiting)
    /\ UNCHANGED <<accepted, inbox, noted, lossy, trouble>>

\* dispatch renders the next message; the recipient's address is read from the
\* database, which may fail.
Render(d) ==
    /\ drains[d].at = "between"
    /\ \E m \in drains[d].batch :
        LET rest == drains[d].batch \ {m} IN
        \/ m \in Unreachable /\ At(d, "givingUp", m, rest) /\ UNCHANGED trouble
        \/ m \notin Unreachable /\ At(d, "sending", m, rest) /\ UNCHANGED trouble
        \/ At(d, "catching", m, rest) /\ GoesWrong
    /\ UNCHANGED <<rows, accepted, inbox, noted, lossy>>

\* Mutant: every attempt has a key of its own.
KeyOfAttempt(m) == <<m, Cardinality(accepted)>>

\* idempotencyKey: the kind, the recipient and the subject.
KeyOf(m) == IF m \in Alike THEN <<"alike", Alike>> ELSE <<"alone", {m}>>

\* The provider takes a message; one whose key it has seen is not sent again.
Accept(m) ==
    /\ accepted' = accepted \cup {KeyOf(m)}
    /\ inbox' = IF KeyOf(m) \in accepted THEN inbox ELSE [inbox EXCEPT ![m] = @ + 1]

\* channel.send: the transport refuses the address for good; or the provider
\* accepts, and its answer arrives or does not; or it refuses for now.
Send(d) ==
    LET m     == drains[d].item
        batch == drains[d].batch
    IN
    /\ drains[d].at = "sending"
    /\ \/ /\ m \in Reserved
          /\ At(d, "givingUp", m, batch)
          /\ UNCHANGED <<accepted, inbox, noted, trouble>>
       \/ /\ m \notin Reserved /\ Accept(m)
          /\ noted' = noted \cup {<<m, "sent">>}
          /\ NextMessage(d, batch)
          /\ UNCHANGED trouble
       \/ /\ m \notin Reserved /\ Accept(m) /\ GoesWrong
          /\ At(d, "failing", m, batch)
          /\ UNCHANGED noted
       \/ /\ m \notin Reserved /\ GoesWrong
          /\ At(d, "failing", m, batch)
          /\ UNCHANGED <<accepted, inbox, noted>>
    /\ UNCHANGED <<rows, lossy>>

\* Mutant: a failure is retried whether or not it is permanent.
RetriesAll(await) == TRUE

Retries(await) == await # "givingUp"

\* recordFailure, which renders the message once more before it records it.
Note(d) ==
    LET await == drains[d].at
        m     == drains[d].item
    IN
    /\ await \in {"givingUp", "failing", "catching"}
    /\ noted' = noted \cup
                  {<<m, IF await = "givingUp" THEN "undeliverable" ELSE "failed">>}
    /\ IF Retries(await) THEN At(d, "requeuing", m, drains[d].batch)
                         ELSE NextMessage(d, drains[d].batch)
    /\ UNCHANGED <<rows, accepted, inbox, lossy, trouble>>

\* The database fails recordFailure: the message is caught once.
NoteFails(d) ==
    /\ drains[d].at \in {"givingUp", "failing"}
    /\ GoesWrong
    /\ At(d, "catching", drains[d].item, drains[d].batch)
    /\ UNCHANGED <<rows, accepted, inbox, noted, lossy>>

\* It fails again in the catch clause: the drain ends, with all it holds.
CatchFails(d) ==
    /\ drains[d].at = "catching"
    /\ GoesWrong
    /\ drains' = [drains EXCEPT ![d] = Resting]
    /\ lossy' = TRUE
    /\ UNCHANGED <<rows, accepted, inbox, noted>>

\* Mutants: the error is written and the mark left, or becomes a status.
RequeuedMarked(m)   == rows
RequeuedAsFailed(m) == [rows EXCEPT ![m] = "failed"]

Requeued(m) == [rows EXCEPT ![m] = "waiting"]

Requeue(d) ==
    /\ drains[d].at = "requeuing"
    /\ rows' = Requeued(drains[d].item)
    /\ NextMessage(d, drains[d].batch)
    /\ UNCHANGED <<accepted, inbox, noted, lossy, trouble>>

\* The database refuses to take the message back; that is logged, no more.
RequeueFails(d) ==
    /\ drains[d].at = "requeuing"
    /\ GoesWrong
    /\ NextMessage(d, drains[d].batch)
    /\ lossy' = TRUE
    /\ UNCHANGED <<rows, accepted, inbox, noted>>

\* The process dies; nobody else knows what it had claimed.
Crash(d) ==
    /\ drains[d] # Resting
    /\ GoesWrong
    /\ drains' = [drains EXCEPT ![d] = Resting]
    /\ lossy' = TRUE
    /\ UNCHANGED <<rows, accepted, inbox, noted>>

Runs(d) == Render(d) \/ Send(d) \/ Note(d) \/ NoteFails(d) \/ CatchFails(d)
           \/ Requeue(d) \/ RequeueFails(d)

Sweep == \E d \in Drain : Take(d)

Next ==
    \/ \E m \in Message : Commit(m)
    \/ Sweep
    \/ \E d \in Drain : Runs(d) \/ Crash(d)

\* A drain under way runs on, and the schedule keeps sweeping the queue.
Spec ==
    /\ Init /\ [][Next]_vars
    /\ WF_vars(Sweep)
    /\ \A d \in Drain : WF_vars(Runs(d))
-----------------------------------------------------------------------------
Await == {"sending", "givingUp", "failing", "catching", "requeuing"}
NoteState == {"sent", "undeliverable", "failed"}

DrainState ==
    {Resting} \cup [at: {"between"}, batch: SUBSET Message]
              \cup [at: Await, item: Message, batch: SUBSET Message]

\* Rows, drains and records have the shapes the code gives them.
TypeOK ==
    /\ rows \in [Message -> {"unwritten", "waiting", "claimed"}]
    /\ drains \in [Drain -> DrainState]
    /\ inbox \in [Message -> Nat]
    /\ noted \subseteq Message \X NoteState
    /\ lossy \in BOOLEAN
    /\ trouble \in Nat
-----------------------------------------------------------------------------
Answered(m) == <<m, "sent">> \in noted \/ <<m, "undeliverable">> \in noted

\* Two drains never hold the same message, however their claims and retries
\* interleave, and no message is both held and waiting (take).
HeldByOneDrain ==
    /\ \A d, e \in Drain :
          d # e => Held(drains[d]) \cap Held(drains[e]) = {}
    /\ \A d \in Drain : Held(drains[d]) \cap Waiting = {}

\* A message that was sent, or given up for good, never comes back to the queue
\* or to a drain: no poison message goes round for ever (drain, requeue).
AnsweredStaysOut ==
    \A m \in Message : Answered(m) =>
        /\ m \notin Waiting
        /\ \A d \in Drain : m \notin Held(drains[d])

\* A recipient gets a message at most once, although an answer may be lost and
\* the message retried by another process (idempotencyKey).
DeliveredAtMostOnce == \A m \in Message : inbox[m] <= 1

\* Unless some drain lost what it held, a message that waits is sent or given
\* up for good in the end, on the schedule's sweeps alone if need be.
QueuedIsAnswered ==
    [](~lossy) => \A m \in Message : (rows[m] = "waiting") ~> Answered(m)

Fate(m) ==
    IF <<m, "sent">> \in noted THEN "sent"
    ELSE IF <<m, "undeliverable">> \in noted THEN "undeliverable"
    ELSE IF rows[m] = "unwritten" THEN "unwritten"
    ELSE IF m \in Waiting \/ \E d \in Drain : m \in Held(drains[d]) THEN "queued"
    ELSE "lost"

Promised == INSTANCE Post WITH fate <- [m \in Message |-> Fate(m)]

\* Draining implements what Post promises of every message: in particular none
\* is forgotten by a drain that did not break down (outbox.ts).
KeepsThePost == Promised!PostSpec

\* "Stable across retries of the same message, distinct between messages"
\* (idempotencyKey): what the outbox shows as sent has reached its recipient.
SentHasArrived == \A m \in Message : <<m, "sent">> \in noted => inbox[m] > 0
==============================================================================

---------------------------- MODULE OutboxProofs -----------------------------
(***************************************************************************)
(* Proofs about Outbox, for any number of messages, drains and troubles:   *)
(* its invariants, and that it implements Post.                            *)
(***************************************************************************)
EXTENDS Outbox, TLAPS

Hopeless(m) == m \in Unreachable \cup Reserved

\* What a drain holds is claimed and unanswered, and it gives up only what can
\* never be sent.
Grip(d) ==
    /\ \A m \in Held(drains[d]) : rows[m] = "claimed" /\ ~Answered(m)
    /\ drains[d].at \in Await => drains[d].item \notin drains[d].batch
    /\ drains[d].at = "sending" => drains[d].item \notin Unreachable
    /\ drains[d].at = "givingUp" => Hopeless(drains[d].item)

HeldApart == \A d, e \in Drain : d # e => Held(drains[d]) \cap Held(drains[e]) = {}

\* What the records, the inboxes and the provider's keys say of one message.
Books(m) ==
    /\ Answered(m) => rows[m] = "claimed"
    /\ Hopeless(m) => inbox[m] = 0 /\ <<m, "sent">> \notin noted
    /\ <<m, "undeliverable">> \in noted => Hopeless(m)
    /\ inbox[m] <= 1
    /\ inbox[m] > 0 => KeyOf(m) \in accepted

IInv ==
    /\ TypeOK
    /\ HeldApart
    /\ \A d \in Drain : Grip(d)
    /\ \A m \in Message : Books(m)
-----------------------------------------------------------------------------
\* The forms a drain's state has, and what it holds in each.
LEMMA DrainForms ==
    ASSUME NEW s \in DrainState
    PROVE  /\ s.at \in {"resting", "between"} \cup Await
           /\ s.at = "resting" => s = Resting /\ Held(s) = {}
           /\ s.at = "between" => s.batch \subseteq Message /\ Held(s) = s.batch
           /\ s.at \in Await => /\ s.item \in Message /\ s.batch \subseteq Message
                                /\ Held(s) = s.batch \cup {s.item}
           /\ Held(s) \subseteq Message
  <1>1. CASE s = Resting
    BY <1>1 DEF Resting, Held, Await
  <1>2. CASE s \in [at: {"between"}, batch: SUBSET Message]
    BY <1>2 DEF Held, Await
  <1>3. CASE s \in [at: Await, item: Message, batch: SUBSET Message]
    BY <1>3 DEF Held, Await
  <1> QED BY <1>1, <1>2, <1>3 DEF DrainState

\* Going on to the next message leaves the drain with the rest of its batch.
LEMMA BetweenHolds ==
    ASSUME drains \in [Drain -> DrainState], NEW d \in Drain,
           NEW batch \in SUBSET Message, Between(d, batch)
    PROVE  /\ drains' \in [Drain -> DrainState]
           /\ drains'[d].at \in {"resting", "between"}
           /\ Held(drains'[d]) = batch
           /\ \A e \in Drain \ {d} : drains'[e] = drains[e]
  <1> DEFINE s == IF batch = {} THEN Resting ELSE [at |-> "between", batch |-> batch]
  <1>1. s \in DrainState /\ s.at \in {"resting", "between"} /\ Held(s) = batch
    <2>1. CASE batch = {}
      BY <2>1 DEF DrainState, Resting, Held
    <2>2. CASE batch # {}
      BY <2>2 DEF DrainState, Resting, Held
    <2> QED BY <2>1, <2>2
  <1>2. drains' = [drains EXCEPT ![d] = s]
    BY DEF Between
  <1> QED BY <1>1, <1>2

\* Waiting for an answer about m leaves the drain with m and the rest.
LEMMA AtHolds ==
    ASSUME drains \in [Drain -> DrainState], NEW d \in Drain, NEW await \in Await,
           NEW m \in Message, NEW batch \in SUBSET Message, At(d, await, m, batch)
    PROVE  /\ drains' \in [Drain -> DrainState]
           /\ drains'[d].at = await /\ drains'[d].item = m /\ drains'[d].batch = batch
           /\ Held(drains'[d]) = batch \cup {m}
           /\ \A e \in Drain \ {d} : drains'[e] = drains[e]
  <1> DEFINE s == [at |-> await, item |-> m, batch |-> batch]
  <1>1. s \in DrainState /\ Held(s) = batch \cup {m}
    BY DEF DrainState, Held, Await
  <1>2. drains' = [drains EXCEPT ![d] = s]
    BY DEF At
  <1> QED BY <1>1, <1>2

\* A drain that ends holds nothing.
LEMMA EndHolds ==
    ASSUME drains \in [Drain -> DrainState], NEW d \in Drain,
           drains' = [drains EXCEPT ![d] = Resting]
    PROVE  /\ drains' \in [Drain -> DrainState]
           /\ drains'[d].at = "resting" /\ Held(drains'[d]) = {}
           /\ \A e \in Drain \ {d} : drains'[e] = drains[e]
  BY DEF DrainState, Resting, Held

\* A drain that only lets go of messages leaves no message in two hands, and no
\* other drain with a looser grip, if those messages are all it touches.
LEMMA LettingGo ==
    ASSUME IInv, NEW d \in Drain,
           Held(drains'[d]) \subseteq Held(drains[d]),
           \A e \in Drain \ {d} : drains'[e] = drains[e],
           \A m \in Message \ Held(drains[d]) :
              rows'[m] = rows[m] /\ (Answered(m)' => Answered(m))
    PROVE  HeldApart' /\ \A e \in Drain \ {d} : Grip(e)'
  <1>1. HeldApart'
    BY DEF IInv, HeldApart
  <1>2. ASSUME NEW e \in Drain \ {d} PROVE Grip(e)'
    <2>1. drains'[e] = drains[e] /\ Grip(e)
      BY DEF IInv
    <2>2. ASSUME NEW m \in Held(drains[e]) PROVE rows'[m] = "claimed" /\ ~Answered(m)'
      <3>1. m \in Message \ Held(drains[d])
        BY DrainForms DEF IInv, TypeOK, HeldApart
      <3> QED BY <2>1, <3>1 DEF Grip
    <2> QED BY <2>1, <2>2 DEF Grip, Hopeless
  <1> QED BY <1>1, <1>2
-----------------------------------------------------------------------------
\* Nothing is queued, held, taken or delivered at first.
LEMMA InitHolds == Init => IInv
  <1> SUFFICES ASSUME Init PROVE IInv
    OBVIOUS
  <1>1. TypeOK
    BY DEF Init, TypeOK, DrainState, Resting
  <1>2. \A d \in Drain : Held(drains[d]) = {} /\ drains[d].at = "resting"
    BY DEF Init, Resting, Held
  <1>3. HeldApart /\ \A d \in Drain : Grip(d)
    BY <1>2 DEF HeldApart, Grip, Await
  <1>4. \A m \in Message : Books(m)
    BY DEF Init, Books, Answered
  <1> QED BY <1>1, <1>3, <1>4 DEF IInv

\* A message nobody holds joins the queue.
LEMMA CommitHolds ==
    ASSUME IInv, NEW m \in Message, Commit(m)
    PROVE  IInv'
  <1>1. TypeOK'
    BY DEF IInv, TypeOK, Commit
  <1>2. HeldApart'
    BY DEF IInv, HeldApart, Commit
  <1>3. ASSUME NEW d \in Drain PROVE Grip(d)'
    <2>1. m \notin Held(drains[d])
      BY DEF IInv, Grip, Commit
    <2> QED BY <2>1, DrainForms DEF IInv, TypeOK, Grip, Commit, Answered, Hopeless
  <1>4. ASSUME NEW n \in Message PROVE Books(n)'
    <2>1. Books(n) /\ Books(m)
      BY DEF IInv
    <2> QED BY <2>1 DEF IInv, TypeOK, Books, Commit, Answered, Hopeless
  <1> QED BY <1>1, <1>2, <1>3, <1>4 DEF IInv

\* What waits is in nobody's hands, so one drain may take it all.
LEMMA TakeHolds ==
    ASSUME IInv, NEW d \in Drain, Take(d)
    PROVE  IInv'
  <1>1. /\ drains' \in [Drain -> DrainState]
        /\ drains'[d].at \in {"resting", "between"}
        /\ Held(drains'[d]) = Waiting
        /\ \A e \in Drain \ {d} : drains'[e] = drains[e]
    BY BetweenHolds DEF IInv, TypeOK, Take, Waiting
  <1>2. \A m \in Message : rows'[m] = IF m \in Waiting THEN "claimed" ELSE rows[m]
    BY DEF Take, Claimed
  <1>3. TypeOK'
    BY <1>1 DEF IInv, TypeOK, Take, Claimed, Waiting
  <1>4. \A e \in Drain : Held(drains[e]) \cap Waiting = {}
    BY DEF IInv, Grip, Waiting
  <1>5. HeldApart'
    BY <1>1, <1>4 DEF IInv, HeldApart
  <1>6. ASSUME NEW m \in Message PROVE Books(m)' /\ (Answered(m)' <=> Answered(m))
    <2>1. Books(m)
      BY DEF IInv
    <2> QED BY <1>2, <2>1 DEF Books, Take, Waiting, Answered, Hopeless
  <1>7. Grip(d)'
    <2>1. ASSUME NEW m \in Waiting PROVE rows'[m] = "claimed" /\ ~Answered(m)'
      <3>1. m \in Message /\ rows[m] = "waiting" /\ Books(m)
        BY DEF IInv, Waiting
      <3> QED BY <1>2, <1>6, <3>1 DEF Books
    <2> QED BY <1>1, <2>1 DEF Grip, Await
  <1>8. ASSUME NEW e \in Drain \ {d} PROVE Grip(e)'
    <2>1. drains'[e] = drains[e] /\ Grip(e) /\ Held(drains[e]) \subseteq Message
      BY <1>1, DrainForms DEF IInv, TypeOK
    <2> QED BY <1>2, <1>6, <2>1 DEF Grip, Hopeless
  <1> QED BY <1>3, <1>5, <1>6, <1>7, <1>8 DEF IInv

\* What is known of the message a drain is at an await of.
LEMMA AtAnAwait ==
    ASSUME IInv, NEW d \in Drain, drains[d].at \in Await
    PROVE  LET m == drains[d].item  batch == drains[d].batch IN
           /\ m \in Message /\ batch \subseteq Message /\ m \notin batch
           /\ Held(drains[d]) = batch \cup {m}
           /\ rows[m] = "claimed" /\ ~Answered(m)
           /\ \A n \in batch : rows[n] = "claimed" /\ ~Answered(n)
  <1>1. drains[d] \in DrainState /\ Grip(d)
    BY DEF IInv, TypeOK
  <1> QED BY <1>1, DrainForms DEF Grip

\* A drain that keeps what it holds, going from one await to another, keeps its
\* grip if it gives up only what can never be sent.
LEMMA MovingOn ==
    ASSUME IInv, NEW d \in Drain, NEW await \in Await, NEW m \in Message,
           NEW batch \in SUBSET Message, m \notin batch,
           Held(drains[d]) = batch \cup {m}, At(d, await, m, batch),
           await = "sending" => m \notin Unreachable,
           await = "givingUp" => Hopeless(m),
           UNCHANGED rows, \A n \in Message : Answered(n)' => Answered(n)
    PROVE  drains' \in [Drain -> DrainState] /\ HeldApart' /\ \A e \in Drain : Grip(e)'
  <1>1. /\ drains' \in [Drain -> DrainState]
        /\ drains'[d].at = await /\ drains'[d].item = m /\ drains'[d].batch = batch
        /\ Held(drains'[d]) = batch \cup {m}
        /\ \A e \in Drain \ {d} : drains'[e] = drains[e]
    BY AtHolds DEF IInv, TypeOK
  <1>2. HeldApart' /\ \A e \in Drain \ {d} : Grip(e)'
    BY <1>1, LettingGo
  <1>3. Grip(d)'
    <2>1. Grip(d)
      BY DEF IInv
    <2>2. \A n \in Held(drains'[d]) : rows'[n] = "claimed" /\ ~Answered(n)'
      BY <1>1, <2>1 DEF Grip
    <2> QED BY <1>1, <2>2 DEF Grip, Hopeless
  <1> QED BY <1>1, <1>2, <1>3

\* A drain that is done with one message keeps its grip on the rest.
LEMMA BeingDone ==
    ASSUME IInv, NEW d \in Drain, drains[d].at \in Await,
           Between(d, drains[d].batch),
           \A n \in Message \ {drains[d].item} :
              rows'[n] = rows[n] /\ (Answered(n)' => Answered(n))
    PROVE  drains' \in [Drain -> DrainState] /\ HeldApart' /\ \A e \in Drain : Grip(e)'
  <1>1. /\ drains' \in [Drain -> DrainState]
        /\ drains'[d].at \in {"resting", "between"}
        /\ Held(drains'[d]) = drains[d].batch
        /\ \A e \in Drain \ {d} : drains'[e] = drains[e]
    BY AtAnAwait, BetweenHolds DEF IInv, TypeOK
  <1>2. HeldApart' /\ \A e \in Drain \ {d} : Grip(e)'
    BY <1>1, AtAnAwait, LettingGo
  <1>3. Grip(d)'
    <2>1. ASSUME NEW n \in drains[d].batch PROVE rows'[n] = "claimed" /\ ~Answered(n)'
      <3>1. n \in Message \ {drains[d].item} /\ rows[n] = "claimed" /\ ~Answered(n)
        BY AtAnAwait
      <3> QED BY <3>1
    <2> QED BY <1>1, <2>1 DEF Grip, Await
  <1> QED BY <1>1, <1>2, <1>3

\* Books that nothing was written in stay right.
LEMMA BooksUnread ==
    ASSUME IInv, UNCHANGED <<rows, accepted, inbox, noted>>
    PROVE  /\ \A n \in Message : Books(n)'
           /\ \A n \in Message : Answered(n)' => Answered(n)
  BY DEF IInv, Books, Answered, Hopeless, KeyOf

\* Rendering decides between sending and giving up.
LEMMA RenderHolds ==
    ASSUME IInv, NEW d \in Drain, Render(d)
    PROVE  IInv'
  <1>1. PICK m \in drains[d].batch, await \in {"sending", "givingUp", "catching"} :
           /\ At(d, await, m, drains[d].batch \ {m})
           /\ await = "sending" => m \notin Unreachable
           /\ await = "givingUp" => Hopeless(m)
           /\ UNCHANGED trouble \/ GoesWrong
    BY DEF Render, Hopeless
  <1>2. m \in Message /\ drains[d].batch \in SUBSET Message
        /\ Held(drains[d]) = (drains[d].batch \ {m}) \cup {m}
    BY DrainForms DEF IInv, TypeOK, Render
  <1>3. UNCHANGED <<rows, accepted, inbox, noted, lossy>> /\ trouble' \in Nat
    BY <1>1 DEF Render, GoesWrong, IInv, TypeOK
  <1>4. drains' \in [Drain -> DrainState] /\ HeldApart' /\ \A e \in Drain : Grip(e)'
    BY <1>1, <1>2, <1>3, BooksUnread, MovingOn DEF Await
  <1> QED BY <1>3, <1>4, BooksUnread DEF IInv, TypeOK

\* The provider delivers a message at most once for its key, and only one it can
\* reach; nothing is known to be sent that could not be.
LEMMA AcceptKeepsBooks ==
    ASSUME IInv, NEW m \in Message, ~Hopeless(m), rows[m] = "claimed", Accept(m),
           UNCHANGED rows, noted' \in {noted, noted \cup {<<m, "sent">>}}
    PROVE  inbox' \in [Message -> Nat] /\ \A n \in Message : Books(n)'
  <1>1. inbox' \in [Message -> Nat]
    BY DEF Accept, IInv, TypeOK
  <1>2. ASSUME NEW n \in Message PROVE Books(n)'
    <2>1. Books(n) /\ inbox[n] \in Nat
      BY DEF IInv, TypeOK
    <2>2. /\ Answered(n)' => rows'[n] = "claimed"
          /\ (<<n, "undeliverable">> \in noted)' => Hopeless(n)'
      BY <2>1 DEF Books, Answered, Hopeless
    <2>3. inbox'[n] <= 1 /\ (inbox'[n] > 0 => KeyOf(n)' \in accepted')
      <3>1. inbox'[n] = inbox[n] \/ (n = m /\ KeyOf(m) \notin accepted /\ inbox'[n] = inbox[n] + 1)
        BY DEF Accept, IInv, TypeOK
      <3>2. KeyOf(m) \in accepted' /\ accepted \subseteq accepted' /\ KeyOf(n)' = KeyOf(n)
        BY DEF Accept, KeyOf
      <3> QED BY <2>1, <3>1, <3>2 DEF Books
    <2>4. Hopeless(n)' => inbox'[n] = 0 /\ <<n, "sent">> \notin noted'
      BY <2>1 DEF Books, Hopeless, Accept, IInv, TypeOK
    <2> QED BY <2>2, <2>3, <2>4 DEF Books
  <1> QED BY <1>1, <1>2

\* The transport refuses for good, or the provider answers, or nothing is known.
LEMMA SendHolds ==
    ASSUME IInv, NEW d \in Drain, Send(d)
    PROVE  IInv'
  <1> DEFINE m == drains[d].item
             batch == drains[d].batch
  <1>1. drains[d].at \in Await /\ m \notin Unreachable /\ trouble \in Nat
        /\ lossy' \in BOOLEAN /\ UNCHANGED rows /\ rows' \in [Message -> {"unwritten", "waiting", "claimed"}]
    BY DEF Send, IInv, TypeOK, Grip, Await
  <1>2. /\ m \in Message /\ batch \in SUBSET Message /\ m \notin batch
        /\ Held(drains[d]) = batch \cup {m} /\ rows[m] = "claimed"
    BY <1>1, AtAnAwait
  <1>3. CASE /\ m \in Reserved /\ At(d, "givingUp", m, batch)
             /\ UNCHANGED <<accepted, inbox, noted, trouble>>
    <2>1. drains' \in [Drain -> DrainState] /\ HeldApart' /\ \A e \in Drain : Grip(e)'
      BY <1>1, <1>2, <1>3, BooksUnread, MovingOn DEF Await, Hopeless
    <2> QED BY <1>1, <1>3, <2>1, BooksUnread DEF IInv, TypeOK
  <1>4. CASE /\ m \notin Reserved /\ Accept(m)
             /\ noted' = noted \cup {<<m, "sent">>}
             /\ NextMessage(d, batch) /\ UNCHANGED trouble
    <2>1. inbox' \in [Message -> Nat] /\ \A n \in Message : Books(n)'
      BY <1>1, <1>2, <1>4, AcceptKeepsBooks DEF Hopeless
    <2>2. drains' \in [Drain -> DrainState] /\ HeldApart' /\ \A e \in Drain : Grip(e)'
      BY <1>1, <1>4, BeingDone DEF NextMessage, Answered
    <2>3. noted' \subseteq Message \X NoteState
      BY <1>2, <1>4 DEF IInv, TypeOK, NoteState
    <2> QED BY <1>1, <1>4, <2>1, <2>2, <2>3 DEF IInv, TypeOK
  <1>5. CASE /\ m \notin Reserved /\ Accept(m) /\ GoesWrong
             /\ At(d, "failing", m, batch) /\ UNCHANGED noted
    <2>1. inbox' \in [Message -> Nat] /\ \A n \in Message : Books(n)'
      BY <1>1, <1>2, <1>5, AcceptKeepsBooks DEF Hopeless
    <2>2. drains' \in [Drain -> DrainState] /\ HeldApart' /\ \A e \in Drain : Grip(e)'
      BY <1>1, <1>2, <1>5, MovingOn DEF Await, Answered
    <2> QED BY <1>1, <1>5, <2>1, <2>2 DEF IInv, TypeOK, GoesWrong
  <1>6. CASE /\ m \notin Reserved /\ GoesWrong
             /\ At(d, "failing", m, batch) /\ UNCHANGED <<accepted, inbox, noted>>
    <2>1. drains' \in [Drain -> DrainState] /\ HeldApart' /\ \A e \in Drain : Grip(e)'
      BY <1>1, <1>2, <1>6, BooksUnread, MovingOn DEF Await
    <2> QED BY <1>1, <1>6, <2>1, BooksUnread DEF IInv, TypeOK, GoesWrong
  <1> QED BY <1>3, <1>4, <1>5, <1>6 DEF Send

\* Only what can never be sent is recorded as undeliverable.
LEMMA NoteHolds ==
    ASSUME IInv, NEW d \in Drain, Note(d)
    PROVE  IInv'
  <1> DEFINE m == drains[d].item
             batch == drains[d].batch
  <1>1. /\ drains[d].at \in {"givingUp", "failing", "catching"}
        /\ UNCHANGED <<rows, accepted, inbox, lossy, trouble>>
    BY DEF Note
  <1>2. /\ m \in Message /\ batch \in SUBSET Message /\ m \notin batch
        /\ Held(drains[d]) = batch \cup {m} /\ rows[m] = "claimed"
    BY <1>1, AtAnAwait DEF Await
  <1>3. CASE drains[d].at = "givingUp"
    <2>1. /\ noted' = noted \cup {<<m, "undeliverable">>}
          /\ Between(d, batch) /\ Hopeless(m)
      BY <1>3 DEF Note, Retries, NextMessage, IInv, Grip
    <2>2. drains' \in [Drain -> DrainState] /\ HeldApart' /\ \A e \in Drain : Grip(e)'
      BY <1>1, <2>1, BeingDone DEF Await, Answered
    <2>3. ASSUME NEW n \in Message PROVE Books(n)'
      <3>1. Books(n)
        BY DEF IInv
      <3> QED BY <1>1, <1>2, <2>1, <3>1 DEF Books, Answered, Hopeless, KeyOf
    <2>4. noted' \subseteq Message \X NoteState
      BY <1>2, <2>1 DEF IInv, TypeOK, NoteState
    <2> QED BY <1>1, <2>2, <2>3, <2>4 DEF IInv, TypeOK
  <1>4. CASE drains[d].at # "givingUp"
    <2>1. noted' = noted \cup {<<m, "failed">>} /\ At(d, "requeuing", m, batch)
      BY <1>4 DEF Note, Retries
    <2>2. \A n \in Message : Answered(n)' <=> Answered(n)
      BY <2>1 DEF Answered
    <2>3. drains' \in [Drain -> DrainState] /\ HeldApart' /\ \A e \in Drain : Grip(e)'
      BY <1>1, <1>2, <2>1, <2>2, MovingOn DEF Await
    <2>4. ASSUME NEW n \in Message PROVE Books(n)'
      <3>1. Books(n)
        BY DEF IInv
      <3> QED BY <1>1, <2>1, <2>2, <3>1 DEF Books, Hopeless, KeyOf
    <2>5. noted' \subseteq Message \X NoteState
      BY <1>2, <2>1 DEF IInv, TypeOK, NoteState
    <2> QED BY <1>1, <2>3, <2>4, <2>5 DEF IInv, TypeOK
  <1> QED BY <1>3, <1>4

\* What the database refuses to record is caught with the same messages in hand.
LEMMA NoteFailsHolds ==
    ASSUME IInv, NEW d \in Drain, NoteFails(d)
    PROVE  IInv'
  <1>1. /\ drains[d].at \in Await
        /\ UNCHANGED <<rows, accepted, inbox, noted, lossy>> /\ trouble' \in Nat
        /\ At(d, "catching", drains[d].item, drains[d].batch)
    BY DEF NoteFails, GoesWrong, Await, IInv, TypeOK
  <1>2. drains' \in [Drain -> DrainState] /\ HeldApart' /\ \A e \in Drain : Grip(e)'
    BY <1>1, AtAnAwait, BooksUnread, MovingOn DEF Await
  <1> QED BY <1>1, <1>2, BooksUnread DEF IInv, TypeOK

\* A drain that breaks down lets go of everything.
LEMMA BreakdownHolds ==
    ASSUME IInv, NEW d \in Drain, CatchFails(d) \/ Crash(d)
    PROVE  IInv'
  <1>1. /\ drains' = [drains EXCEPT ![d] = Resting] /\ lossy' = TRUE
        /\ UNCHANGED <<rows, accepted, inbox, noted>> /\ trouble' \in Nat
    BY DEF CatchFails, Crash, GoesWrong, IInv, TypeOK
  <1>2. /\ drains' \in [Drain -> DrainState]
        /\ drains'[d].at = "resting" /\ Held(drains'[d]) = {}
        /\ \A e \in Drain \ {d} : drains'[e] = drains[e]
    BY <1>1, EndHolds DEF IInv, TypeOK
  <1>3. HeldApart' /\ \A e \in Drain \ {d} : Grip(e)'
    BY <1>1, <1>2, BooksUnread, LettingGo
  <1>4. Grip(d)'
    BY <1>2 DEF Grip, Await
  <1> QED BY <1>1, <1>2, <1>3, <1>4, BooksUnread DEF IInv, TypeOK

\* A message given back is in nobody's hands, and unanswered.
LEMMA RequeueHolds ==
    ASSUME IInv, NEW d \in Drain, Requeue(d) \/ RequeueFails(d)
    PROVE  IInv'
  <1> DEFINE m == drains[d].item
  <1>1. /\ drains[d].at \in Await /\ Between(d, drains[d].batch)
        /\ rows' \in {rows, [rows EXCEPT ![m] = "waiting"]}
        /\ UNCHANGED <<accepted, inbox, noted>>
        /\ lossy' \in BOOLEAN /\ trouble' \in Nat
    <2>1. lossy \in BOOLEAN /\ trouble \in Nat
      BY DEF IInv, TypeOK
    <2>2. CASE Requeue(d)
      BY <2>1, <2>2 DEF Requeue, Requeued, NextMessage, Await
    <2>3. CASE RequeueFails(d)
      BY <2>1, <2>3 DEF RequeueFails, NextMessage, GoesWrong, Await
    <2> QED BY <2>2, <2>3
  <1>2. m \in Message /\ ~Answered(m)
    BY <1>1, AtAnAwait
  <1>3. drains' \in [Drain -> DrainState] /\ HeldApart' /\ \A e \in Drain : Grip(e)'
    <2>1. ASSUME NEW n \in Message \ {m}
          PROVE  rows'[n] = rows[n] /\ (Answered(n)' => Answered(n))
      BY <1>1 DEF Answered, IInv, TypeOK
    <2> QED BY <1>1, <2>1, BeingDone
  <1>4. ASSUME NEW n \in Message PROVE Books(n)'
    <2>1. Books(n)
      BY DEF IInv
    <2>2. Answered(n)' => rows'[n] = "claimed"
      BY <1>1, <1>2, <2>1 DEF Books, Answered, IInv, TypeOK
    <2> QED BY <1>1, <2>1, <2>2 DEF Books, Hopeless, KeyOf
  <1>5. TypeOK'
    BY <1>1, <1>2, <1>3 DEF IInv, TypeOK
  <1> QED BY <1>3, <1>4, <1>5 DEF IInv

\* A step that changes nothing keeps the invariant.
LEMMA StutterHolds == ASSUME IInv, UNCHANGED vars PROVE IInv'
  BY DEF IInv, TypeOK, HeldApart, Grip, Books, Answered, Hopeless, KeyOf, vars
-----------------------------------------------------------------------------
\* What every reachable state satisfies: the messages in the hands of drains are
\* claimed, unanswered and in no other hands, and the books agree.
THEOREM Sound == Spec => []IInv
  <1>1. ASSUME IInv, [Next]_vars PROVE IInv'
    <2>1. CASE \E m \in Message : Commit(m)
      BY <1>1, <2>1, CommitHolds
    <2>2. CASE Sweep
      BY <1>1, <2>2, TakeHolds DEF Sweep
    <2>3. ASSUME NEW d \in Drain, Runs(d) \/ Crash(d) PROVE IInv'
      BY <1>1, <2>3, RenderHolds, SendHolds, NoteHolds, NoteFailsHolds,
         BreakdownHolds, RequeueHolds DEF Runs
    <2>4. CASE UNCHANGED vars
      BY <1>1, <2>4, StutterHolds
    <2> QED BY <1>1, <2>1, <2>2, <2>3, <2>4 DEF Next
  <1> QED BY <1>1, InitHolds, PTL DEF Spec

\* Rows, drains and records have the shapes the code gives them.
THEOREM TypeCorrect == Spec => []TypeOK
  <1>1. IInv => TypeOK
    BY DEF IInv
  <1> QED BY <1>1, Sound, PTL

\* No two drains hold one message, and no held message waits (take).
THEOREM OneDrain == Spec => []HeldByOneDrain
  <1>1. ASSUME IInv PROVE HeldByOneDrain
    BY <1>1 DEF IInv, HeldApart, Grip, HeldByOneDrain, Waiting
  <1> QED BY <1>1, Sound, PTL

\* What was sent or given up for good is not tried again (drain, requeue).
THEOREM StaysOut == Spec => []AnsweredStaysOut
  <1>1. ASSUME IInv PROVE AnsweredStaysOut
    BY <1>1 DEF IInv, Books, Grip, AnsweredStaysOut, Waiting
  <1> QED BY <1>1, Sound, PTL

\* No recipient gets a message twice, even when an answer is lost
\* (idempotencyKey).
THEOREM AtMostOnce == Spec => []DeliveredAtMostOnce
  <1>1. ASSUME IInv PROVE DeliveredAtMostOnce
    BY <1>1 DEF IInv, Books, DeliveredAtMostOnce
  <1> QED BY <1>1, Sound, PTL
-----------------------------------------------------------------------------
InHand(m) == \E d \in Drain : m \in Held(drains[d])

\* A message whose records and place stay the same keeps its fate.
LEMMA SameFate ==
    ASSUME NEW m \in Message,
           <<m, "sent">> \in noted' <=> <<m, "sent">> \in noted,
           <<m, "undeliverable">> \in noted' <=> <<m, "undeliverable">> \in noted,
           rows'[m] = "unwritten" <=> rows[m] = "unwritten",
           (m \in Waiting \/ InHand(m))' <=> (m \in Waiting \/ InHand(m))
    PROVE  Fate(m)' = Fate(m)
  BY DEF Fate, InHand

\* A message in a drain's hands is queued.
LEMMA HeldIsQueued ==
    ASSUME IInv, NEW d \in Drain, NEW m \in Held(drains[d])
    PROVE  m \in Message /\ Fate(m) = "queued"
  <1>1. m \in Message /\ rows[m] = "claimed" /\ ~Answered(m)
    BY DrainForms DEF IInv, TypeOK, Grip
  <1> QED BY <1>1 DEF Fate, Answered

\* Where every fate stays, as where one changes, the function of fates follows.
LEMMA FatesFollow ==
    /\ (\A n \in Message : Fate(n)' = Fate(n)) =>
          UNCHANGED [n \in Message |-> Fate(n)]
    /\ \A m \in Message : \A f :
          Fate(m)' = f /\ (\A n \in Message \ {m} : Fate(n)' = Fate(n)) =>
             [n \in Message |-> Fate(n)]' = [[n \in Message |-> Fate(n)] EXCEPT ![m] = f]
  OBVIOUS

\* When a drain keeps its messages, or exchanges them for what waited, and
\* records nothing final, no fate changes.
LEMMA KeptFates ==
    ASSUME IInv, NEW d \in Drain,
           \A e \in Drain \ {d} : drains'[e] = drains[e],
           \A n \in Message : /\ <<n, "sent">> \in noted' <=> <<n, "sent">> \in noted
                              /\ <<n, "undeliverable">> \in noted'
                                    <=> <<n, "undeliverable">> \in noted
                              /\ rows'[n] = "unwritten" <=> rows[n] = "unwritten",
           Waiting' \cup Held(drains'[d]) = Waiting \cup Held(drains[d])
    PROVE  \A n \in Message : Fate(n)' = Fate(n)
  <1>1. ASSUME NEW n \in Message
        PROVE  (n \in Waiting \/ InHand(n))' <=> (n \in Waiting \/ InHand(n))
    <2>1. (n \in Waiting' \/ n \in Held(drains'[d]))
             <=> (n \in Waiting \/ n \in Held(drains[d]))
      OBVIOUS
    <2>2. InHand(n)' <=> \/ n \in Held(drains'[d])
                         \/ \E e \in Drain \ {d} : n \in Held(drains[e])
      BY DEF InHand
    <2>3. InHand(n) <=> \/ n \in Held(drains[d])
                        \/ \E e \in Drain \ {d} : n \in Held(drains[e])
      BY DEF InHand
    <2> QED BY <2>1, <2>2, <2>3
  <1> QED BY <1>1, SameFate

\* When a drain lets go of some messages and nothing else happens to the others,
\* only the fates of those change.
LEMMA DroppedFates ==
    ASSUME IInv, NEW d \in Drain,
           Held(drains'[d]) \subseteq Held(drains[d]),
           \A e \in Drain \ {d} : drains'[e] = drains[e],
           \A n \in Message \ (Held(drains[d]) \ Held(drains'[d])) :
              /\ <<n, "sent">> \in noted' <=> <<n, "sent">> \in noted
              /\ <<n, "undeliverable">> \in noted' <=> <<n, "undeliverable">> \in noted,
           UNCHANGED rows
    PROVE  /\ \A n \in Message \ (Held(drains[d]) \ Held(drains'[d])) : Fate(n)' = Fate(n)
           /\ \A n \in Held(drains[d]) \ Held(drains'[d]) : n \notin Waiting' /\ ~InHand(n)'
  <1>1. \A n : InHand(n)' <=> \/ n \in Held(drains'[d])
                             \/ \E e \in Drain \ {d} : n \in Held(drains[e])
    BY DEF InHand
  <1>2. \A n : InHand(n) <=> \/ n \in Held(drains[d])
                            \/ \E e \in Drain \ {d} : n \in Held(drains[e])
    BY DEF InHand
  <1>3. Waiting' = Waiting
    BY DEF Waiting
  <1>4. ASSUME NEW n \in Message \ (Held(drains[d]) \ Held(drains'[d]))
        PROVE  Fate(n)' = Fate(n)
    <2>1. InHand(n)' <=> InHand(n)
      BY <1>1, <1>2
    <2> QED BY <1>3, <2>1, SameFate
  <1>5. ASSUME NEW n \in Held(drains[d]) \ Held(drains'[d])
        PROVE  n \notin Waiting' /\ ~InHand(n)'
    <2>1. \A e \in Drain \ {d} : n \notin Held(drains[e])
      BY DEF IInv, HeldApart
    <2>2. n \notin Waiting
      BY DEF IInv, Grip, Waiting
    <2> QED BY <1>1, <1>3, <2>1, <2>2
  <1> QED BY <1>4, <1>5
-----------------------------------------------------------------------------
Fates == [n \in Message |-> Fate(n)]

\* A commit with messages is a step of Post that queues them.
LEMMA CommitQueues ==
    ASSUME IInv, NEW m \in Message, Commit(m)
    PROVE  Promised!Queue(m)
  <1>1. /\ rows[m] = "unwritten" /\ Waiting' = Waiting \cup {m} /\ ~Answered(m)
        /\ UNCHANGED <<drains, noted, inbox, lossy>>
        /\ \A n \in Message \ {m} : rows'[n] = rows[n]
        /\ rows'[m] = "waiting"
    BY DEF Commit, Waiting, IInv, TypeOK, Books
  <1>2. Fate(m) = "unwritten" /\ Fate(m)' = "queued"
    BY <1>1 DEF Fate, Answered
  <1>3. \A n \in Message \ {m} : Fate(n)' = Fate(n)
    BY <1>1, SameFate DEF InHand
  <1>4. Fates' = [Fates EXCEPT ![m] = "queued"]
    BY <1>2, <1>3, FatesFollow DEF Fates
  <1> QED BY <1>1, <1>2, <1>4 DEF Promised!Queue, Fates

\* Taking, rendering, refusing to record and giving back change no fate.
LEMMA MovesStutter ==
    ASSUME IInv, NEW d \in Drain,
           Take(d) \/ Render(d) \/ NoteFails(d) \/ Requeue(d)
    PROVE  UNCHANGED <<Fates, inbox, lossy>>
  <1>1. /\ UNCHANGED <<noted, inbox, lossy>>
        /\ \A n \in Message : rows'[n] = "unwritten" <=> rows[n] = "unwritten"
        /\ \A e \in Drain \ {d} : drains'[e] = drains[e]
        /\ Waiting' \cup Held(drains'[d]) = Waiting \cup Held(drains[d])
    <2>1. CASE Take(d)
      <3>1. /\ Held(drains'[d]) = Waiting
            /\ \A e \in Drain \ {d} : drains'[e] = drains[e]
        BY <2>1, BetweenHolds DEF IInv, TypeOK, Take, Waiting
      <3>2. Waiting' = {} /\ Held(drains[d]) = {}
        BY <2>1 DEF Take, Claimed, Waiting, Held, Resting
      <3>3. \A n \in Message : rows'[n] = "unwritten" <=> rows[n] = "unwritten"
        BY <2>1 DEF Take, Claimed, Waiting
      <3> QED BY <2>1, <3>1, <3>2, <3>3 DEF Take
    <2>2. CASE Render(d)
      <3>1. PICK m \in drains[d].batch, await \in {"sending", "givingUp", "catching"} :
               At(d, await, m, drains[d].batch \ {m})
        BY <2>2 DEF Render
      <3>2. m \in Message /\ drains[d].batch \in SUBSET Message
            /\ Held(drains[d]) = drains[d].batch
        BY <2>2, DrainForms DEF IInv, TypeOK, Render
      <3> DEFINE rest == drains[d].batch \ {m}
      <3>3. /\ Held(drains'[d]) = rest \cup {m}
            /\ \A e \in Drain \ {d} : drains'[e] = drains[e]
        <4>1. drains \in [Drain -> DrainState] /\ await \in Await /\ rest \in SUBSET Message
          BY <3>2 DEF IInv, TypeOK, Await
        <4> QED BY <3>1, <3>2, <4>1, AtHolds
      <3>4. Held(drains'[d]) = Held(drains[d])
        BY <3>2, <3>3
      <3> QED BY <2>2, <3>3, <3>4 DEF Render, Waiting
    <2>3. CASE NoteFails(d)
      <3>1. drains[d].at \in Await /\ At(d, "catching", drains[d].item, drains[d].batch)
        BY <2>3 DEF NoteFails, Await
      <3>2. /\ Held(drains'[d]) = Held(drains[d])
            /\ \A e \in Drain \ {d} : drains'[e] = drains[e]
        <4>1. drains \in [Drain -> DrainState] /\ "catching" \in Await
          BY DEF IInv, TypeOK, Await
        <4>2. /\ drains[d].item \in Message /\ drains[d].batch \in SUBSET Message
              /\ Held(drains[d]) = drains[d].batch \cup {drains[d].item}
          BY <3>1, AtAnAwait
        <4> QED BY <3>1, <4>1, <4>2, AtHolds
      <3> QED BY <2>3, <3>2 DEF NoteFails, Waiting
    <2>4. CASE Requeue(d)
      <3> DEFINE m == drains[d].item
      <3>1. drains[d].at \in Await /\ Between(d, drains[d].batch)
        BY <2>4 DEF Requeue, NextMessage, Await
      <3>2. /\ m \in Message /\ drains[d].batch \in SUBSET Message
            /\ Held(drains[d]) = drains[d].batch \cup {m} /\ rows[m] = "claimed"
        BY <3>1, AtAnAwait
      <3>3. /\ Held(drains'[d]) = drains[d].batch
            /\ \A e \in Drain \ {d} : drains'[e] = drains[e]
        BY <3>1, <3>2, BetweenHolds DEF IInv, TypeOK
      <3>4. rows' = [rows EXCEPT ![m] = "waiting"]
            /\ rows \in [Message -> {"unwritten", "waiting", "claimed"}]
        BY <2>4 DEF Requeue, Requeued, IInv, TypeOK
      <3>5. Waiting' = Waiting \cup {m}
        BY <3>2, <3>4 DEF Waiting
      <3>6. \A n \in Message : rows'[n] = "unwritten" <=> rows[n] = "unwritten"
        BY <3>2, <3>4
      <3> QED BY <2>4, <3>2, <3>3, <3>5, <3>6 DEF Requeue
    <2> QED BY <2>1, <2>2, <2>3, <2>4
  <1>2. \A n \in Message : Fate(n)' = Fate(n)
    BY <1>1, KeptFates
  <1> QED BY <1>1, <1>2, FatesFollow DEF Fates

\* The provider delivers a message only if it never did before.
LEMMA AcceptDelivers ==
    ASSUME IInv, NEW m \in Message, Accept(m)
    PROVE  \/ inbox[m] = 0 /\ inbox' = [inbox EXCEPT ![m] = 1]
           \/ UNCHANGED inbox
  <1>1. inbox \in [Message -> Nat] /\ Books(m)
    BY DEF IInv, TypeOK
  <1>2. CASE KeyOf(m) \in accepted
    BY <1>2 DEF Accept
  <1>3. CASE KeyOf(m) \notin accepted
    <2>1. inbox[m] = 0
      BY <1>1, <1>3 DEF Books
    <2> QED BY <1>3, <2>1 DEF Accept
  <1> QED BY <1>2, <1>3

\* A send is a try, or nothing at all.
LEMMA SendTries ==
    ASSUME IInv, NEW d \in Drain, Send(d)
    PROVE  Promised!Try(drains[d].item) \/ UNCHANGED <<Fates, inbox, lossy>>
  <1>1. drains[d].at \in Await /\ UNCHANGED <<rows, lossy>>
    BY DEF Send, Await
  <1> PICK m \in Message : m = drains[d].item
    BY <1>1, AtAnAwait
  <1> DEFINE batch == drains[d].batch
  <1>2. /\ m \in Message /\ batch \in SUBSET Message /\ m \notin batch
        /\ Held(drains[d]) = batch \cup {m} /\ Fate(m) = "queued"
    BY <1>1, AtAnAwait, HeldIsQueued
  <1>3. ASSUME NEW await \in Await, At(d, await, m, batch), UNCHANGED noted
        PROVE  UNCHANGED Fates
    <2>1. /\ Held(drains'[d]) = Held(drains[d])
          /\ \A e \in Drain \ {d} : drains'[e] = drains[e]
      BY <1>2, <1>3, AtHolds DEF IInv, TypeOK
    <2>2. \A n \in Message : Fate(n)' = Fate(n)
      BY <1>1, <1>3, <2>1, KeptFates DEF Waiting
    <2> QED BY <2>2, FatesFollow DEF Fates
  <1>4. CASE At(d, "givingUp", m, batch) /\ UNCHANGED <<accepted, inbox, noted, trouble>>
    BY <1>1, <1>3, <1>4 DEF Await
  <1>5. CASE At(d, "failing", m, batch) /\ UNCHANGED <<accepted, inbox, noted>>
    BY <1>1, <1>3, <1>5 DEF Await
  <1>6. CASE At(d, "failing", m, batch) /\ UNCHANGED noted /\ Accept(m)
    <2>1. UNCHANGED Fates
      BY <1>3, <1>6 DEF Await
    <2> QED BY <1>1, <1>2, <1>6, <2>1, AcceptDelivers DEF Promised!Try, Fates
  <1>7. CASE /\ Accept(m) /\ noted' = noted \cup {<<m, "sent">>} /\ NextMessage(d, batch)
    <2>1. /\ Held(drains'[d]) = batch
          /\ \A e \in Drain \ {d} : drains'[e] = drains[e]
      BY <1>2, <1>7, BetweenHolds DEF IInv, TypeOK, NextMessage
    <2>2. Held(drains[d]) \ Held(drains'[d]) = {m}
      BY <1>2, <2>1
    <2>3. \A n \in Message \ {m} : Fate(n)' = Fate(n)
      BY <1>1, <1>2, <1>7, <2>1, <2>2, DroppedFates
    <2>4. Fate(m)' = "sent"
      BY <1>7 DEF Fate
    <2>5. Fates' = [Fates EXCEPT ![m] = "sent"]
      BY <1>2, <2>3, <2>4, FatesFollow DEF Fates
    <2> QED BY <1>1, <1>2, <1>7, <2>5, AcceptDelivers DEF Promised!Try, Fates
  <1> QED BY <1>4, <1>5, <1>6, <1>7 DEF Send

\* A message is given up for good only if it never arrived.
LEMMA NoteBuries ==
    ASSUME IInv, NEW d \in Drain, Note(d)
    PROVE  Promised!Bury(drains[d].item) \/ UNCHANGED <<Fates, inbox, lossy>>
  <1>1. drains[d].at \in Await /\ UNCHANGED <<rows, inbox, lossy>>
    BY DEF Note, Await
  <1> PICK m \in Message : m = drains[d].item
    BY <1>1, AtAnAwait
  <1> DEFINE batch == drains[d].batch
  <1>2. /\ m \in Message /\ batch \in SUBSET Message /\ m \notin batch
        /\ Held(drains[d]) = batch \cup {m} /\ Fate(m) = "queued"
    BY <1>1, AtAnAwait, HeldIsQueued
  <1>3. CASE drains[d].at = "givingUp"
    <2>1. /\ noted' = noted \cup {<<m, "undeliverable">>} /\ Between(d, batch)
          /\ inbox[m] = 0 /\ <<m, "sent">> \notin noted
      BY <1>2, <1>3 DEF Note, Retries, NextMessage, IInv, Grip, Books
    <2>2. /\ Held(drains'[d]) = batch
          /\ \A e \in Drain \ {d} : drains'[e] = drains[e]
      BY <1>2, <2>1, BetweenHolds DEF IInv, TypeOK
    <2>3. Held(drains[d]) \ Held(drains'[d]) = {m}
      BY <1>2, <2>2
    <2>4. \A n \in Message \ {m} : Fate(n)' = Fate(n)
      BY <1>1, <1>2, <2>1, <2>2, <2>3, DroppedFates
    <2>5. Fate(m)' = "undeliverable"
      BY <2>1 DEF Fate
    <2>6. Fates' = [Fates EXCEPT ![m] = "undeliverable"]
      BY <1>2, <2>4, <2>5, FatesFollow DEF Fates
    <2> QED BY <1>1, <1>2, <2>1, <2>6 DEF Promised!Bury, Fates
  <1>4. CASE drains[d].at # "givingUp"
    <2>1. noted' = noted \cup {<<m, "failed">>} /\ At(d, "requeuing", m, batch)
      BY <1>4 DEF Note, Retries
    <2>2. /\ Held(drains'[d]) = Held(drains[d])
          /\ \A e \in Drain \ {d} : drains'[e] = drains[e]
      BY <1>2, <2>1, AtHolds DEF IInv, TypeOK, Await
    <2>3. \A n \in Message : Fate(n)' = Fate(n)
      BY <1>1, <2>1, <2>2, KeptFates DEF Waiting
    <2> QED BY <1>1, <2>3, FatesFollow DEF Fates
  <1> QED BY <1>3, <1>4

\* A breakdown forgets what the drain held; a refused return, one message.
LEMMA BreakdownForgets ==
    ASSUME IInv, NEW d \in Drain, RequeueFails(d) \/ CatchFails(d) \/ Crash(d)
    PROVE  \E messages \in SUBSET Message : Promised!Forget(messages)
  <1> DEFINE gone == Held(drains[d]) \ Held(drains'[d])
  <1>1. /\ Held(drains'[d]) \subseteq Held(drains[d])
        /\ \A e \in Drain \ {d} : drains'[e] = drains[e]
    <2>1. CASE RequeueFails(d)
      <3>1. drains[d].at \in Await /\ Between(d, drains[d].batch)
        BY <2>1 DEF RequeueFails, NextMessage, Await
      <3> QED BY <3>1, AtAnAwait, BetweenHolds DEF IInv, TypeOK
    <2>2. CASE CatchFails(d) \/ Crash(d)
      BY <2>2, EndHolds DEF IInv, TypeOK, CatchFails, Crash
    <2> QED BY <2>1, <2>2
  <1>2. UNCHANGED <<rows, inbox, noted>> /\ lossy' = TRUE
    BY DEF RequeueFails, CatchFails, Crash
  <1>3. \A n \in gone : n \in Message /\ Fate(n) = "queued"
    BY HeldIsQueued
  <1>4. /\ \A n \in Message \ gone : Fate(n)' = Fate(n)
        /\ \A n \in gone : n \notin Waiting' /\ ~InHand(n)'
    BY <1>1, <1>2, DroppedFates
  <1>5. ASSUME NEW n \in gone PROVE Fate(n)' = "lost"
    <2>1. rows[n] = "claimed" /\ ~Answered(n)
      BY DEF IInv, Grip
    <2> QED BY <1>2, <1>4, <2>1 DEF Fate, Answered, InHand
  <1>6. Fates' = [n \in Message |-> IF n \in gone THEN "lost" ELSE Fates[n]]
    BY <1>3, <1>4, <1>5 DEF Fates
  <1>7. Promised!Forget(gone)
    BY <1>2, <1>3, <1>6 DEF Promised!Forget, Fates
  <1> QED BY <1>3, <1>7
-----------------------------------------------------------------------------
\* However drains interleave, answers are lost and processes die, the service
\* keeps what Post promises of every message (outbox.ts).
THEOREM ImplementsPost == Spec => KeepsThePost
  <1>1. Init => Promised!PostInit
    BY DEF Init, Promised!PostInit, Fate, Waiting, Held, Resting
  <1>2. ASSUME IInv, [Next]_vars
        PROVE  [Promised!PostNext]_(Promised!postVars)
    <2>1. ASSUME NEW m \in Message, Commit(m)
          PROVE  Promised!PostNext
      BY <1>2, <2>1, CommitQueues DEF Promised!PostNext
    <2>2. ASSUME NEW d \in Drain,
                 Take(d) \/ Render(d) \/ NoteFails(d) \/ Requeue(d)
          PROVE  UNCHANGED Promised!postVars
      BY <1>2, <2>2, MovesStutter DEF Promised!postVars, Fates
    <2>3. ASSUME NEW d \in Drain, Send(d) \/ Note(d)
          PROVE  [Promised!PostNext]_(Promised!postVars)
      <3>1. drains[d].item \in Message
        BY <1>2, <2>3, AtAnAwait DEF Send, Note, Await
      <3>2. CASE Promised!Try(drains[d].item) \/ Promised!Bury(drains[d].item)
        BY <3>1, <3>2 DEF Promised!PostNext
      <3>3. CASE UNCHANGED <<Fates, inbox, lossy>>
        BY <3>3 DEF Promised!postVars, Fates
      <3> QED BY <1>2, <2>3, <3>2, <3>3, SendTries, NoteBuries
    <2>4. ASSUME NEW d \in Drain, RequeueFails(d) \/ CatchFails(d) \/ Crash(d)
          PROVE  Promised!PostNext
      BY <1>2, <2>4, BreakdownForgets DEF Promised!PostNext
    <2>5. CASE UNCHANGED vars
      BY <2>5 DEF vars, Promised!postVars, Fate, Waiting
    <2> QED BY <1>2, <2>1, <2>2, <2>3, <2>4, <2>5 DEF Next, Sweep, Runs
  <1> QED BY <1>1, <1>2, Sound, PTL DEF Spec, KeepsThePost, Promised!PostSpec
=============================================================================

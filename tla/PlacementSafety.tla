--------------------------- MODULE PlacementSafety ---------------------------
(***************************************************************************)
(* Why the placement's promises hold for every number of calls in flight:  *)
(* what a call read is still true as long as the version it will check has *)
(* not moved.  Honest says so of each thing a call may hold, IInv adds the *)
(* promises themselves; it is inductive, which none of the promises is.    *)
(***************************************************************************)
EXTENDS PlacementProofs

\* Nothing was written to the row since the call read it.
Untouched(call) == call.row.version = apps[call.app].version

\* A row that was read is the current one or has a lower version.
RowReadIsOlder(call) ==
    call.at \in {"moving", "deciding", "logging", "logged", "weighing", "signing"} =>
        /\ call.row.version <= apps[call.app].version
        /\ Untouched(call) => call.row = apps[call.app]

\* The entries of a placement change only together with its row.
EntriesReadAreCurrent(call) ==
    call.at \in {"logged", "signing"} /\ Untouched(call) =>
        call.seen = EntriesOf(entries, call.app)

\* An entry under review was submitted when it was read, and is the current
\* one or has a lower version.
EntryReadIsOlder(call) ==
    call.at \in {"reviewing", "weighing", "signing"} =>
        /\ call.entry.status = "submitted"
        /\ entries[call.id] # NoEntry
        /\ entries[call.id].app = call.entry.app
        /\ call.at # "reviewing" => call.app = call.entry.app
        /\ call.entry.version <= entries[call.id].version
        /\ call.entry.version = entries[call.id].version =>
              call.entry = entries[call.id]

\* A week about to be inserted was unclaimed in what was read, and the
\* placement active.
ClaimWasChecked(call) ==
    /\ call.at \in {"logging", "logged"} => call.row.status = "placement_active"
    /\ call.at = "logged" => call.week \notin ClaimedWeeks(call.seen)

\* A move about to commit follows the table from the row that was read; a
\* completion that is no override saw every week reviewed; only a funding
\* authorization carries a draft.
DecisionWasChecked(call) ==
    /\ call.at \in {"moving", "deciding"} /\ call.draft =>
          call.to = "funding_authorized"
    /\ call.at = "deciding" =>
          \E t \in TransitionsFrom(call.row.status, "standard") : t.to = call.to
    /\ /\ call.at = "deciding"
       /\ call.to = "placement_completed"
       /\ ~call.viaOverride
       /\ Untouched(call)
       => /\ Unreviewed(EntriesOf(entries, call.app)) = {}
          /\ call.row.hoursApproved # {}

\* A draw that was read is the current one or has a lower version, and no
\* authorization of the placement escaped the reading.
DrawsReadAreOlder(call) ==
    call.at = "deciding" =>
        \A d \in Draw :
            /\ call.drawn[d] # NoDraw =>
                  /\ draws[d] # NoDraw
                  /\ call.drawn[d].version <= draws[d].version
                  /\ call.drawn[d].version = draws[d].version =>
                        call.drawn[d] = draws[d]
            /\ /\ Untouched(call)
               /\ draws[d] # NoDraw
               /\ draws[d].hourly
               /\ draws[d].app = call.app
               => call.drawn[d] # NoDraw

\* The same of a draw somebody is releasing.
DrawReleasedIsOlder(call) ==
    call.at = "releasing" =>
        /\ draws[call.id] # NoDraw
        /\ call.draw.version <= draws[call.id].version
        /\ call.draw.version = draws[call.id].version => call.draw = draws[call.id]

Honest(call) ==
    /\ RowReadIsOlder(call)
    /\ EntriesReadAreCurrent(call)
    /\ EntryReadIsOlder(call)
    /\ ClaimWasChecked(call)
    /\ DecisionWasChecked(call)
    /\ DrawsReadAreOlder(call)
    /\ DrawReleasedIsOlder(call)

\* A draw is written over only to settle it, and an hour cap belongs to a
\* placement.
DrawsAreSettledOnce ==
    \A d \in Draw : draws[d] # NoDraw =>
        /\ draws[d].status = "authorized" => draws[d].version = 1
        /\ draws[d].hourly => draws[d].app \in App

Promises ==
    /\ CachedHoursMatchEntries
    /\ OneLiveClaimPerWeek
    /\ CompletedWeeksAreReviewed
    /\ AuthorizationSettledWithPlacement

IInv == /\ TypeOK
        /\ \A c \in Call : Honest(calls[c])
        /\ DrawsAreSettledOnce
        /\ Promises
-----------------------------------------------------------------------------
(* What every step does to the tables.  A row that changes gets the next   *)
(* version, an entry or a draw never disappears and keeps its placement,   *)
(* and what belongs to a placement changes only together with its row,     *)
(* except for draws that carry no hour cap.                                *)

RowsAdvance ==
    \A a \in App :
        \/ apps'[a] = apps[a] /\ EntriesOf(entries', a) = EntriesOf(entries, a)
        \/ apps'[a].version = apps[a].version + 1

EntriesAdvance ==
    \A e \in Entry : entries[e] # NoEntry =>
        /\ entries'[e] # NoEntry
        /\ entries'[e].app = entries[e].app
        /\ entries'[e] = entries[e] \/ entries'[e].version > entries[e].version

DrawsAdvance ==
    \A d \in Draw :
        /\ draws[d] # NoDraw =>
              /\ draws'[d] # NoDraw
              /\ draws'[d].app = draws[d].app
              /\ draws'[d].hourly = draws[d].hourly
              /\ draws'[d] = draws[d] \/ draws'[d].version > draws[d].version
        /\ draws[d] = NoDraw /\ draws'[d] # NoDraw /\ draws'[d].hourly =>
              /\ draws'[d].app \in App
              /\ apps'[draws'[d].app].version = apps[draws'[d].app].version + 1

TablesAdvance == RowsAdvance /\ EntriesAdvance /\ DrawsAdvance

\* A step that leaves the tables alone advances them.
LEMMA ReadsAdvance == UNCHANGED tables => TablesAdvance
  BY DEF tables, TablesAdvance, RowsAdvance, EntriesAdvance, DrawsAdvance

\* What a call holds stays honest while others advance the tables.
LEMMA HonestyKept ==
    ASSUME TypeOK, TypeOK', NEW call \in CallState, Honest(call), TablesAdvance
    PROVE  Honest(call)'
  <1>1. ASSUME call.at \in {"moving", "deciding", "logging", "logged", "weighing",
                            "signing"}
        PROVE  /\ call.app \in App
               /\ call.row \in AppRow
               /\ apps[call.app] \in AppRow /\ apps'[call.app] \in AppRow
               /\ call.row.version \in Nat
               /\ apps[call.app].version \in Nat /\ apps'[call.app].version \in Nat
    <2>1. call.app \in App /\ call.row \in AppRow
      BY <1>1, CallShapes DEF MovingCall, DecidingCall, LoggingCall, LoggedCall,
                              WeighingCall, SigningCall
    <2>2. apps[call.app] \in AppRow /\ apps'[call.app] \in AppRow
      BY <2>1 DEF TypeOK
    <2> QED BY <2>1, <2>2 DEF AppRow
  <1>2. RowReadIsOlder(call)'
    BY <1>1 DEF Honest, RowReadIsOlder, TablesAdvance, RowsAdvance, Untouched
  <1>3. ASSUME call.at \in {"deciding", "logged", "signing"}, Untouched(call)'
        PROVE  /\ Untouched(call)
               /\ apps'[call.app] = apps[call.app]
               /\ EntriesOf(entries', call.app) = EntriesOf(entries, call.app)
    <2>1. call.row.version <= apps[call.app].version
      BY <1>3 DEF Honest, RowReadIsOlder
    <2>2. apps'[call.app].version # apps[call.app].version + 1
      BY <1>1, <1>3, <2>1 DEF Untouched
    <2> QED BY <1>1, <1>3, <2>2 DEF TablesAdvance, RowsAdvance, Untouched
  <1>4. EntriesReadAreCurrent(call)'
    BY <1>3 DEF Honest, EntriesReadAreCurrent
  <1>5. EntryReadIsOlder(call)'
    <2>1. CASE call.at \in {"reviewing", "weighing", "signing"}
      <3>1. call.id \in Entry /\ call.entry \in EntryRow
        BY <2>1, CallShapes DEF ReviewingCall, WeighingCall, SigningCall
      <3>2. entries[call.id] # NoEntry /\ entries'[call.id] # NoEntry
        BY <2>1, <3>1 DEF Honest, EntryReadIsOlder, TablesAdvance, EntriesAdvance
      <3>3. entries[call.id] \in EntryRow /\ entries'[call.id] \in EntryRow
        BY <3>1, <3>2 DEF TypeOK, EntryTable
      <3>4. /\ call.entry.version \in Nat
            /\ entries[call.id].version \in Nat /\ entries'[call.id].version \in Nat
        BY <3>1, <3>3 DEF EntryRow
      <3> QED BY <2>1, <3>1, <3>2, <3>4
              DEF Honest, EntryReadIsOlder, TablesAdvance, EntriesAdvance
    <2> QED BY <2>1 DEF EntryReadIsOlder
  <1>6. ClaimWasChecked(call)'
    BY DEF Honest, ClaimWasChecked, ClaimedWeeks, Logged, WithStatus
  <1>7. DecisionWasChecked(call)'
    BY <1>3 DEF Honest, DecisionWasChecked
  <1>8. DrawsReadAreOlder(call)'
    <2> SUFFICES ASSUME call.at = "deciding", NEW d \in Draw
                 PROVE  /\ call.drawn[d] # NoDraw =>
                             /\ draws'[d] # NoDraw
                             /\ call.drawn[d].version <= draws'[d].version
                             /\ call.drawn[d].version = draws'[d].version =>
                                   call.drawn[d] = draws'[d]
                        /\ /\ Untouched(call)'
                           /\ draws'[d] # NoDraw
                           /\ draws'[d].hourly
                           /\ draws'[d].app = call.app
                           => call.drawn[d] # NoDraw
      BY DEF DrawsReadAreOlder
    <2>1. call \in DecidingCall
      BY CallShapes
    <2>2. call.drawn[d] # NoDraw => call.drawn[d].version \in Nat
      BY <2>1 DEF DecidingCall, DrawTable, DrawRow
    <2>3. /\ draws[d] # NoDraw => draws[d].version \in Nat
          /\ draws'[d] # NoDraw => draws'[d].version \in Nat
      BY DEF TypeOK, DrawTable, DrawRow
    <2>4. CASE draws[d] # NoDraw
      BY <1>3, <2>2, <2>3, <2>4 DEF Honest, DrawsReadAreOlder, TablesAdvance, DrawsAdvance
    <2>5. CASE draws[d] = NoDraw
      <3>1. call.drawn[d] = NoDraw
        BY <2>5 DEF Honest, DrawsReadAreOlder
      <3>2. /\ draws'[d] # NoDraw /\ draws'[d].hourly /\ draws'[d].app = call.app
            => apps'[call.app].version = apps[call.app].version + 1
        BY <2>5 DEF TablesAdvance, DrawsAdvance
      <3>3. Untouched(call)' => apps'[call.app].version # apps[call.app].version + 1
        BY <1>1, <1>3
      <3> QED BY <3>1, <3>2, <3>3
    <2> QED BY <2>4, <2>5
  <1>9. DrawReleasedIsOlder(call)'
    <2>1. CASE call.at = "releasing"
      <3>1. call.id \in Draw /\ call.draw \in DrawRow
        BY <2>1, CallShapes DEF ReleasingCall
      <3>2. draws[call.id] # NoDraw /\ draws'[call.id] # NoDraw
        BY <2>1, <3>1 DEF Honest, DrawReleasedIsOlder, TablesAdvance, DrawsAdvance
      <3>3. /\ call.draw.version \in Nat
            /\ draws[call.id].version \in Nat /\ draws'[call.id].version \in Nat
        BY <3>1, <3>2 DEF TypeOK, DrawTable, DrawRow
      <3> QED BY <2>1, <3>1, <3>2, <3>3
              DEF Honest, DrawReleasedIsOlder, TablesAdvance, DrawsAdvance
    <2> QED BY <2>1 DEF DrawReleasedIsOlder
  <1> QED BY <1>2, <1>4, <1>5, <1>6, <1>7, <1>8, <1>9 DEF Honest

\* A call that ended holds nothing.
LEMMA IdleHonest == Honest(Idle) /\ Honest(Idle)'
  BY DEF Idle, Honest, RowReadIsOlder, EntriesReadAreCurrent, EntryReadIsOlder,
         ClaimWasChecked, DecisionWasChecked, DrawsReadAreOlder, DrawReleasedIsOlder

\* Honesty of a call is honesty of what it holds.
LEMMA HonestyOfHeld ==
    ASSUME NEW c \in Call, NEW held, calls'[c] = held, Honest(held)'
    PROVE  Honest(calls[c])'
  BY DEF Honest, RowReadIsOlder, EntriesReadAreCurrent, EntryReadIsOlder, Untouched,
         ClaimWasChecked, DecisionWasChecked, DrawsReadAreOlder, DrawReleasedIsOlder

\* What the calls have read stays true while their versions stand, when the tables
\* advance and one call at most is replaced.
LEMMA CallsStayHonest ==
    ASSUME TypeOK, TypeOK', \A b \in Call : Honest(calls[b]), TablesAdvance,
           NEW c \in Call, NEW held, Holds(c, held), Honest(held)'
    PROVE  (\A b \in Call : Honest(calls[b]))'
  <1> SUFFICES ASSUME NEW b \in Call PROVE Honest(calls[b])'
    OBVIOUS
  <1>1. CASE b = c
    <2>1. calls'[b] = held
      BY <1>1 DEF Holds, TypeOK
    <2> QED BY <2>1, HonestyOfHeld
  <1>2. CASE b # c
    <2>1. PICK kept : kept = calls[b]
      OBVIOUS
    <2>2. calls'[b] = kept /\ kept \in CallState /\ Honest(kept)
      BY <1>2, <2>1 DEF Holds, TypeOK
    <2>3. Honest(kept)'
      BY <2>2, HonestyKept
    <2> QED BY <2>2, <2>3, HonestyOfHeld
  <1> QED BY <1>1, <1>2

\* A step that only reads keeps the invariant when what it holds is honest.
LEMMA ReadStepSafe ==
    ASSUME IInv, TypeOK', NEW c \in Call, NEW held,
           Holds(c, held), UNCHANGED tables, Honest(held)
    PROVE  IInv'
  <1>1. TablesAdvance
    BY ReadsAdvance
  <1>2. Honest(held)'
    <2>1. held \in CallState
      BY DEF IInv, TypeOK, Holds
    <2> QED BY <1>1, <2>1, HonestyKept DEF IInv
  <1>3. (\A b \in Call : Honest(calls[b]))'
    BY <1>1, <1>2, CallsStayHonest DEF IInv
  <1>4. DrawsAreSettledOnce'
    BY DEF IInv, DrawsAreSettledOnce, tables
  <1>5. Promises'
    BY DEF IInv, Promises, tables, CachedHoursMatchEntries, OneLiveClaimPerWeek,
           CompletedWeeksAreReviewed, AuthorizationSettledWithPlacement
  <1> QED BY <1>3, <1>4, <1>5 DEF IInv

\* A step that ends a call and leaves the tables alone.
LEMMA AbandonSafe ==
    ASSUME IInv, TypeOK', NEW c \in Call, Abandon(c)
    PROVE  IInv'
  BY IdleHonest, ReadStepSafe DEF Abandon, Returns

-----------------------------------------------------------------------------
(* Steps that only read. *)

\* Reading a row to move it keeps the invariant.
LEMMA ReadForMoveSafe ==
    ASSUME IInv, TypeOK', NEW c \in Call, NEW a \in App, NEW to, NEW role,
           NEW amount, NEW draft, draft => to = "funding_authorized",
           ReadForMove(c, a, to, role, amount, draft), UNCHANGED tables
    PROVE  IInv'
  <1> DEFINE held == [at |-> "moving", app |-> a, to |-> to, role |-> role,
                      amount |-> amount, draft |-> draft, row |-> apps[a]]
  <1>1. apps[a].version \in Nat
    BY DEF IInv, TypeOK, AppRow
  <1>2. Honest(held)
    BY <1>1 DEF Honest, RowReadIsOlder, EntriesReadAreCurrent, EntryReadIsOlder,
             ClaimWasChecked, DecisionWasChecked, DrawsReadAreOlder,
             DrawReleasedIsOlder
  <1>3. Holds(c, held)
    BY DEF ReadForMove
  <1> HIDE DEF held
  <1> QED BY <1>2, <1>3, ReadStepSafe

\* So do the steps of the three moves up to where the row is read.
LEMMA BeginMoveSafe ==
    ASSUME IInv, TypeOK', NEW c \in Call,
           BeginTransition(c) \/ BeginOverride(c) \/ AuthorizeReads(c)
    PROVE  IInv'
  <1>1. CASE BeginTransition(c) \/ BeginOverride(c)
    <2>1. PICK a \in App : \E to, role : ReadForMove(c, a, to, role, 0, FALSE)
      BY <1>1 DEF BeginTransition, BeginOverride
    <2> QED BY <1>1, <2>1, ReadForMoveSafe DEF BeginTransition, BeginOverride
  <1>2. CASE AuthorizeReads(c)
    <2>1. calls[c] \in DraftingCall
      BY <1>2, CallShapes DEF AuthorizeReads, IInv, TypeOK
    <2>2. calls[c].app \in App
      BY <2>1 DEF DraftingCall
    <2> QED BY <1>2, <2>2, ReadForMoveSafe DEF AuthorizeReads
  <1> QED BY <1>1, <1>2

\* The machine's verdict rests on the row the call holds and on entries that
\* are current as long as that row is.
LEMMA DecideSafe ==
    ASSUME IInv, TypeOK', NEW c \in Call, Decide(c)
    PROVE  IInv'
  <1> DEFINE call == calls[c]
             g    == Guard(Patched(call), call.to, call.app)
             held(t) == [at |-> "deciding", app |-> call.app, to |-> call.to,
                         row |-> call.row, amount |-> call.amount,
                         draft |-> call.draft, drawn |-> DrawsOf(draws, call.app),
                         viaOverride |-> Overrides(t.roles, call.role, g, TRUE)]
  <1>1. PICK t \in TransitionsFrom(call.row.status, "standard") :
            t.to = call.to /\ Attempt(t.roles, call.role, g, TRUE) /\ Holds(c, held(t))
    BY DEF Decide
  <1>2. call \in MovingCall /\ Honest(call)
    BY CallShapes DEF Decide, IInv, TypeOK
  <1>3. call.at = "moving" /\ call.app \in App /\ call.row \in AppRow
    BY <1>2 DEF MovingCall
  <1>4. RowReadIsOlder(held(t))
    BY <1>2, <1>3 DEF Honest, RowReadIsOlder, Untouched
  <1>5. DecisionWasChecked(held(t))
    <2>1. call.draft => call.to = "funding_authorized"
      BY <1>2, <1>3 DEF Honest, DecisionWasChecked
    <2>2. ASSUME call.to = "placement_completed",
                 ~Overrides(t.roles, call.role, g, TRUE)
          PROVE  /\ Unreviewed(EntriesOf(entries, call.app)) = {}
                 /\ call.row.hoursApproved # {}
      <3>1. g
        <4> HIDE DEF g
        <4> QED BY <1>1, <2>2 DEF Attempt, Overrides, Permitted
      <3>2. HoursReviewed(Patched(call), call.to, call.app)
        BY <3>1 DEF Guard
      <3>3. Patched(call).hoursApproved = call.row.hoursApproved
        BY <1>3 DEF Patched, AppRow
      <3> QED BY <2>2, <3>2, <3>3 DEF HoursReviewed
    <2> HIDE DEF g
    <2> QED BY <1>1, <2>1, <2>2 DEF DecisionWasChecked
  <1>6. DrawsReadAreOlder(held(t))
    <2> SUFFICES ASSUME NEW d \in Draw
                 PROVE  LET drawn == DrawsOf(draws, call.app)[d] IN
                        /\ drawn # NoDraw =>
                             /\ draws[d] # NoDraw
                             /\ drawn.version <= draws[d].version
                             /\ drawn.version = draws[d].version => drawn = draws[d]
                        /\ /\ draws[d] # NoDraw
                           /\ draws[d].app = call.app
                           => drawn # NoDraw
      BY DEF DrawsReadAreOlder
    <2>1. draws[d] # NoDraw => draws[d].version \in Nat
      BY DEF IInv, TypeOK, DrawTable, DrawRow
    <2> QED BY <2>1 DEF DrawsOf
  <1>7. Honest(held(t))
    <2>1. held(t).at = "deciding"
      OBVIOUS
    <2> HIDE DEF held
    <2> QED BY <1>4, <1>5, <1>6, <2>1 DEF Honest, EntriesReadAreCurrent,
               EntryReadIsOlder, ClaimWasChecked, DrawReleasedIsOlder
  <1> HIDE DEF held
  <1> QED BY <1>1, <1>7, ReadStepSafe DEF Decide

\* The reads of logHours keep the invariant.
LEMMA LogReadsSafe ==
    ASSUME IInv, TypeOK', NEW c \in Call, BeginLog(c) \/ LogReads(c)
    PROVE  IInv'
  <1>1. CASE BeginLog(c)
    <2>1. PICK a \in App, w \in Week :
             /\ apps[a].status = "placement_active"
             /\ Holds(c, [at |-> "logging", app |-> a, week |-> w, row |-> apps[a]])
      BY <1>1 DEF BeginLog
    <2> DEFINE held == [at |-> "logging", app |-> a, week |-> w, row |-> apps[a]]
    <2>2. apps[a].version \in Nat
      BY DEF IInv, TypeOK, AppRow
    <2>3. Honest(held)
      BY <2>1, <2>2 DEF Honest, RowReadIsOlder, EntriesReadAreCurrent, EntryReadIsOlder,
               ClaimWasChecked, DecisionWasChecked, DrawsReadAreOlder,
               DrawReleasedIsOlder
    <2> HIDE DEF held
    <2> QED BY <1>1, <2>1, <2>3, ReadStepSafe DEF BeginLog, held
  <1>2. CASE LogReads(c)
    <2> DEFINE call == calls[c]
               held == [at |-> "logged", app |-> call.app, week |-> call.week,
                        row |-> call.row, seen |-> EntriesOf(entries, call.app)]
    <2>1. Honest(call) /\ call.at = "logging"
      BY <1>2 DEF LogReads, IInv
    <2>2. call.week \notin ClaimedWeeks(EntriesOf(entries, call.app))
      BY <1>2 DEF LogReads
    <2>3. RowReadIsOlder(held)
      BY <2>1 DEF Honest, RowReadIsOlder, Untouched
    <2>4. ClaimWasChecked(held)
      BY <2>1, <2>2 DEF Honest, ClaimWasChecked
    <2>5. EntriesReadAreCurrent(held)
      BY DEF EntriesReadAreCurrent
    <2>6. Honest(held)
      <3>1. held.at = "logged"
        OBVIOUS
      <3> HIDE DEF held
      <3> QED BY <2>3, <2>4, <2>5, <3>1 DEF Honest, EntryReadIsOlder,
                 DecisionWasChecked, DrawsReadAreOlder, DrawReleasedIsOlder
    <2>7. Holds(c, held)
      BY <1>2 DEF LogReads
    <2> HIDE DEF held
    <2> QED BY <1>2, <2>6, <2>7, ReadStepSafe DEF LogReads
  <1> QED BY <1>1, <1>2

\* The reads of reviewHours keep the invariant.
LEMMA ReviewReadsSafe ==
    ASSUME IInv, TypeOK', NEW c \in Call,
           BeginReview(c) \/ ReviewReadsRow(c) \/ ReviewReadsSiblings(c)
    PROVE  IInv'
  <1> DEFINE call == calls[c]
  <1>1. CASE BeginReview(c)
    <2>1. PICK e \in Entry, decision \in Verdict :
             /\ entries[e].status = "submitted"
             /\ Holds(c, [at |-> "reviewing", id |-> e, decision |-> decision,
                          entry |-> entries[e]])
      BY <1>1 DEF BeginReview, Verdict
    <2> DEFINE held == [at |-> "reviewing", id |-> e, decision |-> decision,
                        entry |-> entries[e]]
    <2>2. entries[e] # NoEntry
      BY <2>1 DEF NoEntry
    <2>3. entries[e].version \in Nat
      BY <2>2 DEF IInv, TypeOK, EntryTable, EntryRow
    <2>4. Honest(held)
      BY <2>1, <2>2, <2>3 DEF Honest, RowReadIsOlder, EntriesReadAreCurrent,
         EntryReadIsOlder, ClaimWasChecked, DecisionWasChecked, DrawsReadAreOlder,
         DrawReleasedIsOlder
    <2> HIDE DEF held
    <2> QED BY <1>1, <2>1, <2>4, ReadStepSafe DEF BeginReview, held
  <1>2. CASE ReviewReadsRow(c)
    <2> DEFINE held == [at |-> "weighing", id |-> call.id,
                        decision |-> call.decision, entry |-> call.entry,
                        app |-> call.entry.app, row |-> apps[call.entry.app]]
    <2>1. call \in ReviewingCall /\ Honest(call) /\ call.at = "reviewing"
      BY <1>2, CallShapes DEF ReviewReadsRow, IInv, TypeOK
    <2>2. apps[call.entry.app].version \in Nat
      BY <2>1 DEF ReviewingCall, EntryRow, IInv, TypeOK, AppRow
    <2>3. RowReadIsOlder(held)
      BY <2>2 DEF RowReadIsOlder, Untouched
    <2>4. EntryReadIsOlder(held)
      BY <2>1 DEF Honest, EntryReadIsOlder
    <2>5. Honest(held)
      <3>1. held.at = "weighing"
        OBVIOUS
      <3> HIDE DEF held
      <3> QED BY <2>3, <2>4, <3>1 DEF Honest, EntriesReadAreCurrent, ClaimWasChecked,
                 DecisionWasChecked, DrawsReadAreOlder, DrawReleasedIsOlder
    <2>6. Holds(c, held)
      BY <1>2 DEF ReviewReadsRow
    <2> HIDE DEF held
    <2> QED BY <1>2, <2>5, <2>6, ReadStepSafe DEF ReviewReadsRow
  <1>3. CASE ReviewReadsSiblings(c)
    <2> DEFINE held == [at |-> "signing", id |-> call.id,
                        decision |-> call.decision, entry |-> call.entry,
                        app |-> call.app, row |-> call.row,
                        seen |-> EntriesOf(entries, call.app)]
    <2>1. Honest(call) /\ call.at = "weighing"
      BY <1>3 DEF ReviewReadsSiblings, IInv
    <2>2. RowReadIsOlder(held)
      BY <2>1 DEF Honest, RowReadIsOlder, Untouched
    <2>3. EntryReadIsOlder(held)
      BY <2>1 DEF Honest, EntryReadIsOlder
    <2>4. EntriesReadAreCurrent(held)
      BY DEF EntriesReadAreCurrent
    <2>5. Honest(held)
      <3>1. held.at = "signing"
        OBVIOUS
      <3> HIDE DEF held
      <3> QED BY <2>2, <2>3, <2>4, <3>1 DEF Honest, ClaimWasChecked,
                 DecisionWasChecked, DrawsReadAreOlder, DrawReleasedIsOlder
    <2>6. Holds(c, held)
      BY <1>3 DEF ReviewReadsSiblings
    <2> HIDE DEF held
    <2> QED BY <1>3, <2>5, <2>6, ReadStepSafe DEF ReviewReadsSiblings
  <1> QED BY <1>1, <1>2, <1>3

\* Calls that hold nothing a commit relies on.
LEMMA CarelessHonest ==
    ASSUME NEW held, held.at \in {"drafting", "pricing", "promising", "adjusting"}
    PROVE  Honest(held)
  BY DEF Honest, RowReadIsOlder, EntriesReadAreCurrent, EntryReadIsOlder,
         ClaimWasChecked, DecisionWasChecked, DrawsReadAreOlder, DrawReleasedIsOlder

\* The reads of the calls about money keep the invariant.
LEMMA FundingReadsSafe ==
    ASSUME IInv, TypeOK', NEW c \in Call,
           BeginAuthorize(c) \/ BeginCommit(c) \/ CommitReads(c) \/ BeginRelease(c)
             \/ BeginAdjust(c)
    PROVE  IInv'
  <1> DEFINE Careless == {"drafting", "pricing", "promising", "adjusting"}
  <1>0. ASSUME NEW held, held.at \in Careless, Holds(c, held), UNCHANGED tables
        PROVE  IInv'
    BY <1>0, CarelessHonest, ReadStepSafe
  <1>1. CASE BeginAuthorize(c)
    <2>1. PICK a \in App, amount \in Amount :
             Holds(c, [at |-> "drafting", app |-> a, amount |-> amount,
                       draft |-> ~CoveredBy(draws, Wage, a)])
      BY <1>1 DEF BeginAuthorize
    <2> QED BY <1>0, <1>1, <2>1 DEF BeginAuthorize
  <1>3. CASE BeginCommit(c)
    <2>1. PICK s \in Source \ Closed, a \in App \cup {Unplaced}, amount \in Amount :
             Holds(c, [at |-> "pricing", source |-> s, app |-> a,
                       amount |-> amount, fund |-> funds[s]])
      BY <1>3 DEF BeginCommit
    <2> QED BY <1>0, <1>3, <2>1 DEF BeginCommit
  <1>4. CASE CommitReads(c)
    BY <1>0, <1>4 DEF CommitReads
  <1>5. CASE BeginAdjust(c)
    <2>1. PICK s \in Source \ Closed, figure \in Allocation :
             Holds(c, [at |-> "adjusting", source |-> s, figure |-> figure,
                       fund |-> funds[s]])
      BY <1>5 DEF BeginAdjust
    <2> QED BY <1>0, <1>5, <2>1 DEF BeginAdjust
  <1>2. CASE BeginRelease(c)
    <2>1. PICK d \in Draw :
             /\ draws[d].status = "authorized"
             /\ Holds(c, [at |-> "releasing", id |-> d, draw |-> draws[d]])
      BY <1>2 DEF BeginRelease
    <2> DEFINE held == [at |-> "releasing", id |-> d, draw |-> draws[d]]
    <2>2. draws[d] # NoDraw
      BY <2>1 DEF NoDraw
    <2>3. draws[d].version \in Nat
      BY <2>2 DEF IInv, TypeOK, DrawTable, DrawRow
    <2>4. Honest(held)
      BY <2>2, <2>3 DEF Honest, RowReadIsOlder, EntriesReadAreCurrent,
         EntryReadIsOlder, ClaimWasChecked, DecisionWasChecked, DrawsReadAreOlder,
         DrawReleasedIsOlder
    <2> HIDE DEF held
    <2> QED BY <1>2, <2>1, <2>4, ReadStepSafe DEF BeginRelease, held
  <1> QED BY <1>1, <1>2, <1>3, <1>4, <1>5

-----------------------------------------------------------------------------
(* Steps that commit. *)

\* The version check passes only while the row the call holds is the row.
LEMMA UnmovedRowIsCurrent ==
    ASSUME IInv, NEW c \in Call, calls[c].at \in {"deciding", "logged", "signing"},
           AppUnmoved(calls[c].row, calls[c].app)
    PROVE  /\ calls[c].app \in App
           /\ Untouched(calls[c])
           /\ calls[c].row = apps[calls[c].app]
  <1>1. calls[c].app \in App
    BY CallShapes DEF IInv, TypeOK, DecidingCall, LoggedCall, SigningCall
  <1>2. Untouched(calls[c])
    BY DEF AppUnmoved, Untouched
  <1> QED BY <1>1, <1>2 DEF IInv, Honest, RowReadIsOlder

\* A commit that keeps the promises keeps the invariant.
LEMMA CommitSafe ==
    ASSUME IInv, TypeOK', NEW c \in Call, Returns(c), TablesAdvance,
           DrawsAreSettledOnce', Promises'
    PROVE  IInv'
  <1>1. (\A b \in Call : Honest(calls[b]))'
    BY IdleHonest, CallsStayHonest DEF IInv, Returns
  <1> QED BY <1>1 DEF IInv

Written(table, e, entry) == [table EXCEPT ![e] = entry]

\* Writing one entry of a placement changes that entry in what is read of the
\* placement, and nothing in what is read of another.
LEMMA EntryWritten ==
    ASSUME NEW table \in EntryTable, NEW a, NEW e \in Entry, NEW entry \in EntryRow,
           entry.app = a, table[e] = NoEntry \/ table[e].app = a
    PROVE  /\ EntriesOf(Written(table, e, entry), a) = Written(EntriesOf(table, a), e, entry)
           /\ \A b \in App \ {a} :
                 EntriesOf(Written(table, e, entry), b) = EntriesOf(table, b)
  <1> DEFINE after == Written(table, e, entry)
  <1>1. entry # NoEntry
    BY DEF EntryRow, NoEntry
  <1>2. \A f \in Entry : after[f] = IF f = e THEN entry ELSE table[f]
    BY DEF EntryTable, Written
  <1> HIDE DEF after
  <1>3. EntriesOf(after, a) = Written(EntriesOf(table, a), e, entry)
    <2> DEFINE of(f) == IF table[f] # NoEntry /\ table[f].app = a
                        THEN table[f] ELSE NoEntry
    <2>1. EntriesOf(table, a) = [f \in Entry |-> of(f)]
      BY DEF EntriesOf
    <2>2. EntriesOf(after, a) = [f \in Entry |-> IF f = e THEN entry ELSE of(f)]
      BY <1>1, <1>2 DEF EntriesOf
    <2> HIDE DEF of
    <2>3. [[f \in Entry |-> of(f)] EXCEPT ![e] = entry]
            = [f \in Entry |-> IF f = e THEN entry ELSE of(f)]
      OBVIOUS
    <2> QED BY <2>1, <2>2, <2>3 DEF Written
  <1>4. \A b \in App \ {a} : EntriesOf(after, b) = EntriesOf(table, b)
    BY <1>2 DEF EntriesOf
  <1> QED BY <1>3, <1>4 DEF after

\* Refreshing the totals counts a version up, writes the totals and keeps the status.
LEMMA RecachedFields ==
    ASSUME NEW row \in AppRow, NEW table
    PROVE  /\ Recached(row, table).version = row.version + 1
           /\ Recached(row, table).status = row.status
           /\ Recached(row, table).furthest = row.furthest
           /\ Recached(row, table).hoursLogged = Logged(table)
           /\ Recached(row, table).hoursApproved = Approved(table)
  BY DEF Recached, AppRow

\* Recomputing the totals of the current row from the current entries, in the
\* transaction that writes the entry, keeps the caches true and disturbs no
\* other placement and no draw.
LEMMA RecacheKeeps ==
    ASSUME IInv, TypeOK', NEW a \in App,
           apps' = [apps EXCEPT ![a] = Recached(apps[a], EntriesOf(entries', a))],
           \A b \in App \ {a} : EntriesOf(entries', b) = EntriesOf(entries, b),
           draws' = draws
    PROVE  /\ RowsAdvance
           /\ DrawsAdvance
           /\ DrawsAreSettledOnce'
           /\ CachedHoursMatchEntries'
           /\ AuthorizationSettledWithPlacement'
           /\ \A b \in App : apps'[b].status = apps[b].status
  <1>1. apps[a] \in AppRow
    BY DEF IInv, TypeOK
  <1>2. /\ apps'[a] = Recached(apps[a], EntriesOf(entries', a))
        /\ \A b \in App \ {a} : apps'[b] = apps[b]
    BY DEF IInv, TypeOK
  <1>3. /\ apps'[a].version = apps[a].version + 1
        /\ apps'[a].status = apps[a].status
        /\ apps'[a].furthest = apps[a].furthest
        /\ apps'[a].hoursLogged = Logged(EntriesOf(entries', a))
        /\ apps'[a].hoursApproved = Approved(EntriesOf(entries', a))
    BY <1>1, <1>2, RecachedFields
  <1>4. RowsAdvance
    BY <1>2, <1>3 DEF RowsAdvance
  <1>5. DrawsAdvance /\ DrawsAreSettledOnce'
    BY DEF DrawsAdvance, DrawsAreSettledOnce, IInv
  <1>6. CachedHoursMatchEntries'
    BY <1>2, <1>3 DEF CachedHoursMatchEntries, IInv, Promises
  <1>7. \A b \in App : Over(apps'[b]) <=> Over(apps[b])
    BY <1>2, <1>3 DEF Over, HasExited
  <1>8. AuthorizationSettledWithPlacement'
    <2> SUFFICES ASSUME NEW d \in Draw, draws[d].status = "authorized", draws[d].hourly
                 PROVE  ~Over(apps'[draws[d].app])
      BY DEF AuthorizationSettledWithPlacement
    <2>1. draws[d].app \in App
      BY DEF IInv, DrawsAreSettledOnce, NoDraw
    <2> QED BY <1>7, <2>1 DEF IInv, Promises, AuthorizationSettledWithPlacement
  <1> QED BY <1>2, <1>3, <1>4, <1>5, <1>6, <1>8

\* The commit of a week keeps the invariant.
LEMMA CommitLogSafe ==
    ASSUME IInv, TypeOK', NEW c \in Call, CommitLog(c)
    PROVE  IInv'
  <1> DEFINE call  == calls[c]
             a     == call.app
             seen  == EntriesOf(entries, a)
             entry == [app |-> a, week |-> call.week,
                       status |-> "submitted", version |-> 1]
  <1>1. call \in LoggedCall /\ call.at = "logged" /\ Honest(call)
    BY CallShapes DEF CommitLog, IInv, TypeOK
  <1>2. a \in App /\ Untouched(call) /\ call.row = apps[a]
    BY <1>1, UnmovedRowIsCurrent DEF CommitLog
  <1>3. call.seen = seen
    BY <1>1, <1>2 DEF Honest, EntriesReadAreCurrent
  <1>4. /\ call.week \notin ClaimedWeeks(seen)
        /\ apps[a].status = "placement_active"
    BY <1>1, <1>2, <1>3 DEF Honest, ClaimWasChecked
  <1>5. PICK e \in Entry :
           /\ entries[e] = NoEntry
           /\ entries' = [entries EXCEPT ![e] = entry]
           /\ apps' = [apps EXCEPT ![a] =
                          Recached(call.row, [call.seen EXCEPT ![e] = entry])]
    BY DEF CommitLog
  <1>6. entry \in EntryRow /\ entry.app = a /\ entry.week = call.week
    BY <1>1 DEF LoggedCall, EntryRow
  <1>7. UNCHANGED draws /\ UNCHANGED overridden /\ Returns(c)
    BY DEF CommitLog
  <1> HIDE DEF entry
  <1>8. /\ EntriesOf(entries', a) = [seen EXCEPT ![e] = entry]
        /\ \A b \in App \ {a} : EntriesOf(entries', b) = EntriesOf(entries, b)
    <2>1. entries \in EntryTable
      BY DEF IInv, TypeOK
    <2> HIDE DEF a
    <2>4. /\ EntriesOf(Written(entries, e, entry), a) = Written(seen, e, entry)
          /\ \A b \in App \ {a} :
                EntriesOf(Written(entries, e, entry), b) = EntriesOf(entries, b)
      BY <1>5, <1>6, <2>1, EntryWritten
    <2> QED BY <1>5, <2>4 DEF Written
  <1>9. apps' = [apps EXCEPT ![a] = Recached(apps[a], EntriesOf(entries', a))]
    BY <1>2, <1>3, <1>5, <1>8
  <1>10. /\ RowsAdvance /\ DrawsAdvance
         /\ DrawsAreSettledOnce'
         /\ CachedHoursMatchEntries'
         /\ AuthorizationSettledWithPlacement'
         /\ \A b \in App : apps'[b].status = apps[b].status
    BY <1>2, <1>7, <1>8, <1>9, RecacheKeeps
  <1>11. \A f \in Entry : entries'[f] = IF f = e THEN entry ELSE entries[f]
    BY <1>5 DEF IInv, TypeOK, EntryTable
  <1>12. EntriesAdvance
    BY <1>5, <1>11 DEF EntriesAdvance
  <1>13. OneLiveClaimPerWeek'
    <2>1. ASSUME NEW f \in Entry, entries[f].status \in {"submitted", "approved"},
                 entries[f].app = a
          PROVE  entries[f].week # call.week
      <3>1. seen[f] = entries[f]
        BY <2>1 DEF EntriesOf, NoEntry
      <3>2. f \in Logged(seen)
        BY <2>1, <3>1 DEF Logged, WithStatus
      <3> QED BY <1>4, <3>1, <3>2 DEF ClaimedWeeks
    <2> QED BY <1>6, <1>11, <2>1 DEF IInv, Promises, OneLiveClaimPerWeek
  <1>14. CompletedWeeksAreReviewed'
    <2> SUFFICES ASSUME NEW b \in App, apps'[b].status \in Completed,
                        <<b, "placement_completed">> \notin overridden'
                 PROVE  /\ Unreviewed(EntriesOf(entries', b)) = {}
                        /\ Approved(EntriesOf(entries', b)) # {}
      BY DEF CompletedWeeksAreReviewed
    <2>1. b # a
      BY <1>4, <1>10 DEF Completed
    <2> QED BY <1>7, <1>8, <1>10, <2>1 DEF IInv, Promises, CompletedWeeksAreReviewed
  <1> QED BY <1>7, <1>10, <1>12, <1>13, <1>14, CommitSafe DEF TablesAdvance, Promises

\* The commit of a decision on a week keeps the invariant.
LEMMA CommitReviewSafe ==
    ASSUME IInv, TypeOK', NEW c \in Call, CommitReview(c)
    PROVE  IInv'
  <1> DEFINE call     == calls[c]
             a        == call.app
             e        == call.id
             seen     == EntriesOf(entries, a)
             reviewed == [call.entry EXCEPT !.status = call.decision,
                                            !.version = @ + 1]
  <1>1. call \in SigningCall /\ call.at = "signing" /\ Honest(call)
    BY CallShapes DEF CommitReview, IInv, TypeOK
  <1>2. a \in App /\ Untouched(call) /\ call.row = apps[a]
    BY <1>1, UnmovedRowIsCurrent DEF CommitReview
  <1>3. call.seen = seen
    BY <1>1, <1>2 DEF Honest, EntriesReadAreCurrent
  <1>4. /\ entries[e] # NoEntry
        /\ call.entry = entries[e]
        /\ entries[e].status = "submitted"
        /\ entries[e].app = a
    BY <1>1 DEF Honest, EntryReadIsOlder, CommitReview, EntryUnmoved
  <1>5. /\ entries' = [entries EXCEPT ![e] = reviewed]
        /\ apps' = [apps EXCEPT ![a] =
                       Recached(call.row, [call.seen EXCEPT ![e] = reviewed])]
        /\ UNCHANGED draws /\ UNCHANGED overridden /\ Returns(c)
    BY DEF CommitReview
  <1>6. /\ reviewed \in EntryRow
        /\ reviewed.app = a /\ reviewed.week = entries[e].week
        /\ reviewed.status \in Verdict
        /\ reviewed.version = entries[e].version + 1
        /\ e \in Entry /\ entries[e].version \in Nat
    <2>1. call.entry \in EntryRow /\ call.decision \in Verdict /\ e \in Entry
      BY <1>1 DEF SigningCall
    <2>2. call.entry.version \in Nat /\ call.entry.version + 1 \in Nat \ {0}
      BY <2>1 DEF EntryRow
    <2> QED BY <1>4, <2>1, <2>2 DEF EntryRow, Verdict
  <1> HIDE DEF reviewed
  <1>8. /\ EntriesOf(entries', a) = [seen EXCEPT ![e] = reviewed]
        /\ \A b \in App \ {a} : EntriesOf(entries', b) = EntriesOf(entries, b)
    <2>1. entries \in EntryTable
      BY DEF IInv, TypeOK
    <2> HIDE DEF a, e
    <2>4. /\ EntriesOf(Written(entries, e, reviewed), a) = Written(seen, e, reviewed)
          /\ \A b \in App \ {a} :
                EntriesOf(Written(entries, e, reviewed), b) = EntriesOf(entries, b)
      BY <1>4, <1>5, <1>6, <2>1, EntryWritten
    <2> QED BY <1>5, <2>4 DEF Written
  <1>9. apps' = [apps EXCEPT ![a] = Recached(apps[a], EntriesOf(entries', a))]
    BY <1>2, <1>3, <1>5, <1>8
  <1>10. /\ RowsAdvance /\ DrawsAdvance
         /\ DrawsAreSettledOnce'
         /\ CachedHoursMatchEntries'
         /\ AuthorizationSettledWithPlacement'
         /\ \A b \in App : apps'[b].status = apps[b].status
    BY <1>2, <1>5, <1>8, <1>9, RecacheKeeps
  <1>11. \A f \in Entry : entries'[f] = IF f = e THEN reviewed ELSE entries[f]
    BY <1>5, <1>6 DEF IInv, TypeOK, EntryTable
  <1>12. EntriesAdvance
    <2>1. reviewed # NoEntry
      BY <1>6 DEF EntryRow, NoEntry
    <2> QED BY <1>4, <1>6, <1>11, <2>1 DEF EntriesAdvance
  <1>13. OneLiveClaimPerWeek'
    BY <1>4, <1>6, <1>11 DEF IInv, Promises, OneLiveClaimPerWeek
  <1>14. CompletedWeeksAreReviewed'
    <2> SUFFICES ASSUME NEW b \in App, apps'[b].status \in Completed,
                        <<b, "placement_completed">> \notin overridden'
                 PROVE  /\ Unreviewed(EntriesOf(entries', b)) = {}
                        /\ Approved(EntriesOf(entries', b)) # {}
      BY DEF CompletedWeeksAreReviewed
    <2>1. /\ Unreviewed(EntriesOf(entries, b)) = {}
          /\ Approved(EntriesOf(entries, b)) # {}
      BY <1>5, <1>10 DEF IInv, Promises, CompletedWeeksAreReviewed
    <2>2. e \in Unreviewed(seen)
      BY <1>4, <1>6 DEF Unreviewed, WithStatus, EntriesOf
    <2>3. b # a
      BY <2>1, <2>2
    <2> QED BY <1>8, <2>1, <2>3
  <1> QED BY <1>5, <1>10, <1>12, <1>13, <1>14, CommitSafe DEF TablesAdvance, Promises

\* Draws are written over, or created, without touching any other table.
LEMMA DrawCommitSafe ==
    ASSUME IInv, TypeOK', NEW c \in Call, Returns(c), DrawsAdvance,
           UNCHANGED <<apps, entries, overridden>>, DrawsAreSettledOnce',
           AuthorizationSettledWithPlacement'
    PROVE  IInv'
  <1>1. TablesAdvance
    BY DEF TablesAdvance, RowsAdvance, EntriesAdvance
  <1>2. Promises'
    BY DEF IInv, Promises, CachedHoursMatchEntries, OneLiveClaimPerWeek,
           CompletedWeeksAreReviewed
  <1> QED BY <1>1, <1>2, CommitSafe

\* The insertion of a commitment keeps the invariant.
LEMMA CommitDrawSafe ==
    ASSUME IInv, TypeOK', NEW c \in Call, CommitDraw(c)
    PROVE  IInv'
  <1> DEFINE call == calls[c]
             new  == NewDraw(call.source, call.app, call.amount, FALSE)
  <1>1. PICK d \in Draw : draws[d] = NoDraw /\ draws' = [draws EXCEPT ![d] = new]
    BY DEF CommitDraw
  <1>2. \A f \in Draw : draws'[f] = IF f = d THEN new ELSE draws[f]
    BY <1>1 DEF IInv, TypeOK, DrawTable
  <1>3. new.hourly = FALSE /\ new.version = 1 /\ new.status = "authorized"
    BY DEF NewDraw
  <1> HIDE DEF new
  <1>4. DrawsAdvance
    BY <1>1, <1>2, <1>3 DEF DrawsAdvance
  <1>5. DrawsAreSettledOnce'
    BY <1>2, <1>3 DEF IInv, DrawsAreSettledOnce
  <1>6. UNCHANGED <<apps, entries, overridden>> /\ Returns(c)
    BY DEF CommitDraw
  <1>7. AuthorizationSettledWithPlacement'
    BY <1>2, <1>3, <1>6 DEF IInv, Promises, AuthorizationSettledWithPlacement
  <1> QED BY <1>4, <1>5, <1>6, <1>7, DrawCommitSafe

\* The commit of a release keeps the invariant.
LEMMA CommitReleaseSafe ==
    ASSUME IInv, TypeOK', NEW c \in Call, CommitRelease(c)
    PROVE  IInv'
  <1> DEFINE call == calls[c]
             d    == call.id
             released == [call.draw EXCEPT !.status = "released", !.version = @ + 1]
  <1>1. call \in ReleasingCall /\ call.at = "releasing" /\ Honest(call)
    BY CallShapes DEF CommitRelease, IInv, TypeOK
  <1>2. /\ d \in Draw /\ draws[d] # NoDraw
        /\ call.draw = draws[d]
        /\ draws[d] \in DrawRow
    BY <1>1 DEF Honest, DrawReleasedIsOlder, CommitRelease, DrawUnmoved, ReleasingCall
  <1>3. draws' = [draws EXCEPT ![d] = released]
    BY DEF CommitRelease
  <1>4. \A f \in Draw : draws'[f] = IF f = d THEN released ELSE draws[f]
    BY <1>2, <1>3 DEF IInv, TypeOK, DrawTable
  <1>5. /\ released.app = draws[d].app
        /\ released.hourly = draws[d].hourly
        /\ released.status = "released"
        /\ released.version = draws[d].version + 1
        /\ draws[d].version \in Nat
    BY <1>2 DEF DrawRow
  <1> HIDE DEF released
  <1>6. released # NoDraw
    BY <1>5 DEF NoDraw
  <1>7. DrawsAdvance
    BY <1>2, <1>4, <1>5, <1>6 DEF DrawsAdvance
  <1>8. DrawsAreSettledOnce'
    BY <1>2, <1>4, <1>5 DEF IInv, DrawsAreSettledOnce
  <1>9. UNCHANGED <<apps, entries, overridden>> /\ Returns(c)
    BY DEF CommitRelease
  <1>10. AuthorizationSettledWithPlacement'
    BY <1>4, <1>5, <1>9 DEF IInv, Promises, AuthorizationSettledWithPlacement
  <1> QED BY <1>7, <1>8, <1>9, <1>10, DrawCommitSafe

\* The commit of a new allocation keeps the invariant.
LEMMA CommitAdjustSafe ==
    ASSUME IInv, TypeOK', NEW c \in Call, CommitAdjust(c)
    PROVE  IInv'
  <1>1. UNCHANGED <<apps, entries, draws, overridden>> /\ Returns(c)
    BY DEF CommitAdjust
  <1>2. DrawsAdvance /\ DrawsAreSettledOnce'
    BY <1>1 DEF DrawsAdvance, IInv, DrawsAreSettledOnce
  <1>3. AuthorizationSettledWithPlacement'
    BY <1>1 DEF IInv, Promises, AuthorizationSettledWithPlacement
  <1> QED BY <1>1, <1>2, <1>3, DrawCommitSafe

\* The credit statuses are reached only from a completed placement.
LEMMA CreditFollowsCompletion ==
    ASSUME NEW from, NEW t \in TransitionsFrom(from, "standard"),
           t.to \in Completed \ {"placement_completed"}
    PROVE  from \in Completed
  BY DEF TransitionsFrom, Transitions, Edge, Completed

\* What a move writes, field by field.
LEMMA MovedFields ==
    ASSUME NEW call \in DecidingCall
    PROVE  LET row  == call.row
               next == Moved(Patched(call), call.to) IN
           /\ next.version = row.version + 1
           /\ next.status = call.to
           /\ next.hoursLogged = row.hoursLogged
           /\ next.hoursApproved = row.hoursApproved
           /\ next.furthest = IF IsTerminal(call.to) THEN row.furthest ELSE call.to
  <1> DEFINE patched == Patched(call)
  <1>1. /\ patched \in AppRow
        /\ patched.version = call.row.version
        /\ patched.furthest = call.row.furthest
        /\ patched.hoursLogged = call.row.hoursLogged
        /\ patched.hoursApproved = call.row.hoursApproved
    BY PatchedTyped DEF Patched, DecidingCall, AppRow
  <1> HIDE DEF patched
  <1>2. /\ Moved(patched, call.to).version = patched.version + 1
        /\ Moved(patched, call.to).status = call.to
        /\ Moved(patched, call.to).hoursLogged = patched.hoursLogged
        /\ Moved(patched, call.to).hoursApproved = patched.hoursApproved
        /\ Moved(patched, call.to).furthest = FurthestOf(patched, call.to)
    BY <1>1 DEF Moved, AppRow
  <1> QED BY <1>1, <1>2 DEF FurthestOf, patched

\* A placement the board has just funded is not over.
LEMMA FundedIsNotOver ==
    ASSUME NEW row, row.status = "funding_authorized"
    PROVE  ~Over(row)
  BY DEF Over, HasExited, NoLongerRunning, IsTerminal, TerminalStatuses

\* What a move does to each draw: nothing, settle the current one, or create.
LEMMA MoveAndDraws ==
    ASSUME IInv, NEW c \in Call, CommitMove(c), NEW d \in Draw
    PROVE  LET call == calls[c]
               next == Moved(Patched(call), call.to) IN
           \/ draws'[d] = draws[d] /\ d \notin Settled(call, next)
           \/ /\ draws[d] \in DrawRow
              /\ draws'[d].app = draws[d].app
              /\ draws'[d].hourly = draws[d].hourly
              /\ draws'[d].status \in {"disbursed", "released"}
              /\ draws'[d].version = draws[d].version + 1
           \/ /\ draws[d] = NoDraw
              /\ draws'[d] = NewDraw(Wage, call.app, call.amount, TRUE)
              /\ call.to = "funding_authorized"
  <1> DEFINE call == calls[c]
             next == Moved(Patched(call), call.to)
             new  == NewDraw(Wage, call.app, call.amount, TRUE)
  <1>1. call \in DecidingCall /\ call.at = "deciding" /\ Honest(call)
    BY CallShapes DEF CommitMove, IInv, TypeOK
  <1>2. call.draft => call.to = "funding_authorized"
    BY <1>1 DEF Honest, DecisionWasChecked
  <1>3. \/ draws'[d] = SettledDraws(call, next)[d]
        \/ draws[d] = NoDraw /\ draws'[d] = new /\ call.draft
    <2>1. CASE draws' = SettledDraws(call, next)
      BY <2>1
    <2>2. CASE call.draft /\ \E f \in Draw : draws[f] = NoDraw
                 /\ draws' = [SettledDraws(call, next) EXCEPT ![f] = new]
      <3>1. PICK f \in Draw : draws[f] = NoDraw
                 /\ draws' = [SettledDraws(call, next) EXCEPT ![f] = new]
        BY <2>2
      <3> HIDE DEF new, next, call
      <3> QED BY <2>2, <3>1 DEF SettledDraws
    <2> QED BY <2>1, <2>2 DEF CommitMove
  <1>4. CASE draws[d] = NoDraw /\ draws'[d] = new /\ call.draft
    BY <1>2, <1>4
  <1>5. CASE draws'[d] = SettledDraws(call, next)[d] /\ d \notin Settled(call, next)
    BY <1>5 DEF SettledDraws
  <1>6. CASE draws'[d] = SettledDraws(call, next)[d] /\ d \in Settled(call, next)
    <2>1. Settles(next, call.drawn[d]) /\ DrawUnmoved(call.drawn[d], d)
      BY <1>6 DEF Settled, CommitMove
    <2>2. call.drawn[d] \in DrawRow \cup {NoDraw}
      BY <1>1 DEF DecidingCall, DrawTable
    <2> HIDE DEF next
    <2>3. /\ call.drawn[d] \in DrawRow
          /\ SettlementFor(next, call.drawn[d]) \in {"disbursed", "released"}
      BY <2>1, <2>2, SettlingTyped
    <2>4. call.drawn[d] # NoDraw
      BY <2>3 DEF DrawRow, NoDraw
    <2>5. draws[d] = call.drawn[d]
      BY <1>1, <2>1, <2>4 DEF Honest, DrawsReadAreOlder, DrawUnmoved
    <2>6. draws'[d] = [draws[d] EXCEPT !.status = SettlementFor(next, call.drawn[d]),
                                       !.version = @ + 1]
      BY <1>6, <2>5 DEF SettledDraws
    <2> QED BY <2>3, <2>5, <2>6 DEF DrawRow
  <1> QED BY <1>3, <1>4, <1>5, <1>6

\* The commit of a move keeps the invariant.
LEMMA CommitMoveSafe ==
    ASSUME IInv, TypeOK', NEW c \in Call, CommitMove(c)
    PROVE  IInv'
  <1> DEFINE call == calls[c]
             a    == call.app
             next == Moved(Patched(call), call.to)
             new  == NewDraw(Wage, a, call.amount, TRUE)
  <1>1. call \in DecidingCall /\ call.at = "deciding" /\ Honest(call)
    BY CallShapes DEF CommitMove, IInv, TypeOK
  <1>2. a \in App /\ Untouched(call) /\ call.row = apps[a]
    BY <1>1, UnmovedRowIsCurrent DEF CommitMove
  <1>3. /\ next.version = apps[a].version + 1
        /\ next.status = call.to
        /\ next.hoursLogged = apps[a].hoursLogged
        /\ next.hoursApproved = apps[a].hoursApproved
    BY <1>1, <1>2, MovedFields
  <1>4. /\ apps' = [apps EXCEPT ![a] = next]
        /\ UNCHANGED entries /\ Returns(c)
        /\ overridden' = IF call.viaOverride
                         THEN overridden \cup {<<a, call.to>>} ELSE overridden
    BY DEF CommitMove
  <1>5. apps'[a] = next /\ \A b \in App \ {a} : apps'[b] = apps[b]
    BY <1>2, <1>4 DEF IInv, TypeOK
  <1>6. ASSUME NEW d \in Draw
        PROVE  \/ draws'[d] = draws[d] /\ d \notin Settled(call, next)
               \/ /\ draws[d] \in DrawRow
                  /\ draws'[d].app = draws[d].app
                  /\ draws'[d].hourly = draws[d].hourly
                  /\ draws'[d].status \in {"disbursed", "released"}
                  /\ draws'[d].version = draws[d].version + 1
               \/ /\ draws[d] = NoDraw
                  /\ draws'[d] = new
                  /\ call.to = "funding_authorized"
    BY MoveAndDraws
  <1>7. /\ new.app = a /\ new.version = 1 /\ new.status = "authorized"
    BY DEF NewDraw
  <1> HIDE DEF next, new
  <1>8. RowsAdvance
    BY <1>3, <1>4, <1>5 DEF RowsAdvance
  <1>9. EntriesAdvance
    BY <1>4 DEF EntriesAdvance
  <1>10. DrawsAdvance
    <2> SUFFICES ASSUME NEW d \in Draw
        PROVE  /\ draws[d] # NoDraw =>
                    /\ draws'[d] # NoDraw
                    /\ draws'[d].app = draws[d].app
                    /\ draws'[d].hourly = draws[d].hourly
                    /\ draws'[d] = draws[d] \/ draws'[d].version > draws[d].version
               /\ draws[d] = NoDraw /\ draws'[d] # NoDraw /\ draws'[d].hourly =>
                    /\ draws'[d].app \in App
                    /\ apps'[draws'[d].app].version = apps[draws'[d].app].version + 1
      BY DEF DrawsAdvance
    <2>1. CASE draws'[d] = draws[d]
      BY <2>1
    <2>2. CASE /\ draws[d] \in DrawRow
               /\ draws'[d].app = draws[d].app
               /\ draws'[d].hourly = draws[d].hourly
               /\ draws'[d].status \in {"disbursed", "released"}
               /\ draws'[d].version = draws[d].version + 1
      <3>1. draws[d] # NoDraw /\ draws'[d] # NoDraw /\ draws[d].version \in Nat
        BY <2>2 DEF DrawRow, NoDraw
      <3> QED BY <2>2, <3>1
    <2>3. CASE draws[d] = NoDraw /\ draws'[d] = new
      BY <1>2, <1>3, <1>5, <1>7, <2>3
    <2> QED BY <1>6, <2>1, <2>2, <2>3
  <1>11. DrawsAreSettledOnce'
    <2> SUFFICES ASSUME NEW d \in Draw, draws'[d] # NoDraw
                 PROVE  /\ draws'[d].status = "authorized" => draws'[d].version = 1
                        /\ draws'[d].hourly => draws'[d].app \in App
      BY DEF DrawsAreSettledOnce
    <2>1. draws[d] \in DrawRow => draws[d] # NoDraw
      BY DEF DrawRow, NoDraw
    <2> QED BY <1>2, <1>6, <1>7, <2>1 DEF IInv, DrawsAreSettledOnce
  <1>12. CachedHoursMatchEntries'
    BY <1>3, <1>4, <1>5 DEF IInv, Promises, CachedHoursMatchEntries
  <1>13. OneLiveClaimPerWeek'
    BY <1>4 DEF IInv, Promises, OneLiveClaimPerWeek
  <1>14. CompletedWeeksAreReviewed'
    <2> SUFFICES ASSUME NEW b \in App, apps'[b].status \in Completed,
                        <<b, "placement_completed">> \notin overridden'
                 PROVE  /\ Unreviewed(EntriesOf(entries, b)) = {}
                        /\ Approved(EntriesOf(entries, b)) # {}
      BY <1>4 DEF CompletedWeeksAreReviewed
    <2>1. <<b, "placement_completed">> \notin overridden
      BY <1>4
    <2>2. CASE b # a
      BY <1>5, <2>1, <2>2 DEF IInv, Promises, CompletedWeeksAreReviewed
    <2>3. CASE b = a /\ call.to = "placement_completed"
      <3>1. ~call.viaOverride
        BY <1>4, <2>3
      <3>2. /\ Unreviewed(EntriesOf(entries, a)) = {}
            /\ apps[a].hoursApproved # {}
        BY <1>1, <1>2, <2>3, <3>1 DEF Honest, DecisionWasChecked
      <3> QED BY <1>2, <2>3, <3>2 DEF IInv, Promises, CachedHoursMatchEntries
    <2>4. CASE b = a /\ call.to # "placement_completed"
      <3>1. call.to \in Completed \ {"placement_completed"}
        BY <1>3, <1>5, <2>4
      <3>2. PICK t \in TransitionsFrom(apps[a].status, "standard") : t.to = call.to
        BY <1>1, <1>2 DEF Honest, DecisionWasChecked
      <3>3. apps[a].status \in Completed
        BY <3>1, <3>2, CreditFollowsCompletion
      <3> QED BY <1>2, <2>1, <2>4, <3>3 DEF IInv, Promises, CompletedWeeksAreReviewed
    <2> QED BY <2>2, <2>3, <2>4
  <1>15. AuthorizationSettledWithPlacement'
    <2> SUFFICES ASSUME NEW d \in Draw, draws'[d].status = "authorized",
                        draws'[d].hourly, Over(apps'[draws'[d].app])
                 PROVE  FALSE
      BY DEF AuthorizationSettledWithPlacement
    <2>1. CASE draws'[d] = new /\ call.to = "funding_authorized"
      BY <1>3, <1>5, <1>7, <2>1, FundedIsNotOver
    <2>2. CASE draws'[d] = draws[d] /\ d \notin Settled(call, next)
      <3>1. draws[d] # NoDraw /\ draws[d].app \in App /\ ~Over(apps[draws[d].app])
        BY <2>2 DEF IInv, DrawsAreSettledOnce, Promises,
                    AuthorizationSettledWithPlacement, NoDraw
      <3>2. draws[d].app = a /\ Over(next)
        BY <1>5, <2>2, <3>1
      <3>3. call.drawn[d] # NoDraw
        BY <1>1, <1>2, <2>2, <3>1, <3>2 DEF Honest, DrawsReadAreOlder
      <3>4. /\ call.drawn[d].version \in Nat \ {0}
            /\ call.drawn[d].version <= draws[d].version
            /\ draws[d].version = 1
        BY <1>1, <2>2, <3>1, <3>3 DEF Honest, DrawsReadAreOlder, DecidingCall,
           DrawTable, DrawRow, IInv, DrawsAreSettledOnce
      <3>5. call.drawn[d] = draws[d]
        BY <1>1, <3>3, <3>4 DEF Honest, DrawsReadAreOlder
      <3>6. Settles(next, draws[d])
        BY <2>2, <3>2 DEF Settles, IsLive, SettlementFor, Over
      <3> QED BY <2>2, <3>5, <3>6 DEF Settled
    <2> QED BY <1>6, <2>1, <2>2
  <1> QED BY <1>4, <1>8, <1>9, <1>10, <1>11, <1>12, <1>13, <1>14, <1>15, CommitSafe
          DEF TablesAdvance, Promises
-----------------------------------------------------------------------------
(* The theorems. *)

\* The invariant holds at first.
LEMMA InitSafe == Init => IInv
  <1> SUFFICES ASSUME Init PROVE IInv
    OBVIOUS
  <1>1. TypeOK
    BY InitTypeOK
  <1>2. \A c \in Call : Honest(calls[c])
    BY IdleHonest DEF Init, InitTables
  <1>3. DrawsAreSettledOnce /\ AuthorizationSettledWithPlacement
    BY DEF Init, InitTables, DrawsAreSettledOnce, AuthorizationSettledWithPlacement, NoDraw
  <1>4. CachedHoursMatchEntries
    BY DEF Init, InitTables, CachedHoursMatchEntries, Logged, Approved, WithStatus, EntriesOf, NoEntry
  <1>5. OneLiveClaimPerWeek
    BY DEF Init, InitTables, OneLiveClaimPerWeek, NoEntry
  <1>6. CompletedWeeksAreReviewed
    <2>1. Start \notin Completed
      BY PlacementAssumption DEF PlacementAssumption, Completed, ReachedPlacement
    <2> QED BY <2>1 DEF Init, InitTables, CompletedWeeksAreReviewed
  <1> QED BY <1>1, <1>2, <1>3, <1>4, <1>5, <1>6 DEF IInv, Promises

\* Every step keeps the invariant.
LEMMA StepSafe == IInv /\ [Next]_vars => IInv'
  <1> SUFFICES ASSUME IInv, [Next]_vars PROVE IInv'
    OBVIOUS
  <1>1. TypeOK'
    BY StepTypeOK DEF IInv
  <1>2. CASE UNCHANGED vars
    <2>1. UNCHANGED tables /\ UNCHANGED calls
      BY <1>2 DEF vars, tables
    <2>2. ASSUME NEW c \in Call PROVE Holds(c, calls[c])
      BY <2>1 DEF Holds, IInv, TypeOK
    <2>3. CASE Call = {}
      BY <1>1, <2>1, <2>3 DEF IInv, DrawsAreSettledOnce, Promises, tables,
         CachedHoursMatchEntries, OneLiveClaimPerWeek, CompletedWeeksAreReviewed,
         AuthorizationSettledWithPlacement
    <2>4. CASE Call # {}
      <3>1. PICK c \in Call : TRUE
        BY <2>4
      <3>2. Holds(c, calls[c]) /\ Honest(calls[c])
        BY <2>2, <3>1 DEF IInv
      <3> QED BY <1>1, <2>1, <3>1, <3>2, ReadStepSafe
    <2> QED BY <2>3, <2>4
  <1>3. CASE Next
    BY <1>1, <1>3, BeginMoveSafe, DecideSafe, CommitMoveSafe, LogReadsSafe,
       CommitLogSafe, ReviewReadsSafe, CommitReviewSafe, FundingReadsSafe,
       CommitDrawSafe, CommitReleaseSafe, CommitAdjustSafe, AbandonSafe DEF Next
  <1> QED BY <1>2, <1>3

\* What a call read stays true until the version it will check moves, and the
\* promises hold, at every moment of every run.
THEOREM Safety == Spec => []IInv
  BY InitSafe, StepSafe, PTL DEF Spec

\* The cached hour totals are the totals of the entries, whoever logs, reviews
\* or moves the placement at once (recacheTotals).
THEOREM CachedHours == Spec => []CachedHoursMatchEntries
  BY Safety, PTL DEF IInv, Promises

\* No week of a placement is claimed twice, even without the unique index the
\* database keeps (logHours).
THEOREM OneClaim == Spec => []OneLiveClaimPerWeek
  BY Safety, PTL DEF IInv, Promises

\* A completed placement has no week awaiting review and some hours approved,
\* unless an administrator overrode the completion (executeTransition).
THEOREM ReviewedAtCompletion == Spec => []CompletedWeeksAreReviewed
  BY Safety, PTL DEF IInv, Promises

\* The draw the board authorized is settled by the transaction that ends the
\* placement (settlementFor inside executeTransition).
THEOREM SettledAtTheEnd == Spec => []AuthorizationSettledWithPlacement
  BY Safety, PTL DEF IInv, Promises
=============================================================================

------------------------- MODULE PlacementRefinement -------------------------
(***************************************************************************)
(* Placement implements AtomicPlacement, for every number of calls: a step *)
(* of a call that only reads changes no table, and a commit is one action  *)
(* of the atomic specification on the rows as they are when it commits.    *)
(***************************************************************************)
EXTENDS PlacementSteps, AtomicPlacement

-----------------------------------------------------------------------------
(* What a call was asked to do, and what it found out about that from the  *)
(* row it holds.  None of it depends on the tables.                        *)

MoveWasAsked(call) ==
    /\ call.at = "drafting" => call.amount \in Amount
    /\ call.at \in {"moving", "deciding"} =>
          /\ call.amount \in Amount \cup {0}
          /\ call.amount # 0 => call.to = "funding_authorized"
          /\ call.draft => call.amount # 0
    /\ call.at = "deciding" /\ ~call.viaOverride =>
          /\ Eligible(call.to, call.app)
          /\ call.to = "funding_authorized" => Patched(call).authorized > 0

MoneyWasAsked(call) ==
    /\ call.at \in {"pricing", "promising"} =>
          call.source \notin Closed /\ call.amount \in Amount
    /\ call.at = "releasing" => call.draw.source \notin Closed
    /\ call.at = "adjusting" => call.source \notin Closed /\ call.figure \in Allocation

WellAsked(call) == MoveWasAsked(call) /\ MoneyWasAsked(call)

AllWellAsked == \A c \in Call : WellAsked(calls[c])

\* A call that is replaced by a well asked one leaves all calls so.
LEMMA HeldWellAsked ==
    ASSUME IInv, AllWellAsked, NEW c \in Call, NEW held, Holds(c, held),
           WellAsked(held)
    PROVE  AllWellAsked'
  <1> SUFFICES ASSUME NEW b \in Call PROVE WellAsked(calls[b])'
    BY DEF AllWellAsked
  <1>1. calls'[b] = IF b = c THEN held ELSE calls[b]
    BY DEF Holds, IInv, TypeOK
  <1>2. WellAsked(calls'[b])
    BY <1>1 DEF AllWellAsked
  <1> QED BY <1>2 DEF WellAsked, MoveWasAsked, MoneyWasAsked, Eligible, Patched

\* A step that is not about to move, draft or spend holds nothing to ask about.
LEMMA ReturnsWellAsked ==
    ASSUME IInv, AllWellAsked, NEW c \in Call, Returns(c)
    PROVE  AllWellAsked'
  <1>1. WellAsked(Idle)
    BY DEF WellAsked, MoveWasAsked, MoneyWasAsked, Idle
  <1> QED BY <1>1, HeldWellAsked DEF Returns

\* The reads of logging and reviewing keep calls well asked.
LEMMA TimesheetWellAsked ==
    ASSUME IInv, AllWellAsked, NEW c \in Call,
           \/ BeginLog(c) \/ LogReads(c)
           \/ BeginReview(c) \/ ReviewReadsRow(c) \/ ReviewReadsSiblings(c)
    PROVE  AllWellAsked'
  <1>1. ASSUME NEW held, Holds(c, held),
               held.at \in {"logging", "logged", "reviewing", "weighing", "signing"}
        PROVE  AllWellAsked'
    <2>1. WellAsked(held)
      BY <1>1 DEF WellAsked, MoveWasAsked, MoneyWasAsked
    <2> QED BY <1>1, <2>1, HeldWellAsked
  <1>2. CASE BeginLog(c) \/ LogReads(c)
    BY <1>1, <1>2 DEF BeginLog, LogReads
  <1>3. CASE BeginReview(c) \/ ReviewReadsRow(c) \/ ReviewReadsSiblings(c)
    BY <1>1, <1>3 DEF BeginReview, ReviewReadsRow, ReviewReadsSiblings
  <1> QED BY <1>2, <1>3

\* The reads of the calls about money keep calls well asked.
LEMMA MoneyWellAsked ==
    ASSUME IInv, AllWellAsked, NEW c \in Call,
           BeginCommit(c) \/ CommitReads(c) \/ BeginRelease(c) \/ BeginAdjust(c)
    PROVE  AllWellAsked'
  <1>1. ASSUME NEW held, Holds(c, held), MoneyWasAsked(held),
               held.at \in {"pricing", "promising", "releasing", "adjusting"}
        PROVE  AllWellAsked'
    <2>1. WellAsked(held)
      BY <1>1 DEF WellAsked, MoveWasAsked
    <2> QED BY <1>1, <2>1, HeldWellAsked
  <1>2. CASE BeginCommit(c)
    <2>1. PICK s \in Source \ Closed, a \in App \cup {Unplaced}, amount \in Amount :
             Holds(c, [at |-> "pricing", source |-> s, app |-> a,
                       amount |-> amount, fund |-> funds[s]])
      BY <1>2 DEF BeginCommit
    <2> QED BY <1>1, <2>1 DEF MoneyWasAsked
  <1>3. CASE CommitReads(c)
    <2>1. calls[c].source \notin Closed /\ calls[c].amount \in Amount
      BY <1>3 DEF AllWellAsked, WellAsked, MoneyWasAsked, CommitReads
    <2> QED BY <1>1, <1>3, <2>1 DEF CommitReads, MoneyWasAsked
  <1>4. CASE BeginRelease(c)
    <2>1. PICK d \in Draw : /\ draws[d].source \notin Closed
                            /\ Holds(c, [at |-> "releasing", id |-> d, draw |-> draws[d]])
      BY <1>4 DEF BeginRelease
    <2> QED BY <1>1, <2>1 DEF MoneyWasAsked
  <1>5. CASE BeginAdjust(c)
    <2>1. PICK s \in Source \ Closed, figure \in Allocation :
             Holds(c, [at |-> "adjusting", source |-> s, figure |-> figure,
                       fund |-> funds[s]])
      BY <1>5 DEF BeginAdjust
    <2> QED BY <1>1, <2>1 DEF MoneyWasAsked
  <1> QED BY <1>2, <1>3, <1>4, <1>5

\* The reads and the decision of a move keep calls well asked.
LEMMA MoveWellAsked ==
    ASSUME IInv, AllWellAsked, NEW c \in Call,
           BeginTransition(c) \/ BeginOverride(c) \/ BeginAuthorize(c)
           \/ AuthorizeReads(c) \/ Decide(c)
    PROVE  AllWellAsked'
  <1>0. 0 \notin Amount
    BY PlacementAssumption DEF PlacementAssumption
  <1>1. ASSUME NEW held, Holds(c, held), MoveWasAsked(held),
               held.at \in {"drafting", "moving", "deciding"}
        PROVE  AllWellAsked'
    <2>1. WellAsked(held)
      BY <1>1 DEF WellAsked, MoneyWasAsked
    <2> QED BY <1>1, <2>1, HeldWellAsked
  <1>2. ASSUME NEW a, NEW to, NEW role, ReadForMove(c, a, to, role, 0, FALSE)
        PROVE  AllWellAsked'
    BY <1>1, <1>2 DEF ReadForMove, MoveWasAsked
  <1>3. CASE BeginTransition(c) \/ BeginOverride(c)
    BY <1>2, <1>3 DEF BeginTransition, BeginOverride
  <1>4. CASE BeginAuthorize(c)
    <2>1. PICK a \in App, amount \in Amount :
             Holds(c, [at |-> "drafting", app |-> a, amount |-> amount,
                       draft |-> ~CoveredBy(draws, Wage, a)])
      BY <1>4 DEF BeginAuthorize
    <2> QED BY <1>1, <2>1 DEF MoveWasAsked
  <1>5. CASE AuthorizeReads(c)
    <2>1. calls[c].amount \in Amount
      BY <1>5 DEF AllWellAsked, WellAsked, MoveWasAsked, AuthorizeReads
    <2>2. calls[c].amount # 0
      BY <1>0, <2>1
    <2> QED BY <1>1, <1>5, <2>1, <2>2 DEF AuthorizeReads, ReadForMove, MoveWasAsked
  <1>6. CASE Decide(c)
    <2> DEFINE call  == calls[c]
               guard == Guard(Patched(call), call.to, call.app)
    <2>1. PICK t \in TransitionsFrom(call.row.status, "standard") :
             /\ Attempt(t.roles, call.role, guard, TRUE)
             /\ Holds(c, [at |-> "deciding", app |-> call.app, to |-> call.to,
                          row |-> call.row, amount |-> call.amount,
                          draft |-> call.draft, drawn |-> DrawsOf(draws, call.app),
                          viaOverride |-> Overrides(t.roles, call.role, guard, TRUE)])
      BY <1>6 DEF Decide
    <2> DEFINE held == [at |-> "deciding", app |-> call.app, to |-> call.to,
                        row |-> call.row, amount |-> call.amount,
                        draft |-> call.draft, drawn |-> DrawsOf(draws, call.app),
                        viaOverride |-> Overrides(t.roles, call.role, guard, TRUE)]
    <2>2. guard => /\ Eligible(call.to, call.app)
                   /\ call.to = "funding_authorized" => Patched(call).authorized > 0
      BY DEF Guard, AffordableByTheFund
    <2>3. ~guard => Overrides(t.roles, call.role, guard, TRUE)
      BY <2>1 DEF Attempt, Permitted
    <2>4. /\ call.amount \in Amount \cup {0}
          /\ call.amount # 0 => call.to = "funding_authorized"
          /\ call.draft => call.amount # 0
      BY <1>6 DEF AllWellAsked, WellAsked, MoveWasAsked, Decide
    <2>5. Patched(held) = Patched(call)
      BY DEF Patched
    <2> HIDE DEF guard
    <2>6. /\ held.at = "deciding" /\ held.app = call.app /\ held.to = call.to
          /\ held.amount = call.amount /\ held.draft = call.draft
          /\ held.viaOverride = Overrides(t.roles, call.role, guard, TRUE)
      OBVIOUS
    <2> HIDE DEF held
    <2>7. MoveWasAsked(held)
      BY <2>2, <2>3, <2>4, <2>5, <2>6 DEF MoveWasAsked
    <2> QED BY <1>1, <2>1, <2>6, <2>7 DEF held
  <1> QED BY <1>3, <1>4, <1>5, <1>6

\* Every step keeps calls well asked.
LEMMA StepWellAsked == IInv /\ AllWellAsked /\ [Next]_vars => AllWellAsked'
  <1> SUFFICES ASSUME IInv, AllWellAsked, [Next]_vars PROVE AllWellAsked'
    OBVIOUS
  <1>1. CASE UNCHANGED vars
    BY <1>1 DEF vars, AllWellAsked, WellAsked, MoveWasAsked, MoneyWasAsked, Eligible,
       Patched
  <1>2. ASSUME NEW c \in Call,
               CommitMove(c) \/ CommitLog(c) \/ CommitReview(c) \/ CommitDraw(c)
               \/ CommitRelease(c) \/ CommitAdjust(c) \/ Abandon(c)
        PROVE  Returns(c)
    BY <1>2 DEF CommitMove, CommitLog, CommitReview, CommitDraw, CommitRelease,
       CommitAdjust, Abandon
  <1> QED BY <1>1, <1>2, ReturnsWellAsked, TimesheetWellAsked, MoneyWellAsked,
             MoveWellAsked DEF Next

\* No call in flight asks anything.
LEMMA InitWellAsked == Init => AllWellAsked
  BY DEF Init, Idle, AllWellAsked, WellAsked, MoveWasAsked, MoneyWasAsked

\* The invariants the refinement rests on hold together.
LEMMA AskedHold == Spec => [](IInv /\ Annals /\ AllWellAsked)
  BY AnnalsHold, InitWellAsked, StepWellAsked, PTL DEF Spec
-----------------------------------------------------------------------------
(* The commits.  What a commit writes was built from rows it held; the     *)
(* version checks make them the rows that are there.                       *)

\* The commit of a week is the atomic one.
LEMMA LogRefines ==
    ASSUME IInv, NEW c \in Call, CommitLog(c)
    PROVE  \E a \in App, w \in Week : Log(a, w)
  <1> DEFINE call  == calls[c]
             a     == call.app
             entry == [app |-> a, week |-> call.week,
                       status |-> "submitted", version |-> 1]
  <1>1. call \in LoggedCall /\ call.at = "logged" /\ Honest(call)
    BY CallShapes DEF CommitLog, IInv, TypeOK
  <1>2. a \in App /\ Untouched(call) /\ call.row = apps[a]
    BY <1>1, UnmovedRowIsCurrent DEF CommitLog
  <1>3. call.seen = EntriesOf(entries, a)
    BY <1>1, <1>2 DEF Honest, EntriesReadAreCurrent
  <1>4. /\ apps[a].status = "placement_active"
        /\ call.week \notin ClaimedWeeks(EntriesOf(entries, a))
    BY <1>1, <1>2, <1>3 DEF Honest, ClaimWasChecked
  <1>5. entry \in EntryRow /\ entry.app = a /\ call.week \in Week
    BY <1>1, <1>2 DEF LoggedCall, EntryRow
  <1>6. PICK e \in Entry :
           /\ entries[e] = NoEntry
           /\ entries' = [entries EXCEPT ![e] = entry]
           /\ apps' = [apps EXCEPT ![a] =
                          Recached(call.row, [call.seen EXCEPT ![e] = entry])]
    BY DEF CommitLog
  <1> HIDE DEF entry
  <1>7. [call.seen EXCEPT ![e] = entry] = EntriesOf(entries', a)
    <2>1. entries \in EntryTable
      BY DEF IInv, TypeOK
    <2>2. EntriesOf(Written(entries, e, entry), a)
            = Written(EntriesOf(entries, a), e, entry)
      BY <1>5, <1>6, <2>1, EntryWritten
    <2> QED BY <1>3, <1>6, <2>2 DEF Written
  <1>8. apps' = [apps EXCEPT ![a] = Recached(apps[a], EntriesOf(entries', a))]
    BY <1>2, <1>6, <1>7
  <1>9. UNCHANGED <<draws, funds, overridden>>
    BY DEF CommitLog
  <1>10. Log(a, call.week)
    BY <1>2, <1>4, <1>6, <1>8, <1>9 DEF Log, entry
  <1> QED BY <1>2, <1>5, <1>10

\* The commit of a decision on a week is the atomic one.
LEMMA ReviewRefines ==
    ASSUME IInv, NEW c \in Call, CommitReview(c)
    PROVE  \E e \in Entry, verdict \in {"approved", "rejected"} : Review(e, verdict)
  <1> DEFINE call     == calls[c]
             a        == call.app
             e        == call.id
             reviewed == [call.entry EXCEPT !.status = call.decision,
                                            !.version = @ + 1]
  <1>1. call \in SigningCall /\ call.at = "signing" /\ Honest(call)
    BY CallShapes DEF CommitReview, IInv, TypeOK
  <1>2. a \in App /\ Untouched(call) /\ call.row = apps[a]
    BY <1>1, UnmovedRowIsCurrent DEF CommitReview
  <1>3. call.seen = EntriesOf(entries, a)
    BY <1>1, <1>2 DEF Honest, EntriesReadAreCurrent
  <1>4. /\ e \in Entry /\ call.decision \in {"approved", "rejected"}
        /\ call.entry \in EntryRow
    BY <1>1 DEF SigningCall, Verdict
  <1>5. /\ call.entry = entries[e]
        /\ entries[e].status = "submitted"
        /\ entries[e].app = a
    BY <1>1 DEF Honest, EntryReadIsOlder, CommitReview, EntryUnmoved
  <1>6. reviewed \in EntryRow /\ reviewed.app = a
    <2>1. call.entry.version + 1 \in Nat \ {0}
      BY <1>4 DEF EntryRow
    <2> QED BY <1>4, <1>5, <2>1 DEF EntryRow
  <1>7. /\ entries' = [entries EXCEPT ![e] = reviewed]
        /\ apps' = [apps EXCEPT ![a] =
                       Recached(call.row, [call.seen EXCEPT ![e] = reviewed])]
        /\ UNCHANGED <<draws, funds, overridden>>
    BY DEF CommitReview
  <1>8. reviewed = [entries[e] EXCEPT !.status = call.decision, !.version = @ + 1]
    BY <1>5
  <1> HIDE DEF reviewed
  <1>9. [call.seen EXCEPT ![e] = reviewed] = EntriesOf(entries', a)
    <2>1. entries \in EntryTable
      BY DEF IInv, TypeOK
    <2>2. EntriesOf(Written(entries, e, reviewed), a)
            = Written(EntriesOf(entries, a), e, reviewed)
      BY <1>4, <1>5, <1>6, <2>1, EntryWritten
    <2> QED BY <1>3, <1>7, <2>2 DEF Written
  <1>10. apps' = [apps EXCEPT ![a] = Recached(apps[a], EntriesOf(entries', a))]
    BY <1>2, <1>7, <1>9
  <1>11. Review(e, call.decision)
    BY <1>5, <1>7, <1>8, <1>10 DEF Review
  <1> QED BY <1>4, <1>11

\* The insertion of a commitment is the atomic one.
LEMMA PromiseRefines ==
    ASSUME IInv, AllWellAsked, NEW c \in Call, CommitDraw(c)
    PROVE  \E s \in Source \ Closed, a \in App \cup {Unplaced}, amount \in Amount :
              Promise(s, a, amount)
  <1> DEFINE call == calls[c]
  <1>1. call \in PromisingCall /\ call.at = "promising"
    BY CallShapes DEF CommitDraw, IInv, TypeOK
  <1>2. /\ call.source \in Source \ Closed /\ call.app \in App \cup {Unplaced}
        /\ call.amount \in Amount
    BY <1>1 DEF PromisingCall, AllWellAsked, WellAsked, MoneyWasAsked
  <1>3. Promise(call.source, call.app, call.amount)
    BY DEF CommitDraw, Promise
  <1> QED BY <1>2, <1>3

\* The commit of a release is the atomic one.
LEMMA ReleaseRefines ==
    ASSUME IInv, Annals, AllWellAsked, NEW c \in Call, CommitRelease(c)
    PROVE  \E d \in Draw : Release(d)
  <1> DEFINE call == calls[c]
  <1>1. call \in ReleasingCall /\ call.at = "releasing" /\ Honest(call)
    BY CallShapes DEF CommitRelease, IInv, TypeOK
  <1>2. call.id \in Draw /\ call.draw = draws[call.id]
    BY <1>1 DEF Honest, DrawReleasedIsOlder, CommitRelease, DrawUnmoved, ReleasingCall
  <1>3. draws[call.id].status = "authorized" /\ draws[call.id].source \notin Closed
    BY <1>1, <1>2 DEF Annals, DrawsHeldAreProper, AllWellAsked, WellAsked, MoneyWasAsked
  <1>4. /\ draws' = [draws EXCEPT ![call.id] =
                        [call.draw EXCEPT !.status = "released", !.version = @ + 1]]
        /\ UNCHANGED <<apps, entries, funds, overridden>>
    BY DEF CommitRelease
  <1>5. Release(call.id)
    BY <1>2, <1>3, <1>4 DEF Release
  <1> QED BY <1>2, <1>5

\* The commit of a new allocation is the atomic one.
LEMMA AdjustRefines ==
    ASSUME IInv, AllWellAsked, NEW c \in Call, CommitAdjust(c)
    PROVE  \E s \in Source \ Closed, figure \in Allocation : Adjust(s, figure)
  <1> DEFINE call == calls[c]
             s    == call.source
  <1>1. call \in AdjustingCall /\ call.at = "adjusting"
    BY CallShapes DEF CommitAdjust, IInv, TypeOK
  <1>2. s \in Source \ Closed /\ call.figure \in Allocation /\ call.fund \in FundRow
    BY <1>1 DEF AdjustingCall, AllWellAsked, WellAsked, MoneyWasAsked
  <1>3. funds[s] \in FundRow /\ funds[s].version = call.fund.version
    BY <1>2 DEF IInv, TypeOK, CommitAdjust, FundUnmoved
  <1>4. [call.fund EXCEPT !.allocated = call.figure, !.version = @ + 1]
          = [funds[s] EXCEPT !.allocated = call.figure, !.version = @ + 1]
    BY <1>2, <1>3 DEF FundRow
  <1>5. Adjust(s, call.figure)
    BY <1>4 DEF CommitAdjust, Adjust
  <1> QED BY <1>2, <1>5
-----------------------------------------------------------------------------
(* A move. *)

\* A draw that is due was still authorized: what was paid out stays paid out.
LEMMA DueIsAuthorized ==
    ASSUME IInv, IInv', Annals, Next, NEW a \in App, NEW d \in Due(apps'[a], a)
    PROVE  /\ draws[d] # NoDraw /\ draws[d].app = a
           /\ draws[d].status = "authorized" /\ draws[d].version = 1
           /\ Settles(apps'[a], draws[d])
  <1>1. d \in Draw /\ draws[d] # NoDraw /\ draws[d].app = a /\ Settles(apps'[a], draws[d])
    BY DEF Due, DrawsOf, Settles, IsLive, NoDraw
  <1>2. ASSUME draws[d].status = "disbursed" PROVE FALSE
    <2>1. HasExited(apps[a])
      BY <1>1, <1>2 DEF Annals, PaidForWorkDone
    <2>2. apps[a] \in AppRow /\ apps'[a] \in AppRow
      BY DEF IInv, TypeOK
    <2>3. HasExited(apps'[a])
      BY <2>1, <2>2, HowRowsChange, ExitIsForGood DEF Annals, FurthestIsTheStatus
    <2> QED BY <1>1, <1>2, <2>3 DEF Settles, SettlementFor
  <1>3. draws[d].status = "authorized"
    BY <1>1, <1>2 DEF Settles, IsLive
  <1> QED BY <1>1, <1>3 DEF IInv, DrawsAreSettledOnce

\* The draws a move settles are due, and those with an hour cap all are among
\* them.
LEMMA SettledAreDue ==
    ASSUME IInv, IInv', Annals, Next, NEW c \in Call, CommitMove(c)
    PROVE  LET call == calls[c]
               next == Moved(Patched(call), call.to)
           IN /\ Settled(call, next) \subseteq Due(next, call.app)
              /\ \A d \in Due(next, call.app) :
                    draws[d].hourly => d \in Settled(call, next)
              /\ \A d \in Settled(call, next) : call.drawn[d] = draws[d]
  <1> DEFINE call == calls[c]
             a    == call.app
             next == Moved(Patched(call), call.to)
  <1>1. call \in DecidingCall /\ call.at = "deciding" /\ Honest(call)
    BY CallShapes DEF CommitMove, IInv, TypeOK
  <1>2. a \in App /\ Untouched(call)
    BY <1>1, UnmovedRowIsCurrent DEF CommitMove
  <1>3. apps'[a] = next
    BY <1>2, MoveIsAnEdge DEF IInv, TypeOK
  <1>4. \A d \in Settled(call, next) : DrawUnmoved(call.drawn[d], d)
    BY DEF CommitMove
  <1> HIDE DEF next
  <1>5. ASSUME NEW d \in Settled(call, next)
        PROVE  d \in Due(next, a) /\ call.drawn[d] = draws[d]
    <2>1. /\ d \in Draw /\ Settles(next, call.drawn[d])
          /\ DrawUnmoved(call.drawn[d], d)
      BY <1>4 DEF Settled
    <2>2. call.drawn[d] # NoDraw
      BY <2>1 DEF Settles, IsLive, NoDraw
    <2>3. call.drawn[d] = draws[d] /\ draws[d] # NoDraw /\ draws[d].app = a
      BY <1>1, <2>1, <2>2 DEF Honest, DrawsReadAreOlder, DrawUnmoved, Annals,
         DrawsHeldAreProper
    <2> QED BY <2>1, <2>3 DEF Due, DrawsOf
  <1>6. ASSUME NEW d \in Due(next, a), draws[d].hourly
        PROVE  d \in Settled(call, next)
    <2>1. /\ draws[d] # NoDraw /\ draws[d].app = a /\ draws[d].version = 1
          /\ Settles(next, draws[d])
      BY <1>2, <1>3, DueIsAuthorized
    <2>2. d \in Draw
      BY DEF Due
    <2>3. call.drawn[d] # NoDraw
      BY <1>1, <1>2, <1>6, <2>1, <2>2 DEF Honest, DrawsReadAreOlder
    <2>4. /\ call.drawn[d].version \in Nat \ {0}
          /\ call.drawn[d].version <= draws[d].version
      BY <1>1, <2>2, <2>3 DEF Honest, DrawsReadAreOlder, DecidingCall, DrawTable, DrawRow
    <2>5. call.drawn[d] = draws[d]
      BY <1>1, <2>1, <2>2, <2>3, <2>4 DEF Honest, DrawsReadAreOlder
    <2> QED BY <2>1, <2>2, <2>5 DEF Settled
  <1> QED BY <1>5, <1>6 DEF next

\* A move that is no override found its guards true of the rows it replaces.
LEMMA DecidedNow ==
    ASSUME IInv, AllWellAsked, NEW c \in Call, CommitMove(c), ~calls[c].viaOverride
    PROVE  Decided(Patched(calls[c]), calls[c].to, calls[c].app)
  <1> DEFINE call == calls[c]
  <1>1. call \in DecidingCall /\ call.at = "deciding" /\ Honest(call)
    BY CallShapes DEF CommitMove, IInv, TypeOK
  <1>2. Untouched(call)
    BY <1>1, UnmovedRowIsCurrent DEF CommitMove
  <1>3. /\ Eligible(call.to, call.app)
        /\ call.to = "funding_authorized" => Patched(call).authorized > 0
    BY <1>1 DEF AllWellAsked, WellAsked, MoveWasAsked
  <1>4. call.to = "placement_completed" =>
           /\ Unreviewed(EntriesOf(entries, call.app)) = {}
           /\ call.row.hoursApproved # {}
    BY <1>1, <1>2 DEF Honest, DecisionWasChecked
  <1>5. Patched(call).hoursApproved = call.row.hoursApproved
    BY <1>1 DEF Patched, DecidingCall, AppRow
  <1> QED BY <1>3, <1>4, <1>5 DEF Decided, HoursReviewed

\* The commit of a move, with its draws, is the atomic one.
LEMMA MoveRefines ==
    ASSUME IInv, IInv', Annals, AllWellAsked, Next, NEW c \in Call, CommitMove(c)
    PROVE  \E a \in App : Move(a)
  <1> DEFINE call    == calls[c]
             a       == call.app
             row     == Authorizing(apps[a], call.amount)
             next    == Moved(row, call.to)
             settled == Settled(call, next)
             new     == NewDraw(Wage, a, call.amount, TRUE)
  <1>1. call \in DecidingCall /\ call.at = "deciding" /\ Honest(call)
    BY CallShapes DEF CommitMove, IInv, TypeOK
  <1>2. a \in App /\ call.row = apps[a]
    BY <1>1, UnmovedRowIsCurrent DEF CommitMove
  <1>3. row = Patched(call)
    BY <1>2 DEF Patched, Authorizing
  <1>4. PICK t \in TransitionsFrom(apps[a].status, "standard") : t.to = call.to
    BY <1>1, <1>2 DEF Honest, DecisionWasChecked
  <1>5. /\ call.amount \in Amount \cup {0}
        /\ call.amount # 0 => call.to = "funding_authorized"
        /\ call.draft => call.amount # 0
    BY <1>1 DEF AllWellAsked, WellAsked, MoveWasAsked
  <1>6. apps' = [apps EXCEPT ![a] = next] /\ UNCHANGED <<entries, funds>>
    BY <1>3 DEF CommitMove
  <1>7. \/ Decided(row, call.to, a) /\ UNCHANGED overridden
        \/ overridden' = overridden \cup {<<a, call.to>>}
    BY <1>3, DecidedNow DEF CommitMove
  <1>8. /\ settled \subseteq Due(next, a)
        /\ \A d \in Due(next, a) : draws[d].hourly => d \in settled
        /\ \A d \in settled : call.drawn[d] = draws[d]
    BY <1>3, SettledAreDue
  <1>9. \/ draws' = SettledDraws(call, next)
        \/ /\ call.draft /\ ~CoveredBy(draws, Wage, a)
           /\ \E d \in Draw :
                 /\ draws[d] = NoDraw
                 /\ draws' = [SettledDraws(call, next) EXCEPT ![d] = new]
    BY <1>3 DEF CommitMove
  <1>10. SettledDraws(call, next) = Settling(next, settled)
    <2> HIDE DEF next, call
    <2> QED BY <1>8 DEF SettledDraws, Settling
  <1> HIDE DEF next, row, settled, new
  <1>11. \/ draws' = Settling(next, settled)
         \/ /\ call.amount # 0 /\ ~CoveredBy(draws, Wage, a)
            /\ \E d \in Draw :
                  /\ draws[d] = NoDraw
                  /\ draws' = [Settling(next, settled) EXCEPT ![d] = new]
    BY <1>5, <1>9, <1>10
  <1>12. Move(a)
    BY <1>4, <1>5, <1>6, <1>7, <1>8, <1>11 DEF Move, next, row, new
  <1> QED BY <1>2, <1>12
-----------------------------------------------------------------------------
(* The refinement. *)

\* Every step is an atomic one or changes no table.
LEMMA StepRefines ==
    IInv /\ IInv' /\ Annals /\ AllWellAsked /\ [Next]_vars => [AtomicNext]_tables
  <1> SUFFICES ASSUME IInv, IInv', Annals, AllWellAsked, [Next]_vars
               PROVE  AtomicNext \/ UNCHANGED tables
    OBVIOUS
  <1>1. CASE UNCHANGED vars
    BY <1>1 DEF vars, tables
  <1>2. ASSUME NEW c \in Call,
               \/ BeginTransition(c) \/ BeginOverride(c) \/ BeginAuthorize(c)
               \/ AuthorizeReads(c) \/ Decide(c)
               \/ BeginLog(c) \/ LogReads(c)
               \/ BeginReview(c) \/ ReviewReadsRow(c) \/ ReviewReadsSiblings(c)
               \/ BeginCommit(c) \/ CommitReads(c)
               \/ BeginRelease(c) \/ BeginAdjust(c) \/ Abandon(c)
        PROVE  UNCHANGED tables
    BY <1>2 DEF BeginTransition, BeginOverride, BeginAuthorize, AuthorizeReads, Decide,
       BeginLog, LogReads, BeginReview, ReviewReadsRow, ReviewReadsSiblings,
       BeginCommit, CommitReads, BeginRelease, BeginAdjust, Abandon
  <1>3. ASSUME NEW c \in Call, CommitMove(c), Next
        PROVE  AtomicNext
    BY <1>3, MoveRefines DEF AtomicNext
  <1>4. ASSUME NEW c \in Call, CommitLog(c) \/ CommitReview(c)
        PROVE  AtomicNext
    BY <1>4, LogRefines, ReviewRefines DEF AtomicNext
  <1>5. ASSUME NEW c \in Call, CommitDraw(c) \/ CommitRelease(c) \/ CommitAdjust(c)
        PROVE  AtomicNext
    BY <1>5, PromiseRefines, ReleaseRefines, AdjustRefines DEF AtomicNext
  <1> QED BY <1>1, <1>2, <1>3, <1>4, <1>5 DEF Next

\* Whatever calls run at once and wherever each is interrupted, the tables
\* change as if every call happened at one instant (the version check of every
\* save in src/src/data/postgres/store.ts).
THEOREM CallsAreAtomic == Spec => AtomicSpec
  <1>1. Init => InitTables
    BY DEF Init
  <1>2. Spec => [][AtomicNext]_tables
    BY AskedHold, StepRefines, PTL DEF Spec
  <1> QED BY <1>1, <1>2, PTL DEF Spec, AtomicSpec
==============================================================================

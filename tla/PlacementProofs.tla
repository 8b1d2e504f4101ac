--------------------------- MODULE PlacementProofs ---------------------------
(***************************************************************************)
(* What Placement keeps for every number of applications, calls, weeks and *)
(* draws: its types, and the safety properties that rest on the version    *)
(* check, with the invariant that makes them inductive.                    *)
(***************************************************************************)
EXTENDS Placement, TLAPS

-----------------------------------------------------------------------------
(* Types. *)

\* Every edge of the table joins two statuses and names roles of a membership.
LEMMA EdgesTyped ==
    ASSUME NEW t \in Transitions
    PROVE  t.from \in Status /\ t.to \in Status /\ t.roles \subseteq Role
  BY DEF Transitions, Edge, Status, ReachedPlacement, TerminalStatuses, Role

\* The row a transition writes is a row.
LEMMA MovedTyped ==
    ASSUME NEW row \in AppRow, NEW to \in Status
    PROVE  Moved(row, to) \in AppRow
  <1> DEFINE furthest == FurthestOf(row, to)
             exited   == IF row.exitedOn # 0 THEN row.exitedOn
                         ELSE IF to \in NoLongerRunning THEN row.version + 1 ELSE 0
  <1>1. furthest \in Status
    BY DEF AppRow, FurthestOf
  <1>2. exited \in Nat /\ row.version + 1 \in Nat \ {0}
    BY DEF AppRow
  <1>3. Moved(row, to) = [row EXCEPT !.status = to, !.furthest = furthest,
                             !.exitedOn = exited, !.version = row.version + 1]
    BY DEF Moved
  <1> HIDE DEF furthest, exited
  <1> QED BY <1>1, <1>2, <1>3 DEF AppRow

\* The row a timesheet write saves is a row, whatever entries it was given.
LEMMA RecachedTyped ==
    ASSUME NEW row \in AppRow, NEW table
    PROVE  Recached(row, table) \in AppRow
  <1>1. Logged(table) \in SUBSET Entry /\ Approved(table) \in SUBSET Entry
    BY DEF Logged, Approved, WithStatus
  <1>2. row.version + 1 \in Nat \ {0}
    BY DEF AppRow
  <1> QED BY <1>1, <1>2 DEF AppRow, Recached

\* A call in flight has the fields of the step it is at.
LEMMA CallShapes ==
    ASSUME NEW call \in CallState
    PROVE  /\ call.at = "drafting" => call \in DraftingCall
           /\ call.at = "moving" => call \in MovingCall
           /\ call.at = "deciding" => call \in DecidingCall
           /\ call.at = "logging" => call \in LoggingCall
           /\ call.at = "logged" => call \in LoggedCall
           /\ call.at = "reviewing" => call \in ReviewingCall
           /\ call.at = "weighing" => call \in WeighingCall
           /\ call.at = "signing" => call \in SigningCall
           /\ call.at = "pricing" => call \in PricingCall
           /\ call.at = "promising" => call \in PromisingCall
           /\ call.at = "releasing" => call \in ReleasingCall
           /\ call.at = "adjusting" => call \in AdjustingCall
  BY DEF CallState, Idle, DraftingCall, MovingCall, DecidingCall, LoggingCall,
         LoggedCall, ReviewingCall, WeighingCall, SigningCall, PricingCall,
         PromisingCall, ReleasingCall, AdjustingCall

\* What a call keeps while it waits is one of the states of a call.
LEMMA HeldTyped ==
    ASSUME NEW c \in Call, NEW held \in CallState, TypeOK, Holds(c, held)
    PROVE  calls' \in [Call -> CallState]
  BY DEF TypeOK, Holds

\* The entries and the draws of one application are tables of their kind.
LEMMA SnapshotsTyped ==
    ASSUME TypeOK, NEW a
    PROVE  EntriesOf(entries, a) \in EntryTable /\ DrawsOf(draws, a) \in DrawTable
  BY DEF TypeOK, EntriesOf, DrawsOf, EntryTable, DrawTable

\* The tables begin with their shapes and no call is in flight.
LEMMA InitTypeOK == Init => TypeOK
  <1> SUFFICES ASSUME Init PROVE TypeOK
    OBVIOUS
  <1>1. apps \in [App -> AppRow]
    BY PlacementAssumption DEF PlacementAssumption, Init, InitTables, AppRow
  <1>2. entries \in EntryTable /\ draws \in DrawTable
    BY DEF Init, InitTables, EntryTable, DrawTable
  <1>3. funds \in [Source -> FundRow]
    <2>1. ASSUME NEW fund \in [allocated : Allocation, version : {1}]
          PROVE  fund \in FundRow
      <3>1. fund.allocated \in Allocation /\ fund.version = 1
        OBVIOUS
      <3>3. Allocation \subseteq Nat
        BY PlacementAssumption DEF PlacementAssumption
      <3>2. fund = [allocated |-> fund.allocated, version |-> fund.version]
        OBVIOUS
      <3>4. fund.allocated \in Nat
        BY <3>1, <3>3, Zenon
      <3>5. fund.version \in Nat \ {0}
        BY <3>1
      <3> QED BY <3>2, <3>4, <3>5 DEF FundRow
    <2> QED BY <2>1 DEF Init, InitTables
  <1>4. calls \in [Call -> CallState]
    BY DEF Init, InitTables, CallState
  <1> QED BY <1>1, <1>2, <1>3, <1>4 DEF Init, InitTables, TypeOK

\* A step that only reads keeps the types when what it holds is a call state.
LEMMA ReadStepTyped ==
    ASSUME TypeOK, NEW c \in Call, NEW held \in CallState, Holds(c, held),
           UNCHANGED tables
    PROVE  TypeOK'
  <1>1. calls' \in [Call -> CallState]
    BY HeldTyped
  <1> QED BY <1>1 DEF TypeOK, tables

\* A call that has read a row to move it holds a row.
LEMMA ReadForMoveTyped ==
    ASSUME TypeOK, NEW c \in Call, NEW a \in App, NEW to \in Status,
           NEW role \in Role, NEW amount \in Nat, NEW draft \in BOOLEAN,
           ReadForMove(c, a, to, role, amount, draft), UNCHANGED tables
    PROVE  TypeOK'
  <1> DEFINE held == [at |-> "moving", app |-> a, to |-> to, role |-> role,
                      amount |-> amount, draft |-> draft, row |-> apps[a]]
  <1>1. held \in CallState
    BY DEF TypeOK, CallState, MovingCall
  <1>2. Holds(c, held)
    BY DEF ReadForMove
  <1> HIDE DEF held
  <1> QED BY <1>1, <1>2, ReadStepTyped

\* Starting a move, by a portal, an administrator or the board.
LEMMA BeginMoveTyped ==
    ASSUME TypeOK, NEW c \in Call,
           BeginTransition(c) \/ BeginOverride(c) \/ BeginAuthorize(c)
             \/ AuthorizeReads(c)
    PROVE  TypeOK'
  <1>1. CASE BeginTransition(c)
    <2>0. PICK a \in App : \E t \in TransitionsFrom(apps[a].status, "standard") :
              \E role \in t.roles : ReadForMove(c, a, t.to, role, 0, FALSE)
      BY <1>1 DEF BeginTransition
    <2>1. PICK t \in TransitionsFrom(apps[a].status, "standard") :
              \E role \in t.roles : ReadForMove(c, a, t.to, role, 0, FALSE)
      BY <2>0
    <2>2. PICK role \in t.roles : ReadForMove(c, a, t.to, role, 0, FALSE)
      BY <2>1
    <2>3. t.to \in Status /\ role \in Role
      BY EdgesTyped DEF TransitionsFrom
    <2> QED BY <1>1, <2>2, <2>3, ReadForMoveTyped DEF BeginTransition
  <1>2. CASE BeginOverride(c)
    <2>0. PICK a \in App : \E t \in TransitionsFrom(apps[a].status, "standard") :
              ReadForMove(c, a, t.to, "admin", 0, FALSE)
      BY <1>2 DEF BeginOverride
    <2>1. PICK t \in TransitionsFrom(apps[a].status, "standard") :
              ReadForMove(c, a, t.to, "admin", 0, FALSE)
      BY <2>0
    <2>2. t.to \in Status /\ "admin" \in Role
      BY EdgesTyped DEF TransitionsFrom, Role
    <2> QED BY <1>2, <2>1, <2>2, ReadForMoveTyped DEF BeginOverride
  <1>3. CASE BeginAuthorize(c)
    <2>1. PICK a \in App, amount \in Amount :
              Holds(c, [at |-> "drafting", app |-> a, amount |-> amount,
                        draft |-> ~CoveredBy(draws, Wage, a)])
      BY <1>3 DEF BeginAuthorize
    <2> DEFINE held == [at |-> "drafting", app |-> a, amount |-> amount,
                        draft |-> ~CoveredBy(draws, Wage, a)]
    <2>2. amount \in Nat \ {0}
      BY PlacementAssumption
    <2>3. held \in DraftingCall
      BY <2>2 DEF DraftingCall, CoveredBy
    <2>4. held \in CallState /\ Holds(c, held)
      BY <2>1, <2>3 DEF CallState
    <2> HIDE DEF held
    <2> QED BY <1>3, <2>4, ReadStepTyped DEF BeginAuthorize
  <1>4. CASE AuthorizeReads(c)
    <2>1. calls[c] \in CallState /\ calls[c].at = "drafting"
      BY <1>4 DEF AuthorizeReads, TypeOK
    <2>2. calls[c] \in DraftingCall
      BY <2>1, CallShapes
    <2>3. /\ calls[c].app \in App
          /\ calls[c].amount \in Nat
          /\ calls[c].draft \in BOOLEAN
      BY <2>2 DEF DraftingCall
    <2>4. "funding_authorized" \in Status /\ "board" \in Role
      BY DEF Status, Role
    <2> QED BY <1>4, <2>3, <2>4, ReadForMoveTyped DEF AuthorizeReads
  <1> QED BY <1>1, <1>2, <1>3, <1>4

\* What the machine decided is held with its shape.
LEMMA DecideTyped ==
    ASSUME TypeOK, NEW c \in Call, Decide(c)
    PROVE  TypeOK'
  <1> DEFINE call == calls[c]
             g    == Guard(Patched(call), call.to, call.app)
             held(t) == [at |-> "deciding", app |-> call.app, to |-> call.to,
                         row |-> call.row, amount |-> call.amount,
                         draft |-> call.draft, drawn |-> DrawsOf(draws, call.app),
                         viaOverride |-> Overrides(t.roles, call.role, g, TRUE)]
  <1>1. PICK t \in TransitionsFrom(call.row.status, "standard") : Holds(c, held(t))
    BY DEF Decide
  <1>2. call \in MovingCall
    BY CallShapes DEF Decide, TypeOK
  <1>3. DrawsOf(draws, call.app) \in DrawTable
    BY SnapshotsTyped
  <1>4. Overrides(t.roles, call.role, g, TRUE) \in BOOLEAN
    BY DEF Overrides
  <1>5. held(t) \in DecidingCall
    <2> HIDE DEF g
    <2> QED BY <1>2, <1>3, <1>4 DEF MovingCall, DecidingCall
  <1>6. held(t) \in CallState
    BY <1>5 DEF CallState
  <1> HIDE DEF held
  <1> QED BY <1>1, <1>6, ReadStepTyped DEF Decide

\* A commit, or the end of a call, leaves it idle.
LEMMA ReturnsTyped ==
    ASSUME TypeOK, NEW c \in Call, Returns(c)
    PROVE  calls' \in [Call -> CallState]
  <1>1. Idle \in CallState
    BY DEF CallState
  <1> QED BY <1>1, HeldTyped DEF Returns

\* The row a move patches is a row.
LEMMA PatchedTyped ==
    ASSUME NEW call \in DecidingCall
    PROVE  Patched(call) \in AppRow
  BY DEF Patched, DecidingCall, AppRow

\* A draw written with a move has the shape of a draw.
LEMMA NewDrawTyped ==
    ASSUME NEW s \in Source, NEW a \in App \cup {Unplaced}, NEW amount \in Nat,
           NEW hourly \in BOOLEAN
    PROVE  NewDraw(s, a, amount, hourly) \in DrawRow
  BY DEF NewDraw, DrawRow

\* A draw a settlement writes is a draw that exists, disbursed or released.
LEMMA SettlingTyped ==
    ASSUME NEW draw \in DrawRow \cup {NoDraw}, NEW row, Settles(row, draw)
    PROVE  /\ draw \in DrawRow
           /\ SettlementFor(row, draw) \in {"disbursed", "released"}
           /\ [draw EXCEPT !.status = SettlementFor(row, draw),
                           !.version = @ + 1] \in DrawRow
  <1>1. draw \in DrawRow
    BY DEF Settles, IsLive, NoDraw
  <1>2. SettlementFor(row, draw) \in {"disbursed", "released"}
    BY DEF Settles, SettlementFor
  <1>3. draw.version + 1 \in Nat \ {0}
    BY <1>1 DEF DrawRow
  <1> QED BY <1>1, <1>2, <1>3 DEF DrawRow

\* A committed move leaves rows and draws their shapes.
LEMMA CommitMoveTyped ==
    ASSUME TypeOK, NEW c \in Call, CommitMove(c)
    PROVE  TypeOK'
  <1> DEFINE call == calls[c]
             next == Moved(Patched(call), call.to)
             settled == SettledDraws(call, next)
  <1>1. call \in DecidingCall
    BY CallShapes DEF CommitMove, TypeOK
  <1>2. next \in AppRow
    BY <1>1, PatchedTyped, MovedTyped DEF DecidingCall
  <1>3. apps' \in [App -> AppRow]
    BY <1>1, <1>2 DEF CommitMove, TypeOK, DecidingCall
  <1>4. settled \in DrawTable
    <2>1. ASSUME NEW d \in Draw PROVE settled[d] \in DrawRow \cup {NoDraw}
      <3>1. CASE d \in Settled(call, next)
        <4>1. call.drawn[d] \in DrawRow \cup {NoDraw}
          BY <1>1 DEF DecidingCall, DrawTable
        <4>2. Settles(next, call.drawn[d])
          BY <3>1 DEF Settled
        <4> HIDE DEF next, call
        <4> QED BY <3>1, <4>1, <4>2, SettlingTyped DEF SettledDraws
      <3>2. CASE d \notin Settled(call, next)
        BY <3>2 DEF TypeOK, DrawTable, SettledDraws
      <3> QED BY <3>1, <3>2
    <2> HIDE DEF next, call
    <2> QED BY <2>1 DEF DrawTable, SettledDraws
  <1>5. draws' \in DrawTable
    <2>1. CASE draws' = settled
      BY <1>4, <2>1
    <2>2. CASE \E d \in Draw : draws' =
                 [settled EXCEPT ![d] = NewDraw(Wage, call.app, call.amount, TRUE)]
      <3>1. NewDraw(Wage, call.app, call.amount, TRUE) \in DrawRow
        BY <1>1, NewDrawTyped, PlacementAssumption DEF DecidingCall, PlacementAssumption
      <3> HIDE DEF settled
      <3> QED BY <1>4, <2>2, <3>1 DEF DrawTable
    <2> QED BY <2>1, <2>2 DEF CommitMove
  <1>6. overridden' \subseteq App \X Status
    <2>1. <<call.app, call.to>> \in App \X Status
      BY <1>1 DEF DecidingCall
    <2>2. overridden' \in {overridden, overridden \cup {<<call.app, call.to>>}}
      BY DEF CommitMove
    <2> HIDE DEF call
    <2> QED BY <2>1, <2>2 DEF TypeOK
  <1>7. calls' \in [Call -> CallState]
    BY ReturnsTyped DEF CommitMove
  <1>8. entries' = entries /\ funds' = funds
    BY DEF CommitMove
  <1> QED BY <1>3, <1>5, <1>6, <1>7, <1>8 DEF TypeOK

\* Logging and reviewing keep the shapes.
LEMMA TimesheetTyped ==
    ASSUME TypeOK, NEW c \in Call,
           BeginLog(c) \/ LogReads(c) \/ CommitLog(c)
             \/ BeginReview(c) \/ ReviewReadsRow(c) \/ ReviewReadsSiblings(c)
             \/ CommitReview(c)
    PROVE  TypeOK'
  <1> DEFINE call == calls[c]
  <1>0. call \in CallState
    BY DEF TypeOK
  <1>1. CASE BeginLog(c)
    <2>1. PICK a \in App, w \in Week :
              Holds(c, [at |-> "logging", app |-> a, week |-> w, row |-> apps[a]])
      BY <1>1 DEF BeginLog
    <2>2. [at |-> "logging", app |-> a, week |-> w, row |-> apps[a]] \in CallState
      BY DEF CallState, LoggingCall, TypeOK
    <2> QED BY <1>1, <2>1, <2>2, ReadStepTyped DEF BeginLog
  <1>2. CASE LogReads(c)
    <2> DEFINE held == [at |-> "logged", app |-> call.app, week |-> call.week,
                        row |-> call.row, seen |-> EntriesOf(entries, call.app)]
    <2>1. call \in LoggingCall
      BY <1>0, <1>2, CallShapes DEF LogReads
    <2>2. held \in LoggedCall
      BY <2>1, SnapshotsTyped DEF LoggingCall, LoggedCall
    <2>3. held \in CallState /\ Holds(c, held)
      BY <1>2, <2>2 DEF CallState, LogReads
    <2> HIDE DEF held
    <2> QED BY <1>2, <2>3, ReadStepTyped DEF LogReads
  <1>3. CASE CommitLog(c)
    <2> DEFINE entry == [app |-> call.app, week |-> call.week,
                         status |-> "submitted", version |-> 1]
    <2>1. call \in LoggedCall
      BY <1>0, <1>3, CallShapes DEF CommitLog
    <2>2. PICK e \in Entry :
             /\ entries' = [entries EXCEPT ![e] = entry]
             /\ apps' = [apps EXCEPT ![call.app] =
                            Recached(call.row, [call.seen EXCEPT ![e] = entry])]
      BY <1>3 DEF CommitLog
    <2>3. entry \in EntryRow
      BY <2>1 DEF LoggedCall, EntryRow
    <2>4. entries' \in EntryTable
      <3> HIDE DEF entry
      <3> QED BY <2>2, <2>3 DEF TypeOK, EntryTable
    <2>5. Recached(call.row, [call.seen EXCEPT ![e] = entry]) \in AppRow
      BY <2>1, RecachedTyped DEF LoggedCall
    <2>6. apps' \in [App -> AppRow]
      <3> HIDE DEF entry
      <3> QED BY <2>2, <2>5 DEF TypeOK
    <2>7. calls' \in [Call -> CallState]
      BY <1>3, ReturnsTyped DEF CommitLog
    <2> QED BY <1>3, <2>4, <2>6, <2>7 DEF CommitLog, TypeOK
  <1>4. CASE BeginReview(c)
    <2>1. PICK e \in Entry, decision \in Verdict :
             /\ entries[e].status = "submitted"
             /\ Holds(c, [at |-> "reviewing", id |-> e, decision |-> decision,
                          entry |-> entries[e]])
      BY <1>4 DEF BeginReview, Verdict
    <2>2. entries[e] \in EntryRow
      BY <2>1 DEF TypeOK, EntryTable, NoEntry
    <2>3. [at |-> "reviewing", id |-> e, decision |-> decision,
           entry |-> entries[e]] \in CallState
      BY <2>2 DEF CallState, ReviewingCall
    <2> QED BY <1>4, <2>1, <2>3, ReadStepTyped DEF BeginReview
  <1>5. CASE ReviewReadsRow(c)
    <2> DEFINE held == [at |-> "weighing", id |-> call.id,
                        decision |-> call.decision, entry |-> call.entry,
                        app |-> call.entry.app, row |-> apps[call.entry.app]]
    <2>1. call \in ReviewingCall
      BY <1>0, <1>5, CallShapes DEF ReviewReadsRow
    <2>2. call.entry.app \in App /\ apps[call.entry.app] \in AppRow
      BY <2>1 DEF ReviewingCall, EntryRow, TypeOK
    <2>3. held \in WeighingCall
      BY <2>1, <2>2 DEF ReviewingCall, WeighingCall
    <2>4. held \in CallState /\ Holds(c, held)
      BY <1>5, <2>3 DEF CallState, ReviewReadsRow
    <2> HIDE DEF held
    <2> QED BY <1>5, <2>4, ReadStepTyped DEF ReviewReadsRow
  <1>6. CASE ReviewReadsSiblings(c)
    <2> DEFINE held == [at |-> "signing", id |-> call.id,
                        decision |-> call.decision, entry |-> call.entry,
                        app |-> call.app, row |-> call.row,
                        seen |-> EntriesOf(entries, call.app)]
    <2>1. call \in WeighingCall
      BY <1>0, <1>6, CallShapes DEF ReviewReadsSiblings
    <2>2. held \in SigningCall
      BY <2>1, SnapshotsTyped DEF WeighingCall, SigningCall
    <2>3. held \in CallState /\ Holds(c, held)
      BY <1>6, <2>2 DEF CallState, ReviewReadsSiblings
    <2> HIDE DEF held
    <2> QED BY <1>6, <2>3, ReadStepTyped DEF ReviewReadsSiblings
  <1>7. CASE CommitReview(c)
    <2> DEFINE reviewed == [call.entry EXCEPT !.status = call.decision,
                                              !.version = @ + 1]
    <2>1. call \in SigningCall
      BY <1>0, <1>7, CallShapes DEF CommitReview
    <2>2. call.entry \in EntryRow /\ call.decision \in Verdict /\ call.id \in Entry
      BY <2>1 DEF SigningCall
    <2>3. call.entry.version + 1 \in Nat \ {0}
      BY <2>2 DEF EntryRow
    <2>4. reviewed \in EntryRow
      BY <2>2, <2>3 DEF EntryRow, Verdict
    <2>5. entries' \in EntryTable
      <3>1. entries' = [entries EXCEPT ![call.id] = reviewed]
        BY <1>7 DEF CommitReview
      <3> HIDE DEF reviewed
      <3> QED BY <2>4, <3>1 DEF TypeOK, EntryTable
    <2>6. apps' \in [App -> AppRow]
      <3>1. apps' = [apps EXCEPT ![call.app] =
                        Recached(call.row, [call.seen EXCEPT ![call.id] = reviewed])]
        BY <1>7 DEF CommitReview
      <3>2. Recached(call.row, [call.seen EXCEPT ![call.id] = reviewed]) \in AppRow
        BY <2>1, RecachedTyped DEF SigningCall
      <3> HIDE DEF reviewed
      <3> QED BY <3>1, <3>2 DEF TypeOK
    <2>7. calls' \in [Call -> CallState]
      BY <1>7, ReturnsTyped DEF CommitReview
    <2> QED BY <1>7, <2>5, <2>6, <2>7 DEF CommitReview, TypeOK
  <1> QED BY <1>1, <1>2, <1>3, <1>4, <1>5, <1>6, <1>7

\* Committing, releasing and adjusting keep the shapes.
LEMMA FundingTyped ==
    ASSUME TypeOK, NEW c \in Call,
           BeginCommit(c) \/ CommitReads(c) \/ CommitDraw(c)
             \/ BeginRelease(c) \/ CommitRelease(c)
             \/ BeginAdjust(c) \/ CommitAdjust(c)
    PROVE  TypeOK'
  <1> DEFINE call == calls[c]
  <1>0. call \in CallState
    BY DEF TypeOK
  <1>1. CASE BeginCommit(c)
    <2>1. PICK s \in Source \ Closed, a \in App \cup {Unplaced}, amount \in Amount :
             Holds(c, [at |-> "pricing", source |-> s, app |-> a,
                       amount |-> amount, fund |-> funds[s]])
      BY <1>1 DEF BeginCommit
    <2>2. amount \in Nat
      BY PlacementAssumption
    <2>3. [at |-> "pricing", source |-> s, app |-> a,
           amount |-> amount, fund |-> funds[s]] \in CallState
      BY <2>2 DEF CallState, PricingCall, TypeOK
    <2> QED BY <1>1, <2>1, <2>3, ReadStepTyped DEF BeginCommit
  <1>2. CASE CommitReads(c)
    <2>1. call \in PricingCall
      BY <1>0, <1>2, CallShapes DEF CommitReads
    <2>2. [at |-> "promising", source |-> call.source, app |-> call.app,
           amount |-> call.amount] \in CallState
      BY <2>1 DEF CallState, PricingCall, PromisingCall
    <2> QED BY <1>2, <2>2, ReadStepTyped DEF CommitReads
  <1>3. CASE CommitDraw(c)
    <2>1. call \in PromisingCall
      BY <1>0, <1>3, CallShapes DEF CommitDraw
    <2>2. NewDraw(call.source, call.app, call.amount, FALSE) \in DrawRow
      BY <2>1, NewDrawTyped DEF PromisingCall
    <2>3. draws' \in DrawTable
      BY <1>3, <2>2 DEF CommitDraw, TypeOK, DrawTable
    <2>4. calls' \in [Call -> CallState]
      BY <1>3, ReturnsTyped DEF CommitDraw
    <2> QED BY <1>3, <2>3, <2>4 DEF CommitDraw, TypeOK
  <1>4. CASE BeginRelease(c)
    <2>1. PICK d \in Draw :
             /\ draws[d].status = "authorized"
             /\ Holds(c, [at |-> "releasing", id |-> d, draw |-> draws[d]])
      BY <1>4 DEF BeginRelease
    <2>2. draws[d] \in DrawRow
      BY <2>1 DEF TypeOK, DrawTable, NoDraw
    <2>3. [at |-> "releasing", id |-> d, draw |-> draws[d]] \in CallState
      BY <2>2 DEF CallState, ReleasingCall
    <2> QED BY <1>4, <2>1, <2>3, ReadStepTyped DEF BeginRelease
  <1>5. CASE CommitRelease(c)
    <2> DEFINE released == [call.draw EXCEPT !.status = "released", !.version = @ + 1]
    <2>1. call \in ReleasingCall
      BY <1>0, <1>5, CallShapes DEF CommitRelease
    <2>2. call.draw \in DrawRow /\ call.draw.version + 1 \in Nat \ {0}
      BY <2>1 DEF ReleasingCall, DrawRow
    <2>3. released \in DrawRow
      BY <2>2 DEF DrawRow
    <2>4. draws' = [draws EXCEPT ![call.id] = released]
      BY <1>5 DEF CommitRelease
    <2>5. draws' \in DrawTable
      <3> HIDE DEF released
      <3> QED BY <2>3, <2>4 DEF TypeOK, DrawTable
    <2>6. calls' \in [Call -> CallState]
      BY <1>5, ReturnsTyped DEF CommitRelease
    <2> QED BY <1>5, <2>5, <2>6 DEF CommitRelease, TypeOK
  <1>6. CASE BeginAdjust(c)
    <2>1. PICK s \in Source \ Closed, figure \in Allocation :
             Holds(c, [at |-> "adjusting", source |-> s, figure |-> figure,
                       fund |-> funds[s]])
      BY <1>6 DEF BeginAdjust
    <2>2. figure \in Nat
      BY PlacementAssumption
    <2>3. [at |-> "adjusting", source |-> s, figure |-> figure,
           fund |-> funds[s]] \in CallState
      BY <2>2 DEF CallState, AdjustingCall, TypeOK
    <2> QED BY <1>6, <2>1, <2>3, ReadStepTyped DEF BeginAdjust
  <1>7. CASE CommitAdjust(c)
    <2> DEFINE adjusted == [call.fund EXCEPT !.allocated = call.figure,
                                             !.version = @ + 1]
    <2>1. call \in AdjustingCall
      BY <1>0, <1>7, CallShapes DEF CommitAdjust
    <2>2. call.fund \in FundRow /\ call.fund.version + 1 \in Nat \ {0}
      BY <2>1 DEF AdjustingCall, FundRow
    <2>3. adjusted \in FundRow
      BY <2>1, <2>2 DEF FundRow, AdjustingCall
    <2>4. funds' = [funds EXCEPT ![call.source] = adjusted]
      BY <1>7 DEF CommitAdjust
    <2>5. funds' \in [Source -> FundRow]
      <3> HIDE DEF adjusted
      <3> QED BY <2>3, <2>4 DEF TypeOK
    <2>6. calls' \in [Call -> CallState]
      BY <1>7, ReturnsTyped DEF CommitAdjust
    <2> QED BY <1>7, <2>5, <2>6 DEF CommitAdjust, TypeOK
  <1> QED BY <1>1, <1>2, <1>3, <1>4, <1>5, <1>6, <1>7

\* A call given up leaves everything but itself.
LEMMA AbandonTyped ==
    ASSUME TypeOK, NEW c \in Call, Abandon(c)
    PROVE  TypeOK'
  BY ReturnsTyped DEF Abandon, tables, TypeOK

\* Every step keeps the shapes.
LEMMA StepTypeOK == TypeOK /\ [Next]_vars => TypeOK'
  <1> SUFFICES ASSUME TypeOK, [Next]_vars PROVE TypeOK'
    OBVIOUS
  <1>1. CASE UNCHANGED vars
    BY <1>1 DEF vars, TypeOK
  <1>2. CASE Next
    BY <1>2, BeginMoveTyped, DecideTyped, CommitMoveTyped, TimesheetTyped,
       FundingTyped, AbandonTyped DEF Next
  <1> QED BY <1>1, <1>2

\* Every row and every call in flight has the shape the code gives it, in
\* every market, however many calls are in flight.
THEOREM TypeCorrect == Spec => []TypeOK
  BY InitTypeOK, StepTypeOK, PTL DEF Spec
=============================================================================

---------------------------- MODULE PlacementSteps ----------------------------
(***************************************************************************)
(* What no step of a placement may do, for every number of calls: each     *)
(* action property rests on IInv of PlacementSafety, which says that what  *)
(* a commit writes was built from the row it replaces.  Two of them need   *)
(* the history a row carries, which Annals adds.  How far a fund can be    *)
(* over-promised needs sums of any number of draws and, for each fund, the *)
(* calls that found room in it and have not drawn yet (Ledger).            *)
(***************************************************************************)
EXTENDS PlacementSafety, FiniteSetTheorems

\* The invariant holds before and after every step.
LEMMA InvariantBothSides == Spec => [][IInv /\ IInv']_vars
  BY Safety, PTL DEF Spec

\* Only the two timesheet commits write entries.
LEMMA OnlyTimesheetWritesEntries ==
    ASSUME NEW c \in Call,
           \/ BeginTransition(c) \/ BeginOverride(c) \/ BeginAuthorize(c)
           \/ AuthorizeReads(c) \/ Decide(c) \/ CommitMove(c)
           \/ BeginLog(c) \/ LogReads(c)
           \/ BeginReview(c) \/ ReviewReadsRow(c) \/ ReviewReadsSiblings(c)
           \/ BeginCommit(c) \/ CommitReads(c) \/ CommitDraw(c)
           \/ BeginRelease(c) \/ CommitRelease(c)
           \/ BeginAdjust(c) \/ CommitAdjust(c)
           \/ Abandon(c)
    PROVE  entries' = entries
  BY DEF BeginTransition, BeginOverride, BeginAuthorize, AuthorizeReads, Decide,
         CommitMove, BeginLog, LogReads, BeginReview, ReviewReadsRow,
         ReviewReadsSiblings, BeginCommit, CommitReads, CommitDraw, BeginRelease,
         CommitRelease, BeginAdjust, CommitAdjust, Abandon, tables

\* A step changes the entries by one insert on an active placement, or by one
\* decision on an entry that is still submitted.
LEMMA HowEntriesChange ==
    ASSUME IInv, Next
    PROVE  \/ entries' = entries
           \/ \E e \in Entry, entry \in EntryRow :
                 /\ entries[e] = NoEntry
                 /\ entry.app \in App /\ apps[entry.app].status = "placement_active"
                 /\ entries' = [entries EXCEPT ![e] = entry]
           \/ \E e \in Entry, entry \in EntryRow :
                 /\ entries[e] # NoEntry
                 /\ entries[e].status = "submitted"
                 /\ entries' = [entries EXCEPT ![e] = entry]
  <1>1. PICK c \in Call :
            \/ BeginTransition(c) \/ BeginOverride(c) \/ BeginAuthorize(c)
            \/ AuthorizeReads(c) \/ Decide(c) \/ CommitMove(c)
            \/ BeginLog(c) \/ LogReads(c) \/ CommitLog(c)
            \/ BeginReview(c) \/ ReviewReadsRow(c) \/ ReviewReadsSiblings(c)
            \/ CommitReview(c)
            \/ BeginCommit(c) \/ CommitReads(c) \/ CommitDraw(c)
            \/ BeginRelease(c) \/ CommitRelease(c)
            \/ BeginAdjust(c) \/ CommitAdjust(c)
            \/ Abandon(c)
    BY DEF Next
  <1> DEFINE call == calls[c]
  <1>2. CASE CommitLog(c)
    <2> DEFINE entry == [app |-> call.app, week |-> call.week,
                         status |-> "submitted", version |-> 1]
    <2>1. call \in LoggedCall /\ Honest(call)
      BY <1>2, CallShapes DEF CommitLog, IInv, TypeOK
    <2>2. call.app \in App /\ call.row = apps[call.app]
      BY <1>2, UnmovedRowIsCurrent DEF CommitLog
    <2>3. apps[call.app].status = "placement_active"
      BY <1>2, <2>1, <2>2 DEF Honest, ClaimWasChecked, CommitLog
    <2>4. entry \in EntryRow /\ entry.app = call.app
      BY <2>1 DEF LoggedCall, EntryRow
    <2>5. \E e \in Entry : entries[e] = NoEntry
                           /\ entries' = [entries EXCEPT ![e] = entry]
      BY <1>2 DEF CommitLog
    <2> QED BY <2>2, <2>3, <2>4, <2>5
  <1>3. CASE CommitReview(c)
    <2> DEFINE reviewed == [call.entry EXCEPT !.status = call.decision,
                                              !.version = @ + 1]
    <2>1. call \in SigningCall /\ call.at = "signing" /\ Honest(call)
      BY <1>3, CallShapes DEF CommitReview, IInv, TypeOK
    <2>2. /\ entries[call.id] # NoEntry
          /\ call.entry = entries[call.id]
          /\ entries[call.id].status = "submitted"
      BY <1>3, <2>1 DEF Honest, EntryReadIsOlder, CommitReview, EntryUnmoved
    <2>3. /\ call.entry \in EntryRow /\ call.decision \in Verdict
          /\ call.id \in Entry
      BY <2>1 DEF SigningCall
    <2>4. call.entry.version \in Nat /\ call.entry.version + 1 \in Nat \ {0}
      BY <2>3 DEF EntryRow
    <2>5. reviewed \in EntryRow
      BY <2>3, <2>4 DEF EntryRow, Verdict
    <2>6. entries' = [entries EXCEPT ![call.id] = reviewed]
      BY <1>3 DEF CommitReview
    <2> QED BY <2>2, <2>3, <2>5, <2>6
  <1> QED BY <1>1, <1>2, <1>3, OnlyTimesheetWritesEntries

\* A week enters the timesheet only while the placement is active at the
\* moment of the insert (logHours).
THEOREM LoggedWhileActive == Spec => HoursOnlyWhileActive
  <1> DEFINE P == \A e \in Entry :
                entries[e] = NoEntry /\ entries'[e] # NoEntry
                => apps[entries'[e].app].status = "placement_active"
  <1>1. IInv /\ [Next]_vars => P
    <2> SUFFICES ASSUME IInv, [Next]_vars PROVE P
      OBVIOUS
    <2>1. entries \in [Entry -> EntryRow \cup {NoEntry}]
      BY DEF IInv, TypeOK, EntryTable
    <2>2. CASE Next
      BY <2>1, <2>2, HowEntriesChange
    <2>3. CASE UNCHANGED vars
      BY <2>3 DEF vars
    <2> QED BY <2>2, <2>3
  <1>2. IInv /\ [Next]_vars => [P]_vars
    BY <1>1
  <1> HIDE DEF P
  <1>3. Spec => [][P]_vars
    BY <1>2, Safety, PTL DEF Spec
  <1> QED BY <1>3 DEF HoursOnlyWhileActive, P

\* An employer's decision on a week is final (reviewHours).
THEOREM ReviewedOnce == Spec => ReviewIsFinal
  <1> DEFINE P == \A e \in Entry :
                entries[e].status \in Verdict => entries'[e] = entries[e]
  <1>1. IInv /\ [Next]_vars => P
    <2> SUFFICES ASSUME IInv, [Next]_vars PROVE P
      OBVIOUS
    <2>1. entries \in [Entry -> EntryRow \cup {NoEntry}]
      BY DEF IInv, TypeOK, EntryTable
    <2>2. CASE Next
      BY <2>1, <2>2, HowEntriesChange DEF Verdict, NoEntry
    <2>3. CASE UNCHANGED vars
      BY <2>3 DEF vars
    <2> QED BY <2>2, <2>3
  <1>2. IInv /\ [Next]_vars => [P]_vars
    BY <1>1
  <1> HIDE DEF P
  <1>3. Spec => [][P]_vars
    BY <1>2, Safety, PTL DEF Spec
  <1> QED BY <1>3 DEF ReviewIsFinal, P
-----------------------------------------------------------------------------
(* How a row moves. *)

\* The row kept its place in the workflow.
SameProgress(old, new) ==
    /\ new.status = old.status
    /\ new.furthest = old.furthest
    /\ new.exitedOn = old.exitedOn

\* The row took one edge of the table.
MovedAlong(old, new) ==
    \E t \in TransitionsFrom(old.status, "standard") :
        /\ new.status = t.to
        /\ new.furthest = IF IsTerminal(t.to) THEN old.furthest ELSE t.to
        /\ old.exitedOn # 0 => new.exitedOn = old.exitedOn

\* Only the two timesheet commits and a move write applications.
LEMMA OnlyThreeWriteApplications ==
    ASSUME NEW c \in Call,
           \/ BeginTransition(c) \/ BeginOverride(c) \/ BeginAuthorize(c)
           \/ AuthorizeReads(c) \/ Decide(c)
           \/ BeginLog(c) \/ LogReads(c)
           \/ BeginReview(c) \/ ReviewReadsRow(c) \/ ReviewReadsSiblings(c)
           \/ BeginCommit(c) \/ CommitReads(c) \/ CommitDraw(c)
           \/ BeginRelease(c) \/ CommitRelease(c)
           \/ BeginAdjust(c) \/ CommitAdjust(c)
           \/ Abandon(c)
    PROVE  apps' = apps
  BY DEF BeginTransition, BeginOverride, BeginAuthorize, AuthorizeReads, Decide,
         BeginLog, LogReads, BeginReview, ReviewReadsRow,
         ReviewReadsSiblings, BeginCommit, CommitReads, CommitDraw, BeginRelease,
         CommitRelease, BeginAdjust, CommitAdjust, Abandon, tables

\* Refreshing the totals keeps status, furthest status and exit date.
LEMMA RecachedProgress ==
    ASSUME NEW row \in AppRow, NEW table
    PROVE  SameProgress(row, Recached(row, table))
  BY DEF Recached, AppRow, SameProgress

\* So do logging and reviewing.
LEMMA TimesheetKeepsProgress ==
    ASSUME IInv, NEW c \in Call, CommitLog(c) \/ CommitReview(c), NEW a \in App
    PROVE  SameProgress(apps[a], apps'[a])
  <1> DEFINE call == calls[c]
  <1>1. call.app \in App /\ call.row = apps[call.app]
    BY UnmovedRowIsCurrent DEF CommitLog, CommitReview
  <1>2. apps[call.app] \in AppRow
    BY <1>1 DEF IInv, TypeOK
  <1>3. \E table : apps' = [apps EXCEPT ![call.app] = Recached(call.row, table)]
    BY DEF CommitLog, CommitReview
  <1>4. PICK table : apps' = [apps EXCEPT ![call.app] = Recached(call.row, table)]
    BY <1>3
  <1>5. CASE a = call.app
    <2>1. apps'[a] = Recached(apps[a], table)
      BY <1>1, <1>4, <1>5 DEF IInv, TypeOK
    <2> QED BY <1>2, <1>5, <2>1, RecachedProgress
  <1>6. CASE a # call.app
    BY <1>4, <1>6 DEF SameProgress, IInv, TypeOK
  <1> QED BY <1>5, <1>6

\* A move writes the row its version check found in place.
LEMMA MoveIsAnEdge ==
    ASSUME IInv, NEW c \in Call, CommitMove(c)
    PROVE  LET a == calls[c].app IN
           /\ a \in App
           /\ apps' = [apps EXCEPT ![a] = Moved(Patched(calls[c]), calls[c].to)]
           /\ MovedAlong(apps[a], apps'[a])
  <1> DEFINE call == calls[c]
             a    == call.app
             patched == Patched(call)
  <1>1. call \in DecidingCall /\ call.at = "deciding" /\ Honest(call)
    BY CallShapes DEF CommitMove, IInv, TypeOK
  <1>2. a \in App /\ Untouched(call) /\ call.row = apps[a]
    BY <1>1, UnmovedRowIsCurrent DEF CommitMove
  <1>3. apps' = [apps EXCEPT ![a] = Moved(patched, call.to)]
    BY DEF CommitMove
  <1>4. apps'[a] = Moved(patched, call.to)
    BY <1>2, <1>3 DEF IInv, TypeOK
  <1>5. PICK t \in TransitionsFrom(apps[a].status, "standard") : t.to = call.to
    BY <1>1, <1>2 DEF Honest, DecisionWasChecked
  <1>6. /\ patched \in AppRow
        /\ patched.furthest = apps[a].furthest
        /\ patched.exitedOn = apps[a].exitedOn
    BY <1>1, <1>2, PatchedTyped DEF Patched, DecidingCall, AppRow
  <1> HIDE DEF patched
  <1>7. /\ Moved(patched, call.to).status = call.to
        /\ Moved(patched, call.to).furthest = FurthestOf(patched, call.to)
        /\ patched.exitedOn # 0 => Moved(patched, call.to).exitedOn = patched.exitedOn
    BY <1>6 DEF Moved, AppRow
  <1>8. MovedAlong(apps[a], apps'[a])
    BY <1>4, <1>5, <1>6, <1>7 DEF MovedAlong, FurthestOf
  <1> QED BY <1>2, <1>3, <1>8 DEF patched

\* A row's status changes by an edge of the table or not at all.
LEMMA HowRowsChange ==
    ASSUME IInv, Next, NEW a \in App
    PROVE  SameProgress(apps[a], apps'[a]) \/ MovedAlong(apps[a], apps'[a])
  <1>1. ASSUME NEW c \in Call, CommitMove(c)
        PROVE  SameProgress(apps[a], apps'[a]) \/ MovedAlong(apps[a], apps'[a])
    <2>1. CASE a = calls[c].app
      BY <1>1, <2>1, MoveIsAnEdge
    <2>2. CASE a # calls[c].app
      <3>1. apps'[a] = apps[a]
        BY <1>1, <2>2, MoveIsAnEdge DEF IInv, TypeOK
      <3> QED BY <3>1 DEF SameProgress
    <2> QED BY <2>1, <2>2
  <1>2. apps' = apps => SameProgress(apps[a], apps'[a])
    BY DEF SameProgress
  <1> QED BY <1>1, <1>2, TimesheetKeepsProgress, OnlyThreeWriteApplications DEF Next

\* A status only ever changes along the table, and the exit date is never
\* rewritten (executeTransition).
THEOREM TableFollowed == Spec => StatusFollowsTable
  <1> DEFINE P == \A a \in App :
         /\ apps'[a].status # apps[a].status =>
              \E t \in TransitionsFrom(apps[a].status, "standard") :
                 t.to = apps'[a].status
         /\ apps[a].exitedOn # 0 => apps'[a].exitedOn = apps[a].exitedOn
  <1>1. IInv /\ [Next]_vars => P
    <2> SUFFICES ASSUME IInv, [Next]_vars PROVE P
      OBVIOUS
    <2>2. CASE Next
      BY <2>2, HowRowsChange DEF SameProgress, MovedAlong
    <2>3. CASE UNCHANGED vars
      BY <2>3 DEF vars
    <2> QED BY <2>2, <2>3
  <1>2. IInv /\ [Next]_vars => [P]_vars
    BY <1>1
  <1> HIDE DEF P
  <1>3. Spec => [][P]_vars
    BY <1>2, Safety, PTL DEF Spec
  <1> QED BY <1>3 DEF StatusFollowsTable, P
-----------------------------------------------------------------------------
(* What a row remembers.  A draw that was paid out belongs to a placement  *)
(* that was reached and has stopped, and stays so: only then can no later  *)
(* move give the money back.                                               *)

FurthestIsTheStatus ==
    \A a \in App : ~IsTerminal(apps[a].status) => apps[a].furthest = apps[a].status

PaidForWorkDone ==
    \A d \in Draw : draws[d].status = "disbursed" =>
        draws[d].app \in App /\ HasExited(apps[draws[d].app])

\* A release read a draw that was still authorized; a move read only draws of
\* its own placement.
DrawsHeldAreProper(call) ==
    /\ call.at = "releasing" => call.draw.status = "authorized"
    /\ call.at = "deciding" =>
          \A d \in Draw : call.drawn[d] # NoDraw => call.drawn[d].app = call.app

Annals == /\ FurthestIsTheStatus
          /\ PaidForWorkDone
          /\ \A c \in Call : DrawsHeldAreProper(calls[c])

\* The funnel of lib/queries.ts ranks no edge of the table downwards.
LEMMA EdgesClimb ==
    ASSUME NEW from \in Status, NEW t \in TransitionsFrom(from, "standard")
    PROVE  /\ ~IsTerminal(from)
           /\ ~IsTerminal(t.to) => StatusRank(t.to) >= StatusRank(from)
           /\ IsTerminal(t.to) => StatusRank(t.to) = 0
           /\ StatusRank(from) \in 0..5 /\ StatusRank(t.to) \in 0..5
  BY DEF TransitionsFrom, Transitions, Edge, Status, StatusRank, IsTerminal,
         TerminalStatuses, ReachedPlacement

\* Once exited, always exited.
LEMMA ExitIsForGood ==
    ASSUME NEW old \in AppRow, NEW new \in AppRow, HasExited(old),
           ~IsTerminal(old.status) => old.furthest = old.status,
           SameProgress(old, new) \/ MovedAlong(old, new)
    PROVE  HasExited(new)
  <1>1. CASE SameProgress(old, new)
    BY <1>1 DEF HasExited, SameProgress
  <1>2. CASE MovedAlong(old, new)
    <2>1. PICK t \in TransitionsFrom(old.status, "standard") :
             /\ new.status = t.to
             /\ new.furthest = IF IsTerminal(t.to) THEN old.furthest ELSE t.to
      BY <1>2 DEF MovedAlong
    <2>2. old.status \in {"placement_completed", "terminated_early",
                          "credit_pending", "credit_granted", "credit_denied"}
      BY <2>1 DEF HasExited, NoLongerRunning, TransitionsFrom, Transitions, Edge
    <2>3. t.to \in {"credit_pending", "credit_granted", "credit_denied", "closed"}
      BY <2>1, <2>2 DEF TransitionsFrom, Transitions, Edge
    <2>4. old.furthest \in ReachedPlacement
      BY <2>2 DEF IsTerminal, TerminalStatuses, ReachedPlacement
    <2> QED BY <2>1, <2>3, <2>4 DEF HasExited, NoLongerRunning, ReachedPlacement,
            IsTerminal, TerminalStatuses
  <1> QED BY <1>1, <1>2

\* A move keeps the furthest status below a terminal one.
LEMMA FurthestKept ==
    ASSUME NEW old, NEW new,
           ~IsTerminal(old.status) => old.furthest = old.status,
           SameProgress(old, new) \/ MovedAlong(old, new)
    PROVE  ~IsTerminal(new.status) => new.furthest = new.status
  BY DEF SameProgress, MovedAlong

\* A step leaves a draw alone, creates it, releases it while it is authorized,
\* or settles it as the row its placement moves to says.
LEMMA HowDrawsChange ==
    ASSUME IInv, Annals, Next, NEW d \in Draw
    PROVE  \/ draws'[d] = draws[d]
           \/ draws[d] = NoDraw /\ draws'[d].status = "authorized"
           \/ draws[d].status = "authorized" /\ draws'[d].status = "released"
           \/ /\ draws[d].app \in App /\ draws'[d].app = draws[d].app
              /\ Settles(apps'[draws[d].app], draws[d])
              /\ draws'[d].status = SettlementFor(apps'[draws[d].app], draws[d])
  <1>1. ASSUME NEW c \in Call, CommitMove(c)
        PROVE  \/ draws'[d] = draws[d]
               \/ draws[d] = NoDraw /\ draws'[d].status = "authorized"
               \/ /\ draws[d].app \in App /\ draws'[d].app = draws[d].app
                  /\ Settles(apps'[draws[d].app], draws[d])
                  /\ draws'[d].status = SettlementFor(apps'[draws[d].app], draws[d])
    <2> DEFINE call == calls[c]
               a    == call.app
               next == Moved(Patched(call), call.to)
               new  == NewDraw(Wage, a, call.amount, TRUE)
    <2>1. call \in DecidingCall /\ call.at = "deciding" /\ Honest(call)
      BY <1>1, CallShapes DEF CommitMove, IInv, TypeOK
    <2>2. a \in App /\ apps'[a] = next
      BY <1>1, MoveIsAnEdge DEF IInv, TypeOK
    <2>3. new.status = "authorized"
      BY DEF NewDraw
    <2>4. \/ draws'[d] = SettledDraws(call, next)[d]
          \/ draws[d] = NoDraw /\ draws'[d] = new
      <3> HIDE DEF new, next, call
      <3>1. \/ draws' = SettledDraws(call, next)
            \/ \E f \in Draw : draws[f] = NoDraw
                  /\ draws' = [SettledDraws(call, next) EXCEPT ![f] = new]
        BY <1>1 DEF CommitMove, new, next, call, a
      <3> QED BY <3>1 DEF SettledDraws
    <2>5. CASE draws[d] = NoDraw /\ draws'[d] = new
      BY <2>3, <2>5
    <2>6. CASE draws'[d] = SettledDraws(call, next)[d] /\ d \notin Settled(call, next)
      BY <2>6 DEF SettledDraws
    <2>7. CASE draws'[d] = SettledDraws(call, next)[d] /\ d \in Settled(call, next)
      <3>1. Settles(next, call.drawn[d]) /\ DrawUnmoved(call.drawn[d], d)
        BY <1>1, <2>7 DEF Settled, CommitMove
      <3>2. call.drawn[d] \in DrawRow \cup {NoDraw}
        BY <2>1 DEF DecidingCall, DrawTable
      <3> HIDE DEF next
      <3>3. call.drawn[d] \in DrawRow
        BY <3>1, <3>2, SettlingTyped
      <3>4. call.drawn[d] # NoDraw
        BY <3>3 DEF DrawRow, NoDraw
      <3>5. draws[d] = call.drawn[d] /\ draws[d].app = a
        BY <2>1, <3>1, <3>4 DEF Honest, DrawsReadAreOlder, DrawUnmoved, Annals,
           DrawsHeldAreProper
      <3>6. draws'[d] = [draws[d] EXCEPT !.status = SettlementFor(next, draws[d]),
                                         !.version = @ + 1]
        BY <2>7, <3>5 DEF SettledDraws
      <3>7. /\ draws'[d].app = draws[d].app
            /\ draws'[d].status = SettlementFor(next, draws[d])
        BY <3>3, <3>5, <3>6 DEF DrawRow
      <3> QED BY <2>2, <3>1, <3>5, <3>7
    <2> QED BY <2>4, <2>5, <2>6, <2>7
  <1>2. ASSUME NEW c \in Call, CommitDraw(c)
        PROVE  \/ draws'[d] = draws[d]
               \/ draws[d] = NoDraw /\ draws'[d].status = "authorized"
    <2> DEFINE new == NewDraw(calls[c].source, calls[c].app, calls[c].amount, FALSE)
    <2>1. PICK f \in Draw : draws[f] = NoDraw /\ draws' = [draws EXCEPT ![f] = new]
      BY <1>2 DEF CommitDraw
    <2>2. new.status = "authorized"
      BY DEF NewDraw
    <2> HIDE DEF new
    <2> QED BY <2>1, <2>2 DEF IInv, TypeOK, DrawTable
  <1>3. ASSUME NEW c \in Call, CommitRelease(c)
        PROVE  \/ draws'[d] = draws[d]
               \/ draws[d].status = "authorized" /\ draws'[d].status = "released"
    <2> DEFINE call == calls[c]
               released == [call.draw EXCEPT !.status = "released", !.version = @ + 1]
    <2>1. call \in ReleasingCall /\ call.at = "releasing" /\ Honest(call)
      BY <1>3, CallShapes DEF CommitRelease, IInv, TypeOK
    <2>2. call.draw = draws[call.id] /\ call.draw.status = "authorized"
      BY <1>3, <2>1 DEF Honest, DrawReleasedIsOlder, CommitRelease, DrawUnmoved,
         Annals, DrawsHeldAreProper
    <2>3. released.status = "released"
      BY <2>1 DEF ReleasingCall, DrawRow
    <2>4. draws' = [draws EXCEPT ![call.id] = released]
      BY <1>3 DEF CommitRelease
    <2> HIDE DEF released
    <2> QED BY <2>2, <2>3, <2>4 DEF IInv, TypeOK, DrawTable
  <1>4. ASSUME NEW c \in Call,
               \/ BeginTransition(c) \/ BeginOverride(c) \/ BeginAuthorize(c)
               \/ AuthorizeReads(c) \/ Decide(c)
               \/ BeginLog(c) \/ LogReads(c) \/ CommitLog(c)
               \/ BeginReview(c) \/ ReviewReadsRow(c) \/ ReviewReadsSiblings(c)
               \/ CommitReview(c) \/ BeginCommit(c) \/ CommitReads(c)
               \/ BeginRelease(c) \/ BeginAdjust(c) \/ CommitAdjust(c) \/ Abandon(c)
        PROVE  draws' = draws
    BY <1>4 DEF BeginTransition, BeginOverride, BeginAuthorize, AuthorizeReads,
       Decide, BeginLog, LogReads, CommitLog, BeginReview, ReviewReadsRow,
       ReviewReadsSiblings, CommitReview, BeginCommit, CommitReads, BeginRelease,
       BeginAdjust, CommitAdjust, Abandon, tables
  <1> QED BY <1>1, <1>2, <1>3, <1>4 DEF Next

\* What a step puts into a call is proper if what the call held was.
LEMMA HeldStaysProper ==
    ASSUME IInv, Annals, Next
    PROVE  (\A c \in Call : DrawsHeldAreProper(calls[c]))'
  <1>1. ASSUME NEW c \in Call, NEW held, Holds(c, held),
               held.at = "releasing" => held.draw.status = "authorized",
               held.at = "deciding" => \A d \in Draw :
                   held.drawn[d] # NoDraw => held.drawn[d].app = held.app
        PROVE  (\A b \in Call : DrawsHeldAreProper(calls[b]))'
    BY <1>1 DEF Holds, Annals, DrawsHeldAreProper, IInv, TypeOK
  <1>2. ASSUME NEW c \in Call, NEW held, Holds(c, held),
               held.at \notin {"releasing", "deciding"}
        PROVE  (\A b \in Call : DrawsHeldAreProper(calls[b]))'
    BY <1>1, <1>2
  <1>3. ASSUME NEW c \in Call, Returns(c)
        PROVE  (\A b \in Call : DrawsHeldAreProper(calls[b]))'
    <2>1. Idle.at \notin {"releasing", "deciding"}
      BY DEF Idle
    <2> QED BY <1>2, <1>3, <2>1 DEF Returns
  <1>4. ASSUME NEW c \in Call,
               BeginTransition(c) \/ BeginOverride(c) \/ AuthorizeReads(c)
               \/ BeginAuthorize(c) \/ BeginLog(c) \/ LogReads(c)
               \/ BeginReview(c) \/ ReviewReadsRow(c) \/ ReviewReadsSiblings(c)
               \/ BeginCommit(c) \/ CommitReads(c) \/ BeginAdjust(c)
        PROVE  Holds(c, calls'[c]) /\ calls'[c].at \notin {"releasing", "deciding"}
    <2>1. ASSUME NEW held, Holds(c, held)
          PROVE  Holds(c, calls'[c]) /\ calls'[c] = held
      BY <2>1 DEF Holds, IInv, TypeOK
    <2>2. ASSUME NEW a, NEW t, NEW role, NEW amount, NEW draft,
                 ReadForMove(c, a, t, role, amount, draft)
          PROVE  Holds(c, calls'[c]) /\ calls'[c].at = "moving"
      BY <2>1, <2>2 DEF ReadForMove
    <2>3. CASE BeginTransition(c)
      BY <2>2, <2>3 DEF BeginTransition
    <2>4. CASE BeginOverride(c)
      BY <2>2, <2>4 DEF BeginOverride
    <2>5. CASE AuthorizeReads(c)
      BY <2>2, <2>5 DEF AuthorizeReads
    <2>6. CASE BeginAuthorize(c)
      BY <2>1, <2>6 DEF BeginAuthorize
    <2>7. CASE BeginLog(c)
      BY <2>1, <2>7 DEF BeginLog
    <2>8. CASE LogReads(c)
      BY <2>1, <2>8 DEF LogReads
    <2>9. CASE BeginReview(c)
      BY <2>1, <2>9 DEF BeginReview
    <2>10. CASE ReviewReadsRow(c)
      BY <2>1, <2>10 DEF ReviewReadsRow
    <2>11. CASE ReviewReadsSiblings(c)
      BY <2>1, <2>11 DEF ReviewReadsSiblings
    <2>12. CASE BeginCommit(c)
      BY <2>1, <2>12 DEF BeginCommit
    <2>13. CASE CommitReads(c)
      BY <2>1, <2>13 DEF CommitReads
    <2>14. CASE BeginAdjust(c)
      BY <2>1, <2>14 DEF BeginAdjust
    <2> QED BY <1>4, <2>3, <2>4, <2>5, <2>6, <2>7, <2>8, <2>9, <2>10, <2>11,
               <2>12, <2>13, <2>14
  <1>5. ASSUME NEW c \in Call, BeginRelease(c)
        PROVE  (\A b \in Call : DrawsHeldAreProper(calls[b]))'
    <2>1. PICK d \in Draw :
             /\ draws[d].status = "authorized"
             /\ Holds(c, [at |-> "releasing", id |-> d, draw |-> draws[d]])
      BY <1>5 DEF BeginRelease
    <2> QED BY <1>1, <2>1
  <1>6. ASSUME NEW c \in Call, Decide(c)
        PROVE  (\A b \in Call : DrawsHeldAreProper(calls[b]))'
    <2>1. PICK held : /\ Holds(c, held) /\ held.at = "deciding"
                      /\ held.app = calls[c].app
                      /\ held.drawn = DrawsOf(draws, calls[c].app)
      BY <1>6 DEF Decide
    <2>2. \A d \in Draw : held.drawn[d] # NoDraw => held.drawn[d].app = held.app
      BY <2>1 DEF DrawsOf
    <2> QED BY <1>1, <2>1, <2>2
  <1>7. ASSUME NEW c \in Call,
               CommitMove(c) \/ CommitLog(c) \/ CommitReview(c) \/ CommitDraw(c)
               \/ CommitRelease(c) \/ CommitAdjust(c) \/ Abandon(c)
        PROVE  Returns(c)
    BY <1>7 DEF CommitMove, CommitLog, CommitReview, CommitDraw, CommitRelease,
       CommitAdjust, Abandon
  <1> QED BY <1>2, <1>3, <1>4, <1>5, <1>6, <1>7 DEF Next

\* Every step keeps the annals.
LEMMA AnnalsStep == IInv /\ IInv' /\ Annals /\ [Next]_vars => Annals'
  <1> SUFFICES ASSUME IInv, IInv', Annals, [Next]_vars PROVE Annals'
    OBVIOUS
  <1>1. CASE UNCHANGED vars
    BY <1>1 DEF vars, Annals, FurthestIsTheStatus, PaidForWorkDone, DrawsHeldAreProper
  <1>2. CASE Next
    <2>1. FurthestIsTheStatus'
      BY <1>2, HowRowsChange, FurthestKept DEF Annals, FurthestIsTheStatus
    <2>2. ASSUME NEW a \in App, HasExited(apps[a])
          PROVE  HasExited(apps'[a])
      <3>1. apps[a] \in AppRow /\ apps'[a] \in AppRow
        BY DEF IInv, TypeOK
      <3> QED BY <1>2, <2>2, <3>1, HowRowsChange, ExitIsForGood
              DEF Annals, FurthestIsTheStatus
    <2>3. PaidForWorkDone'
      <3> SUFFICES ASSUME NEW d \in Draw, draws'[d].status = "disbursed"
                   PROVE  draws'[d].app \in App /\ HasExited(apps'[draws'[d].app])
        BY DEF PaidForWorkDone
      <3>1. CASE draws'[d] = draws[d]
        BY <2>2, <3>1 DEF Annals, PaidForWorkDone
      <3>2. CASE /\ draws[d].app \in App /\ draws'[d].app = draws[d].app
                 /\ Settles(apps'[draws[d].app], draws[d])
                 /\ draws'[d].status = SettlementFor(apps'[draws[d].app], draws[d])
        BY <3>2 DEF Settles, SettlementFor
      <3> QED BY <1>2, <3>1, <3>2, HowDrawsChange
    <2>4. (\A c \in Call : DrawsHeldAreProper(calls[c]))'
      BY <1>2, HeldStaysProper
    <2> QED BY <2>1, <2>3, <2>4 DEF Annals
  <1> QED BY <1>1, <1>2

\* The annals hold at first.
LEMMA AnnalsInit == Init => Annals
  <1> SUFFICES ASSUME Init PROVE Annals
    OBVIOUS
  <1>1. FurthestIsTheStatus /\ PaidForWorkDone
    BY DEF Init, InitTables, FurthestIsTheStatus, PaidForWorkDone, NoDraw
  <1>2. \A c \in Call : DrawsHeldAreProper(calls[c])
    BY DEF Init, InitTables, Idle, DrawsHeldAreProper
  <1> QED BY <1>1, <1>2 DEF Annals

\* The annals hold always, beside the invariant.
LEMMA AnnalsHold == Spec => [](IInv /\ Annals)
  BY Safety, AnnalsInit, AnnalsStep, PTL DEF Spec

\* Money paid out or given back never changes again, although a release and
\* a settlement may race for the draw (releaseCommitment, executeTransition).
THEOREM SettledForGood == Spec => SettledDrawIsFinal
  <1> DEFINE P == \A d \in Draw :
         draws[d].status \in {"disbursed", "released"} => draws'[d] = draws[d]
  <1>1. IInv /\ IInv' /\ Annals /\ [Next]_vars => P
    <2> SUFFICES ASSUME IInv, IInv', Annals, [Next]_vars PROVE P
      OBVIOUS
    <2>1. CASE UNCHANGED vars
      BY <2>1 DEF vars
    <2>2. CASE Next
      <3> SUFFICES ASSUME NEW d \in Draw,
                          draws[d].status \in {"disbursed", "released"}
                   PROVE  draws'[d] = draws[d]
        OBVIOUS
      <3>1. draws[d] # NoDraw
        BY DEF NoDraw
      <3>2. ASSUME draws[d].app \in App, Settles(apps'[draws[d].app], draws[d])
            PROVE  FALSE
        <4>1. draws[d].status = "disbursed"
          BY <3>2 DEF Settles, IsLive
        <4>2. HasExited(apps[draws[d].app])
          BY <4>1 DEF Annals, PaidForWorkDone
        <4>3. /\ apps[draws[d].app] \in AppRow
              /\ apps'[draws[d].app] \in AppRow
          BY <3>2 DEF IInv, TypeOK
        <4>4. HasExited(apps'[draws[d].app])
          BY <2>2, <3>2, <4>2, <4>3, HowRowsChange, ExitIsForGood
             DEF Annals, FurthestIsTheStatus
        <4> QED BY <3>2, <4>1, <4>4 DEF Settles, SettlementFor
      <3> QED BY <2>2, <3>1, <3>2, HowDrawsChange
    <2> QED BY <2>1, <2>2
  <1>2. IInv /\ IInv' /\ Annals /\ [Next]_vars => [P]_vars
    BY <1>1
  <1> HIDE DEF P
  <1>3. Spec => [][P]_vars
    BY <1>2, AnnalsHold, PTL DEF Spec
  <1> QED BY <1>3 DEF SettledDrawIsFinal, P

\* No application ever leaves a funnel stage it reached (funnel, furthestOf).
THEOREM FunnelMonotone == Spec => FunnelNeverShrinks
  <1> DEFINE P == \A a \in App : FurthestRank(apps'[a]) >= FurthestRank(apps[a])
  <1>1. IInv /\ IInv' /\ Annals /\ [Next]_vars => P
    <2> SUFFICES ASSUME IInv, IInv', Annals, [Next]_vars, NEW a \in App
                 PROVE  FurthestRank(apps'[a]) >= FurthestRank(apps[a])
      OBVIOUS
    <2>1. apps[a] \in AppRow
      BY DEF IInv, TypeOK
    <2>2. apps[a].status \in Status /\ apps[a].furthest \in Status
      BY <2>1 DEF AppRow
    <2>3. /\ StatusRank(apps[a].status) \in 0..5
          /\ StatusRank(apps[a].furthest) \in 0..5
      BY <2>2 DEF StatusRank, Status, ReachedPlacement, TerminalStatuses
    <2>4. CASE SameProgress(apps[a], apps'[a])
      BY <2>3, <2>4 DEF SameProgress, FurthestRank
    <2>5. CASE MovedAlong(apps[a], apps'[a])
      <3>1. PICK t \in TransitionsFrom(apps[a].status, "standard") :
               /\ apps'[a].status = t.to
               /\ apps'[a].furthest = IF IsTerminal(t.to) THEN apps[a].furthest ELSE t.to
        BY <2>5 DEF MovedAlong
      <3>2. apps[a].furthest = apps[a].status
        BY <2>2, <3>1, EdgesClimb DEF Annals, FurthestIsTheStatus
      <3> QED BY <2>2, <2>3, <3>1, <3>2, EdgesClimb DEF FurthestRank
    <2>6. CASE UNCHANGED vars
      BY <2>3, <2>6 DEF vars, FurthestRank
    <2> QED BY <2>4, <2>5, <2>6, HowRowsChange
  <1>2. IInv /\ IInv' /\ Annals /\ [Next]_vars => [P]_vars
    BY <1>1
  <1> HIDE DEF P
  <1>3. Spec => [][P]_vars
    BY <1>2, AnnalsHold, PTL DEF Spec
  <1> QED BY <1>3 DEF FunnelNeverShrinks, P
-----------------------------------------------------------------------------
(* The one guard that reads eligibility.                                   *)

BeforeInterview == {"submitted", "under_review", "shortlisted", "mutual_interest"}

\* Booking for a student who is not eligible was decided as an override.
BookingWasChecked(call) ==
    /\ call.at = "deciding"
    /\ call.to = "interview_scheduled"
    /\ call.app \in Ineligible
    => call.viaOverride

\* A call about to book an interview has been checked for eligibility, after every step.
LEMMA HeldStaysChecked ==
    ASSUME IInv, Next, \A c \in Call : BookingWasChecked(calls[c])
    PROVE  (\A c \in Call : BookingWasChecked(calls[c]))'
  <1>1. ASSUME NEW c \in Call, NEW held, Holds(c, held), BookingWasChecked(held)
        PROVE  (\A b \in Call : BookingWasChecked(calls[b]))'
    BY <1>1 DEF Holds, BookingWasChecked, IInv, TypeOK
  <1>2. ASSUME NEW c \in Call, NEW held, Holds(c, held), held.at # "deciding"
        PROVE  (\A b \in Call : BookingWasChecked(calls[b]))'
    BY <1>1, <1>2 DEF BookingWasChecked
  <1>3. ASSUME NEW c \in Call, Returns(c)
        PROVE  (\A b \in Call : BookingWasChecked(calls[b]))'
    <2>1. Idle.at # "deciding"
      BY DEF Idle
    <2> QED BY <1>2, <1>3, <2>1 DEF Returns
  <1>4. ASSUME NEW c \in Call, NEW a, NEW t, NEW role, NEW amount, NEW draft,
               ReadForMove(c, a, t, role, amount, draft)
        PROVE  (\A b \in Call : BookingWasChecked(calls[b]))'
    BY <1>2, <1>4 DEF ReadForMove
  <1>5. ASSUME NEW c \in Call,
               BeginTransition(c) \/ BeginOverride(c) \/ AuthorizeReads(c)
        PROVE  (\A b \in Call : BookingWasChecked(calls[b]))'
    BY <1>4, <1>5 DEF BeginTransition, BeginOverride, AuthorizeReads
  <1>6. ASSUME NEW c \in Call, BeginAuthorize(c)
        PROVE  (\A b \in Call : BookingWasChecked(calls[b]))'
    BY <1>2, <1>6 DEF BeginAuthorize
  <1>7. ASSUME NEW c \in Call, BeginLog(c) \/ LogReads(c)
        PROVE  (\A b \in Call : BookingWasChecked(calls[b]))'
    BY <1>2, <1>7 DEF BeginLog, LogReads
  <1>8. ASSUME NEW c \in Call,
               BeginReview(c) \/ ReviewReadsRow(c) \/ ReviewReadsSiblings(c)
        PROVE  (\A b \in Call : BookingWasChecked(calls[b]))'
    BY <1>2, <1>8 DEF BeginReview, ReviewReadsRow, ReviewReadsSiblings
  <1>9. ASSUME NEW c \in Call,
               BeginCommit(c) \/ CommitReads(c) \/ BeginAdjust(c) \/ BeginRelease(c)
        PROVE  (\A b \in Call : BookingWasChecked(calls[b]))'
    BY <1>2, <1>9 DEF BeginCommit, CommitReads, BeginAdjust, BeginRelease
  <1>10. ASSUME NEW c \in Call, Decide(c)
         PROVE  (\A b \in Call : BookingWasChecked(calls[b]))'
    <2> DEFINE call  == calls[c]
               guard == Guard(Patched(call), call.to, call.app)
    <2>1. PICK t \in TransitionsFrom(call.row.status, "standard") :
             /\ Attempt(t.roles, call.role, guard, TRUE)
             /\ Holds(c, [at |-> "deciding", app |-> call.app, to |-> call.to,
                          row |-> call.row, amount |-> call.amount,
                          draft |-> call.draft, drawn |-> DrawsOf(draws, call.app),
                          viaOverride |-> Overrides(t.roles, call.role, guard, TRUE)])
      BY <1>10 DEF Decide
    <2>2. call.to = "interview_scheduled" /\ call.app \in Ineligible => ~guard
      BY DEF Guard, Eligible
    <2>3. ~guard => Overrides(t.roles, call.role, guard, TRUE)
      BY <2>1 DEF Attempt, Permitted
    <2> HIDE DEF guard
    <2>4. BookingWasChecked(
             [at |-> "deciding", app |-> call.app, to |-> call.to,
              row |-> call.row, amount |-> call.amount,
              draft |-> call.draft, drawn |-> DrawsOf(draws, call.app),
              viaOverride |-> Overrides(t.roles, call.role, guard, TRUE)])
      BY <2>2, <2>3 DEF BookingWasChecked
    <2> QED BY <1>1, <2>1, <2>4
  <1>11. ASSUME NEW c \in Call,
                CommitMove(c) \/ CommitLog(c) \/ CommitReview(c) \/ CommitDraw(c)
                \/ CommitRelease(c) \/ CommitAdjust(c) \/ Abandon(c)
         PROVE  Returns(c)
    BY <1>11 DEF CommitMove, CommitLog, CommitReview, CommitDraw, CommitRelease,
       CommitAdjust, Abandon
  <1> QED BY <1>3, <1>5, <1>6, <1>7, <1>8, <1>9, <1>10, <1>11 DEF Next

\* No audit mark is taken back, and a row moves by a call that leaves its mark if it
\* overrides.
LEMMA OverridesAreKept ==
    ASSUME IInv, Next
    PROVE  /\ overridden \subseteq overridden'
           /\ \A a \in App :
                 \/ SameProgress(apps[a], apps'[a])
                 \/ \E c \in Call :
                       /\ calls[c].at = "deciding" /\ calls[c].app = a
                       /\ MovedAlong(apps[a], apps'[a])
                       /\ apps'[a].status = calls[c].to
                       /\ calls[c].viaOverride => <<a, calls[c].to>> \in overridden'
  <1>1. ASSUME NEW c \in Call, CommitMove(c), NEW a \in App
        PROVE  \/ SameProgress(apps[a], apps'[a])
               \/ /\ calls[c].at = "deciding" /\ calls[c].app = a
                  /\ MovedAlong(apps[a], apps'[a])
                  /\ apps'[a].status = calls[c].to
                  /\ calls[c].viaOverride => <<a, calls[c].to>> \in overridden'
    <2>1. CASE a = calls[c].app
      <3>1. calls[c] \in DecidingCall
        BY <1>1, CallShapes DEF CommitMove, IInv, TypeOK
      <3>2. apps'[a] = Moved(Patched(calls[c]), calls[c].to)
        BY <1>1, <2>1, MoveIsAnEdge DEF IInv, TypeOK
      <3>3. apps'[a].status = calls[c].to
        BY <3>1, <3>2, MovedFields
      <3>4. calls[c].viaOverride => <<a, calls[c].to>> \in overridden'
        BY <1>1, <2>1 DEF CommitMove
      <3> QED BY <1>1, <2>1, <3>3, <3>4, MoveIsAnEdge DEF CommitMove
    <2>2. CASE a # calls[c].app
      <3>1. apps'[a] = apps[a]
        BY <1>1, <2>2, MoveIsAnEdge DEF IInv, TypeOK
      <3> QED BY <3>1 DEF SameProgress
    <2> QED BY <2>1, <2>2
  <1>2. apps' = apps => \A a \in App : SameProgress(apps[a], apps'[a])
    BY DEF SameProgress
  <1>3. overridden \subseteq overridden'
    BY DEF Next, BeginTransition, BeginOverride, BeginAuthorize, AuthorizeReads,
       Decide, CommitMove, BeginLog, LogReads, CommitLog, BeginReview, ReviewReadsRow,
       ReviewReadsSiblings, CommitReview, BeginCommit, CommitReads, CommitDraw,
       BeginRelease, CommitRelease, BeginAdjust, CommitAdjust, Abandon, tables
  <1> QED BY <1>1, <1>2, <1>3, TimesheetKeepsProgress, OnlyThreeWriteApplications DEF Next

\* A placement past mutual interest, whichever way it went on.
PastInterest(row) ==
    FurthestRank(row) > 2 \/ row.furthest \in
        {"interview_scheduled", "interview_completed", "cleared"}

\* Only the booking edge leads past mutual interest.
LEMMA OnlyBookingLeadsOn ==
    ASSUME NEW old \in AppRow, NEW new \in AppRow, ~PastInterest(old),
           ~IsTerminal(old.status) => old.furthest = old.status,
           PastInterest(new),
           SameProgress(old, new) \/ MovedAlong(old, new)
    PROVE  MovedAlong(old, new) /\ new.status = "interview_scheduled"
  <1>1. ~SameProgress(old, new)
    BY DEF SameProgress, PastInterest, FurthestRank
  <1>2. PICK t \in TransitionsFrom(old.status, "standard") :
           /\ new.status = t.to
           /\ new.furthest = IF IsTerminal(t.to) THEN old.furthest ELSE t.to
    BY <1>1 DEF MovedAlong
  <1>3. old.status \in Status
    BY DEF AppRow
  <1>4. old.furthest = old.status
    BY <1>2, <1>3, EdgesClimb
  <1>5. old.status \in BeforeInterview
    <2>1. /\ ~IsTerminal(old.status)
          /\ StatusRank(old.status) \in 0..5
      BY <1>2, <1>3, EdgesClimb
    <2>2. FurthestRank(old) = StatusRank(old.status)
      BY <1>4 DEF FurthestRank
    <2>3. StatusRank(old.status) \in 0..2
      BY <2>1, <2>2 DEF PastInterest
    <2>4. old.status \notin {"interview_scheduled", "interview_completed", "cleared"}
      BY <1>4 DEF PastInterest
    <2> QED BY <1>3, <2>1, <2>3, <2>4 DEF BeforeInterview, StatusRank, Status,
            ReachedPlacement, IsTerminal
  <1>6. ~IsTerminal(t.to)
    <2>1. SUFFICES ASSUME IsTerminal(t.to) PROVE FALSE
      OBVIOUS
    <2>2. new.furthest = old.furthest /\ StatusRank(new.status) = 0
      BY <1>2, <1>3, <2>1, EdgesClimb
    <2>3. StatusRank(old.furthest) \in 0..5
      BY <1>2, <1>3, <1>4, EdgesClimb
    <2> QED BY <1>4, <2>2, <2>3 DEF PastInterest, FurthestRank
  <1>7. new.furthest = new.status
    BY <1>2, <1>6
  <1>8. t.to \in BeforeInterview \cup {"interview_scheduled"}
    BY <1>5, <1>6 DEF BeforeInterview, TransitionsFrom, Transitions, Edge, IsTerminal,
       TerminalStatuses
  <1>9. CASE t.to \in BeforeInterview
    <2>1. new.status \in BeforeInterview /\ new.furthest = new.status
      BY <1>2, <1>7, <1>9
    <2>2. StatusRank(new.status) \in 0..2
      BY <2>1 DEF StatusRank, BeforeInterview, TerminalStatuses, ReachedPlacement
    <2>3. FurthestRank(new) \in 0..2
      BY <2>1, <2>2 DEF FurthestRank
    <2> QED BY <2>1, <2>3 DEF PastInterest, BeforeInterview
  <1> QED BY <1>1, <1>2, <1>8, <1>9

\* Where applications begin before the interview, a student who was found not
\* eligible gets past mutual interest only by an override the audit log shows
\* (the guard of interview_scheduled).
THEOREM IneligibleOverridden ==
    ASSUME Start \in BeforeInterview
    PROVE  Spec => []IneligibleNeedsOverride
  <1> DEFINE Inv == /\ IneligibleNeedsOverride
                    /\ \A c \in Call : BookingWasChecked(calls[c])
  <1>1. Init => Inv
    <2> SUFFICES ASSUME Init PROVE Inv
      OBVIOUS
    <2>1. \A a \in App : apps[a].status = Start /\ apps[a].furthest = Start
      BY DEF Init, InitTables
    <2>2. \A a \in Ineligible : ~PastInterest(apps[a])
      <3>1. StatusRank(Start) \in 0..2
        BY DEF StatusRank, BeforeInterview, TerminalStatuses, ReachedPlacement
      <3>2. \A a \in App : FurthestRank(apps[a]) \in 0..2
        BY <2>1, <3>1 DEF FurthestRank
      <3> QED BY <2>1, <3>2, PlacementAssumption
              DEF PlacementAssumption, PastInterest, BeforeInterview
    <2>3. \A c \in Call : BookingWasChecked(calls[c])
      BY DEF Init, InitTables, Idle, BookingWasChecked
    <2> QED BY <2>2, <2>3 DEF IneligibleNeedsOverride, PastInterest
  <1>2. IInv /\ IInv' /\ Annals /\ Inv /\ [Next]_vars => Inv'
    <2> SUFFICES ASSUME IInv, IInv', Annals, Inv, [Next]_vars PROVE Inv'
      OBVIOUS
    <2>1. CASE UNCHANGED vars
      BY <2>1 DEF vars, IneligibleNeedsOverride, BookingWasChecked
    <2>2. CASE Next
      <3>1. (\A c \in Call : BookingWasChecked(calls[c]))'
        BY <2>2, HeldStaysChecked
      <3>2. ASSUME NEW a \in Ineligible, PastInterest(apps'[a])
            PROVE  <<a, "interview_scheduled">> \in overridden'
        <4>0. a \in App
          BY PlacementAssumption DEF PlacementAssumption
        <4>1. CASE PastInterest(apps[a])
          BY <2>2, <4>1, OverridesAreKept DEF IneligibleNeedsOverride, PastInterest
        <4>2. CASE ~PastInterest(apps[a])
          <5>1. apps[a] \in AppRow /\ apps'[a] \in AppRow
            BY <4>0 DEF IInv, TypeOK
          <5>2. /\ MovedAlong(apps[a], apps'[a])
                /\ apps'[a].status = "interview_scheduled"
            BY <2>2, <3>2, <4>0, <4>2, <5>1, HowRowsChange, OnlyBookingLeadsOn
               DEF Annals, FurthestIsTheStatus
          <5>3. ~SameProgress(apps[a], apps'[a])
            BY <3>2, <4>2 DEF SameProgress, PastInterest, FurthestRank
          <5>4. PICK c \in Call :
                   /\ calls[c].at = "deciding" /\ calls[c].app = a
                   /\ apps'[a].status = calls[c].to
                   /\ calls[c].viaOverride => <<a, calls[c].to>> \in overridden'
            BY <2>2, <4>0, <5>3, OverridesAreKept
          <5>5. BookingWasChecked(calls[c])
            OBVIOUS
          <5>6. calls[c].viaOverride
            BY <5>2, <5>4, <5>5 DEF BookingWasChecked
          <5> QED BY <5>2, <5>4, <5>6
        <4> QED BY <4>1, <4>2
      <3> QED BY <3>1, <3>2 DEF IneligibleNeedsOverride, PastInterest
    <2> QED BY <2>1, <2>2
  <1>3. Inv => IneligibleNeedsOverride
    OBVIOUS
  <1> HIDE DEF Inv
  <1> QED BY <1>1, <1>2, <1>3, AnnalsHold, PTL DEF Spec
-----------------------------------------------------------------------------
(* What a fund has promised is a sum over the draws on it. A sum takes the  *)
(* draws in an order of its own; the order does not matter.                *)

\* Induction over the subsets of a finite set.
LEMMA SubsetsReached ==
    ASSUME NEW S, IsFiniteSet(S), NEW G,
           \A T \in SUBSET S : (\A U \in SUBSET T : U # T => U \in G) => T \in G
    PROVE  SUBSET S \subseteq G
  <1> DEFINE Bad == (SUBSET S) \ G
             R   == StrictSubsetOrdering(S)
             F   == FiniteSubsetsOf(S)
  <1> SUFFICES ASSUME Bad # {} PROVE FALSE
    OBVIOUS
  <1>1. F = SUBSET S
    BY FS_Subset DEF FiniteSubsetsOf
  <1>2. IsWellFoundedOn(R, F)
    BY FS_StrictSubsetOrderingWellFounded
  <1>3. PICK T \in Bad : \A U \in Bad : ~ (<<U, T>> \in R)
    <2>1. Bad \subseteq F
      BY <1>1
    <2> HIDE DEF Bad, R, F
    <2> QED BY <1>2, <2>1, WFMin
  <1>4. \A U \in SUBSET T : U # T => <<U, T>> \in R
    BY DEF StrictSubsetOrdering
  <1>5. T \in SUBSET S /\ T \notin G
    OBVIOUS
  <1>6. ASSUME NEW U \in SUBSET T, U # T PROVE U \in G
    <2>1. U \notin Bad
      BY <1>3, <1>4, <1>6
    <2> QED BY <1>5, <2>1
  <1> QED BY <1>5, <1>6

First(T) == CHOOSE d \in T : TRUE

\* t is the sum of w over every part of S.
Tally(w, S, t) ==
    /\ t \in [SUBSET S -> Nat]
    /\ \A T \in SUBSET S :
          t[T] = IF T = {} THEN 0 ELSE w[First(T)] + t[T \ {First(T)}]

\* The element a fold takes first is one of the set.
LEMMA FirstIsOne == ASSUME NEW T, T # {} PROVE First(T) \in T
  BY DEF First

\* Two tallies of one weighing agree on every finite set both reach.
LEMMA TalliesAgree ==
    ASSUME NEW w, NEW S, NEW t, Tally(w, S, t), NEW R, NEW r, Tally(w, R, r),
           NEW T, IsFiniteSet(T), T \subseteq S, T \subseteq R
    PROVE  t[T] = r[T]
  <1> DEFINE G == {U \in SUBSET T : t[U] = r[U]}
  <1>1. ASSUME NEW U \in SUBSET T, \A V \in SUBSET U : V # U => V \in G PROVE U \in G
    <2>1. CASE U = {}
      BY <2>1 DEF Tally
    <2>2. CASE U # {}
      <3>1. First(U) \in U /\ U \ {First(U)} \in G
        BY <1>1, <2>2, FirstIsOne
      <3>2. t[U] = w[First(U)] + t[U \ {First(U)}] /\ r[U] = w[First(U)] + r[U \ {First(U)}]
        BY <2>2 DEF Tally
      <3> QED BY <3>1, <3>2
    <2> QED BY <2>1, <2>2
  <1>2. SUBSET T \subseteq G
    <2> HIDE DEF G
    <2> QED BY <1>1, SubsetsReached
  <1> QED BY <1>2

\* There is a tally of every finite set.
LEMMA TallyExists ==
    ASSUME NEW S, IsFiniteSet(S), NEW w \in [S -> Nat]
    PROVE  \E t \in [SUBSET S -> Nat] : Tally(w, S, t)
  <1> DEFINE G == {T \in SUBSET S : \E t \in [SUBSET T -> Nat] : Tally(w, T, t)}
  <1>1. ASSUME NEW T \in SUBSET S, \A U \in SUBSET T : U # T => U \in G PROVE T \in G
    <2> DEFINE Best(U) == CHOOSE t \in [SUBSET U -> Nat] : Tally(w, U, t)
               Rest(U) == U \ {First(U)}
               u == [U \in SUBSET T |->
                        IF U = {} THEN 0 ELSE w[First(U)] + Best(Rest(U))[Rest(U)]]
    <2>1. ASSUME NEW U \in SUBSET T, U # T PROVE Tally(w, U, Best(U))
      BY <1>1, <2>1
    <2>2. ASSUME NEW U \in SUBSET T, U # {}
          PROVE  First(U) \in T /\ Rest(U) \in SUBSET U /\ Rest(U) \in SUBSET T /\ Rest(U) # T
      BY <2>2, FirstIsOne
    <2> HIDE DEF Best, Rest
    <2>3. ASSUME NEW U \in SUBSET T, U # {}
          PROVE  /\ w[First(U)] \in Nat /\ Best(Rest(U))[Rest(U)] \in Nat
                 /\ u[U] = w[First(U)] + Best(Rest(U))[Rest(U)]
      <3>1. Tally(w, Rest(U), Best(Rest(U)))
        BY <2>1, <2>2, <2>3
      <3>2. First(U) \in S /\ Rest(U) \in SUBSET Rest(U)
        BY <2>2, <2>3
      <3> QED BY <2>3, <3>1, <3>2 DEF Tally
    <2>4. u \in [SUBSET T -> Nat]
      <3>1. ASSUME NEW U \in SUBSET T, U # {}
            PROVE  w[First(U)] + Best(Rest(U))[Rest(U)] \in Nat
        <4>1. w[First(U)] \in Nat /\ Best(Rest(U))[Rest(U)] \in Nat
          BY <2>3, <3>1
        <4> QED BY <4>1
      <3> QED BY <3>1
    <2>5. ASSUME NEW U \in SUBSET T
          PROVE  u[U] = IF U = {} THEN 0 ELSE w[First(U)] + u[Rest(U)]
      <3>1. CASE U = {}
        BY <3>1
      <3>2. CASE U # {}
        <4> DEFINE V == Rest(U)
        <4>1. V \in SUBSET T /\ V # T /\ Tally(w, V, Best(V))
          BY <2>1, <2>2, <3>2
        <4>2. u[V] = Best(V)[V]
          <5>1. CASE V = {}
            BY <4>1, <5>1 DEF Tally
          <5>2. CASE V # {}
            <6>1. Rest(V) \in SUBSET V /\ Rest(V) \in SUBSET T /\ Rest(V) # T
              BY <2>2, <4>1, <5>2
            <6>2. Tally(w, Rest(V), Best(Rest(V))) /\ IsFiniteSet(Rest(V))
              BY <2>1, <6>1, FS_Subset
            <6>3. Best(V)[Rest(V)] = Best(Rest(V))[Rest(V)]
              <7> HIDE DEF V
              <7> QED BY <4>1, <6>1, <6>2, TalliesAgree
            <6>4. Best(V)[V] = w[First(V)] + Best(V)[Rest(V)]
              BY <4>1, <5>2 DEF Tally, Rest
            <6> QED BY <2>3, <4>1, <5>2, <6>3, <6>4
          <5> QED BY <5>1, <5>2
        <4> QED BY <2>3, <3>2, <4>2
      <3> QED BY <3>1, <3>2
    <2> HIDE DEF u
    <2>6. Tally(w, T, u)
      BY <2>4, <2>5 DEF Tally, Rest
    <2> QED BY <2>4, <2>6
  <1>2. SUBSET S \subseteq G
    <2> HIDE DEF G
    <2> QED BY <1>1, SubsetsReached
  <1> QED BY <1>2

\* Whichever draw is taken first, the sum is the same.
LEMMA TallyInAnyOrder ==
    ASSUME NEW S, IsFiniteSet(S), NEW w \in [S -> Nat], NEW t, Tally(w, S, t),
           NEW T \in SUBSET S, NEW x \in T
    PROVE  t[T] = w[x] + t[T \ {x}]
  <1> DEFINE G == {U \in SUBSET S : \A y \in U : t[U] = w[y] + t[U \ {y}]}
  <1>1. ASSUME NEW U \in SUBSET S, \A V \in SUBSET U : V # U => V \in G PROVE U \in G
    <2> SUFFICES ASSUME NEW y \in U PROVE t[U] = w[y] + t[U \ {y}]
      OBVIOUS
    <2> DEFINE f == First(U)
    <2>1. f \in U /\ t[U] = w[f] + t[U \ {f}]
      BY FirstIsOne DEF Tally
    <2> HIDE DEF f
    <2>2. CASE y = f
      BY <2>1, <2>2
    <2>3. CASE y # f
      <3> DEFINE rest == U \ {f, y}
      <3>1. U \ {f} \in G /\ y \in U \ {f} /\ U \ {y} \in G /\ f \in U \ {y}
        BY <1>1, <2>1, <2>3
      <3>2. (U \ {f}) \ {y} = rest /\ (U \ {y}) \ {f} = rest
        OBVIOUS
      <3>3. t[U \ {f}] = w[y] + t[rest] /\ t[U \ {y}] = w[f] + t[rest]
        BY <3>1, <3>2
      <3>4. w[y] \in Nat /\ w[f] \in Nat /\ t[rest] \in Nat
        BY <2>1 DEF Tally
      <3> HIDE DEF rest
      <3> QED BY <2>1, <3>3, <3>4
    <2> QED BY <2>2, <2>3
  <1>2. SUBSET S \subseteq G
    <2> HIDE DEF G
    <2> QED BY <1>1, SubsetsReached
  <1> QED BY <1>2

\* A part of what is summed, at the same weights, comes to no more.
LEMMA TallyOfPart ==
    ASSUME NEW S, IsFiniteSet(S), NEW w \in [S -> Nat], NEW t, Tally(w, S, t),
           NEW R, IsFiniteSet(R), NEW v \in [R -> Nat], NEW r, Tally(v, R, r),
           NEW A \in SUBSET S, A \subseteq R, \A x \in A : w[x] = v[x]
    PROVE  t[A] <= r[R]
  <1> DEFINE G == {B \in SUBSET R : \A C \in SUBSET A : C \subseteq B => t[C] <= r[B]}
  <1>1. ASSUME NEW B \in SUBSET R, \A V \in SUBSET B : V # B => V \in G PROVE B \in G
    <2> SUFFICES ASSUME NEW C \in SUBSET A, C \subseteq B PROVE t[C] <= r[B]
      OBVIOUS
    <2>1. CASE B = {}
      <3>1. C = {} /\ t[{}] = 0 /\ r[{}] = 0
        BY <2>1 DEF Tally
      <3> QED BY <2>1, <3>1
    <2>2. CASE B # {}
      <3>1. PICK x \in B : TRUE
        BY <2>2
      <3>2. B \ {x} \in G /\ x \in R
        BY <1>1, <3>1
      <3>3. r[B] = v[x] + r[B \ {x}]
        BY TallyInAnyOrder
      <3>4. v[x] \in Nat /\ r[B \ {x}] \in Nat /\ t[C] \in Nat /\ t[C \ {x}] \in Nat
        BY <3>2 DEF Tally
      <3>5. CASE x \in C
        <4>1. t[C] = w[x] + t[C \ {x}]
          BY <3>5, TallyInAnyOrder
        <4>2. t[C \ {x}] <= r[B \ {x}] /\ w[x] = v[x]
          BY <3>2, <3>5
        <4> QED BY <3>3, <3>4, <4>1, <4>2
      <3>6. CASE x \notin C
        <4>1. t[C] <= r[B \ {x}]
          BY <3>2, <3>6
        <4> QED BY <3>3, <3>4, <4>1
      <3> QED BY <3>5, <3>6
    <2> QED BY <2>1, <2>2
  <1>2. SUBSET R \subseteq G
    <2> HIDE DEF G
    <2> QED BY <1>1, SubsetsReached
  <1> QED BY <1>2

Amounts(table, s) == [d \in LiveOn(table, s) |-> table[d].amount]

\* What a fund has promised is such a sum.
LEMMA CommittedIsATally ==
    ASSUME NEW table \in DrawTable, NEW s, IsFiniteSet(LiveOn(table, s))
    PROVE  /\ Amounts(table, s) \in [LiveOn(table, s) -> Nat]
           /\ \E t : Tally(Amounts(table, s), LiveOn(table, s), t)
                     /\ Committed(table, s) = t[LiveOn(table, s)]
  <1> DEFINE S == LiveOn(table, s)
             w == Amounts(table, s)
             P(t) == t = [T \in SUBSET S |-> IF T = {} THEN 0
                            ELSE table[First(T)].amount + t[T \ {First(T)}]]
  <1>1. ASSUME NEW d \in S PROVE table[d] \in DrawRow /\ table[d].amount \in Nat
    BY DEF LiveOn, IsLive, DrawTable, DrawRow, NoDraw
  <1>2. w \in [S -> Nat]
    BY <1>1 DEF Amounts
  <1>3. PICK t \in [SUBSET S -> Nat] : Tally(w, S, t)
    <2> HIDE DEF S, w
    <2> QED BY <1>2, TallyExists DEF S
  <1>4. \A T \in SUBSET S : T # {} => w[First(T)] = table[First(T)].amount
    BY FirstIsOne DEF Amounts
  <1>5. P(t)
    <2> HIDE DEF S, w
    <2> QED BY <1>3, <1>4 DEF Tally
  <1>6. Committed(table, s) = (CHOOSE u : P(u))[S]
    BY DEF Committed, MapThenSumSet, MapThenFoldSet, First
  <1>7. P(CHOOSE u : P(u))
    <2> HIDE DEF P
    <2> QED BY <1>5
  <1> DEFINE c == CHOOSE u : P(u)
             G == {T \in SUBSET S : c[T] = t[T]}
  <1> HIDE DEF S, c
  <1>8. c = [T \in SUBSET S |-> IF T = {} THEN 0
                ELSE table[First(T)].amount + c[T \ {First(T)}]]
    BY <1>7 DEF c
  <1>9. ASSUME NEW T \in SUBSET S, \A U \in SUBSET T : U # T => U \in G PROVE T \in G
    <2>1. CASE T = {}
      BY <1>5, <1>8, <2>1
    <2>2. CASE T # {}
      <3>1. First(T) \in T /\ T \ {First(T)} \in G
        BY <1>9, <2>2, FirstIsOne
      <3>2. c[T] = table[First(T)].amount + c[T \ {First(T)}]
        BY <1>8, <2>2
      <3>3. t[T] = table[First(T)].amount + t[T \ {First(T)}]
        BY <1>5, <2>2
      <3> QED BY <3>1, <3>2, <3>3
    <2> QED BY <2>1, <2>2
  <1>10. SUBSET S \subseteq G
    <2> HIDE DEF G
    <2> QED BY <1>9, SubsetsReached DEF S
  <1> QED BY <1>2, <1>3, <1>6, <1>10 DEF c, S

\* Draws that go on at the amounts they had come to no more.
LEMMA CommittedToFewer ==
    ASSUME NEW old \in DrawTable, NEW new \in DrawTable, NEW s,
           IsFiniteSet(LiveOn(old, s)), LiveOn(new, s) \subseteq LiveOn(old, s),
           \A d \in LiveOn(new, s) : new[d].amount = old[d].amount
    PROVE  Committed(new, s) \in Nat /\ Committed(old, s) \in Nat
           /\ Committed(new, s) <= Committed(old, s)
  <1> DEFINE S == LiveOn(new, s)
             R == LiveOn(old, s)
  <1>1. IsFiniteSet(S)
    BY FS_Subset
  <1>2. PICK t : Tally(Amounts(new, s), S, t) /\ Committed(new, s) = t[S]
    BY <1>1, CommittedIsATally
  <1>3. PICK r : Tally(Amounts(old, s), R, r) /\ Committed(old, s) = r[R]
    BY CommittedIsATally
  <1>4. Amounts(new, s) \in [S -> Nat] /\ Amounts(old, s) \in [R -> Nat]
    BY <1>1, CommittedIsATally
  <1>5. \A d \in S : Amounts(new, s)[d] = Amounts(old, s)[d]
    BY DEF Amounts
  <1> HIDE DEF S, R
  <1>6. t[S] <= r[R]
    BY <1>1, <1>2, <1>3, <1>4, <1>5, TallyOfPart DEF S, R
  <1>7. t[S] \in Nat /\ r[R] \in Nat
    BY <1>2, <1>3 DEF Tally
  <1> QED BY <1>2, <1>3, <1>6, <1>7

\* One draw more adds no more than its amount.
LEMMA CommittedToOneMore ==
    ASSUME NEW old \in DrawTable, NEW new \in DrawTable, NEW s, NEW d \in LiveOn(new, s),
           IsFiniteSet(LiveOn(old, s)), LiveOn(new, s) \ {d} \subseteq LiveOn(old, s),
           \A e \in LiveOn(new, s) \ {d} : new[e].amount = old[e].amount
    PROVE  Committed(new, s) <= new[d].amount + Committed(old, s)
  <1> DEFINE S == LiveOn(new, s)
             R == LiveOn(old, s)
             A == S \ {d}
  <1>1. IsFiniteSet(A) /\ IsFiniteSet(S)
    <2>1. IsFiniteSet(A)
      BY FS_Subset
    <2>2. S = A \cup {d}
      OBVIOUS
    <2> HIDE DEF S, A
    <2> QED BY <2>1, <2>2, FS_AddElement
  <1>2. PICK t : Tally(Amounts(new, s), S, t) /\ Committed(new, s) = t[S]
    BY <1>1, CommittedIsATally
  <1>3. PICK r : Tally(Amounts(old, s), R, r) /\ Committed(old, s) = r[R]
    BY CommittedIsATally
  <1>4. Amounts(new, s) \in [S -> Nat] /\ Amounts(old, s) \in [R -> Nat]
    BY <1>1, CommittedIsATally
  <1>5. \A e \in A : Amounts(new, s)[e] = Amounts(old, s)[e]
    BY DEF Amounts
  <1>6. Amounts(new, s)[d] = new[d].amount
    BY DEF Amounts
  <1>7. A \in SUBSET S /\ A \subseteq R /\ d \in S /\ S \in SUBSET S /\ IsFiniteSet(R)
    OBVIOUS
  <1> HIDE DEF S, R
  <1>8. t[S] = new[d].amount + t[A]
    BY <1>1, <1>2, <1>4, <1>6, <1>7, TallyInAnyOrder
  <1> HIDE DEF A
  <1>9. t[A] <= r[R]
    BY <1>1, <1>2, <1>3, <1>4, <1>5, <1>7, TallyOfPart
  <1>10. t[A] \in Nat /\ r[R] \in Nat /\ new[d].amount \in Nat
    BY <1>2, <1>3, <1>4, <1>6, <1>7 DEF Tally
  <1> QED BY <1>2, <1>3, <1>8, <1>9, <1>10
-----------------------------------------------------------------------------
(* Money: what a fund has promised, and what the calls that found room in  *)
(* it at the same time may still add.                                      *)

\* A draw that is there keeps its fund and its amount, and once given back
\* does not count again.
DrawKept(old, new) ==
    old # NoDraw => /\ new # NoDraw
                    /\ new.source = old.source /\ new.amount = old.amount
                    /\ IsLive(new) => IsLive(old)

DrawStays(d) == /\ DrawKept(draws[d], draws'[d])
                /\ draws[d] = NoDraw => draws'[d] = NoDraw

\* A call whose next commit draws on the fund, its balance already judged.
Asks(call, s) == \/ call.at = "promising" /\ call.source = s
                 \/ call.at = "deciding" /\ call.draft /\ s = Wage

Asking(s) == {c \in Call : Asks(calls[c], s)}

\* What judges a balance is a fund no larger than an allocation may be: most
\* bounds the allocations.
Prudent(call, most) ==
    /\ call.at = "moving" /\ call.draft =>
          call.role = "board" /\ call.to = "funding_authorized" /\ call.amount # 0
    /\ call.at = "deciding" /\ call.draft => call.amount <= most
    /\ call.at = "pricing" => call.fund.allocated <= most
    /\ call.at = "promising" => call.amount <= most
    /\ call.at = "adjusting" => call.figure <= most

\* For each call that does not ask there is one allocation to spare; the call that
\* found room last left room for its amount only.
Room(promised, asking, held, most) ==
    LET spare == (Cardinality(Call) - Cardinality(asking)) * most IN
    \/ promised <= spare
    \/ \E c \in asking : promised + held[c].amount <= spare + most

Drawn == {d \in Draw : draws[d] # NoDraw}

Ledger(most) ==
    /\ IsFiniteSet(Drawn)
    /\ \A c \in Call : Prudent(calls[c], most)
    /\ \A s \in Source : funds[s].allocated <= most
    /\ \A s \in Source : Room(Committed(draws, s), Asking(s), calls, most)

Bounds(most) == most \in Allocation /\ \A figure \in Allocation : figure <= most

\* A multiple of an allocation is a number, and the next one is an allocation more.
LEMMA Products ==
    ASSUME NEW n \in Nat, NEW most \in Nat
    PROVE  n * most \in Nat /\ (n + 1) * most = n * most + most
  OBVIOUS

\* The spare allocations as a number of their own.
LEMMA SpareIsNat ==
    ASSUME IsFiniteSet(Call), NEW asking \in SUBSET Call, NEW most \in Nat
    PROVE  /\ Cardinality(Call) - Cardinality(asking) \in Nat
           /\ (Cardinality(Call) - Cardinality(asking)) * most \in Nat
           /\ (Cardinality(Call) - Cardinality(asking)) * most <= Cardinality(Call) * most
           /\ asking # {} =>
                 (Cardinality(Call) - Cardinality(asking)) * most + most
                 <= Cardinality(Call) * most
  <1> DEFINE n == Cardinality(Call)
             k == Cardinality(asking)
  <1>1. n \in Nat /\ k \in Nat /\ k <= n /\ IsFiniteSet(asking)
    BY FS_CardinalityType, FS_Subset
  <1>2. asking # {} => k # 0
    BY <1>1, FS_EmptySet
  <1> HIDE DEF n, k
  <1>3. n - k \in Nat
    BY <1>1
  <1>4. (n - k) * most \in Nat
    BY <1>3, Products
  <1>5. n * most = (n - k) * most + k * most /\ k * most \in Nat
    BY <1>1
  <1>6. k # 0 => k * most >= most
    <2> SUFFICES ASSUME k # 0 PROVE k * most >= most
      OBVIOUS
    <2>1. k - 1 \in Nat /\ k = (k - 1) + 1
      BY <1>1
    <2>2. (k - 1) * most \in Nat /\ ((k - 1) + 1) * most = (k - 1) * most + most
      BY <2>1, Products
    <2> QED BY <2>1, <2>2
  <1>7. n * most \in Nat
    BY <1>1, Products
  <1> QED BY <1>2, <1>3, <1>4, <1>5, <1>6, <1>7 DEF n, k

\* One that no longer asks leaves an allocation to spare.
LEMMA SpareWithout ==
    ASSUME IsFiniteSet(Call), NEW asking \in SUBSET Call, NEW c \in asking,
           NEW most \in Nat
    PROVE  (Cardinality(Call) - Cardinality(asking \ {c})) * most
           = (Cardinality(Call) - Cardinality(asking)) * most + most
  <1> DEFINE n == Cardinality(Call) - Cardinality(asking)
             m == Cardinality(Call) - Cardinality(asking \ {c})
  <1>1. IsFiniteSet(asking) /\ Cardinality(asking) \in Nat /\ Cardinality(Call) \in Nat
    BY FS_CardinalityType, FS_Subset
  <1>2. Cardinality(asking \ {c}) = Cardinality(asking) - 1
    BY <1>1, FS_RemoveElement
  <1>3. n \in Nat
    BY SpareIsNat
  <1>5. m = n + 1
    BY <1>1, <1>2
  <1> HIDE DEF n, m
  <1>4. (n + 1) * most = n * most + most
    BY <1>3, Products
  <1> QED BY <1>4, <1>5 DEF n, m

\* Room that is there is within the allocations of all the calls.
LEMMA RoomBounds ==
    ASSUME IsFiniteSet(Call), NEW promised \in Nat, NEW asking \in SUBSET Call,
           NEW held, NEW most \in Nat, \A c \in asking : held[c].amount \in Nat,
           Room(promised, asking, held, most)
    PROVE  promised <= Cardinality(Call) * most
  <1> DEFINE spare == (Cardinality(Call) - Cardinality(asking)) * most
             all == Cardinality(Call) * most
  <1>1. /\ spare \in Nat /\ spare <= all
        /\ asking # {} => spare + most <= all
    BY SpareIsNat
  <1>2. all \in Nat
    BY FS_CardinalityType, Products
  <1>3. promised <= spare \/ \E c \in asking : promised + held[c].amount <= spare + most
    BY DEF Room
  <1> HIDE DEF spare, all
  <1>4. promised <= all
    BY <1>1, <1>2, <1>3
  <1> QED BY <1>4 DEF all

\* A step that promises nothing more and at most ends one call keeps the room.
LEMMA RoomKept ==
    ASSUME IsFiniteSet(Call), NEW before \in Nat, NEW after \in Nat, after <= before,
           NEW asking \in SUBSET Call, NEW c, NEW most \in Nat,
           NEW held, NEW next, \A b \in asking : held[b].amount \in Nat,
           \A b \in asking \ {c} : next[b] = held[b],
           Room(before, asking, held, most)
    PROVE  Room(after, asking \ {c}, next, most)
  <1> DEFINE spare == (Cardinality(Call) - Cardinality(asking)) * most
             more  == (Cardinality(Call) - Cardinality(asking \ {c})) * most
  <1>1. spare \in Nat
    BY SpareIsNat
  <1>2. before <= spare \/ \E b \in asking : before + held[b].amount <= spare + most
    BY DEF Room
  <1>3. IF c \in asking THEN more = spare + most ELSE more = spare /\ asking \ {c} = asking
    <2>1. c \in asking => more = spare + most
      BY SpareWithout
    <2>2. c \notin asking => asking \ {c} = asking
      OBVIOUS
    <2> QED BY <2>1, <2>2
  <1> HIDE DEF spare, more
  <1>4. after <= more \/ \E b \in asking \ {c} : after + next[b].amount <= more + most
    <2>1. CASE before <= spare
      BY <1>1, <1>3, <2>1
    <2>2. ASSUME NEW b \in asking, before + held[b].amount <= spare + most
          PROVE  after <= more \/ \E e \in asking \ {c} : after + next[e].amount <= more + most
      <3>1. CASE b = c
        BY <1>1, <1>3, <2>2, <3>1
      <3>2. CASE b # c
        <4>1. b \in asking \ {c} /\ next[b] = held[b] /\ held[b].amount \in Nat
          BY <3>2
        <4>2. after + next[b].amount <= more + most
          BY <1>1, <1>3, <2>2, <4>1
        <4> QED BY <4>1, <4>2
      <3> QED BY <3>1, <3>2
    <2> QED BY <1>2, <2>1, <2>2
  <1> QED BY <1>4 DEF Room, more

\* A call that draws what it asked for gives up its place.
LEMMA RoomSpent ==
    ASSUME IsFiniteSet(Call), NEW before \in Nat, NEW after \in Nat,
           NEW asking \in SUBSET Call, NEW c \in asking, NEW most \in Nat,
           NEW held, NEW next, \A b \in asking : held[b].amount \in Nat,
           after <= before + held[c].amount, held[c].amount <= most,
           \A b \in asking \ {c} : next[b] = held[b],
           Room(before, asking, held, most)
    PROVE  Room(after, asking \ {c}, next, most)
  <1> DEFINE spare == (Cardinality(Call) - Cardinality(asking)) * most
             more  == (Cardinality(Call) - Cardinality(asking \ {c})) * most
  <1>1. spare \in Nat /\ more = spare + most
    BY SpareIsNat, SpareWithout
  <1>2. before <= spare \/ \E b \in asking : before + held[b].amount <= spare + most
    BY DEF Room
  <1> HIDE DEF spare, more
  <1>3. after <= more \/ \E b \in asking \ {c} : after + next[b].amount <= more + most
    <2>1. CASE before <= spare
      BY <1>1, <2>1
    <2>2. ASSUME NEW b \in asking, before + held[b].amount <= spare + most
          PROVE  after <= more \/ \E e \in asking \ {c} : after + next[e].amount <= more + most
      <3>1. CASE b = c
        BY <1>1, <2>2, <3>1
      <3>2. CASE b # c
        <4>1. b \in asking \ {c} /\ next[b] = held[b] /\ held[b].amount \in Nat
          BY <3>2
        <4>2. after + next[b].amount <= more + most
          BY <1>1, <2>2, <4>1
        <4> QED BY <4>1, <4>2
      <3> QED BY <3>1, <3>2
    <2> QED BY <1>2, <2>1, <2>2
  <1> QED BY <1>3 DEF Room, more

\* A call that finds its amount free leaves room for it.
LEMMA RoomFound ==
    ASSUME IsFiniteSet(Call), NEW promised \in Nat, NEW asking \in SUBSET Call,
           NEW c \in asking, NEW next, NEW most \in Nat, next[c].amount \in Nat,
           promised + next[c].amount <= most
    PROVE  Room(promised, asking, next, most)
  <1> DEFINE spare == (Cardinality(Call) - Cardinality(asking)) * most
  <1>1. spare \in Nat
    BY SpareIsNat
  <1> HIDE DEF spare
  <1>2. promised + next[c].amount <= spare + most
    BY <1>1
  <1> QED BY <1>2 DEF Room, spare

\* A move settles only draws that are there.
LEMMA SettledDrawsKept ==
    ASSUME IInv, NEW c \in Call, CommitMove(c), NEW d \in Draw
    PROVE  LET call == calls[c]
               next == Moved(Patched(call), call.to) IN
           /\ DrawKept(draws[d], SettledDraws(call, next)[d])
           /\ draws[d] = NoDraw => SettledDraws(call, next)[d] = NoDraw
  <1> DEFINE call == calls[c]
             next == Moved(Patched(call), call.to)
             after == SettledDraws(call, next)[d]
  <1>1. call \in DecidingCall /\ call.at = "deciding" /\ Honest(call)
    BY CallShapes DEF CommitMove, IInv, TypeOK
  <1>2. CASE d \notin Settled(call, next)
    <2>1. after = draws[d]
      BY <1>2 DEF SettledDraws
    <2> QED BY <2>1 DEF DrawKept
  <1>3. CASE d \in Settled(call, next)
    <2>1. Settles(next, call.drawn[d]) /\ DrawUnmoved(call.drawn[d], d)
      BY <1>3 DEF Settled, CommitMove
    <2>2. call.drawn[d] \in DrawRow \cup {NoDraw}
      BY <1>1 DEF DecidingCall, DrawTable
    <2>3. after = [call.drawn[d] EXCEPT !.status = SettlementFor(next, call.drawn[d]),
                                        !.version = @ + 1]
      BY <1>3 DEF SettledDraws
    <2> HIDE DEF next, after
    <2>4. call.drawn[d] \in DrawRow /\ after \in DrawRow
      BY <2>1, <2>2, <2>3, SettlingTyped
    <2>5. call.drawn[d] # NoDraw /\ after # NoDraw
      BY <2>4 DEF DrawRow, NoDraw
    <2>6. draws[d] = call.drawn[d]
      BY <1>1, <2>1, <2>5 DEF Honest, DrawsReadAreOlder, DrawUnmoved
    <2>7. after.source = draws[d].source /\ after.amount = draws[d].amount
      BY <2>3, <2>4, <2>6 DEF DrawRow
    <2>8. IsLive(draws[d])
      BY <2>1, <2>6 DEF Settles
    <2> QED BY <2>5, <2>6, <2>7, <2>8 DEF DrawKept, after, next
  <1> QED BY <1>2, <1>3

\* The draw a call asked for comes to be, and the call is over.
DrawAskedForCreated ==
    \E c \in Call, d \in Draw :
        LET s == draws'[d].source IN
        /\ draws[d] = NoDraw
        /\ Asks(calls[c], s) /\ draws'[d].amount = calls[c].amount
        /\ \A e \in Draw \ {d} : DrawStays(e)
        /\ Returns(c) /\ funds' = funds

\* A step keeps every draw, or creates one a call asked for.
LEMMA HowFundsAreDrawnOn ==
    ASSUME IInv, Next
    PROVE  (\A e \in Draw : DrawStays(e)) \/ DrawAskedForCreated
  <1>1. draws \in DrawTable
    BY DEF IInv, TypeOK
  <1>2. \A e \in Draw : draws'[e] = draws[e] => DrawStays(e)
    BY DEF DrawStays, DrawKept
  <1>3. ASSUME NEW c \in Call, CommitMove(c)
        PROVE  (\A e \in Draw : DrawStays(e)) \/ DrawAskedForCreated
    <2> DEFINE call == calls[c]
               next == Moved(Patched(call), call.to)
               after == SettledDraws(call, next)
               new == NewDraw(Wage, call.app, call.amount, TRUE)
    <2>1. call \in DecidingCall /\ call.at = "deciding"
      BY <1>3, CallShapes DEF CommitMove, IInv, TypeOK
    <2>2. \A e \in Draw : DrawKept(draws[e], after[e])
                          /\ (draws[e] = NoDraw => after[e] = NoDraw)
      BY <1>3, SettledDrawsKept
    <2>3. CASE draws' = after
      BY <2>2, <2>3 DEF DrawStays
    <2>4. CASE call.draft /\ \E d \in Draw : draws[d] = NoDraw
                                             /\ draws' = [after EXCEPT ![d] = new]
      <3>1. PICK d \in Draw : draws[d] = NoDraw /\ draws' = [after EXCEPT ![d] = new]
        BY <2>4
      <3>2. Asks(call, Wage) /\ Returns(c) /\ funds' = funds
        BY <1>3, <2>1, <2>4 DEF Asks, CommitMove
      <3>3. new.source = Wage /\ new.amount = call.amount
        BY DEF NewDraw
      <3>4. DOMAIN after = Draw
        BY DEF SettledDraws
      <3> HIDE DEF after, new
      <3>5. draws'[d] = new /\ \A e \in Draw \ {d} : draws'[e] = after[e]
        BY <3>1, <3>4
      <3>6. \A e \in Draw \ {d} : DrawStays(e)
        BY <2>2, <3>5 DEF DrawStays
      <3> QED BY <3>1, <3>2, <3>3, <3>5, <3>6 DEF DrawAskedForCreated
    <2> QED BY <1>3, <2>3, <2>4 DEF CommitMove
  <1>4. ASSUME NEW c \in Call, CommitDraw(c)
        PROVE  DrawAskedForCreated
    <2> DEFINE call == calls[c]
               new == NewDraw(call.source, call.app, call.amount, FALSE)
    <2>1. call \in PromisingCall /\ call.at = "promising"
      BY <1>4, CallShapes DEF CommitDraw, IInv, TypeOK
    <2>2. PICK d \in Draw : draws[d] = NoDraw /\ draws' = [draws EXCEPT ![d] = new]
      BY <1>4 DEF CommitDraw
    <2>3. /\ Asks(call, call.source) /\ Returns(c) /\ funds' = funds
          /\ new.source = call.source /\ new.amount = call.amount
      BY <1>4, <2>1 DEF Asks, CommitDraw, NewDraw
    <2> HIDE DEF new
    <2>4. draws'[d] = new /\ \A e \in Draw \ {d} : draws'[e] = draws[e]
      BY <1>1, <2>2 DEF DrawTable
    <2>5. \A e \in Draw \ {d} : DrawStays(e)
      BY <1>2, <2>4
    <2> QED BY <2>2, <2>3, <2>4, <2>5 DEF DrawAskedForCreated
  <1>5. ASSUME NEW c \in Call, CommitRelease(c), NEW e \in Draw PROVE DrawStays(e)
    <2> DEFINE call == calls[c]
               released == [call.draw EXCEPT !.status = "released", !.version = @ + 1]
    <2>1. call \in ReleasingCall /\ call.at = "releasing" /\ Honest(call)
      BY <1>5, CallShapes DEF CommitRelease, IInv, TypeOK
    <2>2. call.draw = draws[call.id] /\ call.draw \in DrawRow /\ call.id \in Draw
      BY <1>5, <2>1 DEF Honest, DrawReleasedIsOlder, CommitRelease, DrawUnmoved,
         ReleasingCall
    <2>3. /\ released.status = "released"
          /\ released.source = call.draw.source /\ released.amount = call.draw.amount
      BY <2>2 DEF DrawRow
    <2>4. /\ NoDraw.status = "none" /\ call.draw.status # "none"
          /\ ~IsLive(released)
      BY <2>2, <2>3 DEF NoDraw, IsLive, DrawRow
    <2>5. draws' = [draws EXCEPT ![call.id] = released]
      BY <1>5 DEF CommitRelease
    <2> HIDE DEF released
    <2>6. CASE e = call.id
      <3>1. draws'[e] = released
        BY <1>1, <2>2, <2>5, <2>6 DEF DrawTable
      <3> QED BY <2>2, <2>3, <2>4, <2>6, <3>1 DEF DrawStays, DrawKept
    <2>7. CASE e # call.id
      BY <1>1, <1>2, <2>5, <2>7 DEF DrawTable
    <2> QED BY <2>6, <2>7
  <1>6. ASSUME NEW c \in Call,
               \/ BeginTransition(c) \/ BeginOverride(c) \/ BeginAuthorize(c)
               \/ AuthorizeReads(c) \/ Decide(c)
               \/ BeginLog(c) \/ LogReads(c) \/ CommitLog(c)
               \/ BeginReview(c) \/ ReviewReadsRow(c) \/ ReviewReadsSiblings(c)
               \/ CommitReview(c) \/ BeginCommit(c) \/ CommitReads(c)
               \/ BeginRelease(c) \/ BeginAdjust(c) \/ CommitAdjust(c) \/ Abandon(c)
        PROVE  draws' = draws
    BY <1>6 DEF BeginTransition, BeginOverride, BeginAuthorize, AuthorizeReads, Decide,
       BeginLog, LogReads, CommitLog, BeginReview, ReviewReadsRow, ReviewReadsSiblings,
       CommitReview, BeginCommit, CommitReads, BeginRelease, BeginAdjust, CommitAdjust,
       Abandon, tables
  <1>7. draws' = draws => \A e \in Draw : DrawStays(e)
    BY <1>2
  <1>8. PICK c \in Call :
            \/ BeginTransition(c) \/ BeginOverride(c) \/ BeginAuthorize(c)
            \/ AuthorizeReads(c) \/ Decide(c) \/ CommitMove(c)
            \/ BeginLog(c) \/ LogReads(c) \/ CommitLog(c)
            \/ BeginReview(c) \/ ReviewReadsRow(c) \/ ReviewReadsSiblings(c)
            \/ CommitReview(c)
            \/ BeginCommit(c) \/ CommitReads(c) \/ CommitDraw(c)
            \/ BeginRelease(c) \/ CommitRelease(c)
            \/ BeginAdjust(c) \/ CommitAdjust(c)
            \/ Abandon(c)
    BY DEF Next
  <1> QED BY <1>3, <1>4, <1>5, <1>6, <1>7, <1>8

\* What is not there before or after a step was created by it, one draw at most.
LEMMA DrawnStaysFinite ==
    ASSUME IInv, IsFiniteSet(Drawn), Next
    PROVE  IsFiniteSet(Drawn')
  <1>1. PICK d : Drawn' \subseteq Drawn \cup {d}
    <2>1. CASE \A e \in Draw : DrawStays(e)
      BY <2>1 DEF Drawn, DrawStays
    <2>2. CASE DrawAskedForCreated
      BY <2>2 DEF Drawn, DrawStays, DrawAskedForCreated
    <2> QED BY <2>1, <2>2, HowFundsAreDrawnOn
  <1>2. IsFiniteSet(Drawn \cup {d})
    BY FS_AddElement
  <1> QED BY <1>1, <1>2, FS_Subset

\* What a call newly asks for fits what is left of the fund, as it is at that
\* moment or was when the call read it, and so fits the largest allocation.
Fits(call, most) ==
    /\ Prudent(call, most)
    /\ \A s \in Source :
          Asks(call, s) => draws' = draws /\ Committed(draws, s) + call.amount <= most

\* An amount that fits what remains of a fund fits beside what is committed.
LEMMA RemainingFits ==
    ASSUME NEW table, NEW fund, NEW s, NEW amount \in Nat, NEW most \in Nat,
           Committed(table, s) \in Nat, fund.allocated \in Nat, fund.allocated <= most,
           amount <= Remaining(table, fund, s)
    PROVE  amount <= most /\ Committed(table, s) + amount <= most
  BY DEF Remaining

\* One call takes a step, and what it then asks for fits.
LEMMA WhoAsks ==
    ASSUME IInv, Next, NEW most \in Nat, Bounds(most),
           \A c \in Call : Prudent(calls[c], most),
           \A s \in Source : funds[s].allocated <= most,
           \A s \in Source : Committed(draws, s) \in Nat
    PROVE  \E c \in Call : \E held : Holds(c, held) /\ Fits(held, most)
  <1>1. ASSUME NEW c \in Call, NEW held, Holds(c, held),
               held.at \in {"idle", "drafting", "logging", "logged", "reviewing",
                            "weighing", "signing", "releasing"}
        PROVE  \E b \in Call : \E h : Holds(b, h) /\ Fits(h, most)
    <2>1. Fits(held, most)
      BY <1>1 DEF Fits, Prudent, Asks
    <2> QED BY <1>1, <2>1
  <1>2. ASSUME NEW c \in Call, Returns(c)
        PROVE  \E b \in Call : \E h : Holds(b, h) /\ Fits(h, most)
    BY <1>1, <1>2 DEF Returns, Idle
  <1>3. ASSUME NEW c \in Call,
               CommitMove(c) \/ CommitLog(c) \/ CommitReview(c) \/ CommitDraw(c)
               \/ CommitRelease(c) \/ CommitAdjust(c) \/ Abandon(c)
        PROVE  Returns(c)
    BY <1>3 DEF CommitMove, CommitLog, CommitReview, CommitDraw, CommitRelease,
       CommitAdjust, Abandon
  <1>4. ASSUME NEW c \in Call,
               BeginAuthorize(c) \/ BeginLog(c) \/ LogReads(c) \/ BeginReview(c)
               \/ ReviewReadsRow(c) \/ ReviewReadsSiblings(c) \/ BeginRelease(c)
        PROVE  \E b \in Call : \E h : Holds(b, h) /\ Fits(h, most)
    BY <1>1, <1>4 DEF BeginAuthorize, BeginLog, LogReads, BeginReview,
       ReviewReadsRow, ReviewReadsSiblings, BeginRelease
  <1>5. ASSUME NEW c \in Call, BeginTransition(c) \/ BeginOverride(c)
        PROVE  \E b \in Call : \E h : Holds(b, h) /\ Fits(h, most)
    <2>1. PICK a, to, role : ReadForMove(c, a, to, role, 0, FALSE)
      BY <1>5 DEF BeginTransition, BeginOverride
    <2> DEFINE held == [at |-> "moving", app |-> a, to |-> to, role |-> role,
                        amount |-> 0, draft |-> FALSE, row |-> apps[a]]
    <2>2. Fits(held, most)
      BY DEF Fits, Prudent, Asks
    <2> QED BY <2>1, <2>2 DEF ReadForMove
  <1>6. ASSUME NEW c \in Call, AuthorizeReads(c)
        PROVE  \E b \in Call : \E h : Holds(b, h) /\ Fits(h, most)
    <2> DEFINE call == calls[c]
               held == [at |-> "moving", app |-> call.app, to |-> "funding_authorized",
                        role |-> "board", amount |-> call.amount, draft |-> call.draft,
                        row |-> apps[call.app]]
    <2>1. call.amount # 0
      BY <1>6, CallShapes DEF AuthorizeReads, IInv, TypeOK, DraftingCall
    <2>2. Fits(held, most)
      BY <2>1 DEF Fits, Prudent, Asks
    <2> QED BY <1>6, <2>2 DEF AuthorizeReads, ReadForMove
  <1>7. ASSUME NEW c \in Call, Decide(c)
        PROVE  \E b \in Call : \E h : Holds(b, h) /\ Fits(h, most)
    <2> DEFINE call  == calls[c]
               guard == Guard(Patched(call), call.to, call.app)
               Held(roles) ==
                   [at |-> "deciding", app |-> call.app, to |-> call.to,
                    row |-> call.row, amount |-> call.amount, draft |-> call.draft,
                    drawn |-> DrawsOf(draws, call.app),
                    viaOverride |-> Overrides(roles, call.role, guard, TRUE)]
    <2>1. PICK t \in TransitionsFrom(call.row.status, "standard") :
             Attempt(t.roles, call.role, guard, TRUE) /\ Holds(c, Held(t.roles))
      BY <1>7 DEF Decide
    <2>2. call \in MovingCall /\ Prudent(call, most) /\ call.at = "moving"
      BY <1>7, CallShapes DEF Decide, IInv, TypeOK
    <2>3. call.draft => call.amount <= most /\ Committed(draws, Wage) + call.amount <= most
      <3> SUFFICES ASSUME call.draft
                   PROVE  call.amount <= most
                          /\ Committed(draws, Wage) + call.amount <= most
        OBVIOUS
      <3>1. /\ call.role = "board" /\ call.to = "funding_authorized"
            /\ call.amount # 0 /\ call.amount \in Nat
        BY <2>2 DEF Prudent, MovingCall
      <3>2. guard
        BY <2>1, <3>1 DEF Attempt, Permitted, Overrides
      <3>3. Patched(call).authorized = call.amount
        BY <2>2, <3>1 DEF Patched, MovingCall, AppRow
      <3>4. call.amount <= Remaining(draws, funds[Wage], Wage)
        BY <3>1, <3>2, <3>3 DEF Guard, AffordableByTheFund
      <3>5. Wage \in Source
        BY PlacementAssumption DEF PlacementAssumption
      <3>6. funds[Wage] \in FundRow
        BY <3>5 DEF IInv, TypeOK
      <3>7. funds[Wage].allocated \in Nat
        BY <3>6 DEF FundRow
      <3> QED BY <3>1, <3>4, <3>5, <3>7, RemainingFits
    <2>4. draws' = draws
      BY <1>7 DEF Decide, tables
    <2> DEFINE held == Held(t.roles)
    <2>5. held.at = "deciding" /\ held.draft = call.draft /\ held.amount = call.amount
      OBVIOUS
    <2> HIDE DEF Held, guard
    <2>6. Fits(held, most)
      BY <2>3, <2>4, <2>5 DEF Fits, Prudent, Asks
    <2> QED BY <2>1, <2>6
  <1>8. ASSUME NEW c \in Call, BeginCommit(c)
        PROVE  \E b \in Call : \E h : Holds(b, h) /\ Fits(h, most)
    <2>1. PICK s \in Source \ Closed, a \in App \cup {Unplaced}, amount \in Amount :
             Holds(c, [at |-> "pricing", source |-> s, app |-> a,
                       amount |-> amount, fund |-> funds[s]])
      BY <1>8 DEF BeginCommit
    <2> DEFINE held == [at |-> "pricing", source |-> s, app |-> a,
                        amount |-> amount, fund |-> funds[s]]
    <2>2. Fits(held, most)
      BY DEF Fits, Prudent, Asks
    <2> QED BY <2>1, <2>2
  <1>9. ASSUME NEW c \in Call, CommitReads(c)
        PROVE  \E b \in Call : \E h : Holds(b, h) /\ Fits(h, most)
    <2> DEFINE call == calls[c]
               held == [at |-> "promising", source |-> call.source, app |-> call.app,
                        amount |-> call.amount]
    <2>1. call \in PricingCall /\ Prudent(call, most) /\ call.at = "pricing"
      BY <1>9, CallShapes DEF CommitReads, IInv, TypeOK
    <2>2. /\ call.source \in Source /\ call.amount \in Nat
          /\ call.fund.allocated \in Nat /\ call.fund.allocated <= most
      BY <2>1 DEF PricingCall, FundRow, Prudent
    <2>3. call.amount <= Remaining(draws, call.fund, call.source) /\ draws' = draws
      BY <1>9 DEF CommitReads, tables
    <2>4. call.amount <= most /\ Committed(draws, call.source) + call.amount <= most
      BY <2>2, <2>3, RemainingFits
    <2>5. Fits(held, most)
      BY <2>3, <2>4 DEF Fits, Prudent, Asks
    <2> QED BY <1>9, <2>5 DEF CommitReads
  <1>10. ASSUME NEW c \in Call, BeginAdjust(c)
         PROVE  \E b \in Call : \E h : Holds(b, h) /\ Fits(h, most)
    <2>1. PICK s \in Source \ Closed, figure \in Allocation :
             Holds(c, [at |-> "adjusting", source |-> s, figure |-> figure,
                       fund |-> funds[s]])
      BY <1>10 DEF BeginAdjust
    <2> DEFINE held == [at |-> "adjusting", source |-> s, figure |-> figure,
                        fund |-> funds[s]]
    <2>2. Fits(held, most)
      BY <2>1 DEF Fits, Prudent, Asks, Bounds
    <2> QED BY <2>1, <2>2
  <1> QED BY <1>2, <1>3, <1>4, <1>5, <1>6, <1>7, <1>8, <1>9, <1>10 DEF Next

\* No step sets an allocation beyond the largest figure.
LEMMA AllocationsBounded ==
    ASSUME IInv, Next, NEW most \in Nat,
           \A c \in Call : Prudent(calls[c], most),
           \A s \in Source : funds[s].allocated <= most
    PROVE  \A s \in Source : funds'[s].allocated <= most
  <1>1. ASSUME NEW c \in Call, CommitAdjust(c), NEW s \in Source
        PROVE  funds'[s].allocated <= most
    <2>1. calls[c] \in AdjustingCall /\ calls[c].figure <= most
      BY <1>1, CallShapes DEF CommitAdjust, IInv, TypeOK, Prudent
    <2>2. calls[c].fund \in FundRow /\ funds \in [Source -> FundRow]
      BY <2>1 DEF AdjustingCall, IInv, TypeOK
    <2> DEFINE row == [calls[c].fund EXCEPT !.allocated = calls[c].figure, !.version = @ + 1]
    <2>3. row.allocated = calls[c].figure
      BY <2>2 DEF FundRow
    <2>4. funds' = [funds EXCEPT ![calls[c].source] = row]
      BY <1>1 DEF CommitAdjust
    <2> HIDE DEF row
    <2>5. funds'[s] = IF s = calls[c].source THEN row ELSE funds[s]
      BY <2>2, <2>4
    <2> QED BY <2>1, <2>3, <2>5
  <1>2. ASSUME NEW c \in Call,
               \/ BeginTransition(c) \/ BeginOverride(c) \/ BeginAuthorize(c)
               \/ AuthorizeReads(c) \/ Decide(c) \/ CommitMove(c)
               \/ BeginLog(c) \/ LogReads(c) \/ CommitLog(c)
               \/ BeginReview(c) \/ ReviewReadsRow(c) \/ ReviewReadsSiblings(c)
               \/ CommitReview(c) \/ BeginCommit(c) \/ CommitReads(c) \/ CommitDraw(c)
               \/ BeginRelease(c) \/ CommitRelease(c) \/ BeginAdjust(c) \/ Abandon(c)
        PROVE  funds' = funds
    BY <1>2 DEF BeginTransition, BeginOverride, BeginAuthorize, AuthorizeReads, Decide,
       CommitMove, BeginLog, LogReads, CommitLog, BeginReview, ReviewReadsRow,
       ReviewReadsSiblings, CommitReview, BeginCommit, CommitReads, CommitDraw,
       BeginRelease, CommitRelease, BeginAdjust, Abandon, tables
  <1>3. PICK c \in Call :
            \/ BeginTransition(c) \/ BeginOverride(c) \/ BeginAuthorize(c)
            \/ AuthorizeReads(c) \/ Decide(c) \/ CommitMove(c)
            \/ BeginLog(c) \/ LogReads(c) \/ CommitLog(c)
            \/ BeginReview(c) \/ ReviewReadsRow(c) \/ ReviewReadsSiblings(c)
            \/ CommitReview(c)
            \/ BeginCommit(c) \/ CommitReads(c) \/ CommitDraw(c)
            \/ BeginRelease(c) \/ CommitRelease(c)
            \/ BeginAdjust(c) \/ CommitAdjust(c)
            \/ Abandon(c)
    BY DEF Next
  <1>4. funds' = funds \/ CommitAdjust(c)
    BY <1>2, <1>3
  <1> QED BY <1>1, <1>4

\* Finitely many draws add up to a number.
LEMMA CommittedIsNat ==
    ASSUME draws \in DrawTable, IsFiniteSet(Drawn), NEW s
    PROVE  Committed(draws, s) \in Nat /\ IsFiniteSet(LiveOn(draws, s))
  <1>1. LiveOn(draws, s) \subseteq Drawn
    BY DEF LiveOn, Drawn, IsLive, NoDraw
  <1>2. IsFiniteSet(LiveOn(draws, s))
    BY <1>1, FS_Subset
  <1> QED BY <1>2, CommittedToFewer

\* Draws that stay come to no more, and one that is created adds its amount.
LEMMA CommittedAfter ==
    ASSUME draws \in DrawTable, draws' \in DrawTable, IsFiniteSet(Drawn), NEW s,
           NEW d \in Draw, \A e \in Draw \ {d} : DrawStays(e)
    PROVE  /\ DrawStays(d) \/ draws'[d] = NoDraw \/ draws'[d].source # s =>
                Committed(draws', s) <= Committed(draws, s)
           /\ draws'[d] # NoDraw =>
                Committed(draws', s) <= Committed(draws, s) + draws'[d].amount
  <1>1. NoDraw.status = "none" /\ ~IsLive(NoDraw)
    BY DEF NoDraw, IsLive
  <1>2. ASSUME NEW e \in LiveOn(draws', s), DrawStays(e)
        PROVE  e \in LiveOn(draws, s) /\ draws'[e].amount = draws[e].amount
    BY <1>1, <1>2 DEF LiveOn, DrawStays, DrawKept
  <1>3. IsFiniteSet(LiveOn(draws, s)) /\ Committed(draws, s) \in Nat
    BY CommittedIsNat
  <1>4. /\ LiveOn(draws', s) \ {d} \subseteq LiveOn(draws, s)
        /\ \A e \in LiveOn(draws', s) \ {d} : draws'[e].amount = draws[e].amount
    BY <1>2 DEF LiveOn
  <1>5. ASSUME LiveOn(draws', s) \subseteq LiveOn(draws, s),
               \A e \in LiveOn(draws', s) : draws'[e].amount = draws[e].amount
        PROVE  Committed(draws', s) <= Committed(draws, s) /\ Committed(draws', s) \in Nat
    BY <1>3, <1>5, CommittedToFewer
  <1>6. CASE d \notin LiveOn(draws', s)
    <2>1. LiveOn(draws', s) \ {d} = LiveOn(draws', s)
      BY <1>6
    <2>2. Committed(draws', s) <= Committed(draws, s) /\ Committed(draws', s) \in Nat
      BY <1>4, <1>5, <2>1
    <2>3. draws'[d] # NoDraw => draws'[d].amount \in Nat
      BY DEF DrawTable, DrawRow
    <2> QED BY <1>3, <2>2, <2>3
  <1>7. CASE d \in LiveOn(draws', s)
    <2>1. draws'[d] # NoDraw /\ draws'[d].source = s
      BY <1>1, <1>7 DEF LiveOn
    <2>2. draws'[d].amount \in Nat
      BY <2>1 DEF DrawTable, DrawRow
    <2>3. Committed(draws', s) <= draws'[d].amount + Committed(draws, s)
      BY <1>3, <1>4, <1>7, CommittedToOneMore
    <2>4. IsFiniteSet(LiveOn(draws', s))
      <3>1. LiveOn(draws', s) \subseteq LiveOn(draws, s) \cup {d}
        BY <1>4
      <3>2. IsFiniteSet(LiveOn(draws, s) \cup {d})
        BY <1>3, FS_AddElement
      <3> QED BY <3>1, <3>2, FS_Subset
    <2>5. Committed(draws', s) \in Nat
      BY <2>4, CommittedToFewer
    <2>6. DrawStays(d) => Committed(draws', s) <= Committed(draws, s)
      BY <1>2, <1>4, <1>5, <1>7
    <2> QED BY <1>3, <2>1, <2>2, <2>3, <2>5, <2>6
  <1> QED BY <1>6, <1>7

\* The step of the invariant: a call that finds room is the last to have found it, one
\* that draws gives up its place, and nothing else adds to what is promised.
LEMMA LedgerStep ==
    ASSUME IsFiniteSet(Call), IInv, IInv', Next, NEW most \in Nat, Bounds(most),
           Ledger(most)
    PROVE  Ledger(most)'
  <1>1. draws \in DrawTable /\ draws' \in DrawTable
    BY DEF IInv, TypeOK
  <1>2. IsFiniteSet(Drawn) /\ IsFiniteSet(Drawn')
    BY DrawnStaysFinite DEF Ledger
  <1>3. \A s \in Source : Committed(draws, s) \in Nat /\ Committed(draws', s) \in Nat
    <2>1. \A s \in Source : Committed(draws, s) \in Nat
      BY <1>1, <1>2, CommittedIsNat
    <2>2. \A s \in Source : IsFiniteSet(LiveOn(draws', s))
      <3>1. \A s \in Source : LiveOn(draws', s) \subseteq Drawn'
        BY DEF LiveOn, Drawn, IsLive, NoDraw
      <3> QED BY <1>2, <3>1, FS_Subset
    <2>3. \A s \in Source : Committed(draws', s) \in Nat
      BY <1>1, <2>2, CommittedToFewer
    <2> QED BY <2>1, <2>3
  <1>4. \A s \in Source : funds'[s].allocated <= most
    BY AllocationsBounded DEF Ledger
  <1>5. ASSUME NEW b \in Call, NEW s, Asks(calls[b], s) PROVE calls[b].amount \in Nat
    BY <1>5, CallShapes DEF IInv, TypeOK, Asks, DecidingCall, PromisingCall
  <1>6. ASSUME NEW c \in Call, NEW held, Holds(c, held)
        PROVE  /\ calls'[c] = held
               /\ \A b \in Call \ {c} : calls'[b] = calls[b]
    BY <1>6 DEF Holds, IInv, TypeOK
  <1>7. CASE \E c \in Call : \E held :
                /\ Holds(c, held) /\ Fits(held, most)
                /\ \A e \in Draw : DrawStays(e)
    <2>1. PICK c \in Call : \E held :
                /\ Holds(c, held) /\ Fits(held, most)
                /\ \A e \in Draw : DrawStays(e)
      BY <1>7
    <2>2. /\ Fits(calls'[c], most)
          /\ \A b \in Call \ {c} : calls'[b] = calls[b]
          /\ \A e \in Draw : DrawStays(e)
      BY <1>6, <2>1
    <2>3. \A b \in Call : Prudent(calls'[b], most)
      BY <2>2 DEF Ledger, Fits
    <2>4. ASSUME NEW s \in Source
          PROVE  Room(Committed(draws', s), Asking(s)', calls', most)
      <3>1. CASE Asks(calls'[c], s)
        <4>1. draws' = draws /\ Committed(draws', s) + calls'[c].amount <= most
          BY <2>2, <3>1 DEF Fits
        <4>2. Asking(s)' \in SUBSET Call /\ c \in Asking(s)'
          BY <3>1 DEF Asking
        <4>3. calls'[c].amount \in Nat
          BY <3>1, CallShapes DEF IInv, TypeOK, Asks, DecidingCall, PromisingCall
        <4> QED BY <1>3, <4>1, <4>2, <4>3, RoomFound
      <3>2. CASE ~Asks(calls'[c], s)
        <4>1. Asking(s)' = Asking(s) \ {c}
          BY <2>2, <3>2 DEF Asking
        <4>2. Committed(draws', s) <= Committed(draws, s)
          <5>1. CASE Draw = {}
            <6>1. LiveOn(draws', s) \subseteq LiveOn(draws, s)
              BY <5>1 DEF LiveOn
            <6>2. \A d \in LiveOn(draws', s) : draws'[d].amount = draws[d].amount
              BY <5>1 DEF LiveOn
            <6>3. IsFiniteSet(LiveOn(draws, s))
              BY <1>1, <1>2, CommittedIsNat
            <6> QED BY <1>1, <6>1, <6>2, <6>3, CommittedToFewer
          <5>2. CASE Draw # {}
            <6>1. PICK d \in Draw : TRUE
              BY <5>2
            <6> QED BY <1>1, <1>2, <2>2, <6>1, CommittedAfter
          <5> QED BY <5>1, <5>2
        <4>3. /\ Asking(s) \in SUBSET Call
              /\ \A b \in Asking(s) : calls[b].amount \in Nat
              /\ \A b \in Asking(s) \ {c} : calls'[b] = calls[b]
          BY <1>5, <2>2 DEF Asking
        <4>4. Room(Committed(draws, s), Asking(s), calls, most)
          BY DEF Ledger
        <4>5. Room(Committed(draws', s), Asking(s) \ {c}, calls', most)
          BY <1>3, <4>2, <4>3, <4>4, RoomKept
        <4> QED BY <4>1, <4>5
      <3> QED BY <3>1, <3>2
    <2> QED BY <1>2, <1>4, <2>3, <2>4 DEF Ledger
  <1>8. CASE DrawAskedForCreated
    <2>1. PICK c \in Call, d \in Draw :
             /\ draws[d] = NoDraw
             /\ Asks(calls[c], draws'[d].source) /\ draws'[d].amount = calls[c].amount
             /\ \A e \in Draw \ {d} : DrawStays(e)
             /\ Returns(c) /\ funds' = funds
      BY <1>8 DEF DrawAskedForCreated
    <2>2. calls'[c] = Idle /\ \A b \in Call \ {c} : calls'[b] = calls[b]
      BY <1>6, <2>1 DEF Returns
    <2>3. \A b \in Call : Prudent(calls'[b], most)
      BY <2>2 DEF Ledger, Prudent, Idle
    <2>4. ASSUME NEW s \in Source
          PROVE  Room(Committed(draws', s), Asking(s)', calls', most)
      <3>1. Asking(s)' = Asking(s) \ {c}
        BY <2>2 DEF Asking, Asks, Idle
      <3>2. /\ Asking(s) \in SUBSET Call
            /\ \A b \in Asking(s) : calls[b].amount \in Nat
            /\ \A b \in Asking(s) \ {c} : calls'[b] = calls[b]
        BY <1>5, <2>2 DEF Asking
      <3>3. Room(Committed(draws, s), Asking(s), calls, most)
        BY DEF Ledger
      <3>4. CASE draws'[d] # NoDraw /\ draws'[d].source = s
        <4>1. Committed(draws', s) <= Committed(draws, s) + calls[c].amount
          BY <1>1, <1>2, <2>1, <3>4, CommittedAfter
        <4>2. c \in Asking(s)
          BY <2>1, <3>4 DEF Asking
        <4>3. calls[c].amount <= most
          BY <2>1 DEF Ledger, Prudent, Asks
        <4>4. Room(Committed(draws', s), Asking(s) \ {c}, calls', most)
          BY <1>3, <3>2, <3>3, <4>1, <4>2, <4>3, RoomSpent
        <4> QED BY <3>1, <4>4
      <3>5. CASE draws'[d] = NoDraw \/ draws'[d].source # s
        <4>1. Committed(draws', s) <= Committed(draws, s)
          BY <1>1, <1>2, <2>1, <3>5, CommittedAfter
        <4>2. Room(Committed(draws', s), Asking(s) \ {c}, calls', most)
          BY <1>3, <3>2, <3>3, <4>1, RoomKept
        <4> QED BY <3>1, <4>2
      <3> QED BY <3>4, <3>5
    <2> QED BY <1>2, <1>4, <2>3, <2>4 DEF Ledger
  <1>9. \E c \in Call : \E held : Holds(c, held) /\ Fits(held, most)
    BY <1>3, WhoAsks DEF Ledger
  <1> QED BY <1>7, <1>8, <1>9, HowFundsAreDrawnOn

\* At first nothing is drawn and nobody asks.
LEMMA LedgerAtFirst ==
    ASSUME IsFiniteSet(Call), Init, NEW most \in Nat, Bounds(most)
    PROVE  Ledger(most)
  <1>1. Drawn = {}
    BY DEF Init, InitTables, Drawn
  <1>2. \A c \in Call : Prudent(calls[c], most)
    BY DEF Init, Idle, Prudent
  <1>3. ASSUME NEW s \in Source PROVE funds[s].allocated <= most
    <2>1. funds[s] \in [allocated : Allocation, version : {1}]
      BY DEF Init, InitTables
    <2>2. funds[s].allocated \in Allocation
      BY <2>1
    <2> QED BY <2>2 DEF Bounds
  <1>4. ASSUME NEW s \in Source
        PROVE  Room(Committed(draws, s), Asking(s), calls, most)
    <2>1. IsFiniteSet(Drawn) /\ draws \in DrawTable
      BY <1>1, FS_EmptySet DEF Init, InitTables, DrawTable
    <2>2. LiveOn(draws, s) = {}
      BY DEF Init, InitTables, LiveOn, IsLive, NoDraw
    <2>3. Committed(draws, s) = 0
      BY <2>2 DEF Committed, MapThenSumSet, MapThenFoldSet
    <2>4. Asking(s) = {}
      BY DEF Init, Idle, Asking, Asks
    <2>5. (Cardinality(Call) - Cardinality({})) * most \in Nat
      BY SpareIsNat
    <2> QED BY <2>3, <2>4, <2>5 DEF Room
  <1> QED BY <1>1, <1>2, <1>3, <1>4, FS_EmptySet DEF Ledger

\* However many calls find room in a fund at once, and however often, it never promises
\* more than one allocation for each call: races for the last dollar never add up
\* (commitBlockReason, the funding guard).
THEOREM OverpromiseIsBounded ==
    ASSUME IsFiniteSet(Call)
    PROVE  Spec => []OverpromisedOnlyByRace
  <1>1. ASSUME NEW most \in Nat, Bounds(most)
        PROVE  Spec => []Ledger(most)
    <2>1. Init => Ledger(most)
      BY <1>1, LedgerAtFirst
    <2>2. IInv /\ IInv' /\ Ledger(most) /\ [Next]_vars => Ledger(most)'
      <3>1. Ledger(most) /\ UNCHANGED vars => Ledger(most)'
        BY DEF vars, Ledger, Drawn, Asking
      <3>2. IInv /\ IInv' /\ Ledger(most) /\ Next => Ledger(most)'
        BY <1>1, LedgerStep
      <3> QED BY <3>1, <3>2
    <2> QED BY <2>1, <2>2, Safety, PTL DEF Spec
  <1>2. ASSUME NEW most \in Nat
        PROVE  IInv /\ Ledger(most)
               => \A s \in Source : Committed(draws, s) <= Cardinality(Call) * most
    <2> SUFFICES ASSUME IInv, Ledger(most), NEW s \in Source
                 PROVE  Committed(draws, s) <= Cardinality(Call) * most
      OBVIOUS
    <2>1. Committed(draws, s) \in Nat
      BY CommittedIsNat DEF IInv, TypeOK, Ledger
    <2>2. /\ Asking(s) \in SUBSET Call
          /\ \A c \in Asking(s) : calls[c].amount \in Nat
      BY CallShapes DEF IInv, TypeOK, Asking, Asks, DecidingCall, PromisingCall
    <2> QED BY <2>1, <2>2, RoomBounds DEF Ledger
  <1>3. Allocation \subseteq Nat
    BY PlacementAssumption DEF PlacementAssumption
  <1>4. ASSUME NEW most \in Allocation, \A figure \in Allocation : figure <= most
        PROVE  Spec => [](\A s \in Source : Committed(draws, s) <= Cardinality(Call) * most)
    <2>1. most \in Nat /\ Bounds(most)
      BY <1>3, <1>4 DEF Bounds
    <2>2. Spec => []Ledger(most)
      BY <1>1, <2>1
    <2>3. IInv /\ Ledger(most)
          => \A s \in Source : Committed(draws, s) <= Cardinality(Call) * most
      BY <1>2, <2>1
    <2> QED BY <2>2, <2>3, Safety, PTL
  <1> DEFINE P(most) == \A s \in Source : Committed(draws, s) <= Cardinality(Call) * most
  <1>5. CASE \E most \in Allocation : \A figure \in Allocation : figure <= most
    <2>1. PICK most \in Allocation : \A figure \in Allocation : figure <= most
      BY <1>5
    <2>2. P(most) => OverpromisedOnlyByRace
      <3> SUFFICES ASSUME P(most), NEW s \in Source, NEW other \in Allocation,
                          \A figure \in Allocation : figure <= other
                   PROVE  Committed(draws, s) <= Cardinality(Call) * other
        BY DEF OverpromisedOnlyByRace
      <3>1. other <= most /\ most <= other /\ other \in Nat /\ most \in Nat
        BY <1>3, <2>1
      <3>2. other = most
        BY <3>1
      <3> QED BY <3>2
    <2>3. Spec => []P(most)
      BY <1>4, <2>1
    <2> HIDE DEF P
    <2> QED BY <2>2, <2>3, PTL
  <1>6. CASE ~\E most \in Allocation : \A figure \in Allocation : figure <= most
    <2>1. OverpromisedOnlyByRace
      BY <1>6 DEF OverpromisedOnlyByRace
    <2> QED BY <2>1, PTL
  <1> QED BY <1>5, <1>6
===============================================================================

------------------------------ MODULE Placement ------------------------------
(***************************************************************************)
(* One market's standard-track placements: the application rows, the weeks *)
(* logged against them, the funds and the draws on them, and every server  *)
(* call that writes one of the four tables.                                *)
(*                                                                         *)
(* A call is not atomic in the code: it awaits each read, decides, and     *)
(* then commits all its writes in one transaction that is refused when a   *)
(* version it checked has moved.  Each await is a step here, so a call     *)
(* holds what it read in calls[c] while others commit under it.  What it   *)
(* writes is built from what it READ, never from the current row.          *)
(***************************************************************************)
EXTENDS PlacementTables

CONSTANTS
    Call,         \* server calls that can be in flight at once
    Handlers,     \* which handlers this instance lets people call
    MaxVersion,   \* bound: no application row is rewritten past this version
    MaxFundVersion \* bound: nor a fund past this one

Handler == {"transition", "override", "authorize", "log", "review",
            "commit", "release", "adjust"}

ASSUME CallAssumption ==
    /\ Handlers \subseteq Handler
    /\ MaxVersion \in Nat /\ MaxFundVersion \in Nat

VARIABLE
    calls        \* Call -> what the call in flight has read so far, or Idle

vars == <<apps, entries, draws, funds, overridden, calls>>
-----------------------------------------------------------------------------
Idle == [at |-> "idle"]

Init == InitTables /\ calls = [c \in Call |-> Idle]
-----------------------------------------------------------------------------
(* Every versioned UPDATE names the version it read; a row that has moved  *)
(* since raises ConcurrencyError and the transaction writes nothing.       *)

\* Mutants: the last write wins.
AppUnchecked(row, a)   == row.version < MaxVersion
EntryUnchecked(row, e) == TRUE
DrawUnchecked(row, d)  == TRUE

AppUnmoved(row, a)   == apps[a].version = row.version /\ row.version < MaxVersion
EntryUnmoved(row, e) == entries[e].version = row.version
DrawUnmoved(row, d)  == draws[d].version = row.version
FundUnmoved(row, s)  == funds[s].version = row.version /\ row.version < MaxFundVersion

Holds(c, held) == calls' = [calls EXCEPT ![c] = held]
Returns(c) == Holds(c, Idle)
-----------------------------------------------------------------------------
(* executeTransition: read the row, then the balances, the draws and the   *)
(* entries, ask the machine, commit.  authorizeFunding reads the draws a   *)
(* first time, on its own, before it calls executeTransition.              *)

Patched(call) ==
    IF call.amount = 0 THEN call.row ELSE [call.row EXCEPT !.authorized = call.amount]

ReadForMove(c, a, t, role, amount, draft) ==
    Holds(c, [at |-> "moving", app |-> a, to |-> t, role |-> role,
              amount |-> amount, draft |-> draft, row |-> apps[a]])

\* A portal asks for a status.  A status the table does not reach from the
\* row that was read is refused with nothing changed, so none is asked for.
BeginTransition(c) ==
    /\ "transition" \in Handlers
    /\ calls[c] = Idle
    /\ \E a \in App :
        \E t \in TransitionsFrom(apps[a].status, "standard") :
        \E role \in t.roles : ReadForMove(c, a, t.to, role, 0, FALSE)
    /\ UNCHANGED tables

\* An administrator asks, with the reason an override needs.
BeginOverride(c) ==
    /\ "override" \in Handlers
    /\ calls[c] = Idle
    /\ \E a \in App :
        \E t \in TransitionsFrom(apps[a].status, "standard") :
          ReadForMove(c, a, t.to, "admin", 0, FALSE)
    /\ UNCHANGED tables

\* The board authorizes an hour cap: the draw is drafted, or skipped because a
\* live one was seen.
BeginAuthorize(c) ==
    /\ "authorize" \in Handlers
    /\ calls[c] = Idle
    /\ \E a \in App, amount \in Amount :
          Holds(c, [at |-> "drafting", app |-> a, amount |-> amount,
                    draft |-> ~CoveredBy(draws, Wage, a)])
    /\ UNCHANGED tables

AuthorizeReads(c) ==
    /\ calls[c].at = "drafting"
    /\ ReadForMove(c, calls[c].app, "funding_authorized", "board",
                   calls[c].amount, calls[c].draft)
    /\ UNCHANGED tables

\* The guards of the standard track, over the row with the patch applied.

AffordableByTheFund(row, to) ==
    to = "funding_authorized" =>
        row.authorized > 0 /\ row.authorized <= Remaining(draws, funds[Wage], Wage)

Guard(row, to, a) ==
    Eligible(to, a) /\ AffordableByTheFund(row, to) /\ HoursReviewed(row, to, a)

\* The balances, the draws and the entries are read one after another and only
\* then looked at together: one step.
Decide(c) ==
    LET call == calls[c] IN
    /\ call.at = "moving"
    /\ \E t \in TransitionsFrom(call.row.status, "standard") :
          /\ t.to = call.to
          /\ Attempt(t.roles, call.role, Guard(Patched(call), call.to, call.app), TRUE)
          /\ Holds(c, [at |-> "deciding", app |-> call.app, to |-> call.to,
                       row |-> call.row, amount |-> call.amount,
                       draft |-> call.draft, drawn |-> DrawsOf(draws, call.app),
                       viaOverride |-> Overrides(t.roles, call.role,
                                         Guard(Patched(call), call.to, call.app), TRUE)])
    /\ UNCHANGED tables

\* The rows the settlement writes over, all of them checked by version.
Settled(call, row) == {d \in Draw : Settles(row, call.drawn[d])}

SettledDraws(call, row) ==
    [d \in Draw |->
        IF d \in Settled(call, row)
        THEN [call.drawn[d] EXCEPT !.status = SettlementFor(row, call.drawn[d]),
                                   !.version = @ + 1]
        ELSE draws[d]]

CommitMove(c) ==
    LET call == calls[c]
        a    == call.app
        next == Moved(Patched(call), call.to)
    IN
    /\ call.at = "deciding"
    /\ AppUnmoved(call.row, a)
    /\ \A d \in Settled(call, next) : DrawUnmoved(call.drawn[d], d)
    /\ apps' = [apps EXCEPT ![a] = next]
    /\ \/ ~call.draft /\ draws' = SettledDraws(call, next)
       \/ /\ call.draft
          /\ ~CoveredBy(draws, Wage, a)
          /\ \E d \in Draw :
               /\ draws[d] = NoDraw
               /\ draws' = [SettledDraws(call, next) EXCEPT
                               ![d] = NewDraw(Wage, a, call.amount, TRUE)]
    /\ overridden' = IF call.viaOverride
                     THEN overridden \cup {<<a, call.to>>} ELSE overridden
    /\ Returns(c)
    /\ UNCHANGED <<entries, funds>>
-----------------------------------------------------------------------------
(* logHours: the application first, then its entries.  The unique index    *)
(* Postgres keeps on (application, week) is left out: it is a backstop,    *)
(* and OneLiveClaimPerWeek says the service never leans on it.             *)

BeginLog(c) ==
    /\ "log" \in Handlers
    /\ calls[c] = Idle
    /\ \E a \in App, w \in Week :
          /\ apps[a].status = "placement_active"
          /\ Holds(c, [at |-> "logging", app |-> a, week |-> w, row |-> apps[a]])
    /\ UNCHANGED tables

LogReads(c) ==
    LET call == calls[c]
        seen == EntriesOf(entries, call.app)
    IN
    /\ call.at = "logging"
    /\ call.week \notin ClaimedWeeks(seen)
    /\ Holds(c, [at |-> "logged", app |-> call.app, week |-> call.week,
                 row |-> call.row, seen |-> seen])
    /\ UNCHANGED tables

CommitLog(c) ==
    LET call == calls[c] IN
    /\ call.at = "logged"
    /\ AppUnmoved(call.row, call.app)
    /\ \E e \in Entry :
        LET entry == [app |-> call.app, week |-> call.week,
                      status |-> "submitted", version |-> 1]
        IN /\ entries[e] = NoEntry
           /\ entries' = [entries EXCEPT ![e] = entry]
           /\ apps' = [apps EXCEPT ![call.app] =
                          Recached(call.row, [call.seen EXCEPT ![e] = entry])]
    /\ Returns(c)
    /\ UNCHANGED <<draws, funds, overridden>>
-----------------------------------------------------------------------------
(* reviewHours: the entry, then its application, then the entry's          *)
(* siblings.  The status of the application is not asked for.              *)

BeginReview(c) ==
    /\ "review" \in Handlers
    /\ calls[c] = Idle
    /\ \E e \in Entry, decision \in {"approved", "rejected"} :
          /\ entries[e].status = "submitted"
          /\ Holds(c, [at |-> "reviewing", id |-> e, decision |-> decision,
                       entry |-> entries[e]])
    /\ UNCHANGED tables

ReviewReadsRow(c) ==
    LET call == calls[c] IN
    /\ call.at = "reviewing"
    /\ Holds(c, [at |-> "weighing", id |-> call.id, decision |-> call.decision,
                 entry |-> call.entry, app |-> call.entry.app,
                 row |-> apps[call.entry.app]])
    /\ UNCHANGED tables

ReviewReadsSiblings(c) ==
    LET call == calls[c] IN
    /\ call.at = "weighing"
    /\ Holds(c, [at |-> "signing", id |-> call.id, decision |-> call.decision,
                 entry |-> call.entry, app |-> call.app, row |-> call.row,
                 seen |-> EntriesOf(entries, call.app)])
    /\ UNCHANGED tables

CommitReview(c) ==
    LET call     == calls[c]
        reviewed == [call.entry EXCEPT !.status = call.decision,
                                       !.version = @ + 1]
    IN
    /\ call.at = "signing"
    /\ EntryUnmoved(call.entry, call.id)
    /\ AppUnmoved(call.row, call.app)
    /\ entries' = [entries EXCEPT ![call.id] = reviewed]
    /\ apps' = [apps EXCEPT ![call.app] =
                   Recached(call.row, [call.seen EXCEPT ![call.id] = reviewed])]
    /\ Returns(c)
    /\ UNCHANGED <<draws, funds, overridden>>
-----------------------------------------------------------------------------
(* services/funding.ts.  Callers are the fund's sponsor or an              *)
(* administrator; anybody else is refused before the first read that       *)
(* matters.  The status of the application is not asked for either.        *)

BeginCommit(c) ==
    /\ "commit" \in Handlers
    /\ calls[c] = Idle
    /\ \E s \in Source \ Closed, a \in App \cup {Unplaced}, amount \in Amount :
          Holds(c, [at |-> "pricing", source |-> s, app |-> a,
                    amount |-> amount, fund |-> funds[s]])
    /\ UNCHANGED tables

\* The draws on the fund are read after the fund; the two decide.
CommitReads(c) ==
    LET call == calls[c] IN
    /\ call.at = "pricing"
    /\ call.app = Unplaced \/ ~CoveredBy(draws, call.source, call.app)
    /\ call.amount <= Remaining(draws, call.fund, call.source)
    /\ Holds(c, [at |-> "promising", source |-> call.source, app |-> call.app,
                 amount |-> call.amount])
    /\ UNCHANGED tables

CommitDraw(c) ==
    LET call == calls[c] IN
    /\ call.at = "promising"
    /\ call.app = Unplaced \/ ~CoveredBy(draws, call.source, call.app)
    /\ \E d \in Draw :
          /\ draws[d] = NoDraw
          /\ draws' = [draws EXCEPT ![d] =
                          NewDraw(call.source, call.app, call.amount, FALSE)]
    /\ Returns(c)
    /\ UNCHANGED <<apps, entries, funds, overridden>>

BeginRelease(c) ==
    /\ "release" \in Handlers
    /\ calls[c] = Idle
    /\ \E d \in Draw :
          /\ draws[d].status = "authorized"
          /\ draws[d].source \notin Closed
          /\ Holds(c, [at |-> "releasing", id |-> d, draw |-> draws[d]])
    /\ UNCHANGED tables

CommitRelease(c) ==
    LET call == calls[c] IN
    /\ call.at = "releasing"
    /\ DrawUnmoved(call.draw, call.id)
    /\ draws' = [draws EXCEPT ![call.id] =
                    [call.draw EXCEPT !.status = "released", !.version = @ + 1]]
    /\ Returns(c)
    /\ UNCHANGED <<apps, entries, funds, overridden>>

BeginAdjust(c) ==
    /\ "adjust" \in Handlers
    /\ calls[c] = Idle
    /\ \E s \in Source \ Closed, figure \in Allocation :
          Holds(c, [at |-> "adjusting", source |-> s, figure |-> figure,
                    fund |-> funds[s]])
    /\ UNCHANGED tables

CommitAdjust(c) ==
    LET call == calls[c] IN
    /\ call.at = "adjusting"
    /\ FundUnmoved(call.fund, call.source)
    /\ funds' = [funds EXCEPT ![call.source] =
                    [call.fund EXCEPT !.allocated = call.figure, !.version = @ + 1]]
    /\ Returns(c)
    /\ UNCHANGED <<apps, entries, draws, overridden>>
-----------------------------------------------------------------------------
\* A call ends without effect: refused, beaten by another write, refused by a
\* unique index, or the process serving it died before the commit.
Abandon(c) ==
    /\ calls[c] # Idle
    /\ Returns(c)
    /\ UNCHANGED tables

Next == \E c \in Call :
    \/ BeginTransition(c) \/ BeginOverride(c) \/ BeginAuthorize(c)
    \/ AuthorizeReads(c) \/ Decide(c) \/ CommitMove(c)
    \/ BeginLog(c) \/ LogReads(c) \/ CommitLog(c)
    \/ BeginReview(c) \/ ReviewReadsRow(c) \/ ReviewReadsSiblings(c) \/ CommitReview(c)
    \/ BeginCommit(c) \/ CommitReads(c) \/ CommitDraw(c)
    \/ BeginRelease(c) \/ CommitRelease(c)
    \/ BeginAdjust(c) \/ CommitAdjust(c)
    \/ Abandon(c)

Spec == Init /\ [][Next]_vars
-----------------------------------------------------------------------------
(* Types. *)

MovingCall == [at: {"moving"}, app: App, to: Status, role: Role, amount: Nat,
               draft: BOOLEAN, row: AppRow]
DecidingCall == [at: {"deciding"}, app: App, to: Status, row: AppRow,
                 amount: Nat, draft: BOOLEAN, drawn: DrawTable,
                 viaOverride: BOOLEAN]
DraftingCall == [at: {"drafting"}, app: App, amount: Nat \ {0}, draft: BOOLEAN]
LoggingCall == [at: {"logging"}, app: App, week: Week, row: AppRow]
LoggedCall == [at: {"logged"}, app: App, week: Week, row: AppRow, seen: EntryTable]
Verdict == {"approved", "rejected"}
ReviewingCall == [at: {"reviewing"}, id: Entry, decision: Verdict, entry: EntryRow]
WeighingCall == [at: {"weighing"}, id: Entry, decision: Verdict, entry: EntryRow,
                 app: App, row: AppRow]
SigningCall == [at: {"signing"}, id: Entry, decision: Verdict, entry: EntryRow,
                app: App, row: AppRow, seen: EntryTable]
PricingCall == [at: {"pricing"}, source: Source, app: App \cup {Unplaced},
                amount: Nat, fund: FundRow]
PromisingCall == [at: {"promising"}, source: Source, app: App \cup {Unplaced},
                  amount: Nat]
ReleasingCall == [at: {"releasing"}, id: Draw, draw: DrawRow]
AdjustingCall == [at: {"adjusting"}, source: Source, figure: Nat, fund: FundRow]

CallState == {Idle} \cup MovingCall \cup DecidingCall \cup DraftingCall
             \cup LoggingCall \cup LoggedCall
             \cup ReviewingCall \cup WeighingCall \cup SigningCall
             \cup PricingCall \cup PromisingCall
             \cup ReleasingCall \cup AdjustingCall

\* Every row and every call in flight has the shape the code gives it.
TypeOK ==
    /\ apps \in [App -> AppRow]
    /\ entries \in EntryTable
    /\ draws \in DrawTable
    /\ funds \in [Source -> FundRow]
    /\ overridden \subseteq App \X Status
    /\ calls \in [Call -> CallState]
-----------------------------------------------------------------------------
(* What the placement promises. *)

\* The cached totals on the application are the totals of its entries, whoever
\* logs, reviews or moves the placement at the same time (recacheTotals runs
\* on rows read earlier; the version check is all that keeps it honest).
CachedHoursMatchEntries ==
    \A a \in App :
        /\ apps[a].hoursLogged = Logged(EntriesOf(entries, a))
        /\ apps[a].hoursApproved = Approved(EntriesOf(entries, a))

\* A week is claimed at most once by entries that were not sent back, although
\* the check reads the entries long before the insert commits (claimedWeeks).
OneLiveClaimPerWeek ==
    \A e, f \in Entry :
        /\ entries[e].status \in {"submitted", "approved"}
        /\ entries[f].status \in {"submitted", "approved"}
        /\ entries[e].app = entries[f].app
        /\ entries[e].week = entries[f].week
        => e = f

Completed == {"placement_completed", "credit_pending", "credit_granted",
              "credit_denied"}

\* Once a placement has completed, no week is left awaiting review and some
\* hours are approved, unless the audit log says completion was an override:
\* neither a week logged nor a review under way at that moment escapes the
\* completion guard.
CompletedWeeksAreReviewed ==
    \A a \in App :
        apps[a].status \in Completed /\ <<a, "placement_completed">> \notin overridden
        => /\ Unreviewed(EntriesOf(entries, a)) = {}
           /\ Approved(EntriesOf(entries, a)) # {}

Over(row) == HasExited(row) \/ IsTerminal(row.status)

\* A wage draw the board authorized for a placement is not still "authorized"
\* once the placement is over: whichever portal ended it settled the draw in
\* the same transaction (settlementFor inside executeTransition).
AuthorizationSettledWithPlacement ==
    \A d \in Draw :
        draws[d].status = "authorized" /\ draws[d].hourly
        => ~Over(apps[draws[d].app])

\* A week enters the timesheet only while the placement is active at the
\* moment of the insert, not merely when the status was read (logHours).
HoursOnlyWhileActive ==
    [][\A e \in Entry :
         entries[e] = NoEntry /\ entries'[e] # NoEntry
         => apps[entries'[e].app].status = "placement_active"]_vars

\* An employer's decision on a week is final: two reviews of one week cannot
\* both land (reviewHours).
ReviewIsFinal ==
    [][\A e \in Entry :
         entries[e].status \in Verdict => entries'[e] = entries[e]]_vars

\* However many calls find room in a fund at the same time, what it promises
\* stays within one allocation for each of them: an over-promised fund turns
\* every further draw down, so that races never add up (commitBlockReason, the
\* funding guard; most bounds the figures an allocation is set to).
OverpromisedOnlyByRace ==
    \A s \in Source, most \in Allocation :
        (\A figure \in Allocation : figure <= most)
        => Committed(draws, s) <= Cardinality(Call) * most

\* What the comments say of one draw: it is created only when it fits what is
\* left of the allocation at that moment.  It does not hold (two calls may both
\* find the last dollar); cutting an allocation below what is committed is
\* allowed and is not what this is about.
PromisesFitTheFund ==
    [][\A s \in Source :
         Committed(draws', s) > Committed(draws, s)
         => Committed(draws', s) <= funds'[s].allocated]_vars

\* Money that was paid out or given back never changes again, although a
\* release and a settlement may race for the same draw.
SettledDrawIsFinal ==
    [][\A d \in Draw :
         draws[d].status \in {"disbursed", "released"} => draws'[d] = draws[d]]_vars

\* A status only ever changes along the table, from the status the row has at
\* the commit, and an exit date, once stamped, is kept: no stale copy of a row
\* is ever saved over a newer one.
StatusFollowsTable ==
    [][\A a \in App :
         /\ apps'[a].status # apps[a].status =>
              \E t \in TransitionsFrom(apps[a].status, "standard") :
                 t.to = apps'[a].status
         /\ apps[a].exitedOn # 0 => apps'[a].exitedOn = apps[a].exitedOn]_vars

\* No application ever leaves a funnel stage it reached, closed, rejected or
\* sent back to rebook as it may be (funnel, furthestOf).
FunnelNeverShrinks ==
    [][\A a \in App : FurthestRank(apps'[a]) >= FurthestRank(apps[a])]_vars

\* A student the college found not eligible gets past mutual interest only by
\* an override the audit log shows (the guard of interview_scheduled is the
\* only one on the standard track that reads eligibility).
IneligibleNeedsOverride ==
    \A a \in Ineligible :
        FurthestRank(apps[a]) > 2 \/ apps[a].furthest \in
            {"interview_scheduled", "interview_completed", "cleared"}
        => <<a, "interview_scheduled">> \in overridden
-----------------------------------------------------------------------------
(* What the documents say and the code does not do: each is checked by a   *)
(* run that shows the steps.                                               *)

\* settlementFor: "A placement that finished has *spent* its commitment; one
\* that ended before anyone started gives it back", so no draw is still merely
\* authorized on a placement that is over.
NoDrawOutlivesItsPlacement ==
    \A d \in Draw :
        draws[d].status = "authorized" /\ draws[d].app # Unplaced
        => ~Over(apps[draws[d].app])

\* FundingCommitment is the ledger and the two authorized figures on the
\* application are its cache: the live wage draw of a placement is for the
\* amount its row says the board authorized.
AuthorizationMatchesLedger ==
    \A d \in Draw :
        /\ IsLive(draws[d])
        /\ draws[d].source = Wage
        /\ draws[d].app # Unplaced
        /\ apps[draws[d].app].authorized > 0
        => draws[d].amount = apps[draws[d].app].authorized
=============================================================================

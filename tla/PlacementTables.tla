--------------------------- MODULE PlacementTables ---------------------------
(***************************************************************************)
(* The four tables of a market's standard-track placements (applications,  *)
(* time entries, funding commitments, funds), what the audit log marks as  *)
(* an override, and the rules of the domain over their rows.               *)
(***************************************************************************)
EXTENDS Workflow, FiniteSets, FiniteSetsExt

CONSTANTS
    App,          \* standard-track applications
    Entry,        \* ids a time entry may get
    Week,         \* the weeks that can be claimed (Mondays)
    Source,       \* the market's funds
    Wage,         \* the open wage-subsidy fund among them
    Closed,       \* funds closed for the program year
    Draw,         \* ids a funding commitment may get
    Unplaced,     \* stands for a commitment's null applicationId
    Amount,       \* amounts a commitment may ask for, in dollars
    Allocation,   \* figures an allocation may be set to
    Ineligible,   \* applications whose student was found not eligible
    Start         \* the status the applications are in when the run begins

ASSUME PlacementAssumption ==
    /\ Wage \in Source /\ Wage \notin Closed
    /\ Unplaced \notin App
    /\ Amount \subseteq Nat \ {0}
    /\ Allocation \subseteq Nat
    /\ Ineligible \subseteq App
    /\ Start \in Status \ (ReachedPlacement \cup TerminalStatuses
                           \cup {"funding_authorized"})

VARIABLES
    apps,        \* App -> the application row
    entries,     \* Entry -> the time entry, or NoEntry while the id is unused
    draws,       \* Draw -> the funding commitment, or NoDraw
    funds,       \* Source -> the fund
    overridden   \* <<application, status>> pairs the audit log marks viaOverride

tables == <<apps, entries, draws, funds, overridden>>
-----------------------------------------------------------------------------
(* Rows.  hoursLogged and hoursApproved are cached sums over the entries;  *)
(* an entry's hours are positive and never change, so a sum is determined  *)
(* by the set of entries it adds up, and that set stands for it.           *)

AppRow == [status: Status, furthest: Status, exitedOn: Nat,
           hoursLogged: SUBSET Entry, hoursApproved: SUBSET Entry,
           authorized: Nat,   \* fundingAuthorizedHours * Rate, 0 when unset
           version: Nat \ {0}]

EntryRow == [app: App, week: Week,
             status: {"submitted", "approved", "rejected"},
             version: Nat \ {0}]
NoEntry == [status |-> "none"]
EntryTable == [Entry -> EntryRow \cup {NoEntry}]

\* hourly: the draw carries an hour cap, which only authorizeFunding gives it.
DrawRow == [source: Source, app: App \cup {Unplaced}, amount: Nat,
            hourly: BOOLEAN, status: {"authorized", "disbursed", "released"},
            version: Nat \ {0}]
NoDraw == [status |-> "none"]
DrawTable == [Draw -> DrawRow \cup {NoDraw}]

FundRow == [allocated: Nat, version: Nat \ {0}]
-----------------------------------------------------------------------------
(* Time entries of one application, and what domain/timesheet.ts makes of  *)
(* them.                                                                   *)

EntriesOf(table, a) ==
    [e \in Entry |-> IF table[e] # NoEntry /\ table[e].app = a
                     THEN table[e] ELSE NoEntry]

WithStatus(table, statuses) == {e \in Entry : table[e].status \in statuses}

Logged(table)     == WithStatus(table, {"submitted", "approved"})
Approved(table)   == WithStatus(table, {"approved"})
Unreviewed(table) == WithStatus(table, {"submitted"})

\* Mutant: a week still waiting for review does not block a second claim.
ClaimedWeeksApproved(table) == {table[e].week : e \in Approved(table)}

ClaimedWeeks(table) == {table[e].week : e \in Logged(table)}

\* recacheTotals: the row that was read, with its two caches recomputed.
Recached(row, table) ==
    [row EXCEPT !.hoursLogged = Logged(table),
                !.hoursApproved = Approved(table),
                !.version = @ + 1]
-----------------------------------------------------------------------------
(* Draws on a fund (domain/funding.ts).                                    *)

IsLive(draw) == draw.status \in {"authorized", "disbursed"}

LiveOn(table, s) == {d \in Draw : IsLive(table[d]) /\ table[d].source = s}

Committed(table, s) == MapThenSumSet(LAMBDA d : table[d].amount, LiveOn(table, s))

\* Mutant: only money already paid out is taken off the allocation.
RemainingUnpaid(table, fund, s) ==
    fund.allocated - MapThenSumSet(LAMBDA d : table[d].amount,
                        {d \in LiveOn(table, s) : table[d].status = "disbursed"})

\* Negative once an allocation was cut below what is committed.
Remaining(table, fund, s) == fund.allocated - Committed(table, s)

\* Partial unique index on (funding_source_id, application_id) WHERE live.
CoveredBy(table, s, a) == \E d \in LiveOn(table, s) : table[d].app = a

DrawsOf(table, a) ==
    [d \in Draw |-> IF table[d] # NoDraw /\ table[d].app = a
                    THEN table[d] ELSE NoDraw]

NewDraw(s, a, amount, hourly) ==
    [source |-> s, app |-> a, amount |-> amount, hourly |-> hourly,
     status |-> "authorized", version |-> 1]

\* Mutant: "nothing to settle" is written to the draw as if it were a status.
SettlementForUnfinished(row, draw) ==
    IF HasExited(row) THEN "disbursed"
    ELSE IF IsTerminal(row.status) THEN "released" ELSE "none"

\* What a draw becomes when its placement becomes row; a draw it leaves as it
\* is keeps its own status.
SettlementFor(row, draw) ==
    IF HasExited(row) THEN "disbursed"
    ELSE IF IsTerminal(row.status) THEN "released" ELSE draw.status

\* Mutant: the draw waits for a terminal status to be settled.
SettlesAtTheEnd(row, draw) ==
    IsLive(draw) /\ IsTerminal(row.status) /\ SettlementFor(row, draw) # draw.status

Settles(row, draw) == IsLive(draw) /\ SettlementFor(row, draw) # draw.status
-----------------------------------------------------------------------------
(* The guards of the standard track that rest on one placement.           *)

\* Mutant: eligibility is asked for after the interview.
EligibleAfterwards(to, a) == to = "interview_completed" => a \notin Ineligible

Eligible(to, a) == to = "interview_scheduled" => a \notin Ineligible

\* Mutant: completion does not look for weeks awaiting review.
SomeHoursApproved(row, to, a) == to = "placement_completed" => row.hoursApproved # {}

HoursReviewed(row, to, a) ==
    to = "placement_completed" =>
        row.hoursApproved # {} /\ Unreviewed(EntriesOf(entries, a)) = {}
-----------------------------------------------------------------------------
InitTables ==
    /\ apps = [a \in App |->
                 [status |-> Start, furthest |-> Start, exitedOn |-> 0,
                  hoursLogged |-> {}, hoursApproved |-> {},
                  authorized |-> 0, version |-> 1]]
    /\ entries = [e \in Entry |-> NoEntry]
    /\ draws = [d \in Draw |-> NoDraw]
    /\ funds \in [Source -> [allocated: Allocation, version: {1}]]
    /\ overridden = {}
==============================================================================

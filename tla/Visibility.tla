------------------------------ MODULE Visibility ------------------------------
(***************************************************************************)
(* Who is shown which row. The rule is written twice, as SQL fragments and *)
(* as filters over the in-memory tables, and the portals read through one  *)
(* or the other; both also blank what a role has no use for. A row carries *)
(* whoever it hangs on: joins and subqueries are followed when it is made. *)
(***************************************************************************)
EXTENDS Machine

CONSTANTS
    Place,      \* markets
    Showcase,   \* the demonstration's markets
    Org,        \* organizations, as hosts and as institutions
    Account,    \* users; a learner's row belongs to one, and to no other learner
    NoHost      \* of a draw that pays no placement

ASSUME VisibilityAssumption == Showcase \subseteq Place /\ NoHost \notin Org

VARIABLES
    reader,  \* the signed-in actor
    shelf    \* the rows

visibilityVars == <<reader, shelf>>
-----------------------------------------------------------------------------
Actor == [role: Role, place: Place, org: Org, user: Account, demo: BOOLEAN, everywhere: BOOLEAN]

Table == {"applications", "mentorship_pairings", "outcomes", "host_offers", "funding_commitments",
          "deliverables", "escalations", "consents", "students", "time_entries", "postings", "markets"}

Row == [table: Table, place: Place, host: Org \cup {NoHost}, learner: Account,
        source: Org, author: Account]

\* Only the administrator's session chooses a world or reads across both.
VisibilityInit ==
    /\ shelf = {}
    /\ reader \in {a \in Actor : a.role # "admin" => ~a.demo /\ ~a.everywhere}

\* One row at a time: no rule looks at two.
InsertRow ==
    /\ shelf = {}
    /\ \E r \in Row :
        /\ r.host = NoHost => r.table = "funding_commitments"
        /\ shelf' = {r}
    /\ UNCHANGED reader

VisibilityNext == InsertRow

VisibilitySpec == VisibilityInit /\ [][VisibilityNext]_visibilityVars
-----------------------------------------------------------------------------
\* The WHERE clauses.
MarketScope(a, r) ==
    IF a.role = "admin" THEN a.everywhere \/ (r.place \in Showcase <=> a.demo)
    ELSE r.place = a.place

OwnMarketScope(a, r) == MarketScope(a, r)

PostingOwnershipScope(a, r) == a.role = "business" => r.host = a.org

OwnRecord(a, r) == a.role = "student" => r.learner = a.user

ApplicationScope(a, r) ==
    MarketScope(a, r) /\ PostingOwnershipScope(a, r) /\ OwnRecord(a, r)

MentorshipPairingScope(a, r) == a.role # "board" /\ ApplicationScope(a, r)

OutcomeScope(a, r) == a.role # "business" /\ MarketScope(a, r) /\ OwnRecord(a, r)

HostOfferScope(a, r) == ApplicationScope(a, r)

FundingCommitmentScope(a, r) == ApplicationScope(a, r)

DeliverableScope(a, r) == a.role # "board" /\ ApplicationScope(a, r)

EscalationScope(a, r) == MarketScope(a, r) /\ (a.role # "admin" => r.author = a.user)

\* Mutant: every college of the market reads every institution's consents.
ConsentScopeByMarket(a, r) == OutcomeScope(a, r)

ConsentScope(a, r) ==
    /\ a.role # "business" /\ MarketScope(a, r) /\ OwnRecord(a, r)
    /\ a.role = "college" => r.source = a.org

StudentScope(a, r) == MarketScope(a, r) /\ OwnRecord(a, r)

TimeEntryScope(a, r) == ApplicationScope(a, r)

Selected(a, r) ==
    CASE r.table = "applications" -> ApplicationScope(a, r)
      [] r.table = "mentorship_pairings" -> MentorshipPairingScope(a, r)
      [] r.table = "outcomes" -> OutcomeScope(a, r)
      [] r.table = "host_offers" -> HostOfferScope(a, r)
      [] r.table = "funding_commitments" -> FundingCommitmentScope(a, r)
      [] r.table = "deliverables" -> DeliverableScope(a, r)
      [] r.table = "escalations" -> EscalationScope(a, r)
      [] r.table = "consents" -> ConsentScope(a, r)
      [] r.table = "students" -> StudentScope(a, r)
      [] r.table = "time_entries" -> TimeEntryScope(a, r)
      [] r.table = "postings" -> MarketScope(a, r) /\ PostingOwnershipScope(a, r)
      [] r.table = "markets" -> OwnMarketScope(a, r)

\* What a selected row loses on its way out: a summary, a detail, a note.
Blanked(a, r) ==
    CASE r.table \in {"time_entries", "outcomes"} -> a.role = "board"
      [] r.table = "host_offers" -> a.role \notin {"admin", "business"}
      [] OTHER -> FALSE
-----------------------------------------------------------------------------
\* The filters of the in-memory tables: "none", "blanked" or "whole".
InScope(a, r) ==
    IF a.role = "admin" /\ a.everywhere THEN TRUE
    ELSE IF a.role = "admin" THEN (r.place \in Showcase) = a.demo
    ELSE r.place = a.place

OwnedByActor(a, r) == InScope(a, r) /\ (a.role \in {"business"} => r.host = a.org)

Shown(visible) == IF visible THEN "whole" ELSE "none"

\* What the party the row hangs on sees, and what anybody else in the market does.
ByParty(a, r, others) ==
    IF ~InScope(a, r) THEN "none"
    ELSE CASE a.role = "business" -> Shown(r.host = a.org)
           [] a.role = "student" -> Shown(r.learner = a.user)
           [] OTHER -> others

VisibleApplications(a, r) == ByParty(a, r, "whole")

VisibleStudents(a, r) == Shown(InScope(a, r) /\ (a.role # "student" \/ r.learner = a.user))

VisibleMentorshipPairings(a, r) == ByParty(a, r, Shown(a.role # "board"))

VisibleDeliverables(a, r) == IF a.role = "board" THEN "none" ELSE ByParty(a, r, "whole")

VisibleEscalations(a, r) == Shown(InScope(a, r) /\ (a.role = "admin" \/ r.author = a.user))

VisibleConsents(a, r) ==
    IF a.role = "business" THEN "none"
    ELSE ByParty(a, r, Shown(a.role = "college" => r.source = a.org))

VisibleCommitments(a, r) == ByParty(a, r, "whole")

VisibleOutcomes(a, r) ==
    IF a.role = "business" THEN "none"
    ELSE ByParty(a, r, IF a.role = "board" THEN "blanked" ELSE "whole")

VisibleHostOffers(a, r) ==
    LET shown == ByParty(a, r, IF a.role # "admin" THEN "blanked" ELSE "whole")
    IN IF a.role = "student" /\ shown = "whole" THEN "blanked" ELSE shown

VisibleTimeEntries(a, r) == ByParty(a, r, IF a.role = "board" THEN "blanked" ELSE "whole")

FromMemory(a, r) ==
    CASE r.table = "applications" -> VisibleApplications(a, r)
      [] r.table = "mentorship_pairings" -> VisibleMentorshipPairings(a, r)
      [] r.table = "outcomes" -> VisibleOutcomes(a, r)
      [] r.table = "host_offers" -> VisibleHostOffers(a, r)
      [] r.table = "funding_commitments" -> VisibleCommitments(a, r)
      [] r.table = "deliverables" -> VisibleDeliverables(a, r)
      [] r.table = "escalations" -> VisibleEscalations(a, r)
      [] r.table = "consents" -> VisibleConsents(a, r)
      [] r.table = "students" -> VisibleStudents(a, r)
      [] r.table = "time_entries" -> VisibleTimeEntries(a, r)
      [] r.table = "postings" -> Shown(OwnedByActor(a, r))
      [] r.table = "markets" -> Shown(InScope(a, r))
-----------------------------------------------------------------------------
\* Readers and rows have the shapes the code gives them.
VisibilityTypeOK == reader \in Actor /\ shelf \subseteq Row

FromPostgres(a, r) ==
    IF ~Selected(a, r) THEN "none" ELSE IF Blanked(a, r) THEN "blanked" ELSE "whole"

\* Both data layers show every actor the same rows, blanked alike, so that a rule tried
\* out on the demonstration is the rule of the deployment (scoping.ts "matches ... clause
\* for clause", memory.ts).
LayersShowTheSame == \A r \in shelf : FromPostgres(reader, r) = FromMemory(reader, r)
==============================================================================

------------------------------ MODULE Workflow -------------------------------
(***************************************************************************)
(* The application machine: its statuses, its table, the guards, and what  *)
(* a move writes to the row (src/src/domain/workflow.ts, the row update of *)
(* src/src/services/transitions.ts, and the two status lists of            *)
(* src/src/domain/outcome.ts).                                             *)
(***************************************************************************)
EXTENDS Integers, Machine

Track == {"standard", "micro"}

TerminalStatuses == {"closed", "rejected", "withdrawn"}

\* A placement was actually reached.
ReachedPlacement ==
    {"placement_active", "placement_completed", "terminated_early",
     "credit_pending", "credit_granted", "credit_denied"}

\* The work has stopped.
NoLongerRunning ==
    {"placement_completed", "terminated_early", "credit_pending",
     "credit_granted", "credit_denied", "closed"}

Status ==
    {"submitted", "under_review", "shortlisted", "mutual_interest",
     "interview_scheduled", "interview_completed", "cleared",
     "funding_authorized", "unsubsidized"}
    \cup ReachedPlacement \cup TerminalStatuses

Edge(from, to, roles, tracks) ==
    [from |-> from, to |-> to, roles |-> roles, tracks |-> tracks]

Transitions ==
    { Edge("submitted", "under_review", {"business"}, Track),
      Edge("under_review", "shortlisted", {"business"}, Track),
      Edge("under_review", "rejected", {"business"}, Track),
      Edge("submitted", "withdrawn", {"student"}, Track),
      Edge("under_review", "withdrawn", {"student"}, Track),
      Edge("shortlisted", "mutual_interest", {"student"}, Track),
      Edge("shortlisted", "withdrawn", {"student"}, Track),
      Edge("mutual_interest", "interview_scheduled", {"student"}, {"standard"}),
      Edge("interview_scheduled", "interview_completed", {"board"}, {"standard"}),
      Edge("interview_scheduled", "mutual_interest", {"board", "student"},
           {"standard"}),
      Edge("interview_completed", "cleared", {"board"}, {"standard"}),
      Edge("interview_completed", "unsubsidized", {"board"}, {"standard"}),
      Edge("cleared", "funding_authorized", {"board"}, {"standard"}),
      Edge("cleared", "unsubsidized", {"board"}, {"standard"}),
      Edge("funding_authorized", "placement_active", {"business"}, {"standard"}),
      Edge("unsubsidized", "placement_active", {"business"}, {"standard"}),
      Edge("unsubsidized", "closed", {"business", "student"}, {"standard"}),
      Edge("mutual_interest", "placement_active", {"business"}, {"micro"}),
      Edge("placement_active", "placement_completed", {"business"}, Track),
      Edge("placement_active", "terminated_early", {"business", "college"}, Track),
      Edge("placement_completed", "credit_pending", {"student", "college"}, Track),
      Edge("credit_pending", "credit_granted", {"college"}, Track),
      Edge("credit_pending", "credit_denied", {"college"}, Track),
      Edge("credit_granted", "closed", {"college"}, Track),
      Edge("credit_denied", "closed", {"college"}, Track),
      Edge("terminated_early", "closed", {"college", "business"}, Track) }

TransitionsFrom(status, track) ==
    {t \in Transitions : t.from = status /\ track \in t.tracks}

IsTerminal(status) == status \in TerminalStatuses

\* Mutant: a terminal status erases how far the application got.
FurthestOfAny(row, to) == to

\* How far the application got, kept when a terminal status would erase it.
FurthestOf(row, to) == IF IsTerminal(to) THEN row.furthest ELSE to

HasExited(row) ==
    /\ row.furthest \in ReachedPlacement \/ row.status \in ReachedPlacement
    /\ row.status \in NoLongerRunning

\* Mutant: every later status that is no longer running moves the exit date.
MovedRestamping(row, to) ==
    [row EXCEPT
        !.status = to,
        !.furthest = FurthestOf(row, to),
        !.exitedOn = IF to \in NoLongerRunning THEN row.version + 1 ELSE @,
        !.version = @ + 1]

\* The row a transition writes, built from the row it READ.  exitedOn is the
\* moment of the first write into NoLongerRunning (0 is "not set"), counted
\* in writes of the row; the store adds one to the version it checked.
Moved(row, to) ==
    [row EXCEPT
        !.status = to,
        !.furthest = FurthestOf(row, to),
        !.exitedOn = IF @ # 0 THEN @
                     ELSE IF to \in NoLongerRunning THEN row.version + 1 ELSE 0,
        !.version = @ + 1]

\* lib/queries.ts counts conversion by the furthest stage a row has reached:
\* 0 applied, 1 shortlisted, 2 mutual interest, 3 through the pause, 4 placed,
\* 5 credit granted.
StatusRank(status) ==
    CASE status \in {"submitted", "under_review"} \cup TerminalStatuses -> 0
      [] status = "shortlisted" -> 1
      [] status \in {"mutual_interest", "interview_scheduled",
                     "interview_completed", "cleared"} -> 2
      [] status \in {"funding_authorized", "unsubsidized"} -> 3
      [] status \in ReachedPlacement \ {"credit_granted"} -> 4
      [] status = "credit_granted" -> 5

FurthestRank(row) ==
    LET current == StatusRank(row.status)
        reached == StatusRank(row.furthest)
    IN IF current >= reached THEN current ELSE reached
==============================================================================

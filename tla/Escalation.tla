------------------------------ MODULE Escalation ------------------------------
(***************************************************************************)
(* A problem raised about a placement, by anyone on it: an administrator   *)
(* acknowledges and resolves it, its author may withdraw it. The row is    *)
(* versioned, and a closed one is never reopened.                          *)
(***************************************************************************)
EXTENDS Integers

CONSTANTS
    Report,   \* identities of escalations
    Author,   \* people who raise them
    Handler,  \* calls that can be under way at once
    NoAuthor  \* of a report not raised yet

ASSUME EscalationAssumption == NoAuthor \notin Author

VARIABLES
    reports,  \* Report -> the row
    handlers  \* Handler -> the row the call has read, or AtRest

escalationVars == <<reports, handlers>>
-----------------------------------------------------------------------------
AtRest == [at |-> "rest"]
Unraised == [by |-> NoAuthor, status |-> "none", acknowledged |-> FALSE,
             resolution |-> FALSE, version |-> 0]

EscalationInit ==
    /\ reports = [r \in Report |-> Unraised]
    /\ handlers = [h \in Handler |-> AtRest]

\* raiseEscalation; every administrator is told in the same transaction.
Raise ==
    /\ \E r \in Report, a \in Author :
        /\ reports[r] = Unraised
        /\ reports' = [reports EXCEPT ![r] = [Unraised EXCEPT !.by = a, !.status = "open",
                                                             !.version = 1]]
    /\ UNCHANGED handlers

IsLive(row) == row.status \in {"open", "acknowledged"}

\* Only its author withdraws a report, only an administrator does the rest.
MayHandle(row, role, who, to) ==
    IF to = "withdrawn" THEN row.by = who ELSE role = "admin"

\* move(): the report, the permission, and the state it is in.
BeginHandling(h) ==
    /\ handlers[h] = AtRest
    /\ \E r \in Report, role \in {"admin", "other"}, who \in Author,
          to \in {"acknowledged", "resolved", "withdrawn"} :
        LET row == reports[r] IN
        /\ IsLive(row) /\ row.status # to /\ MayHandle(row, role, who, to)
        /\ handlers' = [handlers EXCEPT ![h] = [at |-> "saving", what |-> r,
               version |-> row.version,
               next |-> [row EXCEPT !.status = to,
                                    !.acknowledged = @ \/ to = "acknowledged",
                                    !.resolution = @ \/ to = "resolved",
                                    !.version = @ + 1]]]
    /\ UNCHANGED reports

\* Mutant: saved by its id alone.
UnmovedAnyway(h) == TRUE

ReportUnmoved(h) == reports[handlers[h].what].version = handlers[h].version

SaveReport(h) ==
    /\ handlers[h].at = "saving"
    /\ reports' = IF ReportUnmoved(h)
                  THEN [reports EXCEPT ![handlers[h].what] = handlers[h].next]
                  ELSE reports
    /\ handlers' = [handlers EXCEPT ![h] = AtRest]

EscalationNext == Raise \/ \E h \in Handler : BeginHandling(h) \/ SaveReport(h)

EscalationSpec == EscalationInit /\ [][EscalationNext]_escalationVars
-----------------------------------------------------------------------------
\* Rows have the shapes the code gives them.
EscalationTypeOK ==
    reports \in [Report -> [by: Author \cup {NoAuthor},
                            status: {"none", "open", "acknowledged", "resolved", "withdrawn"},
                            acknowledged: BOOLEAN, resolution: BOOLEAN, version: Nat]]

\* A report has one end: resolved or withdrawn, it keeps that answer whoever else was
\* handling it, and what an administrator did in between is not lost (move,
\* transitionBlockReason, saveEscalation).
ClosedReportStaysClosed ==
    [][\A r \in Report :
           /\ reports[r].status \in {"resolved", "withdrawn"} => reports'[r] = reports[r]
           /\ reports[r].acknowledged => reports'[r].acknowledged]_escalationVars
==============================================================================

------------------------------- MODULE Notices -------------------------------
(***************************************************************************)
(* Who is told of an application's move: the policy table against the      *)
(* transition table. An application is followed from the submission on;    *)
(* the parties that know of its last move are the mover and those told.    *)
(***************************************************************************)
EXTENDS Workflow

\* The roles of the table; the policy calls the business the employer.
CONSTANT Unmoved  \* nobody has moved the application yet

ASSUME NoticesAssumption == Unmoved \notin Role

VARIABLES
    file,    \* the application: [track, status]
    mover,   \* who moved it last
    told     \* the parties a message was addressed to

noticeVars == <<file, mover, told>>
-----------------------------------------------------------------------------
\* submitApplication writes to the employer only.
NoticesInit ==
    /\ file \in [track: Track, status: {"submitted"}]
    /\ mover = Unmoved /\ told = {"business"}

\* POLICY, by party: the statuses it hears of; a status nobody hears of is quiet.
Hears ==
    [student  |-> {"submitted", "shortlisted", "mutual_interest", "interview_scheduled",
                   "cleared", "unsubsidized", "funding_authorized", "placement_active",
                   "placement_completed", "credit_granted", "credit_denied", "rejected",
                   "terminated_early"},
     business |-> {"submitted", "mutual_interest", "interview_scheduled", "cleared",
                   "unsubsidized", "funding_authorized", "credit_granted", "withdrawn"},
     college  |-> {"placement_active", "placement_completed", "credit_pending",
                   "rejected", "terminated_early", "withdrawn"},
     board    |-> {"mutual_interest", "interview_scheduled", "placement_completed",
                   "terminated_early"},
     admin    |-> {"unsubsidized", "credit_denied", "terminated_early"}]

\* Mutant: employers hear nothing of what students and boards do.
PolicyQuiet(status) == {party \in Role \ {"business"} : status \in Hears[party]}

Policy(status) == {party \in Role : status \in Hears[party]}

\* The board of a micro placement is skipped; it has none.
NotificationsFor(status, track) ==
    IF track = "micro" /\ status \in {"mutual_interest", "placement_completed", "terminated_early"}
    THEN Policy(status) \ {"board"} ELSE Policy(status)

\* executeTransition by an owner of the move, or by an administrator.
MoveFile ==
    \E t \in TransitionsFrom(file.status, file.track), role \in Role :
        /\ role \in t.roles \cup {"admin"}
        /\ file' = [file EXCEPT !.status = t.to]
        /\ mover' = role
        /\ told' = NotificationsFor(t.to, file.track)

NoticesNext == MoveFile

NoticesSpec == NoticesInit /\ [][NoticesNext]_noticeVars
-----------------------------------------------------------------------------
\* Files and parties have the shapes the code gives them.
NoticesTypeOK ==
    file \in [track: Track, status: Status] /\ mover \in Role \cup {Unmoved} /\ told \subseteq Role

\* BLOCKED_ON: whom the console names for an application that stalls.
BlockedOn ==
    [submitted |-> "business", under_review |-> "business", shortlisted |-> "student",
     mutual_interest |-> "student", interview_scheduled |-> "board",
     interview_completed |-> "board", cleared |-> "board", credit_pending |-> "college"]

Owners == UNION {t.roles : t \in TransitionsFrom(file.status, file.track)}

\* An application never waits for somebody who has not heard of it: after every move,
\* of those who may make the next one somebody made the last one or was told of it; an
\* administrator who moved it may move it again (POLICY against TRANSITIONS). On the
\* standard track the console also names one of them when the application stalls.
TurnIsKnown ==
    /\ Owners = {} \/ mover = "admin" \/ (told \cup {mover}) \cap Owners # {}
    /\ file.track = "standard" /\ file.status \in DOMAIN BlockedOn =>
           BlockedOn[file.status] \in Owners
==============================================================================

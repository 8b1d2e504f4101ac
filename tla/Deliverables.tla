----------------------------- MODULE Deliverables -----------------------------
(***************************************************************************)
(* The micro track's hand-ins: a learner uploads and submits, the employer *)
(* asks for a change or accepts, and accepting completes the placement.    *)
(* Any portal may also move the placement in the ordinary way.             *)
(***************************************************************************)
EXTENDS Workflow

CONSTANTS
    Project,   \* micro placements
    Hand,      \* calls that can be under way at once
    MaxRounds, \* bound: hand-ins of one project
    MaxSteps   \* bound: writes of one application

ASSUME DeliverablesAssumption == MaxRounds \in Nat /\ MaxSteps \in Nat

VARIABLES
    projects, \* Project -> the application's row, with its two flags
    works,    \* Project -> the deliverable's row; round 0 before the first
    hands     \* Hand -> what the call has read, or NoHand

deliverableVars == <<projects, works, hands>>
-----------------------------------------------------------------------------
NoHand == [at |-> "none"]
NoWork == [status |-> "none", round |-> 0, version |-> 0]

DeliverablesInit ==
    /\ projects = [p \in Project |->
           [status |-> "placement_active", furthest |-> "placement_active",
            exitedOn |-> 0, version |-> 0, submitted |-> FALSE, accepted |-> FALSE]]
    /\ works = [p \in Project |-> NoWork]
    /\ hands = [h \in Hand |-> NoHand]

Takes(h, call) == hands' = [hands EXCEPT ![h] = call]

Progress(p) == projects[p].version < MaxSteps

\* submitDeliverable reads a running placement first ...
BeginSubmit(h) ==
    /\ hands[h] = NoHand
    /\ \E p \in Project :
        /\ projects[p].status = "placement_active" /\ Progress(p)
        /\ Takes(h, [at |-> "submitting", on |-> p, app |-> projects[p]])
    /\ UNCHANGED <<projects, works>>

SubmitBlocked(work) == work.status \in {"accepted", "submitted"}

\* ... then the work already on it, and prepares the next round.
PrepareSubmit(h) ==
    LET call == hands[h] IN
    /\ call.at = "submitting"
    /\ LET work == works[call.on] IN
        /\ work.round < MaxRounds
        /\ Takes(h, IF SubmitBlocked(work) THEN NoHand
                    ELSE [at |-> "saving", on |-> call.on, work |-> work,
                          status |-> "submitted", round |-> work.round + 1,
                          app |-> call.app,
                          next |-> [call.app EXCEPT !.submitted = TRUE,
                                                    !.version = @ + 1]])
    /\ UNCHANGED <<projects, works>>

\* An employer's answer reads the work first (load), and refuses what is not
\* waiting for one ...
BeginAnswer(h) ==
    /\ hands[h] = NoHand
    /\ \E p \in Project, to \in {"revision_requested", "accepted"} :
        /\ works[p].status = "submitted" /\ Progress(p)
        /\ Takes(h, [at |-> "answering", on |-> p, work |-> works[p], to |-> to])
    /\ UNCHANGED <<projects, works>>

\* Mutant: the flag stays up while the work is back with the learner.
RevisionKeepsFlag(app) == [app EXCEPT !.version = @ + 1]

RevisionAsked(app) == [app EXCEPT !.submitted = FALSE, !.version = @ + 1]

\* ... then the placement: a change takes the flag back, whatever its status;
\* acceptance is the transition that completes it, patch included.
PrepareAnswer(h) ==
    LET call == hands[h]
        app  == projects[call.on]
    IN
    /\ call.at = "answering"
    /\ Takes(h,
           IF call.to = "accepted" /\ (app.status # "placement_active" \/ ~app.submitted)
           THEN NoHand
           ELSE [at |-> "saving", on |-> call.on, work |-> call.work,
                 status |-> call.to, round |-> call.work.round, app |-> app,
                 next |-> IF call.to = "revision_requested" THEN RevisionAsked(app)
                          ELSE [Moved(app, "placement_completed")
                                    EXCEPT !.accepted = TRUE]])
    /\ UNCHANGED <<projects, works>>

\* Mutant: the deliverable is saved by its id alone.
SavableWork(h) == projects[hands[h].on].version = hands[h].app.version

\* Both rows as they were read; a first hand-in meets the unique index instead.
Savable(h) ==
    /\ projects[hands[h].on].version = hands[h].app.version
    /\ works[hands[h].on].version = hands[h].work.version

SaveWork(h) ==
    LET call == hands[h] IN
    /\ call.at = "saving"
    /\ IF Savable(h)
       THEN /\ projects' = [projects EXCEPT ![call.on] = call.next]
            /\ works' = [works EXCEPT ![call.on] =
                   [status |-> call.status, round |-> call.round,
                    version |-> @.version + 1]]
       ELSE UNCHANGED <<projects, works>>
    /\ Takes(h, NoHand)

\* An ordinary transition of the placement, by its owner or an administrator,
\* who passes the guard that work was handed in.
BeginMove(h) ==
    /\ hands[h] = NoHand
    /\ \E p \in Project : \E t \in TransitionsFrom(projects[p].status, "micro") :
        /\ Progress(p)
        /\ Takes(h, [at |-> "moving", on |-> p, app |-> projects[p],
                     next |-> Moved(projects[p], t.to)])
    /\ UNCHANGED <<projects, works>>

CommitProject(h) ==
    LET call == hands[h] IN
    /\ call.at = "moving"
    /\ projects' = IF projects[call.on].version = call.app.version
                   THEN [projects EXCEPT ![call.on] = call.next]
                   ELSE projects
    /\ Takes(h, NoHand)
    /\ UNCHANGED works

DeliverablesNext ==
    \E h \in Hand :
        \/ BeginSubmit(h) \/ PrepareSubmit(h)
        \/ BeginAnswer(h) \/ PrepareAnswer(h) \/ SaveWork(h)
        \/ BeginMove(h) \/ CommitProject(h)

DeliverablesSpec == DeliverablesInit /\ [][DeliverablesNext]_deliverableVars
-----------------------------------------------------------------------------
WorkStatus == {"none", "submitted", "revision_requested", "accepted"}

\* Placements and hand-ins have the shapes the code gives them.
DeliverablesTypeOK ==
    /\ projects \in [Project ->
           [status: ReachedPlacement \cup {"closed"},
            furthest: ReachedPlacement, exitedOn: Nat, version: Nat,
            submitted: BOOLEAN, accepted: BOOLEAN]]
    /\ works \in [Project -> [status: WorkStatus, round: Nat, version: Nat]]

\* "The flag and the row together, always" (submitDeliverable): the guard that
\* lets a placement complete reads a flag that agrees with the hand-in, however
\* hand-ins, answers and moves interleave.
FlagFollowsTheWork ==
    \A p \in Project :
        projects[p].submitted <=> works[p].status \in {"submitted", "accepted"}

\* Work is accepted, and counts toward credit, only on a placement that ended
\* through that acceptance; never on one that was terminated or still runs
\* (acceptDeliverable, workHoursFor).
AcceptanceCompletes ==
    \A p \in Project :
        /\ works[p].status = "accepted" <=> projects[p].accepted
        /\ projects[p].accepted =>
               projects[p].status \notin {"placement_active", "terminated_early"}
==============================================================================

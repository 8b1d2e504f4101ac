------------------------------ MODULE Disclosure ------------------------------
(***************************************************************************)
(* What an employer is shown of a learner who applied. The record beside   *)
(* an application goes through forApplication: its stage and an            *)
(* education-record consent must both allow it, and are read one after the *)
(* other while portals move the application and the institution records    *)
(* and withdraws consents. Three lists of the same page take the name from *)
(* students.list or students.find, which ask for neither.                  *)
(***************************************************************************)
EXTENDS Workflow, FiniteSets

CONSTANTS
    ConsentId,  \* identities of consents: one learner, one source, one scope
    Viewer,     \* employers' reads that can be under way at once
    Keeper      \* the institution's calls that can be under way at once

ASSUME DisclosureAssumption == IsFiniteSet(ConsentId)

VARIABLES
    standing,  \* the application: [track, status, furthest, introduced], the last
               \* one whether the college introduced the learner to this employer
    consents,  \* ConsentId -> [status, version]
    viewers,   \* Viewer -> what the read has found so far
    keepers    \* Keeper -> what the call has read

disclosureVars == <<standing, consents, viewers, keepers>>
-----------------------------------------------------------------------------
Looking == [at |-> "idle", level |-> "none"]
Unoccupied == [at |-> "idle"]

DisclosureInit ==
    /\ standing \in [track: Track, status: {"submitted"}, furthest: {"submitted"},
                    introduced: BOOLEAN]
    /\ consents = [c \in ConsentId |-> [status |-> "none", version |-> 0]]
    /\ viewers = [v \in Viewer |-> Looking]
    /\ keepers = [k \in Keeper |-> Unoccupied]

FullStatuses ==
    ReachedPlacement \cup {"funding_authorized", "unsubsidized", "closed"}

DisclosureFor(status) == IF status \in FullStatuses THEN "full" ELSE "summary"

\* Any portal moves the application along the table.
MoveApplication ==
    /\ \E t \in TransitionsFrom(standing.status, standing.track) :
           standing' = [standing EXCEPT !.status = t.to,
                                        !.furthest = FurthestOf(standing, t.to)]
    /\ UNCHANGED <<consents, viewers, keepers>>

InForce == {c \in ConsentId : consents[c].status = "granted"}

\* The page reads the application ...
ReadApplication(v) ==
    /\ viewers[v].at = "idle"
    /\ viewers' = [viewers EXCEPT ![v] =
           [at |-> "reading", level |-> DisclosureFor(standing.status)]]
    /\ UNCHANGED <<standing, consents, keepers>>

\* Mutant: consent is taken for granted.
LevelByStage(level) == level

\* Without consent the learner is redacted to the summary.
LevelShown(level) == IF InForce = {} THEN "summary" ELSE level

\* ... and forApplication reads the learner, then asks for consent.
ShowStudent(v) ==
    /\ viewers[v].at = "reading"
    /\ viewers' = [viewers EXCEPT ![v] = [at |-> "idle", level |-> LevelShown(@.level)]]
    /\ UNCHANGED <<standing, consents, keepers>>

\* What puts a learner on a list of the page: an introduction to the employer's
\* mentor, work that may wait for an answer, or a finished placement that may wait
\* for the one about an offer.
OnAList ==
    \/ standing.introduced
    \/ standing.track = "micro" /\ standing.status = "placement_active"
    \/ HasExited(standing)

\* The lists show the name as the table has it, and no way to reach the learner.
ShowFromList(v) ==
    /\ viewers[v].at = "idle" /\ OnAList
    /\ viewers' = [viewers EXCEPT ![v] = [at |-> "idle", level |-> "named"]]
    /\ UNCHANGED <<standing, consents, keepers>>

Keeps(k, call) == keepers' = [keepers EXCEPT ![k] = call]

\* recordConsent: none of this scope is on file as granted.
BeginRecording(k) ==
    /\ keepers[k] = Unoccupied /\ InForce = {}
    /\ Keeps(k, [at |-> "recording"])
    /\ UNCHANGED <<standing, consents, viewers>>

\* Mutant: a second consent of the scope is inserted beside the first.
InsertableAnyway == TRUE

\* consents_one_in_force_per_scope
Insertable == InForce = {}

InsertConsent(k) ==
    /\ keepers[k].at = "recording"
    /\ IF Insertable
       THEN \E c \in ConsentId :
               /\ consents[c].status = "none"
               /\ consents' = [consents EXCEPT ![c] = [status |-> "granted", version |-> 1]]
       ELSE UNCHANGED consents
    /\ Keeps(k, Unoccupied)
    /\ UNCHANGED <<standing, viewers>>

\* withdrawConsent reads a consent that is granted ...
BeginWithdrawal(k) ==
    /\ keepers[k] = Unoccupied
    /\ \E c \in InForce :
           Keeps(k, [at |-> "withdrawing", what |-> c, version |-> consents[c].version])
    /\ UNCHANGED <<standing, consents, viewers>>

\* ... and saves it if nobody else did.
SaveWithdrawal(k) ==
    LET call == keepers[k] IN
    /\ call.at = "withdrawing"
    /\ consents' = IF consents[call.what].version = call.version
                   THEN [consents EXCEPT ![call.what] =
                            [status |-> "withdrawn", version |-> @.version + 1]]
                   ELSE consents
    /\ Keeps(k, Unoccupied)
    /\ UNCHANGED <<standing, viewers>>

DisclosureNext ==
    \/ MoveApplication
    \/ \E v \in Viewer : ReadApplication(v) \/ ShowStudent(v) \/ ShowFromList(v)
    \/ \E k \in Keeper :
        \/ BeginRecording(k) \/ InsertConsent(k)
        \/ BeginWithdrawal(k) \/ SaveWithdrawal(k)

DisclosureSpec == DisclosureInit /\ [][DisclosureNext]_disclosureVars
-----------------------------------------------------------------------------
\* Rows and reads have the shapes the code gives them.
DisclosureTypeOK ==
    /\ standing \in [track: Track, status: Status, furthest: Status, introduced: BOOLEAN]
    /\ consents \in [ConsentId -> [status: {"none", "granted", "withdrawn"}, version: 0..2]]
    /\ viewers \in [Viewer -> [at: {"idle", "reading"}, level: {"none", "full", "summary", "named"}]]

\* At the moment forApplication hands an employer the whole record of a learner, name
\* and address with it, consent is in force and the application is at a stage that
\* releases it, though the two were read at different moments (forApplication,
\* disclosureFor). It says nothing of names taken from a list.
ShownWithConsentAndStage ==
    [][\A v \in Viewer : viewers[v].at = "reading" /\ viewers'[v].level = "full"
                         /\ viewers'[v].at = "idle" =>
           InForce # {} /\ standing.status \in FullStatuses]_disclosureVars

\* Without an education-record consent an employer sees an abbreviated name only, on
\* every part of the page (CONSENT_SCOPES).
NameShownWithConsent ==
    [][\A v \in Viewer : viewers'[v] # viewers[v] /\ viewers'[v].level \in {"named", "full"}
                         /\ viewers'[v].at = "idle" => InForce # {}]_disclosureVars

\* One consent of a scope is in force at a time, so that withdrawing it is the end of
\* it, and one withdrawn is never in force again (recordConsent, withdrawConsent).
WithdrawalIsTheEnd ==
    [][/\ Cardinality(InForce) <= 1
       /\ \A c \in ConsentId : consents[c].status = "withdrawn" =>
              consents'[c] = consents[c]]_disclosureVars
==============================================================================

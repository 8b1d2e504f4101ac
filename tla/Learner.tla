------------------------------- MODULE Learner -------------------------------
(***************************************************************************)
(* A learner's row: the learner registers, the college moves the row       *)
(* through verification, the learner edits the profile, an administrator   *)
(* purges the identity when retention is due, and uploaded files hang on   *)
(* it. Every save writes the whole row that was read, with no version. The *)
(* identity lives on users, where addresses are unique: registration       *)
(* writes it, the purge empties it, and a change of address writes the     *)
(* address of the account it found earlier, purged or not.                 *)
(***************************************************************************)
EXTENDS Integers, Machine

CONSTANTS
    Person,      \* learners
    Registrar,   \* college staff who may verify
    Clerk,       \* calls that can be under way at once
    Document,    \* identities of stored files
    Nobody,      \* no verifier, and the owner of no file
    MaxSaves     \* bound: writes of one learner's row

ASSUME LearnerAssumption == Nobody \notin Person \cup Registrar /\ MaxSaves \in Nat

VARIABLES
    learners,  \* Person -> the students row, and what users still holds of it
    saves,     \* Person -> writes of the row so far
    parts,     \* Person -> the participation the retention rule reads
    clerks,    \* Clerk -> the call under way, or Spare
    cabinet    \* Document -> the stored file, or NoFile

learnerVars == <<learners, saves, parts, clerks, cabinet>>
-----------------------------------------------------------------------------
Spare == [at |-> "spare"]
NoFile == [of |-> Nobody, scan |-> "none"]

LearnerInit ==
    /\ learners = [p \in Person |->
           [status |-> "absent", verifiedOn |-> 0, verifiedBy |-> Nobody,
            skilled |-> FALSE, purged |-> FALSE, named |-> FALSE, addressed |-> FALSE]]
    /\ saves = [p \in Person |-> 0]
    /\ parts = [p \in Person |-> [open |-> FALSE, ever |-> FALSE, lapsed |-> FALSE]]
    /\ clerks = [c \in Clerk |-> Spare]
    /\ cabinet = [d \in Document |-> NoFile]

Goes(c, call) == clerks' = [clerks EXCEPT ![c] = call]

\* registerLearner: nobody signs in at the address yet; a taken one is answered
\* alike and nothing happens.
BeginRegistration(c) ==
    /\ clerks[c] = Spare
    /\ \E p \in Person :
        learners[p].status = "absent" /\ Goes(c, [at |-> "registering", of |-> p])
    /\ UNCHANGED <<learners, saves, parts, cabinet>>

\* User, membership and row in one transaction; users.email refuses a second one.
CreateStudent(c) ==
    LET p == clerks[c].of IN
    /\ clerks[c].at = "registering"
    /\ learners' = IF learners[p].status # "absent" THEN learners
                   ELSE [learners EXCEPT ![p].status = "registered", ![p].named = TRUE,
                                         ![p].addressed = TRUE]
    /\ Goes(c, Spare)
    /\ UNCHANGED <<saves, parts, cabinet>>

StudentTransitions ==
    {<<"registered", "profile_complete", {"student"}>>,
     <<"profile_complete", "pending_verification", {"student", "college"}>>,
     <<"pending_verification", "verified", {"college"}>>,
     <<"pending_verification", "verification_rejected", {"college"}>>,
     <<"verification_rejected", "pending_verification", {"student", "college"}>>,
     <<"verified", "inactive", {"college"}>>,
     <<"inactive", "pending_verification", {"college"}>>}

\* transitionStudent reads the row, asks the machine, sets or clears the date.
BeginStudentMove(c) ==
    /\ clerks[c] = Spare
    /\ \E p \in Person, who \in Registrar, role \in Role : \E t \in StudentTransitions :
        LET row == learners[p] IN
        /\ t[1] = row.status /\ saves[p] < MaxSaves
        /\ Attempt(t[3], role, t[2] = "profile_complete" => row.skilled, TRUE)
        /\ Goes(c, [at |-> "saving", of |-> p,
               by |-> IF t[2] = "verified" THEN who ELSE Nobody,
               row |-> [row EXCEPT
                   !.status = t[2],
                   !.verifiedOn = IF t[2] = "verified" THEN saves[p] + 1 ELSE 0]])
    /\ UNCHANGED <<learners, saves, parts, cabinet>>

\* updateProfile changes what the learner filled in, and keeps all else it read.
BeginProfile(c) ==
    /\ clerks[c] = Spare
    /\ \E p \in Person, skilled \in BOOLEAN :
        /\ learners[p].status # "absent" /\ ~learners[p].purged /\ saves[p] < MaxSaves
        /\ Goes(c, [at |-> "saving", of |-> p, by |-> Nobody,
                    row |-> [learners[p] EXCEPT !.skilled = skilled]])
    /\ UNCHANGED <<learners, saves, parts, cabinet>>

\* Mutant: a save that verifies nobody blanks who verified.
SavedBlankingVerifier(row, column, by) ==
    [row EXCEPT !.verifiedBy = by, !.named = column.named, !.addressed = column.addressed]

\* saveStudent: every column as read, the verifier kept unless there is a new
\* one; name and address are on users and not written.
Saved(row, column, by) ==
    [row EXCEPT !.verifiedBy = IF by = Nobody THEN column.verifiedBy ELSE by,
                !.named = column.named, !.addressed = column.addressed]

SaveStudent(c) ==
    LET call == clerks[c] IN
    /\ call.at = "saving"
    /\ learners' = [learners EXCEPT ![call.of] = Saved(call.row, @, call.by)]
    /\ saves' = [saves EXCEPT ![call.of] = @ + 1]
    /\ parts' = IF call.by = Nobody THEN parts
                ELSE [parts EXCEPT ![call.of].lapsed = FALSE]
    /\ Goes(c, Spare)
    /\ UNCHANGED cabinet
-----------------------------------------------------------------------------
\* Applying needs a verified learner; whether the row was purged is not asked.
TakePart(p) ==
    /\ learners[p].status = "verified" /\ ~parts[p].open
    /\ parts' = [parts EXCEPT ![p] = [open |-> TRUE, ever |-> TRUE, lapsed |-> FALSE]]
    /\ UNCHANGED <<learners, saves, clerks, cabinet>>

\* Its last application reached a terminal status.
EndPart(p) ==
    /\ parts[p].open
    /\ parts' = [parts EXCEPT ![p].open = FALSE]
    /\ UNCHANGED <<learners, saves, clerks, cabinet>>

\* Three years pass since the last activity; without one nothing dates the row.
Lapse(p) ==
    /\ ~parts[p].lapsed
    /\ parts[p].ever \/ learners[p].verifiedOn # 0
    /\ parts' = [parts EXCEPT ![p].lapsed = TRUE]
    /\ UNCHANGED <<learners, saves, clerks, cabinet>>

PurgeBlocked(p) == learners[p].purged \/ parts[p].open \/ ~parts[p].lapsed

BeginPurge(c) ==
    /\ clerks[c] = Spare
    /\ \E p \in Person :
        /\ ~PurgeBlocked(p) /\ saves[p] < MaxSaves
        /\ Goes(c, [at |-> "purging", of |-> p])
    /\ UNCHANGED <<learners, saves, parts, cabinet>>

\* Mutant: the mark is set and the identity left on users.
ForgottenInPart(row) == [row EXCEPT !.skilled = FALSE, !.purged = TRUE]

Forgotten(row) == [row EXCEPT !.skilled = FALSE, !.purged = TRUE,
                              !.named = FALSE, !.addressed = FALSE]

\* The purge empties the address, and users.email is unique.
AddressIsFree(p) ==
    \A q \in Person \ {p} : learners[q].addressed \/ learners[q].status = "absent"

CommitPurge(c) ==
    LET p == clerks[c].of IN
    /\ clerks[c].at = "purging"
    /\ IF AddressIsFree(p)
       THEN /\ learners' = [learners EXCEPT ![p] = Forgotten(@)]
            /\ saves' = [saves EXCEPT ![p] = @ + 1]
            /\ Goes(c, [at |-> "removing", of |-> p])
       ELSE Goes(c, Spare) /\ UNCHANGED <<learners, saves>>
    /\ UNCHANGED <<parts, cabinet>>

\* After the commit: the files go, or the process or the file store fails.
RemoveFiles(c) ==
    /\ clerks[c].at = "removing"
    /\ \/ cabinet' = [d \in Document |->
              IF cabinet[d].of = clerks[c].of THEN NoFile ELSE cabinet[d]]
       \/ UNCHANGED cabinet
    /\ Goes(c, Spare)
    /\ UNCHANGED <<learners, saves, parts>>

\* changeWorkAddress finds the account by the address it has now, ...
BeginAddressChange(c) ==
    /\ clerks[c] = Spare
    /\ \E p \in Person : learners[p].addressed /\ Goes(c, [at |-> "readdressing", of |-> p])
    /\ UNCHANGED <<learners, saves, parts, cabinet>>

\* ... and writes the new one by the id it found, unless somebody took it meanwhile.
CommitAddressChange(c) ==
    /\ clerks[c].at = "readdressing"
    /\ \/ learners' = [learners EXCEPT ![clerks[c].of].addressed = TRUE]
       \/ UNCHANGED learners
    /\ Goes(c, Spare)
    /\ UNCHANGED <<saves, parts, cabinet>>
-----------------------------------------------------------------------------
\* receiveUpload stores first, as pending, ...
PutFile(c) ==
    /\ clerks[c] = Spare
    /\ \E p \in Person, d \in Document :
        /\ learners[p].status # "absent" /\ cabinet[d] = NoFile
        /\ cabinet' = [cabinet EXCEPT ![d] = [of |-> p, scan |-> "pending"]]
        /\ Goes(c, [at |-> "scanning", file |-> d])
    /\ UNCHANGED <<learners, saves, parts>>

\* ... then scans: clean is marked, infected removed, a failed scan leaves it.
ScanFile(c) ==
    LET d == clerks[c].file IN
    /\ clerks[c].at = "scanning"
    /\ cabinet' \in {cabinet, [cabinet EXCEPT ![d] = NoFile],
                     [cabinet EXCEPT ![d].scan = IF @ = "none" THEN @ ELSE "clean"]}
    /\ Goes(c, Spare)
    /\ UNCHANGED <<learners, saves, parts>>

LearnerNext ==
    \/ \E c \in Clerk :
        \/ BeginRegistration(c) \/ CreateStudent(c)
        \/ BeginStudentMove(c) \/ BeginProfile(c) \/ SaveStudent(c)
        \/ BeginPurge(c) \/ CommitPurge(c) \/ RemoveFiles(c)
        \/ BeginAddressChange(c) \/ CommitAddressChange(c)
        \/ PutFile(c) \/ ScanFile(c)
    \/ \E p \in Person : TakePart(p) \/ EndPart(p) \/ Lapse(p)

LearnerSpec == LearnerInit /\ [][LearnerNext]_learnerVars
-----------------------------------------------------------------------------
StudentStatus == {t[1] : t \in StudentTransitions} \cup {t[2] : t \in StudentTransitions}

\* Learners' rows and files have the shapes the code gives them.
LearnerTypeOK ==
    /\ learners \in [Person ->
           [status: StudentStatus \cup {"absent"}, verifiedOn: Nat, verifiedBy: Registrar \cup {Nobody},
            skilled: BOOLEAN, purged: BOOLEAN, named: BOOLEAN, addressed: BOOLEAN]]
    /\ cabinet \in [Document -> [of: Person \cup {Nobody},
                                 scan: {"none", "pending", "clean"}]]

\* Whoever overwrites whom, a learner is verified exactly while the row is dated,
\* and then somebody is on record as having done it (verification_is_attributable,
\* saveStudent).
VerificationIsAttributable ==
    \A p \in Person :
        /\ learners[p].status = "verified" <=> learners[p].verifiedOn # 0
        /\ learners[p].status = "verified" => learners[p].verifiedBy # Nobody

\* canRetrieve, for a caller of the learner's market who may see such files.
Retrievable(d) ==
    /\ cabinet[d].scan = "clean"
    /\ ~learners[cabinet[d].of].purged

ReadBefore(p) ==
    \E c \in Clerk : clerks[c].at = "saving" /\ clerks[c].of = p /\ ~clerks[c].row.purged

Readdressing(p) == \E c \in Clerk : clerks[c].at = "readdressing" /\ clerks[c].of = p

\* A purge takes the name for good, whatever is saved later; the address comes back
\* only by a change of address that had found the account before the purge; and the
\* files stay closed unless a save that had read the row before the purge is under way
\* (purgeLearner, saveStudent, changeUserEmail, canRetrieve).
PurgeHolds ==
    [][\A p \in Person : learners[p].purged =>
           /\ ~learners[p].named /\ ~learners'[p].named
           /\ learners'[p].addressed => learners[p].addressed \/ Readdressing(p)
           /\ ReadBefore(p) \/ \A d \in Document : cabinet'[d].of = p => ~Retrievable(d)'
      ]_learnerVars

\* Retention discharges: a purge the rule allows is written (purgeLearnerIdentity).
AllowedPurgeIsWritten ==
    [][\A c \in Clerk : clerks[c].at = "purging" /\ clerks'[c] # clerks[c] =>
           learners'[clerks[c].of].purged]_learnerVars
==============================================================================

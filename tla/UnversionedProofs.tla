-------------------------- MODULE UnversionedProofs --------------------------
(***************************************************************************)
(* Proofs about the services whose rows carry no version, for any number   *)
(* of rows and calls: what a call has read may be gone when it writes, and *)
(* the promise rests on what the write itself can no longer undo.          *)
(***************************************************************************)
EXTENDS Learner, Market, Mentorship, SignIn, SecondFactor, FiniteSetTheorems, TLAPS

-----------------------------------------------------------------------------
(* Learner. *)

LearnerRow == [status: StudentStatus \cup {"absent"}, verifiedOn: Nat,
               verifiedBy: Registrar \cup {Nobody},
               skilled: BOOLEAN, purged: BOOLEAN, named: BOOLEAN, addressed: BOOLEAN]

PartRow == [open: BOOLEAN, ever: BOOLEAN, lapsed: BOOLEAN]

FileRow == [of: Person \cup {Nobody}, scan: {"none", "pending", "clean"}]

OnRow     == [at: {"registering", "purging", "removing", "readdressing"}, of: Person]
SavingRow == [at: {"saving"}, of: Person, by: Registrar \cup {Nobody}, row: LearnerRow]
OnFile    == [at: {"scanning"}, file: Document]

ClerkState == {Spare} \cup OnRow \cup SavingRow \cup OnFile

Dated(row) == row.status = "verified" <=> row.verifiedOn # 0

\* A row is dated while it is verified, names who verified it, and once purged belongs
\* to a learner whose name is gone.
RowGood(p) ==
    /\ Dated(learners[p])
    /\ learners[p].status = "verified" => learners[p].verifiedBy # Nobody
    /\ learners[p].purged => ~learners[p].named /\ learners[p].status # "absent"

\* Only somebody who registered takes part, and only they lapse.
PartGood(p) == parts[p].ever \/ parts[p].lapsed => learners[p].status # "absent"

\* A save carries a dated row; if it verifies nobody, its row was verified by somebody
\* the columns still name; if its row was purged, the name is gone.
ClerkHonest(call) ==
    /\ call.at \in {"saving", "purging", "removing"} => learners[call.of].status # "absent"
    /\ call.at = "saving" =>
           /\ call.row.status # "absent" /\ Dated(call.row)
           /\ call.row.status = "verified" /\ call.by = Nobody =>
                  learners[call.of].verifiedBy # Nobody
           /\ call.row.purged => ~learners[call.of].named

LearnerInv ==
    /\ learners \in [Person -> LearnerRow]
    /\ saves \in [Person -> Nat]
    /\ parts \in [Person -> PartRow]
    /\ clerks \in [Clerk -> ClerkState]
    /\ cabinet \in [Document -> FileRow]
    /\ \A p \in Person : RowGood(p) /\ PartGood(p)
    /\ \A c \in Clerk : ClerkHonest(clerks[c])

\* Nobody's registration is undone, a name that is gone stays gone, and there is
\* always somebody on record once there was.
Advances ==
    \A p \in Person :
        /\ learners[p].status # "absent" =>
               /\ learners'[p].status # "absent"
               /\ ~learners[p].named => ~learners'[p].named
        /\ learners[p].verifiedBy # Nobody => learners'[p].verifiedBy # Nobody

\* Every move of the table is between two statuses of a registered learner.
LEMMA StudentEdges ==
    /\ "registered" \in StudentStatus /\ "registered" # "verified"
    /\ \A t \in StudentTransitions :
           /\ t[1] # "absent" /\ t[2] # "absent"
           /\ t[1] \in StudentStatus /\ t[2] \in StudentStatus
  BY DEF StudentTransitions, StudentStatus

\* Nobody has registered at the start.
LEMMA LearnerStart == LearnerInit => LearnerInv
  <1> SUFFICES ASSUME LearnerInit PROVE LearnerInv
    OBVIOUS
  <1>1. learners \in [Person -> LearnerRow] /\ saves \in [Person -> Nat]
    BY DEF LearnerInit, LearnerRow
  <1>2. parts \in [Person -> PartRow] /\ cabinet \in [Document -> FileRow]
    BY DEF LearnerInit, PartRow, FileRow, NoFile
  <1>3. clerks \in [Clerk -> ClerkState] /\ \A c \in Clerk : ClerkHonest(clerks[c])
    BY DEF LearnerInit, ClerkState, ClerkHonest, Spare
  <1>4. \A p \in Person : RowGood(p) /\ PartGood(p)
    BY DEF LearnerInit, RowGood, PartGood, Dated
  <1> QED BY <1>1, <1>2, <1>3, <1>4 DEF LearnerInv

\* A call in flight has the fields of the step it is at.
LEMMA ClerkShapes ==
    ASSUME NEW call \in ClerkState
    PROVE  /\ call.at \in {"registering", "purging", "removing", "readdressing"} => call \in OnRow
           /\ call.at = "saving" => call \in SavingRow
           /\ call.at = "scanning" => call \in OnFile
  BY DEF ClerkState, Spare, OnRow, SavingRow, OnFile

\* Calls stay honest while rows advance.
LEMMA ClerksStayHonest ==
    ASSUME LearnerInv, Advances, NEW c \in Clerk, NEW call \in ClerkState,
           ClerkHonest(call)', Goes(c, call)
    PROVE  /\ clerks' \in [Clerk -> ClerkState]
           /\ \A d \in Clerk : ClerkHonest(clerks[d])'
  <1>1. clerks' \in [Clerk -> ClerkState]
    BY DEF LearnerInv, Goes
  <1>2. ASSUME NEW d \in Clerk PROVE ClerkHonest(clerks[d])'
    <2>1. CASE d = c
      <3>1. clerks'[d] = call
        BY <2>1 DEF LearnerInv, Goes
      <3> QED BY <3>1 DEF ClerkHonest
    <2>2. CASE d # c
      <3> DEFINE held == clerks[d]
      <3>1. clerks'[d] = held /\ held \in ClerkState /\ ClerkHonest(held)
        BY <2>2 DEF LearnerInv, Goes
      <3>2. held.at \in {"saving", "purging", "removing"} => held.of \in Person
        BY <3>1, ClerkShapes DEF OnRow, SavingRow
      <3> HIDE DEF held
      <3> QED BY <3>1, <3>2 DEF ClerkHonest, Advances
    <2> QED BY <2>1, <2>2
  <1> QED BY <1>1, <1>2

\* A call that is over claims nothing.
LEMMA SpareHonest == Spare \in ClerkState /\ ClerkHonest(Spare) /\ ClerkHonest(Spare)'
  BY DEF ClerkState, ClerkHonest, Spare

\* A step that writes no row and leaves an honest call with one clerk.
LEMMA ClerkTaken ==
    ASSUME LearnerInv, UNCHANGED <<learners, saves, parts>>,
           cabinet' \in [Document -> FileRow],
           NEW c \in Clerk, NEW call \in ClerkState, ClerkHonest(call), Goes(c, call)
    PROVE  LearnerInv' /\ Advances
  <1>1. Advances
    BY DEF Advances
  <1>2. ClerkHonest(call)'
    BY DEF ClerkHonest
  <1> QED BY <1>1, <1>2, ClerksStayHonest DEF LearnerInv, RowGood, PartGood

\* Registration creates the row of somebody who has none.
LEMMA CreateStudentKeeps ==
    ASSUME LearnerInv, NEW c \in Clerk, CreateStudent(c)
    PROVE  LearnerInv' /\ Advances
  <1> DEFINE p == clerks[c].of
             row == [learners[p] EXCEPT !.status = "registered", !.named = TRUE,
                                        !.addressed = TRUE]
  <1>1. p \in Person
    BY ClerkShapes DEF CreateStudent, LearnerInv, OnRow
  <1>2. UNCHANGED <<saves, parts, cabinet>> /\ Goes(c, Spare)
    BY DEF CreateStudent
  <1>3. CASE learners[p].status # "absent"
    BY <1>2, <1>3, SpareHonest, ClerkTaken DEF CreateStudent, LearnerInv
  <1>4. CASE learners[p].status = "absent"
    <2>1. learners' = [learners EXCEPT ![p] = row]
      BY <1>1, <1>4 DEF CreateStudent, LearnerInv
    <2>2. /\ row \in LearnerRow /\ row.status = "registered"
          /\ row.verifiedBy = learners[p].verifiedBy
          /\ row.verifiedOn = 0 /\ ~row.purged
      <3>1. learners[p] \in LearnerRow /\ learners[p].verifiedOn = 0 /\ ~learners[p].purged
        BY <1>1, <1>4 DEF LearnerInv, RowGood, Dated
      <3> QED BY <3>1, StudentEdges DEF LearnerRow
    <2> HIDE DEF row
    <2>3. learners' \in [Person -> LearnerRow] /\ Advances
      BY <1>1, <1>4, <2>1, <2>2 DEF LearnerInv, Advances
    <2>4. \A q \in Person : RowGood(q)' /\ PartGood(q)'
      BY <1>1, <1>2, <2>1, <2>2 DEF LearnerInv, RowGood, PartGood, Dated
    <2> QED BY <1>2, <2>3, <2>4, SpareHonest, ClerksStayHonest DEF LearnerInv
  <1> QED BY <1>3, <1>4

\* A move reads a registered learner's row; whoever verifies is somebody.
LEMMA BeginStudentMoveKeeps ==
    ASSUME LearnerInv, NEW c \in Clerk, BeginStudentMove(c)
    PROVE  LearnerInv' /\ Advances
  <1>1. PICK p \in Person, who \in Registrar, t \in StudentTransitions :
            /\ t[1] = learners[p].status
            /\ Goes(c, [at |-> "saving", of |-> p,
                   by |-> IF t[2] = "verified" THEN who ELSE Nobody,
                   row |-> [learners[p] EXCEPT
                       !.status = t[2],
                       !.verifiedOn = IF t[2] = "verified" THEN saves[p] + 1 ELSE 0]])
    BY DEF BeginStudentMove
  <1> DEFINE on  == IF t[2] = "verified" THEN saves[p] + 1 ELSE 0
             by  == IF t[2] = "verified" THEN who ELSE Nobody
             row == [learners[p] EXCEPT !.status = t[2], !.verifiedOn = on]
             call == [at |-> "saving", of |-> p, by |-> by, row |-> row]
  <1>2. learners[p] \in LearnerRow /\ saves[p] \in Nat /\ RowGood(p)
    BY DEF LearnerInv
  <1>3. on \in Nat /\ (t[2] = "verified" <=> on # 0)
    BY <1>2
  <1>4. t[2] \in StudentStatus /\ t[2] # "absent" /\ learners[p].status # "absent"
    BY <1>1, StudentEdges
  <1>5. by \in Registrar \cup {Nobody} /\ (t[2] = "verified" => by # Nobody)
    BY LearnerAssumption
  <1> HIDE DEF on, by
  <1>6. /\ row \in LearnerRow /\ row.status = t[2] /\ row.verifiedOn = on
        /\ row.purged = learners[p].purged
    BY <1>2, <1>3, <1>4 DEF LearnerRow
  <1>7. Goes(c, call)
    BY <1>1 DEF on, by
  <1> HIDE DEF row
  <1>8. call \in ClerkState
    BY <1>5, <1>6 DEF ClerkState, SavingRow
  <1>9. ClerkHonest(call)
    BY <1>2, <1>3, <1>4, <1>5, <1>6 DEF ClerkHonest, Dated, RowGood
  <1> HIDE DEF call
  <1> QED BY <1>7, <1>8, <1>9, ClerkTaken DEF BeginStudentMove, LearnerInv

\* A profile edit reads the row of somebody who registered and was not purged.
LEMMA BeginProfileKeeps ==
    ASSUME LearnerInv, NEW c \in Clerk, BeginProfile(c)
    PROVE  LearnerInv' /\ Advances
  <1>1. PICK p \in Person, skilled \in BOOLEAN :
            /\ learners[p].status # "absent" /\ ~learners[p].purged
            /\ Goes(c, [at |-> "saving", of |-> p, by |-> Nobody,
                        row |-> [learners[p] EXCEPT !.skilled = skilled]])
    BY DEF BeginProfile
  <1> DEFINE row == [learners[p] EXCEPT !.skilled = skilled]
             call == [at |-> "saving", of |-> p, by |-> Nobody, row |-> row]
  <1>2. learners[p] \in LearnerRow /\ RowGood(p)
    BY DEF LearnerInv
  <1>3. /\ row \in LearnerRow /\ row.status = learners[p].status
        /\ row.verifiedOn = learners[p].verifiedOn /\ row.purged = learners[p].purged
    BY <1>2 DEF LearnerRow
  <1>4. Goes(c, call)
    BY <1>1
  <1> HIDE DEF row
  <1>5. call \in ClerkState
    BY <1>3 DEF ClerkState, SavingRow
  <1>6. ClerkHonest(call)
    BY <1>1, <1>2, <1>3 DEF ClerkHonest, Dated, RowGood
  <1> HIDE DEF call
  <1> QED BY <1>4, <1>5, <1>6, ClerkTaken DEF BeginProfile, LearnerInv

\* A save writes the row it carries, and keeps the verifier and the name that are there.
LEMMA SaveStudentKeeps ==
    ASSUME LearnerInv, NEW c \in Clerk, SaveStudent(c)
    PROVE  LearnerInv' /\ Advances
  <1> DEFINE call == clerks[c]
             p    == call.of
             by   == IF call.by = Nobody THEN learners[p].verifiedBy ELSE call.by
             row  == [call.row EXCEPT !.verifiedBy = by, !.named = learners[p].named,
                                      !.addressed = learners[p].addressed]
  <1>1. call \in SavingRow /\ ClerkHonest(call) /\ call.at = "saving"
    BY ClerkShapes DEF SaveStudent, LearnerInv
  <1>2. p \in Person /\ call.row \in LearnerRow /\ call.by \in Registrar \cup {Nobody}
    BY <1>1 DEF SavingRow
  <1>3. learners[p] \in LearnerRow
    BY <1>2 DEF LearnerInv
  <1>4. learners' = [learners EXCEPT ![p] = row]
    BY <1>2 DEF SaveStudent, Saved, LearnerInv
  <1>5. /\ saves' \in [Person -> Nat] /\ parts' \in [Person -> PartRow]
        /\ \A q \in Person : /\ parts'[q].ever = parts[q].ever
                             /\ parts'[q].lapsed => parts[q].lapsed
    <2>1. saves[p] + 1 \in Nat
      BY <1>2 DEF LearnerInv
    <2>2. saves' = [saves EXCEPT ![p] = saves[p] + 1]
      BY DEF SaveStudent
    <2>3. saves' \in [Person -> Nat]
      <3> HIDE DEF p
      <3> QED BY <2>1, <2>2 DEF LearnerInv
    <2>4. \/ parts' = parts
          \/ parts' = [parts EXCEPT ![p].lapsed = FALSE]
      BY DEF SaveStudent
    <2>5. parts' \in [Person -> PartRow]
          /\ \A q \in Person : /\ parts'[q].ever = parts[q].ever
                               /\ parts'[q].lapsed => parts[q].lapsed
      <3> DEFINE part == [parts[p] EXCEPT !.lapsed = FALSE]
      <3>1. parts \in [Person -> PartRow]
        BY DEF LearnerInv
      <3>2. part \in PartRow /\ part.ever = parts[p].ever /\ ~part.lapsed
        BY <1>2, <3>1 DEF PartRow
      <3>3. parts' = parts \/ parts' = [parts EXCEPT ![p] = part]
        BY <2>4
      <3> HIDE DEF p, part
      <3> QED BY <1>2, <3>1, <3>2, <3>3
    <2> QED BY <2>3, <2>5
  <1>6. by \in Registrar \cup {Nobody} /\ learners[p].named \in BOOLEAN
        /\ learners[p].addressed \in BOOLEAN
    BY <1>2, <1>3 DEF LearnerRow
  <1>7. /\ learners[p].status # "absent" /\ call.row.status # "absent" /\ Dated(call.row)
        /\ call.row.status = "verified" => by # Nobody
        /\ learners[p].verifiedBy # Nobody => by # Nobody
        /\ call.row.purged => ~learners[p].named
    BY <1>1 DEF ClerkHonest
  <1> HIDE DEF by
  <1>8. /\ row \in LearnerRow /\ row.verifiedBy = by /\ row.named = learners[p].named
        /\ row.status = call.row.status /\ row.verifiedOn = call.row.verifiedOn
        /\ row.purged = call.row.purged
    BY <1>2, <1>6 DEF LearnerRow
  <1> HIDE DEF row, call
  <1>9. learners' \in [Person -> LearnerRow] /\ Advances
    BY <1>2, <1>4, <1>7, <1>8 DEF LearnerInv, Advances
  <1>10. \A q \in Person : RowGood(q)' /\ PartGood(q)'
    BY <1>2, <1>4, <1>5, <1>7, <1>8, <1>9 DEF LearnerInv, RowGood, PartGood, Dated, Advances
  <1> QED BY <1>5, <1>9, <1>10, SpareHonest, ClerksStayHonest DEF SaveStudent, LearnerInv

\* A purge empties the name of a row that exists.
LEMMA CommitPurgeKeeps ==
    ASSUME LearnerInv, NEW c \in Clerk, CommitPurge(c)
    PROVE  LearnerInv' /\ Advances
  <1>1. PICK p \in Person : p = clerks[c].of /\ learners[p].status # "absent"
    BY ClerkShapes DEF CommitPurge, LearnerInv, OnRow, ClerkHonest
  <1> DEFINE row == Forgotten(learners[p])
             call == [at |-> "removing", of |-> p]
  <1>2. CASE ~AddressIsFree(p)
    BY <1>1, <1>2, SpareHonest, ClerkTaken DEF CommitPurge, LearnerInv
  <1>3. CASE AddressIsFree(p)
    <2>1. /\ learners' = [learners EXCEPT ![p] = row] /\ saves' = [saves EXCEPT ![p] = @ + 1]
          /\ Goes(c, call) /\ UNCHANGED <<parts, cabinet>>
      BY <1>1, <1>3 DEF CommitPurge
    <2>2. learners[p] \in LearnerRow
      BY <1>1 DEF LearnerInv
    <2>3. /\ row \in LearnerRow /\ ~row.named /\ row.status = learners[p].status
          /\ row.verifiedBy = learners[p].verifiedBy /\ row.verifiedOn = learners[p].verifiedOn
      BY <2>2 DEF Forgotten, LearnerRow
    <2> HIDE DEF row
    <2>4. learners' \in [Person -> LearnerRow] /\ Advances
      BY <1>1, <2>1, <2>3 DEF LearnerInv, Advances
    <2>5. \A q \in Person : RowGood(q)' /\ PartGood(q)'
      BY <1>1, <2>1, <2>3 DEF LearnerInv, RowGood, PartGood, Dated
    <2>6. call \in ClerkState /\ ClerkHonest(call)'
      <3>1. call \in ClerkState
        BY <1>1 DEF ClerkState, OnRow
      <3>2. learners'[p].status # "absent"
        BY <1>1, <2>4 DEF Advances
      <3> QED BY <3>1, <3>2 DEF ClerkHonest
    <2>7. saves' \in [Person -> Nat]
      <3>1. saves[p] + 1 \in Nat
        BY <1>1 DEF LearnerInv
      <3> QED BY <2>1, <3>1 DEF LearnerInv
    <2> HIDE DEF call
    <2> QED BY <2>1, <2>4, <2>5, <2>6, <2>7, ClerksStayHonest DEF LearnerInv
  <1> QED BY <1>2, <1>3

\* A change of address writes the address alone.
LEMMA CommitAddressChangeKeeps ==
    ASSUME LearnerInv, NEW c \in Clerk, CommitAddressChange(c)
    PROVE  LearnerInv' /\ Advances
  <1>1. PICK p \in Person : p = clerks[c].of
    BY ClerkShapes DEF CommitAddressChange, LearnerInv, OnRow
  <1> DEFINE row == [learners[p] EXCEPT !.addressed = TRUE]
  <1>2. UNCHANGED <<saves, parts, cabinet>> /\ Goes(c, Spare)
    BY DEF CommitAddressChange
  <1>3. CASE UNCHANGED learners
    BY <1>2, <1>3, SpareHonest, ClerkTaken DEF LearnerInv
  <1>4. CASE learners' = [learners EXCEPT ![p] = row]
    <2>1. /\ row \in LearnerRow /\ row.status = learners[p].status
          /\ row.verifiedBy = learners[p].verifiedBy /\ row.verifiedOn = learners[p].verifiedOn
          /\ row.purged = learners[p].purged /\ row.named = learners[p].named
      BY DEF LearnerInv, LearnerRow
    <2> HIDE DEF row
    <2>2. learners' \in [Person -> LearnerRow] /\ Advances
      BY <1>4, <2>1 DEF LearnerInv, Advances
    <2>3. \A q \in Person : RowGood(q)' /\ PartGood(q)'
      BY <1>2, <1>4, <2>1 DEF LearnerInv, RowGood, PartGood, Dated
    <2> QED BY <1>2, <2>2, <2>3, SpareHonest, ClerksStayHonest DEF LearnerInv
  <1> QED BY <1>1, <1>3, <1>4 DEF CommitAddressChange

\* Taking part, ending and lapsing are for registered learners.
LEMMA PartsKeep ==
    ASSUME LearnerInv, NEW p \in Person, TakePart(p) \/ EndPart(p) \/ Lapse(p)
    PROVE  LearnerInv' /\ Advances
  <1>1. UNCHANGED <<learners, saves, clerks, cabinet>>
    BY DEF TakePart, EndPart, Lapse
  <1>2. PICK part \in PartRow : /\ parts' = [parts EXCEPT ![p] = part]
                                /\ part.ever \/ part.lapsed => learners[p].status # "absent"
    <2>1. parts[p] \in PartRow /\ PartGood(p) /\ RowGood(p)
      BY DEF LearnerInv
    <2>2. CASE TakePart(p)
      <3>1. [open |-> TRUE, ever |-> TRUE, lapsed |-> FALSE] \in PartRow
        BY DEF PartRow
      <3> QED BY <2>2, <3>1 DEF TakePart
    <2>3. CASE EndPart(p)
      <3> DEFINE part == [parts[p] EXCEPT !.open = FALSE]
      <3>1. part \in PartRow /\ part.ever = parts[p].ever /\ part.lapsed = parts[p].lapsed
        BY <2>1 DEF PartRow
      <3>2. parts' = [parts EXCEPT ![p] = part]
        BY <2>3 DEF EndPart
      <3> QED BY <2>1, <3>1, <3>2 DEF PartGood
    <2>4. CASE Lapse(p)
      <3> DEFINE part == [parts[p] EXCEPT !.lapsed = TRUE]
      <3>1. part \in PartRow
        BY <2>1 DEF PartRow
      <3>2. parts' = [parts EXCEPT ![p] = part]
        BY <2>4 DEF Lapse
      <3>3. learners[p].status # "absent"
        BY <2>1, <2>4 DEF Lapse, PartGood, RowGood, Dated
      <3> QED BY <3>1, <3>2, <3>3
    <2> QED BY <2>2, <2>3, <2>4
  <1>3. parts' \in [Person -> PartRow] /\ \A q \in Person : PartGood(q)'
    BY <1>1, <1>2 DEF LearnerInv, PartGood
  <1> QED BY <1>1, <1>3 DEF LearnerInv, RowGood, ClerkHonest, Advances

\* A file is stored for somebody, scanned, and removed by the purge.
LEMMA FilesKeep ==
    ASSUME LearnerInv, NEW c \in Clerk, PutFile(c) \/ ScanFile(c) \/ RemoveFiles(c)
    PROVE  LearnerInv' /\ Advances
  <1>1. UNCHANGED <<learners, saves, parts>>
    BY DEF PutFile, ScanFile, RemoveFiles
  <1>2. cabinet \in [Document -> FileRow] /\ NoFile \in FileRow
    BY DEF LearnerInv, NoFile, FileRow
  <1>3. CASE PutFile(c)
    <2>1. PICK p \in Person, d \in Document :
              /\ cabinet' = [cabinet EXCEPT ![d] = [of |-> p, scan |-> "pending"]]
              /\ Goes(c, [at |-> "scanning", file |-> d])
      BY <1>3 DEF PutFile
    <2>2. cabinet' \in [Document -> FileRow]
      BY <1>2, <2>1 DEF FileRow
    <2>3. [at |-> "scanning", file |-> d] \in ClerkState
          /\ ClerkHonest([at |-> "scanning", file |-> d])
      BY DEF ClerkState, OnFile, ClerkHonest
    <2> QED BY <1>1, <2>1, <2>2, <2>3, ClerkTaken
  <1>4. CASE ScanFile(c)
    <2>1. PICK d \in Document : d = clerks[c].file
      BY <1>4, ClerkShapes DEF ScanFile, LearnerInv, OnFile
    <2>2. [cabinet[d] EXCEPT !.scan = IF @ = "none" THEN @ ELSE "clean"] \in FileRow
      BY <1>2 DEF FileRow
    <2>3. \/ cabinet' \in {cabinet, [cabinet EXCEPT ![d] = NoFile]}
          \/ cabinet' = [cabinet EXCEPT ![d] =
                            [cabinet[d] EXCEPT !.scan = IF @ = "none" THEN @ ELSE "clean"]]
      BY <1>4, <2>1 DEF ScanFile
    <2>4. cabinet' \in [Document -> FileRow]
      BY <1>2, <2>2, <2>3
    <2> QED BY <1>1, <1>4, <2>4, SpareHonest, ClerkTaken DEF ScanFile
  <1>5. CASE RemoveFiles(c)
    <2>1. cabinet' \in [Document -> FileRow]
      BY <1>2, <1>5 DEF RemoveFiles
    <2> QED BY <1>1, <1>5, <2>1, SpareHonest, ClerkTaken DEF RemoveFiles
  <1> QED BY <1>3, <1>4, <1>5

\* Every step preserves the invariant, and every row it writes advances.
LEMMA LearnerStep ==
    LearnerInv /\ [LearnerNext]_learnerVars => LearnerInv' /\ Advances
  <1> SUFFICES ASSUME LearnerInv, [LearnerNext]_learnerVars PROVE LearnerInv' /\ Advances
    OBVIOUS
  <1>1. ASSUME NEW c \in Clerk, BeginRegistration(c) PROVE LearnerInv' /\ Advances
    <2>1. PICK p \in Person : Goes(c, [at |-> "registering", of |-> p])
      BY <1>1 DEF BeginRegistration
    <2>2. [at |-> "registering", of |-> p] \in ClerkState
          /\ ClerkHonest([at |-> "registering", of |-> p])
      BY DEF ClerkState, OnRow, ClerkHonest
    <2> QED BY <1>1, <2>1, <2>2, ClerkTaken DEF BeginRegistration, LearnerInv
  <1>2. ASSUME NEW c \in Clerk, BeginPurge(c) PROVE LearnerInv' /\ Advances
    <2>1. PICK p \in Person : ~PurgeBlocked(p) /\ Goes(c, [at |-> "purging", of |-> p])
      BY <1>2 DEF BeginPurge
    <2>2. [at |-> "purging", of |-> p] \in ClerkState
          /\ ClerkHonest([at |-> "purging", of |-> p])
      BY <2>1 DEF ClerkState, OnRow, ClerkHonest, PurgeBlocked, LearnerInv, PartGood
    <2> QED BY <1>2, <2>1, <2>2, ClerkTaken DEF BeginPurge, LearnerInv
  <1>3. ASSUME NEW c \in Clerk, BeginAddressChange(c) PROVE LearnerInv' /\ Advances
    <2>1. PICK p \in Person : Goes(c, [at |-> "readdressing", of |-> p])
      BY <1>3 DEF BeginAddressChange
    <2>2. [at |-> "readdressing", of |-> p] \in ClerkState
          /\ ClerkHonest([at |-> "readdressing", of |-> p])
      BY DEF ClerkState, OnRow, ClerkHonest
    <2> QED BY <1>3, <2>1, <2>2, ClerkTaken DEF BeginAddressChange, LearnerInv
  <1>4. CASE UNCHANGED learnerVars
    BY <1>4 DEF learnerVars, LearnerInv, RowGood, PartGood, ClerkHonest, Advances
  <1> QED BY <1>1, <1>2, <1>3, <1>4, CommitAddressChangeKeeps, CreateStudentKeeps, BeginStudentMoveKeeps, BeginProfileKeeps,
             SaveStudentKeeps, CommitPurgeKeeps, PartsKeep, FilesKeep DEF LearnerNext

\* Rows are dated while verified, saves forget no verifier and restore no purged name,
\* for any number of learners and calls and whoever overwrites whom.
THEOREM LearnerInvariant == LearnerSpec => []LearnerInv
  BY LearnerStart, LearnerStep, PTL DEF LearnerSpec

\* Learners' rows and files keep their shapes.
THEOREM LearnerTyped == LearnerSpec => []LearnerTypeOK
  <1>1. LearnerInv => LearnerTypeOK
    BY DEF LearnerInv, LearnerTypeOK, LearnerRow, FileRow
  <1> QED BY <1>1, LearnerInvariant, PTL

\* Saves that carry no version lose each other's work, but never who verified: a
\* verified row is dated and somebody is on record (saveStudent).
THEOREM VerifiedBySomebody == LearnerSpec => []VerificationIsAttributable
  <1>1. LearnerInv => VerificationIsAttributable
    BY DEF LearnerInv, RowGood, Dated, VerificationIsAttributable
  <1> QED BY <1>1, LearnerInvariant, PTL

\* A purged learner's name never comes back, the address comes back only by a change
\* of address that had found the account before the purge, and the files stay closed
\* unless a save that had read the row before it is under way (purgeLearner,
\* saveStudent, changeUserEmail).
THEOREM PurgedForGood == LearnerSpec => PurgeHolds
  <1>1. ASSUME LearnerInv, LearnerNext, NEW p \in Person, learners[p].purged
        PROVE  /\ ~learners[p].named /\ ~learners'[p].named
               /\ learners'[p].addressed => learners[p].addressed \/ Readdressing(p)
               /\ ReadBefore(p) \/ \A d \in Document : cabinet'[d].of = p => ~Retrievable(d)'
    <2>1. ~learners[p].named /\ learners[p].status # "absent"
      BY <1>1 DEF LearnerInv, RowGood
    <2>2. ~learners'[p].named
      BY <1>1, <2>1, LearnerStep DEF Advances
    <2>3. /\ ReadBefore(p) \/ learners'[p].purged
          /\ learners'[p].addressed => learners[p].addressed \/ Readdressing(p)
      <3> DEFINE Held == /\ ReadBefore(p) \/ learners'[p].purged
                         /\ learners'[p].addressed => learners[p].addressed \/ Readdressing(p)
      <3>1. ASSUME NEW c \in Clerk, SaveStudent(c) PROVE Held
        <4>1. clerks[c].at = "saving" /\ clerks[c] \in SavingRow
          BY <1>1, <3>1, ClerkShapes DEF SaveStudent, LearnerInv
        <4>2. CASE clerks[c].of = p
          <5>1. clerks[c].row \in LearnerRow
            BY <4>1 DEF SavingRow
          <5>2. learners'[p] = Saved(clerks[c].row, learners[p], clerks[c].by)
            BY <1>1, <3>1, <4>2 DEF SaveStudent, LearnerInv
          <5>3. /\ learners'[p].purged = clerks[c].row.purged
                /\ learners'[p].addressed = learners[p].addressed
            BY <5>1, <5>2 DEF Saved, LearnerRow
          <5>4. ~clerks[c].row.purged => ReadBefore(p)
            BY <4>1, <4>2 DEF ReadBefore
          <5> QED BY <5>1, <5>3, <5>4 DEF LearnerRow
        <4>3. CASE clerks[c].of # p
          BY <1>1, <3>1, <4>3 DEF SaveStudent, LearnerInv
        <4> QED BY <4>2, <4>3
      <3>2. ASSUME NEW c \in Clerk, CommitPurge(c) PROVE Held
        <4>1. /\ learners[p] \in LearnerRow
              /\ Forgotten(learners[p]).purged /\ ~Forgotten(learners[p]).addressed
          BY <1>1 DEF LearnerInv, LearnerRow, Forgotten
        <4> QED BY <1>1, <3>2, <4>1 DEF CommitPurge, LearnerInv
      <3>3. ASSUME NEW c \in Clerk, CreateStudent(c) PROVE Held
        BY <1>1, <2>1, <3>3 DEF CreateStudent, LearnerInv
      <3>4. ASSUME NEW c \in Clerk, CommitAddressChange(c) PROVE Held
        <4>1. clerks[c] \in OnRow /\ clerks[c].at = "readdressing"
          BY <1>1, <3>4, ClerkShapes DEF CommitAddressChange, LearnerInv
        <4>2. learners[p] \in LearnerRow
          BY <1>1 DEF LearnerInv
        <4>3. learners'[p].purged
          BY <1>1, <3>4, <4>1, <4>2 DEF CommitAddressChange, LearnerInv, LearnerRow, OnRow
        <4>4. clerks[c].of = p => Readdressing(p)
          BY <4>1 DEF Readdressing
        <4>5. clerks[c].of # p => learners'[p] = learners[p]
          BY <1>1, <3>4, <4>1 DEF CommitAddressChange, LearnerInv, OnRow
        <4> QED BY <4>3, <4>4, <4>5
      <3> QED BY <1>1, <3>1, <3>2, <3>3, <3>4 DEF LearnerNext, BeginRegistration,
                  BeginStudentMove, BeginProfile, BeginPurge, RemoveFiles, BeginAddressChange,
                  PutFile, ScanFile, TakePart, EndPart, Lapse
    <2> QED BY <2>1, <2>2, <2>3 DEF Retrievable
  <1>2. LearnerInv /\ [LearnerNext]_learnerVars =>
            [\A p \in Person : learners[p].purged =>
                /\ ~learners[p].named /\ ~learners'[p].named
                /\ learners'[p].addressed => learners[p].addressed \/ Readdressing(p)
                /\ ReadBefore(p) \/ \A d \in Document : cabinet'[d].of = p => ~Retrievable(d)'
            ]_learnerVars
    BY <1>1
  <1> QED BY <1>2, LearnerInvariant, PTL DEF LearnerSpec, PurgeHolds
-----------------------------------------------------------------------------
(* Market. *)

PostRow == [of: Employer, status: PostingStatus \cup {"none"}]

Vetting  == [at: {"vetting"}, what: Employer, to: OrganizationStatus, by: {"admin"}]
MovingOn == [at: {"moving"}, what: Post, to: PostingStatus, by: Role]
Posting  == [at: {"posting"}, what: Post, row: [of: Employer, status: {"pending_review"}]]
Applying == [at: {"applying"}, what: Post, of: Candidate]

DeskState == {Vacant} \cup Vetting \cup MovingOn \cup Posting \cup Applying

Approved(e) == Logged(e, "approved", {"admin"})
Reviewed(p) == Logged(p, "published", {"college", "admin"})

\* An employer that was ever vetted, and a posting that was ever public, is on record.
EmployerGood(e) == employers[e] \in {"approved", "active", "suspended"} => Approved(e)

PostGood(p) ==
    /\ posts[p].status # "none" => Approved(posts[p].of)
    /\ posts[p].status \in {"published", "filled", "expired", "closed"} => Reviewed(p)

\* What a call is about to save is on record already, or will be by the save itself.
DeskHonest(call) ==
    /\ call.at = "vetting" /\ call.to \in {"active", "suspended"} => Approved(call.what)
    /\ call.at = "moving" =>
           /\ posts[call.what].status # "none"
           /\ call.to \in {"filled", "expired", "closed"} => Reviewed(call.what)
           /\ call.to = "published" => call.by \in {"college", "admin"} \/ Reviewed(call.what)
    /\ call.at = "posting" => Approved(call.row.of)
    /\ call.at = "applying" => Reviewed(call.what)

MarketInv ==
    /\ employers \in [Employer -> OrganizationStatus]
    /\ posts \in [Post -> PostRow]
    /\ candidacies \subseteq [post: Post, of: Candidate, open: BOOLEAN]
    /\ desks \in [Desk -> DeskState]
    /\ \A e \in Employer : EmployerGood(e)
    /\ \A p \in Post : PostGood(p)
    /\ \A a \in candidacies : Reviewed(a.post)
    /\ \A d \in Desk : DeskHonest(desks[d])

\* Nothing is posted, and no employer is vetted, at the start.
LEMMA MarketStart == MarketInit => MarketInv
  <1> SUFFICES ASSUME MarketInit PROVE MarketInv
    OBVIOUS
  <1>1. employers \in [Employer -> OrganizationStatus] /\ \A e \in Employer : EmployerGood(e)
    BY DEF MarketInit, OrganizationStatus, OrganizationTransitions, EmployerGood
  <1>2. posts \in [Post -> PostRow] /\ \A p \in Post : PostGood(p)
    BY MarketAssumption DEF MarketInit, PostRow, PostGood
  <1>3. desks \in [Desk -> DeskState] /\ \A d \in Desk : DeskHonest(desks[d])
    BY DEF MarketInit, DeskState, DeskHonest, Vacant
  <1>4. candidacies = {}
    BY DEF MarketInit
  <1> QED BY <1>1, <1>2, <1>3, <1>4 DEF MarketInv

\* A call in flight has the fields of the step it is at.
LEMMA DeskShapes ==
    ASSUME NEW call \in DeskState
    PROVE  /\ call.at = "vetting" => call \in Vetting
           /\ call.at = "moving" => call \in MovingOn
           /\ call.at = "posting" => call \in Posting
           /\ call.at = "applying" => call \in Applying
  BY DEF DeskState, Vacant, Vetting, MovingOn, Posting, Applying

\* The log only grows, so what is on record stays on record.
LEMMA RecordsStand ==
    ASSUME auditLog \subseteq auditLog'
    PROVE  /\ \A e : Approved(e) => Approved(e)'
           /\ \A p : Reviewed(p) => Reviewed(p)'
  BY DEF Approved, Reviewed, Logged

\* Calls stay honest while the log grows and no posting is deleted.
LEMMA DesksStayHonest ==
    ASSUME MarketInv, auditLog \subseteq auditLog',
           \A p \in Post : posts[p].status # "none" => posts'[p].status # "none",
           NEW d \in Desk, NEW call \in DeskState, DeskHonest(call)', Sits(d, call)
    PROVE  /\ desks' \in [Desk -> DeskState]
           /\ \A e \in Desk : DeskHonest(desks[e])'
  <1>1. desks' \in [Desk -> DeskState]
    BY DEF MarketInv, Sits
  <1>2. ASSUME NEW e \in Desk PROVE DeskHonest(desks[e])'
    <2>1. CASE e = d
      <3>1. desks'[e] = call
        BY <2>1 DEF MarketInv, Sits
      <3> QED BY <3>1 DEF DeskHonest
    <2>2. CASE e # d
      <3> DEFINE held == desks[e]
      <3>1. desks'[e] = held /\ held \in DeskState /\ DeskHonest(held)
        BY <2>2 DEF MarketInv, Sits
      <3>2. held.at = "moving" => held.what \in Post
        BY <3>1, DeskShapes DEF MovingOn
      <3> HIDE DEF held
      <3> QED BY <3>1, <3>2, RecordsStand DEF DeskHonest
    <2> QED BY <2>1, <2>2
  <1> QED BY <1>1, <1>2

\* A call that is over claims nothing.
LEMMA VacantHonest == Vacant \in DeskState /\ DeskHonest(Vacant) /\ DeskHonest(Vacant)'
  BY DEF DeskState, DeskHonest, Vacant

\* A step that writes no row and leaves an honest call at one desk.
LEMMA DeskTaken ==
    ASSUME MarketInv, UNCHANGED <<employers, posts, candidacies, auditLog>>,
           NEW d \in Desk, NEW call \in DeskState, DeskHonest(call), Sits(d, call)
    PROVE  MarketInv'
  <1>1. DeskHonest(call)'
    BY DEF DeskHonest, Approved, Reviewed, Logged
  <1>2. /\ \A e \in Employer : EmployerGood(e)'
        /\ \A p \in Post : PostGood(p)'
        /\ \A a \in candidacies' : Reviewed(a.post)'
    BY DEF MarketInv, EmployerGood, PostGood, Approved, Reviewed, Logged
  <1> QED BY <1>1, <1>2, DesksStayHonest DEF MarketInv

\* Only an approval, or a move out of a vetted status, leads to a vetted one.
LEMMA VettingEdges ==
    ASSUME NEW t \in OrganizationTransitions
    PROVE  /\ t[2] \in OrganizationStatus
           /\ t[2] \in {"active", "suspended"} => t[1] \in {"approved", "active", "suspended"}
  BY DEF OrganizationTransitions, OrganizationStatus

\* Only a review publishes, and only what was public leaves the public statuses.
LEMMA PostingEdges ==
    ASSUME NEW t \in PostingTransitions
    PROVE  /\ t[1] # "none" /\ t[2] \in PostingStatus /\ t[2] # "none"
           /\ t[2] \in {"filled", "expired", "closed"} => t[1] \in {"published", "filled"}
           /\ t[2] = "published" => t[1] = "filled" \/ t[3] = {"college"}
  BY DEF PostingTransitions, PostingStatus

\* A vetting reads a status the log accounts for.
LEMMA BeginVettingKeeps ==
    ASSUME MarketInv, NEW d \in Desk, BeginVetting(d)
    PROVE  MarketInv'
  <1>1. PICK e \in Employer, t \in OrganizationTransitions :
            /\ t[1] = employers[e]
            /\ Sits(d, [at |-> "vetting", what |-> e, to |-> t[2], by |-> "admin"])
    BY DEF BeginVetting
  <1> DEFINE call == [at |-> "vetting", what |-> e, to |-> t[2], by |-> "admin"]
  <1>2. call \in DeskState
    BY VettingEdges DEF DeskState, Vetting
  <1>3. DeskHonest(call)
    BY <1>1, VettingEdges DEF DeskHonest, MarketInv, EmployerGood
  <1> HIDE DEF call
  <1> QED BY <1>1, <1>2, <1>3, DeskTaken DEF BeginVetting, call

\* A move of a posting reads a status the log accounts for, or is the review itself.
LEMMA BeginPostMoveKeeps ==
    ASSUME MarketInv, NEW d \in Desk, BeginPostMove(d)
    PROVE  MarketInv'
  <1>1. PICK p \in Post, role \in Role, t \in PostingTransitions :
            /\ t[1] = posts[p].status /\ MayMove(p, t, role)
            /\ Sits(d, [at |-> "moving", what |-> p, to |-> t[2], by |-> role])
    BY DEF BeginPostMove
  <1> DEFINE call == [at |-> "moving", what |-> p, to |-> t[2], by |-> role]
  <1>2. call \in DeskState
    BY PostingEdges DEF DeskState, MovingOn
  <1>3. role \in t[3] \/ role = "admin"
    BY <1>1 DEF MayMove, Attempt, Permitted, Overrides
  <1>4. DeskHonest(call)
    BY <1>1, <1>3, PostingEdges DEF DeskHonest, MarketInv, PostGood
  <1> HIDE DEF call
  <1> QED BY <1>1, <1>2, <1>4, DeskTaken DEF BeginPostMove, call

\* A save writes the status it carries and records the landmark it is.
LEMMA SaveStatusKeeps ==
    ASSUME MarketInv, NEW d \in Desk, SaveStatus(d)
    PROVE  MarketInv'
  <1>1. PICK call \in DeskState : call = desks[d]
    BY DEF MarketInv
  <1> DEFINE event == [what |-> call.what, to |-> call.to, by |-> call.by]
  <1>2. DeskHonest(call) /\ call.at \in {"vetting", "moving"}
    BY <1>1 DEF SaveStatus, MarketInv
  <1>3. /\ auditLog \subseteq auditLog' /\ UNCHANGED candidacies /\ Sits(d, Vacant)
        /\ call.to \in Landmark => event \in auditLog'
    BY <1>1 DEF SaveStatus
  <1>4. \A a \in candidacies' : Reviewed(a.post)'
    BY <1>3, RecordsStand DEF MarketInv
  <1>5. CASE call.at = "vetting"
    <2>1. call.what \in Employer /\ call.to \in OrganizationStatus /\ call.by = "admin"
      BY <1>5, DeskShapes DEF Vetting
    <2>2. employers' = [employers EXCEPT ![call.what] = call.to] /\ UNCHANGED posts
      BY <1>1, <1>5 DEF SaveStatus
    <2>3. call.to \in {"approved", "active", "suspended"} => Approved(call.what)'
      <3>1. CASE call.to = "approved"
        BY <1>3, <2>1, <3>1 DEF Landmark, Approved, Logged
      <3>2. CASE call.to \in {"active", "suspended"}
        BY <1>2, <1>3, <1>5, <3>2, RecordsStand DEF DeskHonest
      <3> QED BY <3>1, <3>2
    <2>4. employers' \in [Employer -> OrganizationStatus]
          /\ \A e \in Employer : EmployerGood(e)'
      BY <1>3, <2>1, <2>2, <2>3, RecordsStand DEF MarketInv, EmployerGood
    <2>5. \A p \in Post : PostGood(p)'
      BY <1>3, <2>2, RecordsStand DEF MarketInv, PostGood
    <2> QED BY <1>3, <1>4, <2>2, <2>4, <2>5, VacantHonest, DesksStayHonest DEF MarketInv
  <1>6. CASE call.at = "moving"
    <2> DEFINE what == call.what
               row == [posts[what] EXCEPT !.status = call.to]
    <2>1. what \in Post /\ call.to \in PostingStatus /\ posts[what] \in PostRow
      BY <1>6, DeskShapes DEF MovingOn, MarketInv
    <2>2. posts' = [posts EXCEPT ![what] = row] /\ UNCHANGED employers
      BY <1>1, <1>6 DEF SaveStatus
    <2>3. row \in PostRow /\ row.status = call.to /\ row.of = posts[what].of
      BY <2>1 DEF PostRow
    <2>4. call.to \in {"published", "filled", "expired", "closed"} => Reviewed(what)'
      <3>1. CASE call.to = "published" /\ call.by \in {"college", "admin"}
        BY <1>3, <3>1 DEF Landmark, Reviewed, Logged
      <3>2. CASE Reviewed(what)
        BY <1>3, <3>2, RecordsStand
      <3> QED BY <1>2, <1>6, <3>1, <3>2 DEF DeskHonest
    <2>5. posts[what].status # "none" /\ Approved(posts[what].of) /\ call.to # "none"
      <3>1. posts[what].status # "none" /\ PostGood(what)
        BY <1>2, <1>6, <2>1 DEF DeskHonest, MarketInv
      <3>2. "none" \notin PostingStatus
        BY DEF PostingStatus, PostingTransitions
      <3> QED BY <2>1, <3>1, <3>2 DEF PostGood
    <2> HIDE DEF row, what
    <2>6. /\ posts' \in [Post -> PostRow]
          /\ \A p \in Post : posts[p].status # "none" => posts'[p].status # "none"
      BY <2>1, <2>2, <2>3, <2>5 DEF MarketInv
    <2>7. \A p \in Post : PostGood(p)'
      BY <1>3, <2>1, <2>2, <2>3, <2>4, <2>5, RecordsStand DEF MarketInv, PostGood
    <2>8. \A e \in Employer : EmployerGood(e)'
      BY <1>3, <2>2, RecordsStand DEF MarketInv, EmployerGood
    <2> QED BY <1>3, <1>4, <2>2, <2>6, <2>7, <2>8, VacantHonest, DesksStayHonest
            DEF MarketInv
  <1> QED BY <1>2, <1>5, <1>6

\* A posting is prepared for an employer that is vetted.
LEMMA BeginPostingKeeps ==
    ASSUME MarketInv, NEW d \in Desk, BeginPosting(d)
    PROVE  MarketInv'
  <1>1. PICK e \in Employer, p \in Post :
            /\ CanTransact(e)
            /\ Sits(d, [at |-> "posting", what |-> p,
                        row |-> [of |-> e, status |-> "pending_review"]])
    BY DEF BeginPosting
  <1> DEFINE call == [at |-> "posting", what |-> p,
                      row |-> [of |-> e, status |-> "pending_review"]]
  <1>2. call \in DeskState
    BY DEF DeskState, Posting
  <1>3. DeskHonest(call)
    BY <1>1 DEF DeskHonest, MarketInv, EmployerGood, CanTransact
  <1> HIDE DEF call
  <1> QED BY <1>1, <1>2, <1>3, DeskTaken DEF BeginPosting, call

\* An inserted posting waits for review, and is its vetted employer's.
LEMMA InsertPostingKeeps ==
    ASSUME MarketInv, NEW d \in Desk, InsertPosting(d)
    PROVE  MarketInv'
  <1>1. PICK call \in DeskState : call = desks[d]
    BY DEF MarketInv
  <1>2. DeskHonest(call) /\ call.at = "posting"
    BY <1>1 DEF InsertPosting, MarketInv
  <1>3. /\ call.what \in Post /\ call.row \in PostRow /\ call.row.status = "pending_review"
        /\ Approved(call.row.of)
    BY <1>2, DeskShapes DEF Posting, PostRow, PostingStatus, PostingTransitions, DeskHonest
  <1>4. Sits(d, Vacant) /\ UNCHANGED <<employers, candidacies, auditLog>>
    BY DEF InsertPosting
  <1>5. posts' = posts \/ posts' = [posts EXCEPT ![call.what] = call.row]
    BY <1>1 DEF InsertPosting
  <1>6. /\ posts' \in [Post -> PostRow]
        /\ \A p \in Post : posts[p].status # "none" => posts'[p].status # "none"
    BY <1>3, <1>5 DEF MarketInv
  <1>7. \A p \in Post : PostGood(p)'
    BY <1>3, <1>4, <1>5, RecordsStand DEF MarketInv, PostGood
  <1>8. /\ \A e \in Employer : EmployerGood(e)'
        /\ \A a \in candidacies' : Reviewed(a.post)'
    BY <1>4, RecordsStand DEF MarketInv, EmployerGood
  <1> QED BY <1>4, <1>6, <1>7, <1>8, VacantHonest, DesksStayHonest DEF MarketInv

\* An application is to a posting that was published.
LEMMA ApplicationKeeps ==
    ASSUME MarketInv, NEW d \in Desk, BeginApplication(d) \/ InsertApplication(d)
    PROVE  MarketInv'
  <1>1. CASE BeginApplication(d)
    <2>1. PICK p \in Post, s \in Candidate :
              /\ TakesApplications(p)
              /\ Sits(d, [at |-> "applying", what |-> p, of |-> s])
      BY <1>1 DEF BeginApplication
    <2> DEFINE call == [at |-> "applying", what |-> p, of |-> s]
    <2>2. call \in DeskState
      BY DEF DeskState, Applying
    <2>3. DeskHonest(call)
      BY <2>1 DEF DeskHonest, MarketInv, PostGood, TakesApplications
    <2> HIDE DEF call
    <2> QED BY <1>1, <2>1, <2>2, <2>3, DeskTaken DEF BeginApplication, call
  <1>2. CASE InsertApplication(d)
    <2>1. PICK call \in DeskState : call = desks[d]
      BY DEF MarketInv
    <2>2. call.what \in Post /\ call.of \in Candidate /\ Reviewed(call.what)
      BY <1>2, <2>1, DeskShapes DEF InsertApplication, MarketInv, Applying, DeskHonest
    <2>3. /\ candidacies' \subseteq
                 candidacies \cup {[post |-> call.what, of |-> call.of, open |-> TRUE]}
          /\ Sits(d, Vacant) /\ UNCHANGED <<employers, posts, auditLog>>
      BY <1>2, <2>1 DEF InsertApplication
    <2>4. /\ candidacies' \subseteq [post: Post, of: Candidate, open: BOOLEAN]
          /\ \A a \in candidacies' : Reviewed(a.post)'
      <3> DEFINE made == [post |-> call.what, of |-> call.of, open |-> TRUE]
      <3>1. made \in [post: Post, of: Candidate, open: BOOLEAN] /\ Reviewed(made.post)
        BY <2>2
      <3>2. candidacies' \subseteq candidacies \cup {made} /\ auditLog \subseteq auditLog'
        BY <2>3
      <3> HIDE DEF made
      <3> QED BY <3>1, <3>2, RecordsStand DEF MarketInv
    <2>5. /\ \A e \in Employer : EmployerGood(e)'
          /\ \A p \in Post : PostGood(p)'
      BY <2>3, RecordsStand DEF MarketInv, EmployerGood, PostGood
    <2> QED BY <2>3, <2>4, <2>5, VacantHonest, DesksStayHonest DEF MarketInv
  <1> QED BY <1>1, <1>2

\* Ending an application leaves it on the posting it was made to.
LEMMA EndCandidacyKeeps ==
    ASSUME MarketInv, EndCandidacy
    PROVE  MarketInv'
  <1>1. PICK a \in candidacies :
            candidacies' = (candidacies \ {a}) \cup {[a EXCEPT !.open = FALSE]}
    BY DEF EndCandidacy
  <1>2. [a EXCEPT !.open = FALSE] \in [post: Post, of: Candidate, open: BOOLEAN]
        /\ [a EXCEPT !.open = FALSE].post = a.post
    BY DEF MarketInv
  <1>3. UNCHANGED <<employers, posts, auditLog, desks>>
    BY DEF EndCandidacy
  <1>4. /\ candidacies' \subseteq [post: Post, of: Candidate, open: BOOLEAN]
        /\ \A b \in candidacies' : Reviewed(b.post)'
    BY <1>1, <1>2, <1>3, RecordsStand DEF MarketInv
  <1> QED BY <1>3, <1>4 DEF MarketInv, EmployerGood, PostGood, DeskHonest, Approved, Reviewed,
                            Logged

\* Every step of the market preserves its invariant.
LEMMA MarketStep == MarketInv /\ [MarketNext]_marketVars => MarketInv'
  <1>1. MarketInv /\ UNCHANGED marketVars => MarketInv'
    BY DEF marketVars, MarketInv, EmployerGood, PostGood, DeskHonest, Approved, Reviewed, Logged
  <1> QED BY <1>1, BeginVettingKeeps, BeginPostMoveKeeps, SaveStatusKeeps, BeginPostingKeeps,
             InsertPostingKeeps, ApplicationKeeps, EndCandidacyKeeps DEF MarketNext

\* The log accounts for every vetted employer, every posting that was public and every
\* application, for any number of them and whoever overwrites whom.
THEOREM MarketInvariant == MarketSpec => []MarketInv
  BY MarketStart, MarketStep, PTL DEF MarketSpec

\* Employers, postings and applications keep their shapes.
THEOREM MarketTyped == MarketSpec => []MarketTypeOK
  <1>1. MarketInv => MarketTypeOK
    BY DEF MarketInv, MarketTypeOK, PostRow
  <1> QED BY <1>1, MarketInvariant, PTL

\* What students see, saw or applied to was published by the college or an administrator,
\* of an employer an administrator approved, though moves are saved without a version
\* (transitionPosting, transitionOrganization, submitApplication).
THEOREM AlwaysReviewed == MarketSpec => []ApplicationsStandOnReview
  <1>1. MarketInv => ApplicationsStandOnReview
    BY DEF MarketInv, PostGood, Approved, Reviewed, ApplicationsStandOnReview
  <1> QED BY <1>1, MarketInvariant, PTL
-----------------------------------------------------------------------------
(* Mentorship. *)

PairingRow == [of: Mentee, status: {"none", "introduced", "met", "declined"}]

IntroducerState == {Available} \cup [at: {"introducing"}, of: Mentee]
                   \cup [at: {"concluding"}, what: Pairing, to: {"met", "declined"}]

Introducing == {i \in Introducer : introducers[i].at = "introducing"}

\* Every call that is introducing found a place when it was begun, so all but one of
\* them can be beyond the last one.
PlacesPromised ==
    Cardinality(Live) + Cardinality(Introducing) < Capacity + Cardinality(Introducer)

OneLivePerStudent == \A m, n \in Live : pairings[m].of = pairings[n].of => m = n

MentorshipInv ==
    /\ mentor \in {"open", "paused", "withdrawn"}
    /\ pairings \in [Pairing -> PairingRow]
    /\ introducers \in [Introducer -> IntroducerState]
    /\ PlacesPromised /\ OneLivePerStudent

\* The sets that are counted are finite.
LEMMA CountsAreNat ==
    /\ IsFiniteSet(Live) /\ Cardinality(Live) \in Nat
    /\ IsFiniteSet(Introducing) /\ Cardinality(Introducing) \in Nat
    /\ Cardinality(Introducing) <= Cardinality(Introducer)
    /\ Cardinality(Introducer) \in Nat /\ Capacity \in Nat \ {0}
  <1>1. Live \in SUBSET Pairing /\ Introducing \in SUBSET Introducer
    BY DEF Live, Introducing
  <1>2. IsFiniteSet(Pairing) /\ IsFiniteSet(Introducer) /\ Capacity \in Nat \ {0}
    BY MentorshipAssumption
  <1>3. IsFiniteSet(Live)
    BY <1>1, <1>2, FS_Subset
  <1>4. IsFiniteSet(Introducing) /\ Cardinality(Introducing) <= Cardinality(Introducer)
    BY <1>1, <1>2, FS_Subset
  <1> QED BY <1>2, <1>3, <1>4, FS_CardinalityType

\* Nobody has been introduced at the start.
LEMMA MentorshipStart == MentorshipInit => MentorshipInv
  <1> SUFFICES ASSUME MentorshipInit PROVE MentorshipInv
    OBVIOUS
  <1>1. pairings \in [Pairing -> PairingRow] /\ mentor \in {"open", "paused", "withdrawn"}
    BY MentorshipAssumption DEF MentorshipInit, PairingRow
  <1>2. introducers \in [Introducer -> IntroducerState] /\ Introducing = {}
    BY DEF MentorshipInit, IntroducerState, Available, Introducing
  <1>3. Live = {}
    BY DEF MentorshipInit, Live
  <1>4. PlacesPromised
    <2>1. Cardinality(Live) = 0 /\ Cardinality(Introducing) = 0
      BY <1>2, <1>3, FS_EmptySet
    <2> QED BY <2>1, CountsAreNat DEF PlacesPromised
  <1>5. OneLivePerStudent
    BY <1>3 DEF OneLivePerStudent
  <1> QED BY <1>1, <1>2, <1>4, <1>5 DEF MentorshipInv

\* An introduction is begun only while a place is left.
LEMMA BeginIntroductionKeeps ==
    ASSUME MentorshipInv, NEW i \in Introducer, BeginIntroduction(i)
    PROVE  MentorshipInv'
  <1>1. PICK s \in Mentee :
            introducers' = [introducers EXCEPT ![i] = [at |-> "introducing", of |-> s]]
    BY DEF BeginIntroduction
  <1>2. introducers' \in [Introducer -> IntroducerState]
    BY <1>1 DEF MentorshipInv, IntroducerState
  <1>3. UNCHANGED <<mentor, pairings>> /\ Live' = Live
    BY DEF BeginIntroduction, Live
  <1>4. PlacesPromised'
    <2>1. Cardinality(Live) < Capacity
      BY CountsAreNat DEF BeginIntroduction, PlacesLeft
    <2>2. Introducing' \in SUBSET Introducer
      BY DEF Introducing
    <2>3. IsFiniteSet(Introducer)
      BY MentorshipAssumption
    <2>4. Cardinality(Introducing') <= Cardinality(Introducer) /\ IsFiniteSet(Introducing')
      BY <2>2, <2>3, FS_Subset
    <2>5. Cardinality(Introducing') \in Nat
      BY <2>4, FS_CardinalityType
    <2> QED BY <1>3, <2>1, <2>4, <2>5, CountsAreNat DEF PlacesPromised
  <1> QED BY <1>2, <1>3, <1>4 DEF MentorshipInv, OneLivePerStudent

\* A call that stops introducing gives up the place it was promised.
LEMMA PromiseGivenUp ==
    ASSUME MentorshipInv, NEW i \in Introducer, introducers[i].at = "introducing",
           introducers' = [introducers EXCEPT ![i] = Available]
    PROVE  Cardinality(Introducing') = Cardinality(Introducing) - 1
  <1>1. Introducing' = Introducing \ {i}
    BY DEF MentorshipInv, Introducing, Available
  <1>2. i \in Introducing
    BY DEF Introducing
  <1> QED BY <1>1, <1>2, CountsAreNat, FS_RemoveElement

\* An insertion takes the promised place, for a student without a live one.
LEMMA InsertPairingKeeps ==
    ASSUME MentorshipInv, NEW i \in Introducer, InsertPairing(i)
    PROVE  MentorshipInv'
  <1> DEFINE s == introducers[i].of
  <1>1. /\ introducers[i].at = "introducing" /\ UNCHANGED mentor
        /\ introducers' = [introducers EXCEPT ![i] = Available]
    BY DEF InsertPairing
  <1>2. s \in Mentee
    BY <1>1 DEF MentorshipInv, IntroducerState, Available
  <1>3. introducers' \in [Introducer -> IntroducerState]
    BY <1>1 DEF MentorshipInv, IntroducerState
  <1>4. Cardinality(Introducing') = Cardinality(Introducing) - 1
    BY <1>1, PromiseGivenUp
  <1>5. CASE \E m \in Live : pairings[m].of = s
    <2>1. UNCHANGED pairings /\ Live' = Live
      BY <1>5 DEF InsertPairing, Live
    <2>2. PlacesPromised'
      BY <1>4, <2>1, CountsAreNat DEF MentorshipInv, PlacesPromised
    <2> QED BY <1>1, <1>3, <2>1, <2>2 DEF MentorshipInv, OneLivePerStudent
  <1>6. CASE ~\E m \in Live : pairings[m].of = s
    <2>1. PICK m \in Pairing :
              /\ pairings[m].status = "none"
              /\ pairings' = [pairings EXCEPT ![m] = [of |-> s, status |-> "introduced"]]
      BY <1>6 DEF InsertPairing
    <2>2. pairings' \in [Pairing -> PairingRow]
      BY <1>2, <2>1 DEF MentorshipInv, PairingRow
    <2>3. Live' = Live \cup {m} /\ m \notin Live
      BY <2>1 DEF MentorshipInv, Live
    <2>4. Cardinality(Live') = Cardinality(Live) + 1
      BY <2>3, CountsAreNat, FS_AddElement
    <2>5. PlacesPromised'
      BY <1>4, <2>4, CountsAreNat DEF MentorshipInv, PlacesPromised
    <2>6. OneLivePerStudent'
      BY <1>6, <2>1, <2>3 DEF MentorshipInv, OneLivePerStudent, Live
    <2> QED BY <1>1, <1>3, <2>2, <2>5, <2>6 DEF MentorshipInv
  <1> QED BY <1>5, <1>6

\* A conclusion only ends introductions.
LEMMA ConclusionKeeps ==
    ASSUME MentorshipInv, NEW i \in Introducer, BeginConclusion(i) \/ SaveConclusion(i)
    PROVE  MentorshipInv'
  <1>1. CASE BeginConclusion(i)
    <2>1. PICK m \in Live, to \in {"met", "declined"} :
              introducers' = [introducers EXCEPT
                                  ![i] = [at |-> "concluding", what |-> m, to |-> to]]
      BY <1>1 DEF BeginConclusion
    <2>2. introducers[i] = Available /\ UNCHANGED <<mentor, pairings>> /\ Live' = Live
      BY <1>1 DEF BeginConclusion, Live
    <2>3. introducers' \in [Introducer -> IntroducerState]
      BY <2>1 DEF MentorshipInv, IntroducerState, Live
    <2>4. Introducing' = Introducing
      BY <2>1, <2>2 DEF MentorshipInv, Introducing, Available
    <2> QED BY <2>2, <2>3, <2>4 DEF MentorshipInv, PlacesPromised, OneLivePerStudent
  <1>2. CASE SaveConclusion(i)
    <2> DEFINE m == introducers[i].what
               row == [pairings[m] EXCEPT !.status = introducers[i].to]
    <2>1. /\ m \in Pairing /\ introducers[i].to \in {"met", "declined"}
          /\ introducers[i].at = "concluding"
      BY <1>2 DEF SaveConclusion, MentorshipInv, IntroducerState, Available
    <2>2. /\ pairings' = [pairings EXCEPT ![m] = row] /\ UNCHANGED mentor
          /\ introducers' = [introducers EXCEPT ![i] = Available]
      BY <1>2 DEF SaveConclusion
    <2>3. row \in PairingRow /\ row.status # "introduced"
      BY <2>1 DEF MentorshipInv, PairingRow
    <2> HIDE DEF row
    <2>4. pairings' \in [Pairing -> PairingRow]
      BY <2>1, <2>2, <2>3 DEF MentorshipInv
    <2>5. Live' \in SUBSET Live /\ \A n \in Live' : pairings'[n] = pairings[n]
      BY <2>1, <2>2, <2>3 DEF MentorshipInv, Live
    <2>6. Introducing' = Introducing /\ introducers' \in [Introducer -> IntroducerState]
      BY <2>1, <2>2 DEF MentorshipInv, Introducing, IntroducerState, Available
    <2>7. Cardinality(Live') <= Cardinality(Live) /\ Cardinality(Live') \in Nat
      BY <2>5, CountsAreNat, FS_Subset, FS_CardinalityType
    <2>8. PlacesPromised'
      BY <2>6, <2>7, CountsAreNat DEF MentorshipInv, PlacesPromised
    <2>9. OneLivePerStudent'
      BY <2>5 DEF MentorshipInv, OneLivePerStudent
    <2> QED BY <2>2, <2>4, <2>6, <2>8, <2>9 DEF MentorshipInv
  <1> QED BY <1>1, <1>2

\* Every step of the mentorship preserves its invariant.
LEMMA MentorshipStep == MentorshipInv /\ [MentorshipNext]_mentorshipVars => MentorshipInv'
  <1> SUFFICES ASSUME MentorshipInv, [MentorshipNext]_mentorshipVars PROVE MentorshipInv'
    OBVIOUS
  <1>1. ASSUME UNCHANGED <<pairings, introducers>>, mentor' \in {"open", "paused", "withdrawn"}
        PROVE  MentorshipInv'
    <2>1. Live' = Live /\ Introducing' = Introducing
      BY <1>1 DEF Live, Introducing
    <2> QED BY <1>1, <2>1 DEF MentorshipInv, PlacesPromised, OneLivePerStudent
  <1>2. CASE MoveMentor
    BY <1>1, <1>2 DEF MoveMentor, MentorTransitions
  <1>3. CASE UNCHANGED mentorshipVars
    BY <1>1, <1>3 DEF mentorshipVars, MentorshipInv
  <1> QED BY <1>2, <1>3, BeginIntroductionKeeps, InsertPairingKeeps, ConclusionKeeps
          DEF MentorshipNext

\* Live introductions and promised places stay below the capacity and the callers, for
\* any number of students, calls and places.
THEOREM MentorshipInvariant == MentorshipSpec => []MentorshipInv
  BY MentorshipStart, MentorshipStep, PTL DEF MentorshipSpec

\* The offer and its introductions keep their shapes.
THEOREM MentorshipTyped == MentorshipSpec => []MentorshipTypeOK
  <1>1. MentorshipInv => MentorshipTypeOK
    BY DEF MentorshipInv, MentorshipTypeOK, PairingRow
  <1> QED BY <1>1, MentorshipInvariant, PTL

\* A mentor is overbooked by fewer than there are introductions at once, and never with
\* the same student twice (introduceStudentToMentor).
THEOREM OverbookedOnlyByRace == MentorshipSpec => []PlacesOverbookedOnlyByRace
  <1>1. MentorshipInv => PlacesOverbookedOnlyByRace
    <2> SUFFICES ASSUME MentorshipInv PROVE PlacesOverbookedOnlyByRace
      OBVIOUS
    <2>1. Cardinality(Live) < Capacity + Cardinality(Introducer)
      BY CountsAreNat DEF MentorshipInv, PlacesPromised
    <2> QED BY <2>1 DEF MentorshipInv, OneLivePerStudent, PlacesOverbookedOnlyByRace
  <1> QED BY <1>1, MentorshipInvariant, PTL
-----------------------------------------------------------------------------
(* Sign-in. *)

LetterRow == [used: BOOLEAN, from: Origin, tries: 0..MaxTries]

Proceeding == [at: {"requesting", "verifying", "finishing", "consuming", "revoking"},
              from: Origin, purpose: CodePurpose]
Rejecting == [at: {"rejecting"}, from: {Overlapping}, purpose: CodePurpose,
              tries: 0..MaxTries - 1]

CallerState == {Absent} \cup Proceeding \cup Rejecting

\* Where a call, a code or a session may go back to.
Current == {address, Overlapping}

\* A call goes back to the address there is, and while it is changing, to none.
CallerCurrent(call) ==
    call # Absent => \/ call.from = Overlapping
                     \/ changing = "no" /\ call.from = address

CodeCurrent(p) == letters[p].used \/ letters[p].from \in Current

\* The change of an address closes sessions, then codes to sign in, then codes to reset
\* the password; what it has closed stays closed.
SignInInv ==
    /\ address \in 0..MaxAddress /\ changing \in {"no", "sessions", "codes", "resets"}
    /\ letters \in [CodePurpose -> LetterRow]
    /\ sessions \subseteq Origin /\ challenges \subseteq Origin
    /\ callers \in [Caller -> CallerState]
    /\ \A c \in Caller : CallerCurrent(callers[c])
    /\ changing # "sessions" => sessions \subseteq Current
    /\ changing \in {"resets", "no"} => CodeCurrent("sign_in")
    /\ changing = "no" => CodeCurrent("password_reset")

\* The bounds, and the shape of what is not there.
LEMMA SignInConstants ==
    /\ MaxAddress \in Nat /\ MaxTries \in Nat \ {0}
    /\ 0 \in Origin /\ Overlapping \in Origin /\ 0..MaxAddress \subseteq Origin
    /\ NoLetter \in LetterRow /\ NoLetter.used
    /\ Absent \in CallerState
  BY SignInAssumption DEF Origin, Overlapping, NoLetter, LetterRow, CallerState

\* Nobody has signed in at the start.
LEMMA SignInStart == SignInInit => SignInInv
  <1> SUFFICES ASSUME SignInInit PROVE SignInInv
    OBVIOUS
  <1>1. letters \in [CodePurpose -> LetterRow] /\ \A p \in CodePurpose : CodeCurrent(p)
    BY SignInConstants DEF SignInInit, CodeCurrent
  <1>2. callers \in [Caller -> CallerState] /\ \A c \in Caller : CallerCurrent(callers[c])
    BY SignInConstants DEF SignInInit, CallerCurrent
  <1> QED BY <1>1, <1>2, SignInConstants DEF SignInInit, SignInInv, CodePurpose

\* A call in flight has the fields of the step it is at.
LEMMA CallerShapes ==
    ASSUME NEW call \in CallerState
    PROVE  /\ call.at \in {"requesting", "verifying", "finishing", "consuming", "revoking"} =>
                  call \in Proceeding /\ call # Absent
           /\ call.at = "rejecting" => call \in Rejecting /\ call # Absent
  BY DEF CallerState, Absent, Proceeding, Rejecting

\* A step of one call that leaves the address alone and brings in nothing from an
\* earlier one.
LEMMA CallerMoves ==
    ASSUME SignInInv, UNCHANGED <<address, changing>>,
           NEW c \in Caller, NEW call \in CallerState, CallerCurrent(call), Answers(c, call),
           letters' \in [CodePurpose -> LetterRow],
           \A p \in CodePurpose : CodeCurrent(p) => CodeCurrent(p)',
           sessions' \subseteq sessions \cup Current, sessions' \subseteq Origin,
           challenges' \subseteq Origin
    PROVE  SignInInv'
  <1>1. callers' \in [Caller -> CallerState] /\ \A d \in Caller : CallerCurrent(callers[d])'
    BY DEF SignInInv, Answers, CallerCurrent
  <1>2. changing' # "sessions" => sessions' \subseteq Current'
    BY DEF SignInInv, Current
  <1> QED BY <1>1, <1>2 DEF SignInInv, CodePurpose

\* The same of a step that writes no code and opens nothing.
LEMMA CallerThinks ==
    ASSUME SignInInv, UNCHANGED <<address, changing, letters, challenges>>,
           sessions' \subseteq sessions,
           NEW c \in Caller, NEW call \in CallerState, CallerCurrent(call), Answers(c, call)
    PROVE  SignInInv'
  <1>1. \A p \in CodePurpose : CodeCurrent(p) => CodeCurrent(p)'
    BY DEF CodeCurrent, Current
  <1> QED BY <1>1, CallerMoves DEF SignInInv

\* Writing one code that is used, or from a current origin.
LEMMA LetterWritten ==
    ASSUME SignInInv, UNCHANGED <<address, changing, sessions, challenges>>,
           NEW p \in CodePurpose, NEW row \in LetterRow, letters' = [letters EXCEPT ![p] = row],
           CodeCurrent(p) => row.used \/ row.from \in Current,
           NEW c \in Caller, NEW call \in CallerState, CallerCurrent(call), Answers(c, call)
    PROVE  SignInInv'
  <1>1. letters' \in [CodePurpose -> LetterRow]
        /\ \A q \in CodePurpose : CodeCurrent(q) => CodeCurrent(q)'
    BY DEF SignInInv, CodeCurrent, Current
  <1> QED BY <1>1, CallerMoves DEF SignInInv

\* A call that is over goes back nowhere.
LEMMA AbsentCurrent == CallerCurrent(Absent)
  BY DEF CallerCurrent

\* A call begun now goes back to the address there is, or overlaps the change.
LEMMA FindKeeps ==
    ASSUME SignInInv, NEW c \in Caller, FindUser(c) \/ FindUserForReset(c)
    PROVE  SignInInv'
  <1>1. PICK where \in {"requesting", "verifying", "finishing"}, purpose \in CodePurpose :
            Answers(c, [at |-> where, from |-> Today, purpose |-> purpose])
    BY DEF FindUser, FindUserForReset, CodePurpose
  <1> DEFINE call == [at |-> where, from |-> Today, purpose |-> purpose]
  <1>2. Today \in Origin /\ (Today = Overlapping \/ (changing = "no" /\ Today = address))
    BY SignInConstants DEF Today, SignInInv
  <1>3. call \in CallerState
    BY <1>2 DEF CallerState, Proceeding
  <1>4. CallerCurrent(call)
    BY <1>2 DEF CallerCurrent
  <1> HIDE DEF call
  <1> QED BY <1>1, <1>3, <1>4, CallerThinks DEF FindUser, FindUserForReset, call

\* A code is sent to where its call goes back to.
LEMMA PutKeeps ==
    ASSUME SignInInv, NEW c \in Caller, PutSignInCode(c)
    PROVE  SignInInv'
  <1> DEFINE call == callers[c]
             row == [used |-> FALSE, from |-> call.from, tries |-> 0]
  <1>1. call \in Proceeding /\ call # Absent /\ CallerCurrent(call)
    BY CallerShapes DEF PutSignInCode, At, SignInInv
  <1>2. call.purpose \in CodePurpose /\ row \in LetterRow /\ row.from \in Current
    BY <1>1, SignInConstants DEF Proceeding, LetterRow, CallerCurrent, Current
  <1>3. letters' = [letters EXCEPT ![call.purpose] = row] /\ Answers(c, Absent)
        /\ UNCHANGED <<address, changing, sessions, challenges>>
    BY DEF PutSignInCode, Relabel
  <1> HIDE DEF row, call
  <1> QED BY <1>2, <1>3, AbsentCurrent, SignInConstants, LetterWritten

\* A code that is read passes on where it was sent to, or where its reader comes from.
LEMMA ReadKeeps ==
    ASSUME SignInInv, NEW c \in Caller, ReadCode(c)
    PROVE  SignInInv'
  <1> DEFINE call == callers[c]
             p == call.purpose
             wrong == [at |-> "rejecting", from |-> Overlapping, purpose |-> p,
                       tries |-> letters[p].tries]
             right == [call EXCEPT !.at = "consuming", !.from = Older(c)]
  <1>1. call \in Proceeding /\ call # Absent /\ CallerCurrent(call)
    BY CallerShapes DEF ReadCode, At, SignInInv
  <1>2. p \in CodePurpose /\ letters[p] \in LetterRow
    BY <1>1 DEF Proceeding, SignInInv
  <1>3. UNCHANGED <<address, changing, letters, challenges>> /\ sessions' \subseteq sessions
    BY DEF ReadCode
  <1>4. CASE Answers(c, Absent)
    BY <1>3, <1>4, AbsentCurrent, SignInConstants, CallerThinks
  <1>5. CASE TriesLeft(Letter(c)) /\ Answers(c, wrong)
    <2>1. letters[p].tries \in 0..MaxTries - 1
      BY <1>2, <1>5, SignInConstants DEF TriesLeft, Letter, LetterRow
    <2>2. wrong \in CallerState
      BY <1>2, <2>1 DEF CallerState, Rejecting
    <2>3. CallerCurrent(wrong)
      BY DEF CallerCurrent
    <2> HIDE DEF wrong
    <2> QED BY <1>3, <1>5, <2>2, <2>3, CallerThinks
  <1>6. CASE ~Letter(c).used /\ Answers(c, right)
    <2>1. Older(c) \in Origin
      BY <1>2, SignInConstants DEF Older, Letter, LetterRow
    <2>2. Older(c) = Overlapping \/ (changing = "no" /\ Older(c) = address)
      <3>1. CASE call.from = Overlapping
        BY <3>1 DEF Older
      <3>2. CASE call.from # Overlapping
        <4>1. changing = "no" /\ CodeCurrent(p)
          BY <1>1, <1>2, <3>2 DEF CallerCurrent, SignInInv, CodePurpose
        <4> QED BY <1>6, <3>2, <4>1 DEF Older, Letter, CodeCurrent, Current
      <3> QED BY <3>1, <3>2
    <2>3. right \in CallerState /\ right.from = Older(c)
      <3> DEFINE from == Older(c)
      <3> HIDE DEF from
      <3>1. [call EXCEPT !.at = "consuming", !.from = from] \in CallerState
            /\ [call EXCEPT !.at = "consuming", !.from = from].from = from
        <4> HIDE DEF call
        <4> QED BY <1>1, <2>1 DEF CallerState, Proceeding, from
      <3> QED BY <3>1 DEF from
    <2> HIDE DEF right
    <2>4. CallerCurrent(right)
      BY <2>2, <2>3 DEF CallerCurrent
    <2> QED BY <1>3, <1>6, <2>3, <2>4, CallerThinks
  <1> QED BY <1>4, <1>5, <1>6 DEF ReadCode, Letter

\* A wrong code is counted on the row that is there now, which goes where it went.
LEMMA RecordKeeps ==
    ASSUME SignInInv, NEW c \in Caller, RecordAttempt(c)
    PROVE  SignInInv'
  <1> DEFINE call == callers[c]
             p == call.purpose
             tries == IF letters[p].used THEN letters[p].tries ELSE call.tries + 1
             row == [letters[p] EXCEPT !.tries = tries]
  <1>1. call \in Rejecting
    BY CallerShapes DEF RecordAttempt, At, SignInInv
  <1>2. p \in CodePurpose /\ letters[p] \in LetterRow /\ call.tries + 1 \in 0..MaxTries
    BY <1>1, SignInConstants DEF Rejecting, SignInInv
  <1>3. tries \in 0..MaxTries
    BY <1>2 DEF LetterRow
  <1>4. letters' = [letters EXCEPT ![p] = row] /\ Answers(c, Absent)
        /\ UNCHANGED <<address, changing, sessions, challenges>>
    BY DEF RecordAttempt, Relabel, Letter
  <1> HIDE DEF tries
  <1>5. row \in LetterRow /\ row.used = letters[p].used /\ row.from = letters[p].from
    BY <1>2, <1>3 DEF LetterRow
  <1> HIDE DEF row, p
  <1> QED BY <1>2, <1>4, <1>5, AbsentCurrent, SignInConstants, LetterWritten DEF CodeCurrent

\* A code that is spent opens nothing more.
LEMMA ConsumeKeeps ==
    ASSUME SignInInv, NEW c \in Caller, ConsumeCode(c)
    PROVE  SignInInv'
  <1> DEFINE call == callers[c]
             next == [call EXCEPT !.at = "revoking"]
  <1>1. call \in Proceeding /\ call # Absent /\ CallerCurrent(call)
    BY CallerShapes DEF ConsumeCode, At, SignInInv
  <1>2. call.purpose \in CodePurpose /\ next \in CallerState /\ next.from = call.from
    BY <1>1 DEF Proceeding, CallerState
  <1>3. letters' = [letters EXCEPT ![call.purpose] = NoLetter] /\ Answers(c, next)
        /\ UNCHANGED <<address, changing, sessions, challenges>>
    BY DEF ConsumeCode, Relabel, Proceeds
  <1> HIDE DEF call, next
  <1>4. CallerCurrent(next)
    BY <1>1, <1>2 DEF CallerCurrent
  <1> QED BY <1>2, <1>3, <1>4, SignInConstants, LetterWritten

\* Both purposes end with the other sessions revoked.
LEMMA RevokeKeeps ==
    ASSUME SignInInv, NEW c \in Caller, RevokeOthers(c) \/ FinishReset(c)
    PROVE  SignInInv'
  <1> DEFINE call == callers[c]
             next == [call EXCEPT !.at = "finishing"]
  <1>1. call \in Proceeding /\ call # Absent /\ CallerCurrent(call)
    BY CallerShapes DEF RevokeOthers, FinishReset, At, SignInInv
  <1>2. next \in CallerState /\ next.from = call.from
    BY <1>1 DEF Proceeding, CallerState
  <1>3. Answers(c, next) \/ Answers(c, Absent)
    BY DEF RevokeOthers, FinishReset, Proceeds
  <1>4. UNCHANGED <<address, changing, letters, challenges>> /\ sessions' \subseteq sessions
    BY DEF RevokeOthers, FinishReset
  <1> HIDE DEF next, call
  <1>5. CallerCurrent(next)
    BY <1>1, <1>2 DEF CallerCurrent
  <1> QED BY <1>2, <1>3, <1>4, <1>5, AbsentCurrent, SignInConstants, CallerThinks

\* A session or a challenge goes back where its call does.
LEMMA FinishKeeps ==
    ASSUME SignInInv, NEW c \in Caller, FinishSignIn(c)
    PROVE  SignInInv'
  <1>1. callers[c] \in Proceeding /\ callers[c] # Absent /\ CallerCurrent(callers[c])
    BY CallerShapes DEF FinishSignIn, At, SignInInv
  <1>2. callers[c].from \in Origin /\ callers[c].from \in Current
    BY <1>1 DEF Proceeding, CallerCurrent, Current
  <1>3. /\ sessions' \subseteq sessions \cup Current /\ sessions' \subseteq Origin
        /\ challenges' \subseteq Origin /\ Answers(c, Absent)
        /\ UNCHANGED <<address, changing, letters>>
    BY <1>2 DEF FinishSignIn, SignInInv
  <1>4. \A p \in CodePurpose : CodeCurrent(p) => CodeCurrent(p)'
    BY <1>3 DEF CodeCurrent, Current
  <1> QED BY <1>3, <1>4, AbsentCurrent, SignInConstants, CallerMoves DEF SignInInv

\* Steps that touch only sessions and challenges.
LEMMA SessionsKeep ==
    ASSUME SignInInv, CompleteChallenge \/ EndSession \/ DropChallenge \/ RevokeAll
    PROVE  SignInInv'
  <1>1. UNCHANGED <<address, changing, letters, callers>>
    BY DEF CompleteChallenge, EndSession, DropChallenge, RevokeAll
  <1>2. Today \in Current /\ Overlapping \in Current
    BY DEF Today, Current
  <1>3. sessions' \subseteq sessions \cup Current /\ challenges' \subseteq challenges
    BY <1>2 DEF CompleteChallenge, EndSession, DropChallenge, RevokeAll
  <1>4. Current \subseteq Origin /\ Current' = Current
    BY <1>1, SignInConstants DEF SignInInv, Current
  <1>5. sessions' \subseteq Origin /\ challenges' \subseteq Origin
    BY <1>3, <1>4 DEF SignInInv
  <1>6. changing' # "sessions" => sessions' \subseteq Current'
    BY <1>1, <1>3, <1>4 DEF SignInInv
  <1> QED BY <1>1, <1>5, <1>6 DEF SignInInv, CodeCurrent, Current, CallerCurrent

\* The change itself: every call under way overlaps it, then the doors close in turn.
LEMMA ChangeKeeps ==
    ASSUME SignInInv, CommitAddress \/ RevokeSessions \/ ConsumeCodes
    PROVE  SignInInv'
  <1>1. CASE CommitAddress
    <2>1. ASSUME NEW c \in Caller
          PROVE  callers'[c] \in CallerState /\ CallerCurrent(callers[c])'
      <3>1. callers'[c] = IF callers[c] = Absent THEN Absent
                          ELSE [callers[c] EXCEPT !.from = Overlapping]
        BY <1>1 DEF CommitAddress
      <3>2. callers[c] \in CallerState
        BY DEF SignInInv
      <3>3. callers[c] # Absent => /\ [callers[c] EXCEPT !.from = Overlapping] \in CallerState
                                   /\ [callers[c] EXCEPT !.from = Overlapping].from = Overlapping
        BY <3>2, SignInConstants DEF CallerState, Proceeding, Rejecting
      <3> QED BY <3>1, <3>2, <3>3 DEF CallerCurrent
    <2>2. callers' \in [Caller -> CallerState]
      BY <1>1, <2>1 DEF CommitAddress
    <2>3. address' \in 0..MaxAddress
      BY <1>1, SignInConstants DEF CommitAddress, SignInInv
    <2> QED BY <1>1, <2>1, <2>2, <2>3 DEF CommitAddress, SignInInv
  <1>2. CASE RevokeSessions
    BY <1>2 DEF RevokeSessions, SignInInv, Survivors, CallerCurrent, Current
  <1>3. CASE ConsumeCodes
    <2>1. UNCHANGED <<address, sessions, challenges, callers>>
      BY <1>3 DEF ConsumeCodes
    <2>2. letters' \in [CodePurpose -> LetterRow]
      BY <1>3, SignInConstants DEF ConsumeCodes, SignInInv
    <2>3. /\ changing' \in {"resets", "no"} => CodeCurrent("sign_in")'
          /\ changing' = "no" => CodeCurrent("password_reset")'
      BY <1>3, <2>1, SignInConstants DEF ConsumeCodes, SignInInv, CodeCurrent, Current, CodePurpose
    <2>4. \A c \in Caller : CallerCurrent(callers[c])'
      BY <1>3, <2>1 DEF ConsumeCodes, SignInInv, CallerCurrent
    <2>5. changing' \in {"resets", "no"} /\ changing # "sessions" /\ changing' # "sessions"
      BY <1>3 DEF ConsumeCodes
    <2> QED BY <2>1, <2>2, <2>3, <2>4, <2>5 DEF SignInInv, Current
  <1> QED BY <1>1, <1>2, <1>3

\* Every step of the account preserves its invariant.
LEMMA SignInStep == SignInInv /\ [SignInNext]_signInVars => SignInInv'
  <1>1. SignInInv /\ UNCHANGED signInVars => SignInInv'
    BY DEF signInVars, SignInInv, CallerCurrent, CodeCurrent, Current
  <1> QED BY <1>1, FindKeeps, PutKeeps, ReadKeeps, RecordKeeps, ConsumeKeeps, RevokeKeeps,
             FinishKeeps, SessionsKeep, ChangeKeeps DEF SignInNext

\* What a change of the address has closed stays closed, for any number of calls and
\* changes.
THEOREM SignInInvariant == SignInSpec => []SignInInv
  BY SignInStart, SignInStep, PTL DEF SignInSpec

\* The account's rows keep their shapes, and no code is tried more often than allowed.
THEOREM SignInTyped == SignInSpec => []SignInTypeOK
  <1>1. SignInInv => SignInTypeOK
    BY DEF SignInInv, SignInTypeOK, LetterRow
  <1> QED BY <1>1, SignInInvariant, PTL

\* Once a change of the address is done, no session and no unused code goes back to an
\* earlier one, but for those of calls that were under way during the change and of second
\* factors that were already being asked for (changeWorkAddress, verifySignInCode,
\* resetPassword).
THEOREM OldAddressIsClosed == SignInSpec => []OldAddressOpensNothing
  <1>1. SignInInv => OldAddressOpensNothing
    BY DEF SignInInv, OldAddressOpensNothing, CodeCurrent, Current, CodePurpose
  <1> QED BY <1>1, SignInInvariant, PTL
-----------------------------------------------------------------------------
(* The second factor. *)

EnrollerState ==
    {Unhurried} \cup [at: {"confirming", "removing"}]
    \cup [at: {"clearing"}, of: 0..MaxSecrets]
    \cup [at: {"issuing"}, of: 0..MaxSecrets, n: 1..BatchSize]
    \cup [at: {"spending"}, code: [of: 0..MaxSecrets, n: 1..BatchSize]]

\* A call confirms a secret that was offered, issues codes of the confirmed one, and
\* removes it after its codes.
EnrollerHonest(call) ==
    /\ call.at = "confirming" => factor.secret # 0
    /\ call.at \in {"clearing", "issuing"} => factor.confirmed /\ call.of = factor.secret
    /\ call.at = "removing" => recovery = {}

FactorTyped ==
    /\ factor \in [secret: 0..MaxSecrets, confirmed: BOOLEAN]
    /\ minted \in 0..MaxSecrets
    /\ recovery \subseteq [of: 0..MaxSecrets, n: 1..BatchSize]
    /\ enrollers \in [Enroller -> EnrollerState]
    /\ overlapped \in BOOLEAN

\* One call at most, an honest one, and no codes but the confirmed authenticator's.
FactorSound ==
    /\ \A e, f \in UnderWay : e = f
    /\ \A code \in recovery : factor.confirmed /\ code.of = factor.secret
    /\ \A e \in Enroller : EnrollerHonest(enrollers[e])

SecondFactorInv == FactorTyped /\ (overlapped \/ FactorSound)

\* No authenticator and no codes at the start.
LEMMA SecondFactorStart == SecondFactorInit => SecondFactorInv
  <1> SUFFICES ASSUME SecondFactorInit PROVE SecondFactorInv
    OBVIOUS
  <1>1. Unhurried \in EnrollerState /\ EnrollerHonest(Unhurried)
    BY DEF EnrollerState, EnrollerHonest, Unhurried
  <1>2. overlapped \in BOOLEAN
    BY DEF SecondFactorInit
  <1>3. FactorTyped
    BY <1>1, <1>2, SecondFactorAssumption DEF SecondFactorInit, FactorTyped, NoFactor
  <1>4. FactorSound
    BY <1>1 DEF SecondFactorInit, FactorSound, UnderWay
  <1> QED BY <1>3, <1>4 DEF SecondFactorInv

\* A call in flight has the fields of the step it is at.
LEMMA EnrollerShapes ==
    ASSUME NEW call \in EnrollerState
    PROVE  /\ call.at = "clearing" => call \in [at: {"clearing"}, of: 0..MaxSecrets]
           /\ call.at = "issuing" =>
                  call \in [at: {"issuing"}, of: 0..MaxSecrets, n: 1..BatchSize]
  BY DEF EnrollerState, Unhurried

\* The next code of a batch, issued by a call that keeps its shape.
LEMMA IssuingGoesOn ==
    ASSUME FactorTyped, NEW e \in Enroller, IssueRecoveryCode(e)
    PROVE  \E code \in [of: 0..MaxSecrets, n: 1..BatchSize], next \in EnrollerState :
               /\ recovery' = recovery \cup {code} /\ UNCHANGED <<factor, minted>>
               /\ code.of = enrollers[e].of
               /\ Does(e, next)
               /\ (next = Unhurried \/ (next.at = "issuing" /\ next.of = enrollers[e].of))
  <1>1. PICK held \in EnrollerState : held = enrollers[e]
    BY DEF FactorTyped
  <1>2. held.of \in 0..MaxSecrets /\ held.n \in 1..BatchSize /\ held.at = "issuing"
        /\ held \in [at: {"issuing"}, of: 0..MaxSecrets, n: 1..BatchSize]
    BY <1>1, EnrollerShapes DEF IssueRecoveryCode
  <1> DEFINE code == [of |-> held.of, n |-> held.n]
             n == held.n + 1
             further == [held EXCEPT !.n = n]
             next == IF held.n = BatchSize THEN Unhurried ELSE further
  <1>3. /\ UNCHANGED <<factor, minted>> /\ recovery' = recovery \cup {code}
        /\ Does(e, next)
    BY <1>1 DEF IssueRecoveryCode
  <1>4. held.n # BatchSize => n \in 1..BatchSize
    BY <1>2, SecondFactorAssumption
  <1> HIDE DEF n
  <1>5. held.n # BatchSize => /\ further \in EnrollerState /\ further.of = held.of
                              /\ further.at = "issuing"
    BY <1>2, <1>4 DEF EnrollerState
  <1> HIDE DEF further
  <1>6. next \in EnrollerState
        /\ (next = Unhurried \/ (next.at = "issuing" /\ next.of = held.of))
    BY <1>5 DEF EnrollerState
  <1> HIDE DEF next
  <1>7. code \in [of: 0..MaxSecrets, n: 1..BatchSize] /\ code.of = held.of
    BY <1>2
  <1> HIDE DEF code
  <1> QED BY <1>1, <1>3, <1>6, <1>7

\* Every statement keeps the shapes, whoever else is at work.
LEMMA FactorTypedStep ==
    ASSUME FactorTyped, SecondFactorStatement, Overlaps
    PROVE  FactorTyped'
  <1>1. overlapped' \in BOOLEAN
    BY DEF Overlaps
  <1>2. CASE BeginEnrolment
    <2>1. /\ minted' \in 1..MaxSecrets /\ factor' = [secret |-> minted', confirmed |-> FALSE]
          /\ UNCHANGED <<recovery, enrollers>>
      BY <1>2, SecondFactorAssumption DEF BeginEnrolment, FactorTyped
    <2> QED BY <1>1, <2>1 DEF FactorTyped
  <1>3. ASSUME NEW e \in Enroller, NEW call \in EnrollerState, Does(e, call),
               factor' \in [secret: 0..MaxSecrets, confirmed: BOOLEAN], UNCHANGED minted,
               recovery' \subseteq [of: 0..MaxSecrets, n: 1..BatchSize]
        PROVE  FactorTyped'
    BY <1>1, <1>3 DEF Does, FactorTyped
  <1>4. Unhurried \in EnrollerState
    BY DEF EnrollerState
  <1>5. ASSUME NEW e \in Enroller, BeginConfirmation(e) PROVE FactorTyped'
    <2>1. [at |-> "confirming"] \in EnrollerState
      BY DEF EnrollerState
    <2> QED BY <1>3, <1>5, <2>1 DEF BeginConfirmation, FactorTyped
  <1>6. ASSUME NEW e \in Enroller, ConfirmFactor(e) PROVE FactorTyped'
    <2>1. PICK secret \in 0..MaxSecrets : secret = factor.secret
      BY DEF FactorTyped
    <2>2. [at |-> "clearing", of |-> secret] \in EnrollerState
      BY DEF EnrollerState
    <2>3. factor' \in [secret: 0..MaxSecrets, confirmed: BOOLEAN]
      BY <1>6 DEF ConfirmFactor, FactorTyped
    <2> QED BY <1>3, <1>6, <2>1, <2>2, <2>3 DEF ConfirmFactor, FactorTyped
  <1>7. ASSUME NEW e \in Enroller, ClearRecoveryCodes(e) PROVE FactorTyped'
    <2>1. PICK of \in 0..MaxSecrets : of = enrollers[e].of
      BY <1>7, EnrollerShapes DEF ClearRecoveryCodes, FactorTyped
    <2>2. [at |-> "issuing", of |-> of, n |-> 1] \in EnrollerState
      BY SecondFactorAssumption DEF EnrollerState
    <2> QED BY <1>3, <1>7, <2>1, <2>2 DEF ClearRecoveryCodes, FactorTyped
  <1>8. ASSUME NEW e \in Enroller, IssueRecoveryCode(e) PROVE FactorTyped'
    BY <1>3, <1>8, IssuingGoesOn DEF FactorTyped
  <1>9. ASSUME NEW e \in Enroller, BeginRemoval(e) \/ FinishRemoval(e) PROVE FactorTyped'
    <2>1. recovery' \subseteq recovery /\ factor' \in {factor, NoFactor} /\ UNCHANGED minted
      BY <1>9 DEF BeginRemoval, FinishRemoval, Delete
    <2>2. NoFactor \in [secret: 0..MaxSecrets, confirmed: BOOLEAN]
      BY SecondFactorAssumption DEF NoFactor
    <2>3. [at |-> "removing"] \in EnrollerState
      BY DEF EnrollerState
    <2> QED BY <1>3, <1>4, <1>9, <2>1, <2>2, <2>3 DEF BeginRemoval, FinishRemoval, FactorTyped
  <1>10. ASSUME NEW e \in Enroller, BeginRecovery(e) PROVE FactorTyped'
    <2>1. PICK code \in recovery : Does(e, [at |-> "spending", code |-> code])
      BY <1>10 DEF BeginRecovery
    <2>2. [at |-> "spending", code |-> code] \in EnrollerState
      BY DEF EnrollerState, FactorTyped
    <2> QED BY <1>3, <1>10, <2>1, <2>2 DEF BeginRecovery, FactorTyped
  <1>11. ASSUME NEW e \in Enroller, UseRecoveryCode(e) \/ StopHalfway(e) PROVE FactorTyped'
    BY <1>3, <1>4, <1>11 DEF UseRecoveryCode, StopHalfway, FactorTyped
  <1> QED BY <1>2, <1>5, <1>6, <1>7, <1>8, <1>9, <1>10, <1>11 DEF SecondFactorStatement

\* While no two calls are under way nobody's claims but the caller's own matter, and each
\* statement keeps them.
LEMMA FactorSoundStep ==
    ASSUME FactorTyped, FactorSound, SecondFactorStatement, \A e, f \in UnderWay' : e = f
    PROVE  FactorSound'
  <1>1. CASE BeginEnrolment
    <2>1. factor' = [secret |-> minted + 1, confirmed |-> FALSE] /\ minted \in Nat
          /\ UNCHANGED <<recovery, enrollers>> /\ ~factor.confirmed
      BY <1>1, SecondFactorAssumption DEF BeginEnrolment, FactorTyped
    <2>2. factor'.secret # 0
      BY <2>1
    <2> QED BY <2>1, <2>2 DEF FactorSound, EnrollerHonest, UnderWay
  <1>2. ASSUME NEW e \in Enroller, NEW call \in EnrollerState, Does(e, call),
               call # Unhurried \/ enrollers[e] # Unhurried, EnrollerHonest(call)',
               \A code \in recovery' : factor'.confirmed /\ code.of = factor'.secret
        PROVE  FactorSound'
    <2>1. enrollers' = [enrollers EXCEPT ![e] = call] /\ enrollers'[e] = call
      BY <1>2 DEF Does, FactorTyped
    <2>2. \A f \in Enroller \ {e} : enrollers'[f] = Unhurried
      BY <1>2, <2>1 DEF FactorTyped, FactorSound, UnderWay
    <2>3. \A f \in Enroller : EnrollerHonest(enrollers[f])'
      BY <1>2, <2>1, <2>2 DEF EnrollerHonest, Unhurried
    <2> QED BY <1>2, <2>3 DEF FactorSound
  <1>3. EnrollerHonest(Unhurried)' /\ Unhurried \in EnrollerState /\ Unhurried.at = "rest"
    BY DEF Unhurried, EnrollerHonest, EnrollerState
  <1>4. ASSUME NEW e \in Enroller, BeginConfirmation(e) PROVE FactorSound'
    <2> DEFINE call == [at |-> "confirming"]
    <2>1. call \in EnrollerState /\ EnrollerHonest(call)' /\ call.at = "confirming"
      BY <1>4 DEF BeginConfirmation, EnrollerState, EnrollerHonest
    <2> QED BY <1>2, <1>3, <1>4, <2>1 DEF BeginConfirmation, FactorSound
  <1>5. ASSUME NEW e \in Enroller, ConfirmFactor(e) PROVE FactorSound'
    <2>1. PICK secret \in 0..MaxSecrets : secret = factor.secret /\ secret # 0
      BY <1>5 DEF ConfirmFactor, FactorTyped, FactorSound, EnrollerHonest
    <2>2. factor' = [secret |-> secret, confirmed |-> TRUE]
      BY <1>5, <2>1 DEF ConfirmFactor, FactorTyped
    <2> DEFINE call == [at |-> "clearing", of |-> secret]
    <2>3. call \in EnrollerState /\ EnrollerHonest(call)' /\ call.at = "clearing"
      BY <2>2 DEF EnrollerState, EnrollerHonest
    <2>4. Does(e, call) /\ UNCHANGED recovery
      BY <1>5, <2>1 DEF ConfirmFactor
    <2> HIDE DEF call
    <2> QED BY <1>2, <1>3, <2>1, <2>2, <2>3, <2>4 DEF FactorSound
  <1>6. ASSUME NEW e \in Enroller, ClearRecoveryCodes(e) PROVE FactorSound'
    <2>1. PICK of \in 0..MaxSecrets : of = enrollers[e].of
      BY <1>6, EnrollerShapes DEF ClearRecoveryCodes, FactorTyped
    <2> DEFINE call == [at |-> "issuing", of |-> of, n |-> 1]
    <2>2. factor.confirmed /\ of = factor.secret /\ UNCHANGED factor
          /\ recovery' = {} /\ Does(e, call)
      BY <1>6, <2>1 DEF ClearRecoveryCodes, FactorSound, EnrollerHonest
    <2>3. call \in EnrollerState /\ EnrollerHonest(call)' /\ call.at = "issuing"
      BY <2>2, SecondFactorAssumption DEF EnrollerState, EnrollerHonest
    <2> HIDE DEF call
    <2> QED BY <1>2, <1>3, <2>2, <2>3
  <1>7. ASSUME NEW e \in Enroller, IssueRecoveryCode(e) PROVE FactorSound'
    <2>1. enrollers[e].at = "issuing" /\ factor.confirmed /\ enrollers[e].of = factor.secret
      BY <1>7 DEF IssueRecoveryCode, FactorSound, EnrollerHonest
    <2>2. PICK code \in [of: 0..MaxSecrets, n: 1..BatchSize], next \in EnrollerState :
              /\ recovery' = recovery \cup {code} /\ UNCHANGED factor
              /\ code.of = enrollers[e].of
              /\ Does(e, next)
              /\ (next = Unhurried \/ (next.at = "issuing" /\ next.of = enrollers[e].of))
      BY <1>7, IssuingGoesOn
    <2>3. EnrollerHonest(next)'
      BY <1>3, <2>1, <2>2 DEF EnrollerHonest
    <2>4. \A c \in recovery' : factor'.confirmed /\ c.of = factor'.secret
      BY <2>1, <2>2 DEF FactorSound
    <2> QED BY <1>2, <1>3, <2>1, <2>2, <2>3, <2>4
  <1>8. ASSUME NEW e \in Enroller, BeginRemoval(e) PROVE FactorSound'
    <2> DEFINE call == [at |-> "removing"]
    <2>1. recovery' = {} /\ UNCHANGED factor /\ Does(e, call)
      BY <1>8 DEF BeginRemoval, Delete, RemovalOrder
    <2>2. call \in EnrollerState /\ EnrollerHonest(call)' /\ call.at = "removing"
      BY <2>1 DEF EnrollerState, EnrollerHonest
    <2> HIDE DEF call
    <2> QED BY <1>2, <1>3, <2>1, <2>2
  <1>9. ASSUME NEW e \in Enroller, FinishRemoval(e) PROVE FactorSound'
    <2>1. recovery' = recovery /\ Does(e, Unhurried) /\ enrollers[e].at = "removing"
      BY <1>9 DEF FinishRemoval, Delete, RemovalOrder
    <2>2. recovery = {}
      BY <2>1 DEF FactorSound, EnrollerHonest
    <2> QED BY <1>2, <1>3, <2>1, <2>2
  <1>10. ASSUME NEW e \in Enroller, BeginRecovery(e) PROVE FactorSound'
    <2>1. PICK code \in recovery : Does(e, [at |-> "spending", code |-> code])
      BY <1>10 DEF BeginRecovery
    <2> DEFINE call == [at |-> "spending", code |-> code]
    <2>2. call \in EnrollerState /\ EnrollerHonest(call)' /\ call.at = "spending"
      BY DEF EnrollerState, EnrollerHonest, FactorTyped
    <2> HIDE DEF call
    <2>3. Does(e, call)
      BY <2>1 DEF call
    <2> QED BY <1>2, <1>3, <1>10, <2>2, <2>3 DEF BeginRecovery, FactorSound
  <1>11. ASSUME NEW e \in Enroller, UseRecoveryCode(e) \/ StopHalfway(e) PROVE FactorSound'
    <2>1. recovery' \subseteq recovery /\ UNCHANGED factor /\ Does(e, Unhurried)
          /\ enrollers[e] # Unhurried
      BY <1>3, <1>11 DEF UseRecoveryCode, StopHalfway
    <2> QED BY <1>2, <1>3, <2>1 DEF FactorSound
  <1> QED BY <1>1, <1>4, <1>5, <1>6, <1>7, <1>8, <1>9, <1>10, <1>11 DEF SecondFactorStatement

\* Shapes always, and soundness until calls overlap and again when that is over.
LEMMA SecondFactorStep ==
    SecondFactorInv /\ [SecondFactorNext]_factorVars => SecondFactorInv'
  <1> SUFFICES ASSUME SecondFactorInv, [SecondFactorNext]_factorVars PROVE SecondFactorInv'
    OBVIOUS
  <1>1. CASE UNCHANGED factorVars
    BY <1>1 DEF factorVars, SecondFactorInv, FactorTyped, FactorSound, UnderWay, EnrollerHonest
  <1>2. CASE SecondFactorNext
    <2>1. FactorTyped'
      BY <1>2, FactorTypedStep DEF SecondFactorNext, SecondFactorInv
    <2>2. CASE overlapped'
      BY <2>1, <2>2 DEF SecondFactorInv
    <2>3. CASE ~overlapped'
      <3>1. \A e, f \in UnderWay' : e = f
        BY <1>2, <2>3 DEF SecondFactorNext, Overlaps
      <3>2. CASE FactorSound
        BY <1>2, <2>1, <3>1, <3>2, FactorSoundStep DEF SecondFactorNext, SecondFactorInv
      <3>3. CASE overlapped
        <4>1. UnderWay' = {} /\ recovery' = {}
          BY <1>2, <2>3, <3>3 DEF SecondFactorNext, Overlaps
        <4>2. \A e \in Enroller : enrollers'[e] = Unhurried
          BY <4>1 DEF UnderWay
        <4> QED BY <2>1, <3>1, <4>1, <4>2 DEF SecondFactorInv, FactorSound, EnrollerHonest,
                                              Unhurried
      <3> QED BY <3>2, <3>3 DEF SecondFactorInv
    <2> QED BY <2>2, <2>3
  <1> QED BY <1>1, <1>2

\* Rows keep their shapes, and unless calls overlapped the codes are the authenticator's,
\* for any number of calls at once.
THEOREM SecondFactorInvariant == SecondFactorSpec => []SecondFactorInv
  BY SecondFactorStart, SecondFactorStep, PTL DEF SecondFactorSpec

\* A confirmed authenticator's unused codes are its own, wherever a call stops between
\* two statements, unless calls of the account overlapped and codes are left from then
\* (confirmEnrolment, removeTotpEnrolment).
THEOREM RecoveryCodesStayCurrent == SecondFactorSpec => []RecoveryCodesAreCurrent
  <1>1. SecondFactorInv => RecoveryCodesAreCurrent
    BY DEF SecondFactorInv, FactorSound, RecoveryCodesAreCurrent
  <1> QED BY <1>1, SecondFactorInvariant, PTL

\* And the rows keep their shapes.
THEOREM SecondFactorTyped == SecondFactorSpec => []SecondFactorTypeOK
  <1>1. SecondFactorInv => SecondFactorTypeOK
    BY DEF SecondFactorInv, FactorTyped, SecondFactorTypeOK
  <1> QED BY <1>1, SecondFactorInvariant, PTL
==============================================================================

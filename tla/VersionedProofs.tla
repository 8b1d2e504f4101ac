--------------------------- MODULE VersionedProofs ---------------------------
(***************************************************************************)
(* Proofs about the services whose rows carry a version, for any number of *)
(* rows and calls: what a call has read is still so as long as the version *)
(* it will check has not moved.                                            *)
(***************************************************************************)
EXTENDS Booking, Deliverables, Disclosure, Escalation, FiniteSetTheorems, TLAPS

-----------------------------------------------------------------------------
(* Booking. *)

SlotRow == [hours: SUBSET Hour, by: {Applicant[a] : a \in Interview} \cup {NoStudent},
            version: Nat]

InterviewRow == [status: InterviewStatus, furthest: InterviewStatus, exitedOn: {0},
                 version: Nat, slot: Slot \cup {NoSlot}]

Picked == [at: {"picked"}, app: Interview, slot: Slot, row: SlotRow]

Deciding == [at: {"deciding"}, app: Interview, to: InterviewStatus,
             slot: Slot \cup {NoSlot}, row: SlotRow, read: InterviewRow]

BookerState == {Free} \cup Picked \cup Deciding

\* A booking picked a free slot, published for good; what it read is the row
\* while the version stands, and so is the application it will move.
BookerHonest(call) ==
    /\ call.at \in {"picked", "deciding"} /\ call.slot # NoSlot =>
           /\ slots[call.slot].hours # {}
           /\ call.row.by = NoStudent
           /\ call.row.version <= slots[call.slot].version
           /\ call.row.version = slots[call.slot].version => call.row = slots[call.slot]
    /\ call.at = "deciding" =>
           /\ call.read.version <= interviews[call.app].version
           /\ call.read.version = interviews[call.app].version =>
                  call.read = interviews[call.app]

OneHolder ==
    \A a, b \in Interview :
        interviews[a].slot = interviews[b].slot /\ interviews[a].slot # NoSlot => a = b

HoldersBooked ==
    \A a \in Interview : interviews[a].slot # NoSlot =>
        slots[interviews[a].slot].by = Applicant[a]

UnpublishedIsFree ==
    \A s \in Slot : slots[s].hours = {} => slots[s].by = NoStudent

BookingInv ==
    /\ BookingTypeOK
    /\ bookers \in [Booker -> BookerState]
    /\ \A c \in Booker : BookerHonest(bookers[c])
    /\ OneHolder /\ HoldersBooked /\ UnpublishedIsFree

\* A move between the three interview statuses, written out.
LEMMA InterviewMove ==
    ASSUME NEW read \in InterviewRow, NEW to \in InterviewStatus
    PROVE  Moved(read, to) = [status |-> to, furthest |-> to, exitedOn |-> 0,
                              version |-> read.version + 1, slot |-> read.slot]
  <1>1. FurthestOf(read, to) = to /\ to \notin NoLongerRunning
    BY DEF FurthestOf, IsTerminal, TerminalStatuses, InterviewStatus, NoLongerRunning
  <1>2. Moved(read, to) = [read EXCEPT !.status = to, !.furthest = to, !.exitedOn = 0,
                                       !.version = read.version + 1]
    BY <1>1 DEF Moved, InterviewRow
  <1> QED BY <1>2 DEF InterviewRow

\* A move leaves a row of its shape, one version on, with the slot it was given.
LEMMA InterviewMovedTyped ==
    ASSUME NEW c \in Booker, bookers[c] \in Deciding
    PROVE  /\ InterviewMoved(c) \in InterviewRow
           /\ InterviewMoved(c).version = bookers[c].read.version + 1
           /\ InterviewMoved(c).slot = IF bookers[c].slot = NoSlot THEN bookers[c].read.slot
                                       ELSE bookers[c].slot
  <1> DEFINE to == bookers[c].to
             read == bookers[c].read
             given == bookers[c].slot
             slot == IF given = NoSlot THEN read.slot ELSE given
  <1>1. to \in InterviewStatus /\ read \in InterviewRow /\ given \in Slot \cup {NoSlot}
    BY DEF Deciding
  <1>2. InterviewMoved(c) = [Moved(read, to) EXCEPT
                                !.slot = IF given = NoSlot THEN @ ELSE given]
    BY DEF InterviewMoved
  <1> HIDE DEF to, read, given
  <1>3. InterviewMoved(c) = [status |-> to, furthest |-> to, exitedOn |-> 0,
                             version |-> read.version + 1, slot |-> slot]
    BY <1>1, <1>2, InterviewMove
  <1>4. slot \in Slot \cup {NoSlot} /\ read.version + 1 \in Nat
    BY <1>1 DEF InterviewRow
  <1> HIDE DEF slot
  <1>5. InterviewMoved(c) \in InterviewRow
    BY <1>1, <1>3, <1>4 DEF InterviewRow
  <1>6. InterviewMoved(c).version = read.version + 1 /\ InterviewMoved(c).slot = slot
    BY <1>3
  <1> QED BY <1>5, <1>6 DEF to, read, given, slot

\* What every step's proof needs of the types.
LEMMA BookingTypes ==
    BookingTypeOK <=> /\ slots \in [Slot -> SlotRow]
                      /\ interviews \in [Interview -> InterviewRow]
                      /\ publishers \in [Publisher -> SUBSET Hour]
  BY DEF BookingTypeOK, SlotRow, InterviewRow

\* Nothing is published and nobody is booking at the start.
LEMMA BookingStart == BookingInit => BookingInv
  <1> SUFFICES ASSUME BookingInit PROVE BookingInv
    OBVIOUS
  <1>1. Unpublished \in SlotRow
    BY DEF Unpublished, SlotRow
  <1>2. BookingTypeOK
    <2>1. slots \in [Slot -> SlotRow]
      BY <1>1 DEF BookingInit
    <2>2. interviews \in [Interview -> InterviewRow]
      BY DEF BookingInit, InterviewRow, InterviewStatus
    <2>3. publishers \in [Publisher -> SUBSET Hour]
      BY DEF BookingInit
    <2> QED BY <2>1, <2>2, <2>3, BookingTypes
  <1>3. bookers \in [Booker -> BookerState]
    BY DEF BookingInit, BookerState
  <1>4. \A c \in Booker : BookerHonest(bookers[c])
    BY DEF BookingInit, BookerHonest, Free
  <1>5. OneHolder /\ HoldersBooked /\ UnpublishedIsFree
    BY DEF BookingInit, OneHolder, HoldersBooked, UnpublishedIsFree, Unpublished
  <1> QED BY <1>2, <1>3, <1>4, <1>5 DEF BookingInv

\* A step that only puts an honest call in one booker's hands.
LEMMA CallTaken ==
    ASSUME BookingInv, UNCHANGED <<slots, interviews, publishers>>,
           NEW c \in Booker, NEW call \in BookerState, BookerHonest(call),
           bookers' = [bookers EXCEPT ![c] = call]
    PROVE  BookingInv'
  <1>1. BookingTypeOK' /\ OneHolder' /\ HoldersBooked' /\ UnpublishedIsFree'
    BY DEF BookingInv, BookingTypeOK, OneHolder, HoldersBooked, UnpublishedIsFree
  <1>2. bookers' \in [Booker -> BookerState]
    BY DEF BookingInv
  <1>3. ASSUME NEW d \in Booker PROVE BookerHonest(bookers[d])'
    <2>1. BookerHonest(bookers'[d])
      BY DEF BookingInv
    <2> QED BY <2>1 DEF BookerHonest
  <1> QED BY <1>1, <1>2, <1>3 DEF BookingInv

\* Publishing inserts rows under identities nobody has booked or can be booking.
LEMMA PublishKeeps ==
    ASSUME BookingInv, NEW p \in Publisher, Publish(p)
    PROVE  BookingInv'
  <1>0. PICK rows \in SUBSET (Slot \ Published) :
            \E at \in [rows -> publishers[p]] :
                slots' = [s \in Slot |->
                             IF s \in rows
                             THEN [hours |-> {at[s]}, by |-> NoStudent, version |-> 1]
                             ELSE slots[s]]
    BY DEF Publish
  <1>1. PICK at \in [rows -> publishers[p]] :
            slots' = [s \in Slot |->
                         IF s \in rows
                         THEN [hours |-> {at[s]}, by |-> NoStudent, version |-> 1]
                         ELSE slots[s]]
    BY <1>0
  <1>2. UNCHANGED <<interviews, bookers>> /\ publishers' = [publishers EXCEPT ![p] = {}]
    BY DEF Publish
  <1>3. ASSUME NEW s \in Slot, slots[s].hours # {} PROVE slots'[s] = slots[s]
    BY <1>1, <1>3 DEF Published
  <1>4. ASSUME NEW s \in Slot PROVE slots'[s].by = slots[s].by
    BY <1>1 DEF Published, BookingInv, UnpublishedIsFree
  <1>5. slots' \in [Slot -> SlotRow]
    <2>1. ASSUME NEW s \in Slot, s \in rows
          PROVE  [hours |-> {at[s]}, by |-> NoStudent, version |-> 1] \in SlotRow
      <3>1. at[s] \in Hour
        BY <1>1, <2>1, BookingTypes DEF BookingInv
      <3> QED BY <3>1 DEF SlotRow
    <2> QED BY <1>1, <2>1, BookingTypes DEF BookingInv
  <1>6. BookingTypeOK'
    BY <1>2, <1>5 DEF BookingInv, BookingTypeOK, SlotRow
  <1>7. ASSUME NEW c \in Booker PROVE BookerHonest(bookers[c])'
    <2>1. BookerHonest(bookers[c]) /\ bookers'[c] = bookers[c] /\ bookers[c] \in BookerState
      BY <1>2 DEF BookingInv
    <2>2. bookers[c].at \in {"picked", "deciding"} => bookers[c].slot \in Slot \cup {NoSlot}
      BY <2>1 DEF BookerState, Picked, Deciding, Free
    <2> QED BY <1>2, <1>3, <2>1, <2>2 DEF BookerHonest
  <1>8. OneHolder' /\ HoldersBooked' /\ UnpublishedIsFree'
    <2>1. HoldersBooked'
      <3> SUFFICES ASSUME NEW a \in Interview, interviews[a].slot # NoSlot
                   PROVE  slots'[interviews[a].slot].by = Applicant[a]
        BY <1>2 DEF HoldersBooked
      <3>1. interviews[a].slot \in Slot
        BY BookingTypes DEF BookingInv, InterviewRow
      <3> QED BY <1>4, <3>1 DEF BookingInv, HoldersBooked
    <2>2. UnpublishedIsFree'
      BY <1>1, <1>4 DEF BookingInv, UnpublishedIsFree
    <2> QED BY <1>2, <2>1, <2>2 DEF BookingInv, OneHolder
  <1> QED BY <1>2, <1>6, <1>7, <1>8 DEF BookingInv

\* The rows a call carries are the rows there are as long as their versions are.
LEMMA PickKeeps ==
    ASSUME BookingInv, NEW c \in Booker, PickSlot(c)
    PROVE  BookingInv'
  <1>1. PICK a \in Interview, s \in Published :
            /\ slots[s].by = NoStudent
            /\ bookers' = [bookers EXCEPT ![c] =
                   [at |-> "picked", app |-> a, slot |-> s, row |-> slots[s]]]
    BY DEF PickSlot
  <1> DEFINE call == [at |-> "picked", app |-> a, slot |-> s, row |-> slots[s]]
  <1>2. s \in Slot /\ slots[s] \in SlotRow /\ slots[s].hours # {}
    BY BookingTypes DEF BookingInv, Published
  <1>3. call \in BookerState
    BY <1>2 DEF BookerState, Picked
  <1>4. BookerHonest(call)
    BY <1>1, <1>2 DEF BookerHonest, SlotRow
  <1> QED BY <1>1, <1>3, <1>4, CallTaken DEF PickSlot

\* Deciding on a booking adds what it read of the application.
LEMMA DecideBookingKeeps ==
    ASSUME BookingInv, NEW c \in Booker, DecideBooking(c)
    PROVE  BookingInv'
  <1>1. bookers[c] \in Picked /\ BookerHonest(bookers[c])
    BY DEF DecideBooking, BookingInv, BookerState, Free, Deciding
  <1> DEFINE a == bookers[c].app
             call == [at |-> "deciding", app |-> a, to |-> "interview_scheduled",
                      slot |-> bookers[c].slot, row |-> bookers[c].row,
                      read |-> interviews[a]]
  <1>2. a \in Interview /\ interviews[a] \in InterviewRow
    BY <1>1, BookingTypes DEF BookingInv, Picked
  <1>3. call \in BookerState
    BY <1>1, <1>2 DEF BookerState, Picked, Deciding, InterviewStatus
  <1>4. BookerHonest(call)
    BY <1>1, <1>2 DEF BookerHonest, Picked, InterviewRow
  <1>5. Free \in BookerState /\ BookerHonest(Free)
    BY DEF BookerState, BookerHonest, Free
  <1>6. \/ bookers' = [bookers EXCEPT ![c] = call]
        \/ bookers' = [bookers EXCEPT ![c] = Free]
    BY DEF DecideBooking
  <1> QED BY <1>3, <1>4, <1>5, <1>6, CallTaken DEF DecideBooking

\* A plain move reads the application and no slot.
LEMMA DecideMoveKeeps ==
    ASSUME BookingInv, NEW c \in Booker, DecideMove(c)
    PROVE  BookingInv'
  <1>1. PICK a \in Interview,
             to \in {"interview_scheduled", "interview_completed", "mutual_interest"} :
            bookers' = [bookers EXCEPT ![c] =
                [at |-> "deciding", app |-> a, to |-> to,
                 slot |-> NoSlot, row |-> Unpublished, read |-> interviews[a]]]
    BY DEF DecideMove
  <1> DEFINE call == [at |-> "deciding", app |-> a, to |-> to,
                      slot |-> NoSlot, row |-> Unpublished, read |-> interviews[a]]
  <1>2. interviews[a] \in InterviewRow /\ Unpublished \in SlotRow
    BY BookingTypes DEF BookingInv, Unpublished, SlotRow
  <1>3. call \in BookerState
    BY <1>2 DEF BookerState, Deciding, InterviewStatus
  <1>4. BookerHonest(call)
    BY <1>2 DEF BookerHonest, InterviewRow
  <1> QED BY <1>1, <1>3, <1>4, CallTaken DEF DecideMove

\* Booking a slot changes whom it is for, and its version.
LEMMA SlotBooked ==
    ASSUME NEW H, NEW B, NEW row \in [hours: H, by: B, version: Nat], NEW who \in B,
           NEW n \in Nat
    PROVE  LET written == [row EXCEPT !.by = who, !.version = n] IN
           /\ written \in [hours: H, by: B, version: Nat]
           /\ written.hours = row.hours /\ written.by = who /\ written.version = n
  OBVIOUS

\* A commit writes the rows its call read, each one version on; a slot it books
\* was free when it wrote, so nobody held it.
LEMMA CommitKeeps ==
    ASSUME BookingInv, NEW c \in Booker, CommitMove(c)
    PROVE  BookingInv'
  <1> DEFINE call == bookers[c]
             a == call.app
             s == call.slot
             written == [call.row EXCEPT !.by = Applicant[a], !.version = @ + 1]
             unmoved == interviews[a].version = call.read.version /\ SlotUnmoved(c)
  <1>1. call \in Deciding /\ BookerHonest(call)
    BY DEF CommitMove, BookingInv, BookerState, Free, Picked
  <1>2. /\ a \in Interview /\ s \in Slot \cup {NoSlot}
        /\ call.row \in SlotRow /\ call.read \in InterviewRow
    BY <1>1 DEF Deciding
  <1>3. /\ bookers' = [bookers EXCEPT ![c] = Free] /\ UNCHANGED publishers
        /\ Free \in BookerState /\ BookerHonest(Free)
    BY DEF CommitMove, BookerState, BookerHonest, Free
  <1>4. CASE ~unmoved
    BY <1>3, <1>4, CallTaken DEF CommitMove
  <1>5. CASE unmoved
    <2>1. /\ interviews' = [interviews EXCEPT ![a] = InterviewMoved(c)]
          /\ slots' = IF s = NoSlot THEN slots ELSE [slots EXCEPT ![s] = written]
      BY <1>5 DEF CommitMove
    <2>2. /\ call.read = interviews[a]
          /\ s # NoSlot => /\ slots[s] = call.row /\ slots[s].by = NoStudent
                           /\ slots[s].hours # {} /\ s \in Slot
      BY <1>1, <1>2, <1>5 DEF BookerHonest, SlotUnmoved, Deciding
    <2>3. s # NoSlot => written \in SlotRow /\ written.version = slots[s].version + 1
                        /\ written.by = Applicant[a] /\ written.hours # {}
      <3>1. Applicant[a] \in {Applicant[b] : b \in Interview} \cup {NoStudent}
        BY <1>2
      <3>2. call.row.version + 1 \in Nat
        BY <1>2 DEF SlotRow
      <3>3. /\ written \in SlotRow /\ written.version = call.row.version + 1
            /\ written.by = Applicant[a] /\ written.hours = call.row.hours
        BY <1>2, <3>1, <3>2, SlotBooked DEF SlotRow
      <3> QED BY <2>2, <3>3
    <2>4. /\ InterviewMoved(c) \in InterviewRow
          /\ InterviewMoved(c).version = interviews[a].version + 1
          /\ InterviewMoved(c).slot = IF s = NoSlot THEN interviews[a].slot ELSE s
      BY <1>1, <2>2, InterviewMovedTyped
    <2>5. BookingTypeOK /\ interviews \in [Interview -> InterviewRow]
          /\ slots \in [Slot -> SlotRow]
      BY BookingTypes DEF BookingInv
    <2> HIDE DEF written
    <2>15. interviews' \in [Interview -> InterviewRow] /\ slots' \in [Slot -> SlotRow]
      BY <1>2, <2>1, <2>3, <2>4, <2>5
    <2>6. BookingTypeOK'
      BY <1>3, <2>5, <2>15 DEF BookingTypeOK, SlotRow, InterviewRow
    <2>7. \A b \in Interview : interviews'[b].version >= interviews[b].version
                               /\ (interviews'[b].version = interviews[b].version =>
                                       interviews'[b] = interviews[b])
      BY <1>2, <2>1, <2>4, <2>5 DEF InterviewRow
    <2>8. \A t \in Slot : /\ slots'[t].version >= slots[t].version
                          /\ slots'[t].version = slots[t].version => slots'[t] = slots[t]
                          /\ slots[t].hours # {} => slots'[t].hours # {}
      BY <1>2, <2>1, <2>3, <2>5 DEF SlotRow
    <2>9. ASSUME NEW d \in Booker PROVE BookerHonest(bookers[d])'
      <3>1. CASE d = c
        <4>1. bookers'[d] = Free
          BY <1>3, <3>1 DEF BookingInv
        <4> QED BY <4>1 DEF BookerHonest, Free
      <3>2. CASE d # c
        <4>1. bookers'[d] = bookers[d] /\ bookers[d] \in BookerState
              /\ BookerHonest(bookers[d])
          BY <1>3, <3>2 DEF BookingInv
        <4>2. CASE bookers[d] = Free
          BY <4>1, <4>2 DEF BookerHonest, Free
        <4>3. CASE bookers[d] \in Picked
          <5>1. bookers[d].slot \in Slot /\ bookers[d].row \in SlotRow
                /\ bookers[d].at = "picked"
            BY <4>3 DEF Picked
          <5> DEFINE t == bookers[d].slot
                     row == bookers[d].row
          <5>2. /\ slots[t].hours # {} /\ row.by = NoStudent
                /\ row.version <= slots[t].version
                /\ row.version = slots[t].version => row = slots[t]
            BY <4>1, <5>1, BookingAssumption DEF BookerHonest
          <5>3. /\ t \in Slot /\ slots[t].version \in Nat /\ slots'[t].version \in Nat
                /\ row.version \in Nat
            BY <2>5, <2>15, <5>1 DEF SlotRow
          <5>4. /\ slots'[t].hours # {}
                /\ row.version <= slots'[t].version
                /\ row.version = slots'[t].version => row = slots'[t]
            <6> HIDE DEF t, row
            <6> QED BY <2>8, <5>2, <5>3
          <5> QED BY <4>1, <5>1, <5>2, <5>4 DEF BookerHonest
        <4>4. CASE bookers[d] \in Deciding
          <5>1. /\ bookers[d].slot \in Slot \cup {NoSlot} /\ bookers[d].row \in SlotRow
                /\ bookers[d].app \in Interview /\ bookers[d].read \in InterviewRow
                /\ bookers[d].at = "deciding"
            BY <4>4 DEF Deciding
          <5>2. bookers[d].slot # NoSlot =>
                    /\ slots'[bookers[d].slot].hours # {}
                    /\ bookers[d].row.by = NoStudent
                    /\ bookers[d].row.version <= slots'[bookers[d].slot].version
                    /\ bookers[d].row.version = slots'[bookers[d].slot].version =>
                           bookers[d].row = slots'[bookers[d].slot]
            <6> DEFINE t == bookers[d].slot
                       row == bookers[d].row
            <6> SUFFICES ASSUME t # NoSlot
                         PROVE  /\ slots'[t].hours # {}
                                /\ row.by = NoStudent
                                /\ row.version <= slots'[t].version
                                /\ row.version = slots'[t].version => row = slots'[t]
              OBVIOUS
            <6>1. /\ slots[t].hours # {} /\ row.by = NoStudent
                  /\ row.version <= slots[t].version
                  /\ row.version = slots[t].version => row = slots[t]
              BY <4>1, <5>1 DEF BookerHonest
            <6>2. t \in Slot
              BY <5>1
            <6>3. slots[t].version \in Nat /\ slots'[t].version \in Nat /\ row.version \in Nat
              BY <2>5, <2>15, <5>1, <6>2 DEF SlotRow
            <6> HIDE DEF t, row
            <6> QED BY <2>8, <6>1, <6>2, <6>3
          <5>3. /\ bookers[d].read.version <= interviews'[bookers[d].app].version
                /\ bookers[d].read.version = interviews'[bookers[d].app].version =>
                       bookers[d].read = interviews'[bookers[d].app]
            <6> DEFINE b == bookers[d].app
                       read == bookers[d].read
            <6>1. /\ read.version <= interviews[b].version
                  /\ read.version = interviews[b].version => read = interviews[b]
              BY <4>1, <5>1 DEF BookerHonest
            <6>2. b \in Interview /\ interviews[b].version \in Nat
                  /\ interviews'[b].version \in Nat /\ read.version \in Nat
              BY <2>5, <2>15, <5>1 DEF InterviewRow
            <6> HIDE DEF b, read
            <6>3. /\ read.version <= interviews'[b].version
                  /\ read.version = interviews'[b].version => read = interviews'[b]
              BY <2>7, <6>1, <6>2
            <6> QED BY <6>3 DEF b, read
          <5> QED BY <4>1, <5>1, <5>2, <5>3 DEF BookerHonest
        <4> QED BY <4>1, <4>2, <4>3, <4>4 DEF BookerState
      <3> QED BY <3>1, <3>2
    <2>10. s # NoSlot => \A b \in Interview : interviews[b].slot # s
      BY <2>2, BookingAssumption DEF BookingInv, HoldersBooked
    <2>11. OneHolder'
      BY <1>2, <2>1, <2>4, <2>5, <2>10 DEF BookingInv, OneHolder
    <2>12. HoldersBooked'
      BY <1>2, <2>1, <2>2, <2>3, <2>4, <2>5, <2>10 DEF BookingInv, HoldersBooked, InterviewRow
    <2>13. UnpublishedIsFree'
      BY <1>2, <2>1, <2>2, <2>3, <2>5 DEF BookingInv, UnpublishedIsFree
    <2>14. bookers' \in [Booker -> BookerState]
      BY <1>3 DEF BookingInv
    <2> QED BY <2>6, <2>9, <2>11, <2>12, <2>13, <2>14 DEF BookingInv
  <1> QED BY <1>4, <1>5

\* Every step of the bookings preserves their invariant.
LEMMA BookingStep == BookingInv /\ [BookingNext]_bookingVars => BookingInv'
  <1> SUFFICES ASSUME BookingInv, [BookingNext]_bookingVars PROVE BookingInv'
    OBVIOUS
  <1>1. ASSUME NEW p \in Publisher, CheckCalendar(p) PROVE BookingInv'
    <2>1. PICK batch \in FreeHours \ {{}} : publishers' = [publishers EXCEPT ![p] = batch]
      BY <1>1 DEF CheckCalendar
    <2>2. publishers' \in [Publisher -> SUBSET Hour]
      BY <2>1, BookingTypes DEF FreeHours, BookingInv
    <2>3. UNCHANGED <<slots, interviews, bookers>>
      BY <1>1 DEF CheckCalendar
    <2> QED BY <2>2, <2>3 DEF BookingInv, BookingTypeOK, BookerHonest, OneHolder,
                              HoldersBooked, UnpublishedIsFree
  <1>2. CASE UNCHANGED bookingVars
    BY <1>2 DEF bookingVars, BookingInv, BookingTypeOK, BookerHonest, OneHolder,
                HoldersBooked, UnpublishedIsFree
  <1> QED BY <1>1, <1>2, PublishKeeps, PickKeeps, DecideBookingKeeps, DecideMoveKeeps,
             CommitKeeps DEF BookingNext

\* What a booking read is so while the versions it read stand, and every application
\* that names a slot is its only holder, for any number of slots, calls and moves.
THEOREM BookingInvariant == BookingSpec => []BookingInv
  <1>1. BookingInit => BookingInv BY BookingStart
  <1>2. BookingInv /\ [BookingNext]_bookingVars => BookingInv' BY BookingStep
  <1> QED BY <1>1, <1>2, PTL DEF BookingSpec

\* Slots and applications keep their shapes, whatever is published and booked.
THEOREM BookingTyped == BookingSpec => []BookingTypeOK
  <1>1. BookingInv => BookingTypeOK BY DEF BookingInv
  <1> QED BY <1>1, BookingInvariant, PTL

\* However many bookings, moves and publications interleave, a slot has at most
\* one application that names it, and is booked for that application's student
\* (bookInterviewSlot, saveInterviewSlot's version check).
THEOREM HeldSlotsAreBooked == BookingSpec => []HeldSlotIsBooked
  <1>1. BookingInv => HeldSlotIsBooked
    <2> SUFFICES ASSUME BookingInv, NEW s \in Slot
                 PROVE  /\ Cardinality(Holders(s)) <= 1
                        /\ \A a \in Holders(s) : slots[s].by = Applicant[a]
      BY DEF HeldSlotIsBooked
    <2>1. s # NoSlot
      BY BookingAssumption
    <2>2. \A a \in Holders(s) : slots[s].by = Applicant[a]
      BY <2>1 DEF BookingInv, HoldersBooked, Holders
    <2>3. Cardinality(Holders(s)) <= 1
      <3>1. CASE Holders(s) = {}
        BY <3>1, FS_EmptySet
      <3>2. CASE Holders(s) # {}
        <4>1. PICK a \in Interview : Holders(s) = {a}
          BY <2>1, <3>2 DEF BookingInv, OneHolder, Holders
        <4>2. Cardinality({a}) = 1
          BY FS_Singleton
        <4> QED BY <4>1, <4>2
      <3> QED BY <3>1, <3>2
    <2> QED BY <2>2, <2>3
  <1> QED BY <1>1, BookingInvariant, PTL

-----------------------------------------------------------------------------
(* Deliverables. *)

ProjectRow == [status: ReachedPlacement \cup {"closed"}, furthest: ReachedPlacement,
               exitedOn: Nat, version: Nat, submitted: BOOLEAN, accepted: BOOLEAN]

WorkRow == [status: WorkStatus, round: Nat, version: Nat]

\* The placement ended otherwise than by termination.
Ended == NoLongerRunning \ {"terminated_early"}

Submitting == [at: {"submitting"}, on: Project, app: ProjectRow]
Answering  == [at: {"answering"}, on: Project, work: WorkRow,
               to: {"revision_requested", "accepted"}]
Saving     == [at: {"saving"}, on: Project, work: WorkRow, status: WorkStatus, round: Nat,
               app: ProjectRow, next: ProjectRow]
Moving     == [at: {"moving"}, on: Project, app: ProjectRow, next: ProjectRow]

HandState == {NoHand} \cup Submitting \cup Answering \cup Saving \cup Moving

\* What a call read is the row as long as the version it read stands.
AsRead(read, row) ==
    /\ read.version <= row.version
    /\ read.version = row.version => read = row

\* What a call is about to write goes with what it read: a hand-in answers nothing,
\* an answer answers a hand-in, and acceptance completes a running placement.
Consistent(call) ==
    /\ call.next.version = call.app.version + 1
    /\ \/ /\ call.status = "submitted" /\ call.next.submitted
          /\ call.work.status \notin {"submitted", "accepted"}
          /\ call.next.accepted = call.app.accepted /\ call.next.status = call.app.status
       \/ /\ call.status = "revision_requested" /\ ~call.next.submitted
          /\ call.work.status = "submitted"
          /\ call.next.accepted = call.app.accepted /\ call.next.status = call.app.status
       \/ /\ call.status = "accepted" /\ call.next.submitted /\ call.next.accepted
          /\ call.work.status = "submitted"
          /\ call.next.status = "placement_completed"

\* A plain move keeps the flags, and does not undo an end.
PlainMove(call) ==
    /\ call.next.version = call.app.version + 1
    /\ call.next.submitted = call.app.submitted /\ call.next.accepted = call.app.accepted
    /\ call.app.status \in Ended => call.next.status \in Ended

HandHonest(call) ==
    /\ call.at \in {"submitting", "saving", "moving"} => AsRead(call.app, projects[call.on])
    /\ call.at \in {"answering", "saving"} => AsRead(call.work, works[call.on])
    /\ call.at = "answering" => call.work.status = "submitted"
    /\ call.at = "saving" => Consistent(call)
    /\ call.at = "moving" => PlainMove(call)

AcceptedEnded == \A p \in Project : projects[p].accepted => projects[p].status \in Ended

AcceptedTogether ==
    \A p \in Project : works[p].status = "accepted" <=> projects[p].accepted

DeliverablesInv ==
    /\ projects \in [Project -> ProjectRow]
    /\ works \in [Project -> WorkRow]
    /\ hands \in [Hand -> HandState]
    /\ \A h \in Hand : HandHonest(hands[h])
    /\ FlagFollowsTheWork /\ AcceptedTogether /\ AcceptedEnded

\* A placement starts with nothing handed in.
LEMMA DeliverablesStart == DeliverablesInit => DeliverablesInv
  <1> SUFFICES ASSUME DeliverablesInit PROVE DeliverablesInv
    OBVIOUS
  <1>1. projects \in [Project -> ProjectRow] /\ works \in [Project -> WorkRow]
    BY DEF DeliverablesInit, ProjectRow, WorkRow, NoWork, ReachedPlacement, WorkStatus
  <1>2. hands \in [Hand -> HandState] /\ \A h \in Hand : HandHonest(hands[h])
    BY DEF DeliverablesInit, HandState, HandHonest, NoHand
  <1>3. FlagFollowsTheWork /\ AcceptedTogether /\ AcceptedEnded
    BY DEF DeliverablesInit, FlagFollowsTheWork, AcceptedTogether, AcceptedEnded, NoWork
  <1> QED BY <1>1, <1>2, <1>3 DEF DeliverablesInv

\* A call in flight has the fields of the step it is at.
LEMMA HandShapes ==
    ASSUME NEW call \in HandState
    PROVE  /\ call.at = "submitting" => call \in Submitting
           /\ call.at = "answering" => call \in Answering
           /\ call.at = "saving" => call \in Saving
           /\ call.at = "moving" => call \in Moving
           /\ call.at \in {"none", "submitting", "answering", "saving", "moving"}
  BY DEF HandState, NoHand, Submitting, Answering, Saving, Moving

\* A step that writes no row and only leaves an honest call with one hand.
LEMMA HandTaken ==
    ASSUME DeliverablesInv, UNCHANGED <<projects, works>>,
           NEW h \in Hand, NEW call \in HandState, HandHonest(call), Takes(h, call)
    PROVE  DeliverablesInv'
  <1>1. hands' \in [Hand -> HandState]
    BY DEF DeliverablesInv, Takes
  <1>2. ASSUME NEW g \in Hand PROVE HandHonest(hands[g])'
    <2>1. HandHonest(hands'[g])
      BY DEF DeliverablesInv, Takes
    <2> QED BY <2>1 DEF HandHonest
  <1> QED BY <1>1, <1>2 DEF DeliverablesInv, FlagFollowsTheWork, AcceptedTogether,
                            AcceptedEnded

\* A call that is over claims nothing.
LEMMA NoHandHonest == NoHand \in HandState /\ HandHonest(NoHand)
  BY DEF HandState, HandHonest, NoHand

\* A row read now is the row.
LEMMA ReadNow ==
    ASSUME DeliverablesInv, NEW p \in Project
    PROVE  /\ projects[p] \in ProjectRow /\ AsRead(projects[p], projects[p])
           /\ works[p] \in WorkRow /\ AsRead(works[p], works[p])
  BY DEF DeliverablesInv, AsRead, ProjectRow, WorkRow

\* A move of a micro placement writes a row of its shape and keeps its flags.
LEMMA ProjectMove ==
    ASSUME NEW row \in ProjectRow, NEW to \in NoLongerRunning
    PROVE  /\ Moved(row, to) \in ProjectRow
           /\ Moved(row, to).version = row.version + 1 /\ Moved(row, to).status = to
           /\ Moved(row, to).submitted = row.submitted
           /\ Moved(row, to).accepted = row.accepted
  <1> DEFINE furthest == FurthestOf(row, to)
             exited   == IF row.exitedOn # 0 THEN row.exitedOn
                         ELSE IF to \in NoLongerRunning THEN row.version + 1 ELSE 0
             next     == row.version + 1
  <1>1. furthest \in ReachedPlacement /\ to \in ReachedPlacement \cup {"closed"}
    BY DEF ProjectRow, FurthestOf, IsTerminal, TerminalStatuses, NoLongerRunning,
           ReachedPlacement
  <1>2. exited \in Nat /\ next \in Nat
    BY DEF ProjectRow
  <1>3. Moved(row, to) = [row EXCEPT !.status = to, !.furthest = furthest,
                             !.exitedOn = exited, !.version = next]
    BY DEF Moved
  <1> HIDE DEF furthest, exited, next
  <1>4. Moved(row, to) \in ProjectRow
    BY <1>1, <1>2, <1>3 DEF ProjectRow
  <1>5. /\ Moved(row, to).version = next /\ Moved(row, to).status = to
        /\ Moved(row, to).submitted = row.submitted
        /\ Moved(row, to).accepted = row.accepted
    BY <1>3 DEF ProjectRow
  <1> QED BY <1>4, <1>5 DEF next

\* Every edge out of a placement that was reached ends it, and an end is never undone.
LEMMA ProjectEdges ==
    ASSUME NEW status \in ReachedPlacement \cup {"closed"},
           NEW t \in TransitionsFrom(status, "micro")
    PROVE  /\ t.to \in NoLongerRunning
           /\ status \in Ended => t.to \in Ended
  BY DEF TransitionsFrom, Transitions, Edge, ReachedPlacement, NoLongerRunning, Ended

\* A hand-in is begun on a running placement.
LEMMA BeginSubmitKeeps ==
    ASSUME DeliverablesInv, NEW h \in Hand, BeginSubmit(h)
    PROVE  DeliverablesInv'
  <1>1. PICK p \in Project :
            Takes(h, [at |-> "submitting", on |-> p, app |-> projects[p]])
    BY DEF BeginSubmit
  <1> DEFINE call == [at |-> "submitting", on |-> p, app |-> projects[p]]
  <1>2. call \in HandState
    BY ReadNow DEF HandState, Submitting
  <1>3. HandHonest(call)
    BY ReadNow DEF HandHonest
  <1> QED BY <1>1, <1>2, <1>3, HandTaken DEF BeginSubmit

\* A hand-in is prepared over work that waits for none.
LEMMA PrepareSubmitKeeps ==
    ASSUME DeliverablesInv, NEW h \in Hand, PrepareSubmit(h)
    PROVE  DeliverablesInv'
  <1> DEFINE read == hands[h]
             app  == read.app
             p    == read.on
             work == works[p]
             next == [app EXCEPT !.submitted = TRUE, !.version = @ + 1]
             call == [at |-> "saving", on |-> p, work |-> work, status |-> "submitted",
                      round |-> work.round + 1, app |-> app, next |-> next]
  <1>1. read \in Submitting /\ HandHonest(read)
    BY HandShapes DEF PrepareSubmit, DeliverablesInv
  <1>2. p \in Project /\ app \in ProjectRow /\ work \in WorkRow /\ read.at = "submitting"
    BY <1>1, ReadNow DEF Submitting
  <1>3. CASE SubmitBlocked(work)
    BY <1>3, NoHandHonest, HandTaken DEF PrepareSubmit
  <1>4. CASE ~SubmitBlocked(work)
    <2>1. Takes(h, call) /\ UNCHANGED <<projects, works>>
      BY <1>4 DEF PrepareSubmit
    <2>2. /\ next \in ProjectRow /\ next.version = app.version + 1 /\ next.submitted
          /\ next.accepted = app.accepted /\ next.status = app.status
      <3>1. app.version + 1 \in Nat
        BY <1>2 DEF ProjectRow
      <3> DEFINE v == app.version + 1
      <3>2. next = [app EXCEPT !.submitted = TRUE, !.version = v]
        OBVIOUS
      <3> HIDE DEF v, next, app
      <3> QED BY <1>2, <3>1, <3>2 DEF ProjectRow, v
    <2>3. work.round + 1 \in Nat /\ "submitted" \in WorkStatus
      BY <1>2 DEF WorkRow, WorkStatus
    <2> HIDE DEF next, app, p, work
    <2>4. call \in HandState
      BY <1>2, <2>2, <2>3 DEF HandState, Saving
    <2>5. Consistent(call)
      BY <1>2, <1>4, <2>2 DEF Consistent, SubmitBlocked
    <2>6. AsRead(app, projects[p]) /\ AsRead(work, works[p])
      BY <1>1, <1>2, ReadNow DEF HandHonest, app, p, work
    <2>7. HandHonest(call)
      BY <2>5, <2>6 DEF HandHonest
    <2> QED BY <2>1, <2>4, <2>7, HandTaken
  <1> QED BY <1>3, <1>4

\* An answer is begun to work that was handed in.
LEMMA BeginAnswerKeeps ==
    ASSUME DeliverablesInv, NEW h \in Hand, BeginAnswer(h)
    PROVE  DeliverablesInv'
  <1>1. PICK p \in Project, to \in {"revision_requested", "accepted"} :
            /\ works[p].status = "submitted"
            /\ Takes(h, [at |-> "answering", on |-> p, work |-> works[p], to |-> to])
    BY DEF BeginAnswer
  <1> DEFINE call == [at |-> "answering", on |-> p, work |-> works[p], to |-> to]
  <1>2. call \in HandState
    BY ReadNow DEF HandState, Answering
  <1>3. HandHonest(call)
    BY <1>1, ReadNow DEF HandHonest
  <1> QED BY <1>1, <1>2, <1>3, HandTaken DEF BeginAnswer

\* Asking for a change takes the flag back and nothing else.
LEMMA RevisionTyped ==
    ASSUME NEW app \in ProjectRow
    PROVE  /\ RevisionAsked(app) \in ProjectRow
           /\ RevisionAsked(app).version = app.version + 1 /\ ~RevisionAsked(app).submitted
           /\ RevisionAsked(app).accepted = app.accepted
           /\ RevisionAsked(app).status = app.status
  <1> DEFINE v == app.version + 1
  <1>1. v \in Nat
    BY DEF ProjectRow
  <1>2. RevisionAsked(app) = [app EXCEPT !.submitted = FALSE, !.version = v]
    BY DEF RevisionAsked
  <1> HIDE DEF v
  <1>3. /\ RevisionAsked(app) \in ProjectRow
        /\ RevisionAsked(app).version = v /\ ~RevisionAsked(app).submitted
        /\ RevisionAsked(app).accepted = app.accepted
        /\ RevisionAsked(app).status = app.status
    BY <1>1, <1>2 DEF ProjectRow
  <1> QED BY <1>3 DEF v

\* Accepting a submitted hand-in completes the placement it is on.
LEMMA AcceptanceTyped ==
    ASSUME NEW app \in ProjectRow, app.submitted
    PROVE  LET next == [Moved(app, "placement_completed") EXCEPT !.accepted = TRUE] IN
           /\ next \in ProjectRow /\ next.version = app.version + 1
           /\ next.submitted /\ next.accepted /\ next.status = "placement_completed"
  <1> DEFINE moved == Moved(app, "placement_completed")
             v     == app.version + 1
             next  == [moved EXCEPT !.accepted = TRUE]
  <1>1. /\ moved \in ProjectRow /\ moved.version = v
        /\ moved.status = "placement_completed" /\ moved.submitted
    BY ProjectMove DEF NoLongerRunning
  <1> HIDE DEF moved, v
  <1>2. /\ next \in ProjectRow /\ next.version = v
        /\ next.submitted /\ next.accepted /\ next.status = "placement_completed"
    BY <1>1 DEF ProjectRow
  <1> QED BY <1>2 DEF moved, v

\* An answer is prepared on the placement as it stands.
LEMMA PrepareAnswerKeeps ==
    ASSUME DeliverablesInv, NEW h \in Hand, PrepareAnswer(h)
    PROVE  DeliverablesInv'
  <1> DEFINE read == hands[h]
             p    == read.on
             app  == projects[p]
             work == read.work
             refused == read.to = "accepted" /\ (app.status # "placement_active" \/ ~app.submitted)
             next == IF read.to = "revision_requested" THEN RevisionAsked(app)
                     ELSE [Moved(app, "placement_completed") EXCEPT !.accepted = TRUE]
             call == [at |-> "saving", on |-> p, work |-> work, status |-> read.to,
                      round |-> work.round, app |-> app, next |-> next]
  <1>1. read \in Answering /\ HandHonest(read)
    BY HandShapes DEF PrepareAnswer, DeliverablesInv
  <1>2. /\ p \in Project /\ app \in ProjectRow /\ work \in WorkRow
        /\ read.to \in {"revision_requested", "accepted"} /\ read.at = "answering"
    BY <1>1, ReadNow DEF Answering
  <1>3. CASE refused
    BY <1>3, NoHandHonest, HandTaken DEF PrepareAnswer
  <1>4. CASE ~refused
    <2>1. Takes(h, call) /\ UNCHANGED <<projects, works>>
      BY <1>4 DEF PrepareAnswer
    <2>2. /\ next \in ProjectRow /\ next.version = app.version + 1
          /\ \/ read.to = "revision_requested" /\ ~next.submitted
                /\ next.accepted = app.accepted /\ next.status = app.status
             \/ read.to = "accepted" /\ next.submitted /\ next.accepted
                /\ next.status = "placement_completed"
      <3>1. CASE read.to = "revision_requested"
        BY <1>2, <3>1, RevisionTyped
      <3>2. CASE read.to # "revision_requested"
        <4>1. read.to = "accepted" /\ app.submitted
          BY <1>2, <1>4, <3>2
        <4> QED BY <1>2, <3>2, <4>1, AcceptanceTyped
      <3> QED BY <3>1, <3>2
    <2>3. work.status = "submitted" /\ AsRead(work, works[p]) /\ AsRead(app, projects[p])
      BY <1>1, <1>2, ReadNow DEF HandHonest
    <2>4. work.round \in Nat /\ read.to \in WorkStatus
      BY <1>2 DEF WorkRow, WorkStatus
    <2> HIDE DEF next, app, p, work
    <2>5. call \in HandState
      BY <1>2, <2>2, <2>4 DEF HandState, Saving
    <2>6. Consistent(call)
      BY <2>2, <2>3 DEF Consistent
    <2>7. HandHonest(call)
      BY <2>3, <2>6 DEF HandHonest
    <2> QED BY <2>1, <2>5, <2>7, HandTaken
  <1> QED BY <1>3, <1>4

\* A plain move follows an edge of the table.
LEMMA BeginMoveKeeps ==
    ASSUME DeliverablesInv, NEW h \in Hand, BeginMove(h)
    PROVE  DeliverablesInv'
  <1>1. PICK p \in Project : \E t \in TransitionsFrom(projects[p].status, "micro") :
            Takes(h, [at |-> "moving", on |-> p, app |-> projects[p],
                      next |-> Moved(projects[p], t.to)])
    BY DEF BeginMove
  <1>2. PICK t \in TransitionsFrom(projects[p].status, "micro") :
            Takes(h, [at |-> "moving", on |-> p, app |-> projects[p],
                      next |-> Moved(projects[p], t.to)])
    BY <1>1
  <1> DEFINE app  == projects[p]
             next == Moved(app, t.to)
             call == [at |-> "moving", on |-> p, app |-> app, next |-> next]
  <1>3. app \in ProjectRow /\ AsRead(app, projects[p])
    BY ReadNow
  <1>4. t.to \in NoLongerRunning /\ (app.status \in Ended => t.to \in Ended)
    BY <1>2, <1>3, ProjectEdges DEF ProjectRow
  <1>5. /\ next \in ProjectRow /\ next.version = app.version + 1 /\ next.status = t.to
        /\ next.submitted = app.submitted /\ next.accepted = app.accepted
    BY <1>3, <1>4, ProjectMove
  <1> HIDE DEF app, next
  <1>6. call \in HandState
    BY <1>3, <1>5 DEF HandState, Moving
  <1>7. HandHonest(call)
    BY <1>3, <1>4, <1>5 DEF HandHonest, PlainMove
  <1> QED BY <1>2, <1>6, <1>7, HandTaken DEF BeginMove, app, next

\* Writing one placement's row, and its hand-in's, one version on, leaves every
\* other call with what it read or with a version that has moved.
LEMMA ReadsStand ==
    ASSUME DeliverablesInv, NEW h \in Hand, NEW p \in Project,
           NEW app \in ProjectRow, app.version = projects[p].version + 1,
           projects' = [projects EXCEPT ![p] = app],
           \/ UNCHANGED works
           \/ \E work \in WorkRow : /\ work.version = works[p].version + 1
                                    /\ works' = [works EXCEPT ![p] = work],
           Takes(h, NoHand)
    PROVE  /\ projects' \in [Project -> ProjectRow] /\ works' \in [Project -> WorkRow]
           /\ hands' \in [Hand -> HandState]
           /\ \A g \in Hand : HandHonest(hands[g])'
  <1>1. /\ projects \in [Project -> ProjectRow] /\ works \in [Project -> WorkRow]
        /\ projects' \in [Project -> ProjectRow] /\ works' \in [Project -> WorkRow]
        /\ hands \in [Hand -> HandState]
    BY DEF DeliverablesInv
  <1>2. hands' \in [Hand -> HandState]
    BY <1>1, NoHandHonest DEF Takes
  <1>3. \A q \in Project :
            projects'[q] = projects[q] \/ projects'[q].version = projects[q].version + 1
    BY <1>1
  <1>4. \A q \in Project :
            works'[q] = works[q] \/ works'[q].version = works[q].version + 1
    BY <1>1
  <1>5. ASSUME NEW q \in Project, NEW read \in ProjectRow, AsRead(read, projects[q])
        PROVE  AsRead(read, projects'[q])
    <2>1. read.version \in Nat /\ projects[q].version \in Nat /\ projects'[q].version \in Nat
      BY <1>1 DEF ProjectRow
    <2> QED BY <1>3, <1>5, <2>1 DEF AsRead
  <1>6. ASSUME NEW q \in Project, NEW read \in WorkRow, AsRead(read, works[q])
        PROVE  AsRead(read, works'[q])
    <2>1. read.version \in Nat /\ works[q].version \in Nat /\ works'[q].version \in Nat
      BY <1>1 DEF WorkRow
    <2> QED BY <1>4, <1>6, <2>1 DEF AsRead
  <1>7. ASSUME NEW g \in Hand PROVE HandHonest(hands[g])'
    <2>1. CASE g = h
      <3>1. hands'[g] = NoHand
        BY <1>1, <2>1 DEF Takes
      <3> QED BY <3>1 DEF HandHonest, NoHand
    <2>2. CASE g # h
      <3> DEFINE call == hands[g]
      <3>1. hands'[g] = call /\ call \in HandState /\ HandHonest(call)
        BY <1>1, <2>2 DEF Takes, DeliverablesInv
      <3>2. call.at \in {"submitting", "saving", "moving"} =>
                call.on \in Project /\ call.app \in ProjectRow
        BY <3>1, HandShapes DEF Submitting, Saving, Moving
      <3>3. call.at \in {"answering", "saving"} =>
                call.on \in Project /\ call.work \in WorkRow
        BY <3>1, HandShapes DEF Answering, Saving
      <3> HIDE DEF call
      <3>4. call.at \in {"submitting", "saving", "moving"} => AsRead(call.app, projects'[call.on])
        BY <1>5, <3>1, <3>2 DEF HandHonest
      <3>5. call.at \in {"answering", "saving"} => AsRead(call.work, works'[call.on])
        BY <1>6, <3>1, <3>3 DEF HandHonest
      <3> QED BY <3>1, <3>4, <3>5 DEF HandHonest
    <2> QED BY <2>1, <2>2
  <1> QED BY <1>1, <1>2, <1>7

\* Both rows are written as they were read, or neither.
LEMMA SaveWorkKeeps ==
    ASSUME DeliverablesInv, NEW h \in Hand, SaveWork(h)
    PROVE  DeliverablesInv'
  <1> DEFINE call == hands[h]
             p    == call.on
             next == call.next
             work == [status |-> call.status, round |-> call.round,
                      version |-> works[p].version + 1]
  <1>1. call \in Saving /\ HandHonest(call) /\ call.at = "saving"
    BY HandShapes DEF SaveWork, DeliverablesInv
  <1>2. /\ p \in Project /\ next \in ProjectRow /\ call.status \in WorkStatus
        /\ call.round \in Nat
    BY <1>1 DEF Saving
  <1>3. CASE ~Savable(h)
    BY <1>3, NoHandHonest, HandTaken DEF SaveWork
  <1>4. CASE Savable(h)
    <2>1. /\ projects' = [projects EXCEPT ![p] = next] /\ works' = [works EXCEPT ![p] = work]
          /\ Takes(h, NoHand)
      BY <1>4 DEF SaveWork
    <2>2. call.app = projects[p] /\ call.work = works[p]
      BY <1>1, <1>4 DEF HandHonest, AsRead, Savable
    <2>3. work \in WorkRow /\ work.version = works[p].version + 1
      <3>1. works[p].version + 1 \in Nat
        BY <1>2, ReadNow DEF WorkRow
      <3> QED BY <1>2, <3>1 DEF WorkRow
    <2>4. Consistent(call)
      BY <1>1 DEF HandHonest
    <2>5. next.version = projects[p].version + 1
      BY <2>2, <2>4 DEF Consistent
    <2>6. work.status = call.status
      OBVIOUS
    <2> HIDE DEF work, next
    <2>7. /\ projects' \in [Project -> ProjectRow] /\ works' \in [Project -> WorkRow]
          /\ hands' \in [Hand -> HandState]
          /\ \A g \in Hand : HandHonest(hands[g])'
      BY <1>2, <2>1, <2>3, <2>5, ReadsStand
    <2>8. /\ FlagFollowsTheWork /\ AcceptedTogether /\ AcceptedEnded
          /\ projects \in [Project -> ProjectRow] /\ works \in [Project -> WorkRow]
      BY DEF DeliverablesInv
    <2>9. \A q \in Project : q # p => projects'[q] = projects[q] /\ works'[q] = works[q]
      BY <2>1, <2>8
    <2>10. projects'[p] = next /\ works'[p] = work
      BY <1>2, <2>1, <2>8
    <2>11. next.submitted <=> work.status \in {"submitted", "accepted"}
      BY <2>4, <2>6 DEF Consistent, next
    <2>12. /\ work.status = "accepted" <=> next.accepted
           /\ next.accepted => next.status \in Ended
      BY <1>2, <2>2, <2>4, <2>6, <2>8 DEF Consistent, next, AcceptedTogether, AcceptedEnded,
                                         Ended, NoLongerRunning
    <2>13. FlagFollowsTheWork'
      BY <2>8, <2>9, <2>10, <2>11 DEF FlagFollowsTheWork
    <2>14. AcceptedTogether' /\ AcceptedEnded'
      BY <2>8, <2>9, <2>10, <2>12 DEF AcceptedTogether, AcceptedEnded
    <2> QED BY <2>7, <2>13, <2>14 DEF DeliverablesInv
  <1> QED BY <1>3, <1>4

\* A plain move is written over the row it read.
LEMMA CommitProjectKeeps ==
    ASSUME DeliverablesInv, NEW h \in Hand, CommitProject(h)
    PROVE  DeliverablesInv'
  <1> DEFINE call == hands[h]
             p    == call.on
             next == call.next
  <1>1. call \in Moving /\ HandHonest(call) /\ call.at = "moving"
    BY HandShapes DEF CommitProject, DeliverablesInv
  <1>2. p \in Project /\ next \in ProjectRow
    BY <1>1 DEF Moving
  <1>3. CASE projects[p].version # call.app.version
    BY <1>3, NoHandHonest, HandTaken DEF CommitProject
  <1>4. CASE projects[p].version = call.app.version
    <2>1. /\ projects' = [projects EXCEPT ![p] = next] /\ UNCHANGED works
          /\ Takes(h, NoHand)
      BY <1>4 DEF CommitProject
    <2>2. call.app = projects[p] /\ PlainMove(call)
      BY <1>1, <1>4 DEF HandHonest, AsRead
    <2>3. /\ next.version = projects[p].version + 1
          /\ next.submitted = projects[p].submitted /\ next.accepted = projects[p].accepted
          /\ projects[p].status \in Ended => next.status \in Ended
      BY <2>2 DEF PlainMove
    <2> HIDE DEF next
    <2>4. /\ projects' \in [Project -> ProjectRow] /\ works' \in [Project -> WorkRow]
          /\ hands' \in [Hand -> HandState]
          /\ \A g \in Hand : HandHonest(hands[g])'
      BY <1>2, <2>1, <2>3, ReadsStand
    <2>5. /\ FlagFollowsTheWork /\ AcceptedTogether /\ AcceptedEnded
          /\ projects \in [Project -> ProjectRow]
      BY DEF DeliverablesInv
    <2>6. \A q \in Project : projects'[q] = IF q = p THEN next ELSE projects[q]
      BY <2>1, <2>5
    <2>7. FlagFollowsTheWork' /\ AcceptedTogether' /\ AcceptedEnded'
      BY <1>2, <2>1, <2>3, <2>5, <2>6 DEF FlagFollowsTheWork, AcceptedTogether, AcceptedEnded
    <2> QED BY <2>4, <2>7 DEF DeliverablesInv
  <1> QED BY <1>3, <1>4

\* A call writes rows that go with what it read, and only over the rows it read; flag,
\* hand-in and acceptance agree, for any number of placements and calls.
THEOREM DeliverablesInvariant == DeliverablesSpec => []DeliverablesInv
  <1>1. DeliverablesInit => DeliverablesInv BY DeliverablesStart
  <1>2. DeliverablesInv /\ [DeliverablesNext]_deliverableVars => DeliverablesInv'
    <2>1. DeliverablesInv /\ UNCHANGED deliverableVars => DeliverablesInv'
      BY DEF deliverableVars, DeliverablesInv, HandHonest, FlagFollowsTheWork,
             AcceptedTogether, AcceptedEnded
    <2> QED BY <2>1, BeginSubmitKeeps, PrepareSubmitKeeps, BeginAnswerKeeps,
               PrepareAnswerKeeps, SaveWorkKeeps, BeginMoveKeeps, CommitProjectKeeps
            DEF DeliverablesNext
  <1> QED BY <1>1, <1>2, PTL DEF DeliverablesSpec

\* Placements and hand-ins keep their shapes.
THEOREM DeliverablesTyped == DeliverablesSpec => []DeliverablesTypeOK
  <1>1. DeliverablesInv => DeliverablesTypeOK
    BY DEF DeliverablesInv, DeliverablesTypeOK, ProjectRow, WorkRow
  <1> QED BY <1>1, DeliverablesInvariant, PTL

\* Whatever hand-ins, answers and moves interleave, the flag the completion guard
\* reads is up exactly while the hand-in is submitted or accepted
\* (submitDeliverable, requestRevision, acceptDeliverable).
THEOREM FlagAlwaysFollowsTheWork == DeliverablesSpec => []FlagFollowsTheWork
  <1>1. DeliverablesInv => FlagFollowsTheWork BY DEF DeliverablesInv
  <1> QED BY <1>1, DeliverablesInvariant, PTL

\* Accepted work is on a placement that acceptance ended, never on one that was
\* terminated or still runs (acceptDeliverable).
THEOREM AcceptanceAlwaysCompletes == DeliverablesSpec => []AcceptanceCompletes
  <1>1. DeliverablesInv => AcceptanceCompletes
    BY DEF DeliverablesInv, AcceptanceCompletes, AcceptedTogether, AcceptedEnded, Ended,
           NoLongerRunning
  <1> QED BY <1>1, DeliverablesInvariant, PTL

-----------------------------------------------------------------------------
(* Disclosure. *)

ConsentRow == [status: {"none", "granted", "withdrawn"}, version: 0..2]

Standing == [track: Track, status: Status, furthest: Status, introduced: BOOLEAN]

ViewerState == [at: {"idle", "reading"}, level: {"none", "full", "summary", "named"}]

KeeperState == {Unoccupied} \cup [at: {"recording"}]
               \cup [at: {"withdrawing"}, what: ConsentId, version: {1}]

\* A consent is written at most twice: granted, then withdrawn.
ConsentWritten ==
    \A c \in ConsentId : /\ consents[c].status = "none" <=> consents[c].version = 0
                         /\ consents[c].status = "granted" <=> consents[c].version = 1

OneInForce == \A c, d \in InForce : c = d

\* A full read stays one the application's stage allows: no edge leaves the stages
\* that release a learner's name.
FullStands ==
    \A v \in Viewer : viewers[v].at = "reading" /\ viewers[v].level = "full" =>
        standing.status \in FullStatuses

DisclosureInv ==
    /\ standing \in Standing
    /\ consents \in [ConsentId -> ConsentRow]
    /\ viewers \in [Viewer -> ViewerState]
    /\ keepers \in [Keeper -> KeeperState]
    /\ ConsentWritten /\ OneInForce /\ FullStands

\* The application starts without any consent and with nobody reading.
LEMMA DisclosureStart == DisclosureInit => DisclosureInv
  <1> SUFFICES ASSUME DisclosureInit PROVE DisclosureInv
    OBVIOUS
  <1>1. standing \in Standing
    BY DEF DisclosureInit, Standing, Status
  <1>2. consents \in [ConsentId -> ConsentRow] /\ ConsentWritten
    BY DEF DisclosureInit, ConsentRow, ConsentWritten
  <1>3. viewers \in [Viewer -> ViewerState] /\ FullStands
    BY DEF DisclosureInit, ViewerState, Looking, FullStands
  <1>4. keepers \in [Keeper -> KeeperState] /\ OneInForce
    BY DEF DisclosureInit, KeeperState, OneInForce, InForce
  <1> QED BY <1>1, <1>2, <1>3, <1>4 DEF DisclosureInv

\* No edge leaves the stages that release a learner's name.
LEMMA FullIsClosed ==
    ASSUME NEW status, NEW track, NEW t \in TransitionsFrom(status, track)
    PROVE  /\ t.to \in Status
           /\ status \in FullStatuses => t.to \in FullStatuses
  BY DEF TransitionsFrom, Transitions, Edge, FullStatuses, ReachedPlacement, Status,
         TerminalStatuses

\* Moving the application never takes back a stage that was read as released.
LEMMA MoveApplicationKeeps ==
    ASSUME DisclosureInv, MoveApplication
    PROVE  DisclosureInv'
  <1>1. PICK t \in TransitionsFrom(standing.status, standing.track) :
            standing' = [standing EXCEPT !.status = t.to,
                                         !.furthest = FurthestOf(standing, t.to)]
    BY DEF MoveApplication
  <1>2. /\ standing' \in Standing /\ standing'.status = t.to
        /\ standing.status \in FullStatuses => t.to \in FullStatuses
    BY <1>1, FullIsClosed DEF DisclosureInv, Standing, FurthestOf
  <1>3. UNCHANGED <<consents, viewers, keepers>>
    BY DEF MoveApplication
  <1> QED BY <1>2, <1>3 DEF DisclosureInv, ConsentWritten, OneInForce, InForce, FullStands

\* Reading shows no more than the stage releases.
LEMMA ViewKeeps ==
    ASSUME DisclosureInv, NEW v \in Viewer,
           ReadApplication(v) \/ ShowStudent(v) \/ ShowFromList(v)
    PROVE  DisclosureInv'
  <1>1. UNCHANGED <<standing, consents, keepers>>
    BY DEF ReadApplication, ShowStudent, ShowFromList
  <1>2. CASE ReadApplication(v)
    <2> DEFINE view == [at |-> "reading", level |-> DisclosureFor(standing.status)]
    <2>1. viewers' = [viewers EXCEPT ![v] = view]
      BY <1>2 DEF ReadApplication
    <2>2. view \in ViewerState /\ (view.level = "full" => standing.status \in FullStatuses)
      BY DEF ViewerState, DisclosureFor
    <2> HIDE DEF view
    <2> QED BY <1>1, <2>1, <2>2 DEF DisclosureInv, ConsentWritten, OneInForce, InForce,
                                    FullStands
  <1>3. CASE ShowStudent(v)
    <2> DEFINE level == LevelShown(viewers[v].level)
               view == [at |-> "idle", level |-> level]
    <2>1. viewers' = [viewers EXCEPT ![v] = view]
      BY <1>3 DEF ShowStudent
    <2>2. level \in {"none", "full", "summary", "named"}
      BY DEF LevelShown, DisclosureInv, ViewerState
    <2> HIDE DEF level
    <2>3. view \in ViewerState /\ view.at = "idle"
      BY <2>2 DEF ViewerState
    <2> HIDE DEF view
    <2> QED BY <1>1, <2>1, <2>3 DEF DisclosureInv, ConsentWritten, OneInForce, InForce,
                                    FullStands
  <1>4. CASE ShowFromList(v)
    <2> DEFINE view == [at |-> "idle", level |-> "named"]
    <2>1. viewers' = [viewers EXCEPT ![v] = view]
      BY <1>4 DEF ShowFromList
    <2>2. view \in ViewerState /\ view.at = "idle"
      BY DEF ViewerState
    <2> HIDE DEF view
    <2> QED BY <1>1, <2>1, <2>2 DEF DisclosureInv, ConsentWritten, OneInForce, InForce,
                                    FullStands
  <1> QED BY <1>2, <1>3, <1>4

\* A step that writes no consent and leaves a call of its shape with one keeper.
LEMMA KeeperTaken ==
    ASSUME DisclosureInv, NEW k \in Keeper, NEW call \in KeeperState, Keeps(k, call),
           UNCHANGED <<standing, consents, viewers>>
    PROVE  DisclosureInv'
  BY DEF DisclosureInv, Keeps, ConsentWritten, OneInForce, InForce, FullStands

\* The unique index lets one consent of a scope in at a time.
LEMMA InsertConsentKeeps ==
    ASSUME DisclosureInv, NEW k \in Keeper, InsertConsent(k)
    PROVE  DisclosureInv'
  <1>1. Unoccupied \in KeeperState
    BY DEF KeeperState
  <1>2. CASE ~Insertable
    BY <1>1, <1>2, KeeperTaken DEF InsertConsent
  <1>3. CASE Insertable
    <2>1. PICK c \in ConsentId :
              /\ consents[c].status = "none"
              /\ consents' = [consents EXCEPT ![c] = [status |-> "granted", version |-> 1]]
      BY <1>3 DEF InsertConsent
    <2>2. consents' \in [ConsentId -> ConsentRow]
      BY <2>1 DEF DisclosureInv, ConsentRow
    <2>3. ConsentWritten'
      BY <2>1 DEF DisclosureInv, ConsentWritten
    <2>4. OneInForce'
      BY <1>3, <2>1 DEF DisclosureInv, OneInForce, InForce, Insertable
    <2>5. UNCHANGED <<standing, viewers>> /\ keepers' \in [Keeper -> KeeperState]
      BY <1>1 DEF InsertConsent, Keeps, DisclosureInv
    <2> QED BY <2>2, <2>3, <2>4, <2>5 DEF DisclosureInv, FullStands
  <1> QED BY <1>2, <1>3

\* A withdrawal writes a consent that is in force, whose version is its first.
LEMMA SaveWithdrawalKeeps ==
    ASSUME DisclosureInv, NEW k \in Keeper, SaveWithdrawal(k)
    PROVE  DisclosureInv'
  <1> DEFINE c == keepers[k].what
  <1>1. c \in ConsentId /\ keepers[k].version = 1
    BY DEF SaveWithdrawal, DisclosureInv, KeeperState, Unoccupied
  <1>2. Unoccupied \in KeeperState
    BY DEF KeeperState
  <1>3. CASE consents[c].version # 1
    BY <1>1, <1>2, <1>3, KeeperTaken DEF SaveWithdrawal
  <1>4. CASE consents[c].version = 1
    <2>1. consents' = [consents EXCEPT ![c] = [status |-> "withdrawn", version |-> 2]]
      BY <1>1, <1>4 DEF SaveWithdrawal
    <2>2. consents' \in [ConsentId -> ConsentRow] /\ ConsentWritten' /\ OneInForce'
      BY <1>1, <2>1 DEF DisclosureInv, ConsentRow, ConsentWritten, OneInForce, InForce
    <2>3. UNCHANGED <<standing, viewers>> /\ keepers' \in [Keeper -> KeeperState]
      BY <1>2 DEF SaveWithdrawal, Keeps, DisclosureInv
    <2> QED BY <2>2, <2>3 DEF DisclosureInv, FullStands
  <1> QED BY <1>3, <1>4

\* Every step of reads and consents preserves their invariant.
LEMMA DisclosureStep == DisclosureInv /\ [DisclosureNext]_disclosureVars => DisclosureInv'
  <1> SUFFICES ASSUME DisclosureInv, [DisclosureNext]_disclosureVars PROVE DisclosureInv'
    OBVIOUS
  <1>1. ASSUME NEW k \in Keeper, BeginRecording(k) PROVE DisclosureInv'
    <2>1. [at |-> "recording"] \in KeeperState
      BY DEF KeeperState
    <2> QED BY <1>1, <2>1, KeeperTaken DEF BeginRecording
  <1>2. ASSUME NEW k \in Keeper, BeginWithdrawal(k) PROVE DisclosureInv'
    <2>1. PICK c \in InForce :
              Keeps(k, [at |-> "withdrawing", what |-> c, version |-> consents[c].version])
      BY <1>2 DEF BeginWithdrawal
    <2>2. [at |-> "withdrawing", what |-> c, version |-> consents[c].version]
              \in KeeperState
      BY DEF KeeperState, InForce, DisclosureInv, ConsentWritten
    <2> QED BY <1>2, <2>1, <2>2, KeeperTaken DEF BeginWithdrawal
  <1>3. CASE UNCHANGED disclosureVars
    BY <1>3 DEF disclosureVars, DisclosureInv, ConsentWritten, OneInForce, InForce, FullStands
  <1> QED BY <1>1, <1>2, <1>3, MoveApplicationKeeps, ViewKeeps, InsertConsentKeeps,
             SaveWithdrawalKeeps DEF DisclosureNext

\* One consent is in force at a time, each is written at most twice, and a stage that was
\* read as released stays released, for any number of consents, reads and calls.
THEOREM DisclosureInvariant == DisclosureSpec => []DisclosureInv
  BY DisclosureStart, DisclosureStep, PTL DEF DisclosureSpec

\* The application, the consents and the reads keep their shapes.
THEOREM DisclosureTyped == DisclosureSpec => []DisclosureTypeOK
  <1>1. DisclosureInv => DisclosureTypeOK
    BY DEF DisclosureInv, DisclosureTypeOK, ConsentRow, ViewerState, Standing
  <1> QED BY <1>1, DisclosureInvariant, PTL

\* forApplication hands an employer the whole record of a learner only while consent
\* is in force and the application stands where it releases it, though the stage was
\* read before the consent was. Names taken from a list are not among these
\* (ShowFromList, NameShownWithConsent).
THEOREM ShownOnlyWithConsent == DisclosureSpec => ShownWithConsentAndStage
  <1>1. DisclosureInv /\ [DisclosureNext]_disclosureVars =>
            [\A v \in Viewer : viewers[v].at = "reading" /\ viewers'[v].level = "full"
                               /\ viewers'[v].at = "idle" =>
                 InForce # {} /\ standing.status \in FullStatuses]_disclosureVars
    <2> SUFFICES ASSUME DisclosureInv, DisclosureNext, NEW v \in Viewer,
                        viewers[v].at = "reading", viewers'[v].level = "full",
                        viewers'[v].at = "idle"
                 PROVE  InForce # {} /\ standing.status \in FullStatuses
      OBVIOUS
    <2>1. viewers'[v] # viewers[v]
      OBVIOUS
    <2>2. ASSUME NEW w \in Viewer, ReadApplication(w) PROVE FALSE
      BY <2>1, <2>2 DEF ReadApplication, DisclosureInv
    <2>3. ASSUME NEW w \in Viewer, ShowStudent(w)
          PROVE  InForce # {} /\ viewers[v].level = "full"
      <3>1. w = v
        BY <2>1, <2>3 DEF ShowStudent, DisclosureInv
      <3>2. viewers'[v].level = LevelShown(viewers[v].level)
        BY <2>3, <3>1 DEF ShowStudent, DisclosureInv
      <3> QED BY <3>2 DEF LevelShown
    <2>4. ASSUME NEW w \in Viewer, ShowFromList(w) PROVE FALSE
      <3>1. w # v
        BY <2>4 DEF ShowFromList
      <3>2. viewers'[v] = viewers[v]
        BY <2>4, <3>1 DEF ShowFromList, DisclosureInv
      <3> QED BY <2>1, <3>2
    <2>5. ~(MoveApplication \/ \E k \in Keeper :
                BeginRecording(k) \/ InsertConsent(k) \/ BeginWithdrawal(k)
                \/ SaveWithdrawal(k))
      BY <2>1 DEF MoveApplication, BeginRecording, InsertConsent, BeginWithdrawal,
                  SaveWithdrawal
    <2>6. InForce # {} /\ viewers[v].level = "full"
      BY <2>2, <2>3, <2>4, <2>5 DEF DisclosureNext
    <2> QED BY <2>6 DEF DisclosureInv, FullStands
  <1> QED BY <1>1, DisclosureInvariant, PTL DEF DisclosureSpec, ShownWithConsentAndStage

\* At most one consent of a scope is in force, however recordings and withdrawals
\* interleave, and a withdrawn one is never written again (recordConsent,
\* withdrawConsent).
THEOREM WithdrawnForGood == DisclosureSpec => WithdrawalIsTheEnd
  <1>1. DisclosureInv => Cardinality(InForce) <= 1
    <2> SUFFICES ASSUME DisclosureInv PROVE Cardinality(InForce) <= 1
      OBVIOUS
    <2>1. CASE InForce = {}
      BY <2>1, FS_EmptySet
    <2>2. CASE InForce # {}
      <3>1. PICK c \in InForce : TRUE
        BY <2>2
      <3>2. InForce = {c}
        BY DEF DisclosureInv, OneInForce
      <3>3. Cardinality({c}) = 1
        BY FS_Singleton
      <3> QED BY <3>2, <3>3
    <2> QED BY <2>1, <2>2
  <1>2. ASSUME DisclosureInv, DisclosureNext, NEW c \in ConsentId,
               consents[c].status = "withdrawn"
        PROVE  consents'[c] = consents[c]
    <2>1. ASSUME NEW k \in Keeper, InsertConsent(k) PROVE consents'[c] = consents[c]
      BY <1>2, <2>1 DEF InsertConsent, DisclosureInv
    <2>2. ASSUME NEW k \in Keeper, SaveWithdrawal(k) PROVE consents'[c] = consents[c]
      <3>1. keepers[k].version = 1
        BY <1>2, <2>2 DEF SaveWithdrawal, DisclosureInv, KeeperState, Unoccupied
      <3>2. consents[c].version # 1
        BY <1>2 DEF DisclosureInv, ConsentWritten
      <3> QED BY <1>2, <2>2, <3>1, <3>2 DEF SaveWithdrawal, DisclosureInv
    <2> QED BY <1>2, <2>1, <2>2 DEF DisclosureNext, MoveApplication, ReadApplication,
                ShowStudent, ShowFromList, BeginRecording, BeginWithdrawal
  <1>3. DisclosureInv /\ [DisclosureNext]_disclosureVars =>
            [/\ Cardinality(InForce) <= 1
             /\ \A c \in ConsentId : consents[c].status = "withdrawn" =>
                    consents'[c] = consents[c]]_disclosureVars
    BY <1>1, <1>2
  <1> QED BY <1>3, DisclosureInvariant, PTL DEF DisclosureSpec, WithdrawalIsTheEnd

-----------------------------------------------------------------------------
(* Escalation. *)

ReportRow == [by: Author \cup {NoAuthor},
              status: {"none", "open", "acknowledged", "resolved", "withdrawn"},
              acknowledged: BOOLEAN, resolution: BOOLEAN, version: Nat]

HandlerState == {AtRest} \cup [at: {"saving"}, what: Report, version: Nat, next: ReportRow]

\* The report a call will write was raised, and is still the live one it read as
\* long as its version stands; what the call writes forgets no acknowledgement.
HandlerHonest(call) ==
    call.at = "saving" =>
        LET row == reports[call.what] IN
        /\ 1 <= call.version /\ call.version <= row.version
        /\ call.next.version = call.version + 1
        /\ call.version = row.version =>
               IsLive(row) /\ (row.acknowledged => call.next.acknowledged)

LiveIsRaised == \A r \in Report : IsLive(reports[r]) => reports[r].version >= 1

EscalationInv ==
    /\ reports \in [Report -> ReportRow]
    /\ handlers \in [Handler -> HandlerState]
    /\ LiveIsRaised
    /\ \A h \in Handler : HandlerHonest(handlers[h])

\* No report is raised at the start.
LEMMA EscalationStart == EscalationInit => EscalationInv
  <1> SUFFICES ASSUME EscalationInit PROVE EscalationInv
    OBVIOUS
  <1>1. Unraised \in ReportRow /\ ~IsLive(Unraised)
    BY DEF Unraised, ReportRow, IsLive
  <1>2. reports \in [Report -> ReportRow] /\ LiveIsRaised
    BY <1>1 DEF EscalationInit, LiveIsRaised
  <1>3. handlers \in [Handler -> HandlerState]
        /\ \A h \in Handler : HandlerHonest(handlers[h])
    BY DEF EscalationInit, HandlerState, HandlerHonest, AtRest
  <1> QED BY <1>2, <1>3 DEF EscalationInv

\* A report is raised under an identity that no call in flight can have read.
LEMMA RaiseKeeps ==
    ASSUME EscalationInv, Raise
    PROVE  EscalationInv'
  <1>1. PICK r \in Report, a \in Author :
            /\ reports[r] = Unraised
            /\ reports' = [reports EXCEPT ![r] = [Unraised EXCEPT !.by = a, !.status = "open",
                                                                 !.version = 1]]
    BY DEF Raise
  <1> DEFINE row == [Unraised EXCEPT !.by = a, !.status = "open", !.version = 1]
  <1>2. row \in ReportRow /\ row.version = 1
    BY DEF Unraised, ReportRow
  <1> HIDE DEF row
  <1>3. reports' \in [Report -> ReportRow]
    BY <1>1, <1>2 DEF EscalationInv, row
  <1>4. LiveIsRaised'
    BY <1>1, <1>2 DEF EscalationInv, LiveIsRaised, row
  <1>5. UNCHANGED handlers
    BY DEF Raise
  <1>6. ASSUME NEW h \in Handler PROVE HandlerHonest(handlers[h])'
    <2> SUFFICES ASSUME handlers[h].at = "saving" PROVE HandlerHonest(handlers[h])'
      BY <1>5 DEF HandlerHonest
    <2>1. handlers[h].what \in Report /\ handlers[h].version \in Nat
      BY DEF EscalationInv, HandlerState, AtRest
    <2>2. 1 <= handlers[h].version /\ handlers[h].version <= reports[handlers[h].what].version
      BY DEF EscalationInv, HandlerHonest
    <2>3. handlers[h].what # r
      BY <1>1, <2>1, <2>2 DEF Unraised
    <2>4. reports'[handlers[h].what] = reports[handlers[h].what]
      BY <1>1, <2>1, <2>3 DEF EscalationInv
    <2> QED BY <1>5, <2>4 DEF EscalationInv, HandlerHonest
  <1> QED BY <1>3, <1>4, <1>5, <1>6 DEF EscalationInv

\* A call prepares the next row of the live report it read.
LEMMA BeginHandlingKeeps ==
    ASSUME EscalationInv, NEW h \in Handler, BeginHandling(h)
    PROVE  EscalationInv'
  <1>1. PICK r \in Report, to \in {"acknowledged", "resolved", "withdrawn"} :
            /\ IsLive(reports[r])
            /\ handlers' = [handlers EXCEPT ![h] = [at |-> "saving", what |-> r,
                   version |-> reports[r].version,
                   next |-> [reports[r] EXCEPT !.status = to,
                                !.acknowledged = @ \/ to = "acknowledged",
                                !.resolution = @ \/ to = "resolved",
                                !.version = @ + 1]]]
    BY DEF BeginHandling
  <1> DEFINE row  == reports[r]
             acknowledged == row.acknowledged \/ to = "acknowledged"
             resolution == row.resolution \/ to = "resolved"
             version == row.version + 1
             next == [row EXCEPT !.status = to, !.acknowledged = acknowledged,
                                 !.resolution = resolution, !.version = version]
             call == [at |-> "saving", what |-> r, version |-> row.version, next |-> next]
  <1>2. row \in ReportRow /\ IsLive(row) /\ row.version >= 1
    BY <1>1 DEF EscalationInv, LiveIsRaised
  <1>3. acknowledged \in BOOLEAN /\ resolution \in BOOLEAN /\ version \in Nat
    BY <1>2 DEF ReportRow
  <1>4. handlers' = [handlers EXCEPT ![h] = call] /\ UNCHANGED reports
    BY <1>1 DEF BeginHandling
  <1>5. next \in ReportRow /\ next.version = version /\ next.acknowledged = acknowledged
    <2> HIDE DEF acknowledged, resolution, version, row
    <2> QED BY <1>2, <1>3 DEF ReportRow
  <1> HIDE DEF next
  <1>6. call \in HandlerState
    BY <1>2, <1>5 DEF HandlerState, ReportRow
  <1>7. HandlerHonest(call)
    BY <1>2, <1>5 DEF HandlerHonest, ReportRow
  <1> HIDE DEF call
  <1>8. ASSUME NEW g \in Handler PROVE HandlerHonest(handlers[g])'
    <2>1. HandlerHonest(handlers'[g])
      BY <1>4, <1>7 DEF EscalationInv
    <2> QED BY <1>4, <2>1 DEF HandlerHonest
  <1> QED BY <1>4, <1>6, <1>8 DEF EscalationInv, LiveIsRaised

\* A save writes over the row its call read, or nothing.
LEMMA SaveReportKeeps ==
    ASSUME EscalationInv, NEW h \in Handler, SaveReport(h)
    PROVE  EscalationInv'
  <1> DEFINE r == handlers[h].what
             next == handlers[h].next
  <1>1. /\ r \in Report /\ next \in ReportRow /\ handlers[h].version \in Nat
        /\ HandlerHonest(handlers[h]) /\ handlers[h].at = "saving"
    BY DEF SaveReport, EscalationInv, HandlerState, AtRest
  <1>2. handlers' = [handlers EXCEPT ![h] = AtRest]
    BY DEF SaveReport
  <1>3. \/ UNCHANGED reports
        \/ /\ reports' = [reports EXCEPT ![r] = next]
           /\ next.version = reports[r].version + 1
    BY <1>1 DEF SaveReport, ReportUnmoved, HandlerHonest
  <1> HIDE DEF next, r
  <1>4. reports' \in [Report -> ReportRow] /\ reports \in [Report -> ReportRow]
    BY <1>1, <1>3 DEF EscalationInv
  <1>5. LiveIsRaised'
    BY <1>1, <1>3, <1>4 DEF EscalationInv, LiveIsRaised, ReportRow
  <1>6. ASSUME NEW g \in Handler PROVE HandlerHonest(handlers[g])'
    <2>1. CASE g = h
      <3>1. handlers'[g] = AtRest
        BY <1>2, <2>1 DEF EscalationInv
      <3> QED BY <3>1 DEF HandlerHonest, AtRest
    <2>2. CASE g # h
      <3> DEFINE call == handlers[g]
      <3>1. handlers'[g] = call /\ HandlerHonest(call)
        BY <1>2, <2>2 DEF EscalationInv
      <3>2. call.at = "saving" => /\ call.what \in Report /\ call.version \in Nat
        BY DEF EscalationInv, HandlerState, AtRest
      <3> HIDE DEF call
      <3>3. ASSUME call.at = "saving"
            PROVE  \/ reports'[call.what] = reports[call.what]
                   \/ /\ reports'[call.what].version = reports[call.what].version + 1
                      /\ reports[call.what].version \in Nat
        BY <1>1, <1>3, <1>4, <3>2, <3>3 DEF ReportRow
      <3> QED BY <3>1, <3>2, <3>3 DEF HandlerHonest
    <2> QED BY <2>1, <2>2
  <1>7. handlers' \in [Handler -> HandlerState]
    BY <1>2 DEF EscalationInv, HandlerState
  <1> QED BY <1>4, <1>5, <1>6, <1>7 DEF EscalationInv

\* Every step of the escalations preserves their invariant.
LEMMA EscalationStep == EscalationInv /\ [EscalationNext]_escalationVars => EscalationInv'
  <1>1. EscalationInv /\ UNCHANGED escalationVars => EscalationInv'
    BY DEF escalationVars, EscalationInv, LiveIsRaised, HandlerHonest
  <1> QED BY <1>1, RaiseKeeps, BeginHandlingKeeps, SaveReportKeeps DEF EscalationNext

\* A call in flight is about to write the live report it read, or its version has moved,
\* for any number of reports and calls.
THEOREM EscalationInvariant == EscalationSpec => []EscalationInv
  BY EscalationStart, EscalationStep, PTL DEF EscalationSpec

\* Reports keep their shape.
THEOREM EscalationTyped == EscalationSpec => []EscalationTypeOK
  <1>1. EscalationInv => EscalationTypeOK
    BY DEF EscalationInv, EscalationTypeOK, ReportRow
  <1> QED BY <1>1, EscalationInvariant, PTL

\* A closed report is never written again, and no write forgets that an administrator
\* acknowledged it, however many people handle it at once (move, saveEscalation).
THEOREM ClosedForGood == EscalationSpec => ClosedReportStaysClosed
  <1>1. ASSUME EscalationInv, EscalationNext, NEW r \in Report
        PROVE  /\ reports[r].status \in {"resolved", "withdrawn"} => reports'[r] = reports[r]
               /\ reports[r].acknowledged => reports'[r].acknowledged
    <2>1. CASE Raise
      BY <1>1, <2>1 DEF Raise, Unraised, EscalationInv
    <2>2. ASSUME NEW h \in Handler, BeginHandling(h) PROVE UNCHANGED reports
      BY <2>2 DEF BeginHandling
    <2>3. ASSUME NEW h \in Handler, SaveReport(h)
          PROVE  /\ reports[r].status \in {"resolved", "withdrawn"} => reports'[r] = reports[r]
                 /\ reports[r].acknowledged => reports'[r].acknowledged
      <3>1. handlers[h].at = "saving" /\ handlers[h].what \in Report
            /\ HandlerHonest(handlers[h])
        BY <1>1, <2>3 DEF SaveReport, EscalationInv, HandlerState, AtRest
      <3>2. CASE ~ReportUnmoved(h)
        BY <2>3, <3>2 DEF SaveReport
      <3>3. CASE ReportUnmoved(h)
        <4>1. /\ IsLive(reports[handlers[h].what])
              /\ reports[handlers[h].what].acknowledged => handlers[h].next.acknowledged
          BY <3>1, <3>3 DEF HandlerHonest, ReportUnmoved
        <4>2. reports' = [reports EXCEPT ![handlers[h].what] = handlers[h].next]
          BY <2>3, <3>3 DEF SaveReport
        <4> QED BY <1>1, <3>1, <4>1, <4>2 DEF IsLive, EscalationInv
      <3> QED BY <3>2, <3>3
    <2> QED BY <1>1, <2>1, <2>2, <2>3 DEF EscalationNext
  <1>2. EscalationInv /\ [EscalationNext]_escalationVars =>
            [\A r \in Report :
                /\ reports[r].status \in {"resolved", "withdrawn"} => reports'[r] = reports[r]
                /\ reports[r].acknowledged => reports'[r].acknowledged]_escalationVars
    BY <1>1
  <1> QED BY <1>2, EscalationInvariant, PTL DEF EscalationSpec, ClosedReportStaysClosed
=============================================================================

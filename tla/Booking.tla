------------------------------- MODULE Booking -------------------------------
(***************************************************************************)
(* Interview slots: a board publishes them for an officer, a student books *)
(* one for an application, and the application moves on or comes back.     *)
(* Every call reads, decides and commits in separate steps; the versions   *)
(* of the rows it read decide whether the commit goes through.             *)
(***************************************************************************)
EXTENDS Workflow, FiniteSets

CONSTANTS
    Interview,    \* applications waiting for an interview (standard track)
    Applicant,    \* Interview -> the student it belongs to
    Slot,         \* identities slots are published under
    Hour,         \* times the officer may be published at
    Booker,       \* calls that can be under way at once
    Publisher,    \* publications that can be under way at once
    NoSlot, NoStudent,
    MaxMoves      \* bound: moves of one application

ASSUME BookingAssumption ==
    /\ NoSlot \notin Slot
    /\ \A a \in Interview : Applicant[a] # NoStudent
    /\ MaxMoves \in Nat

VARIABLES
    slots,       \* Slot -> its row; a slot that is not published has no hour
    interviews,  \* Interview -> the application's row
    bookers,     \* Booker -> what the call has read, or Free
    publishers   \* Publisher -> the batch it checked, or {}

bookingVars == <<slots, interviews, bookers, publishers>>
-----------------------------------------------------------------------------
Free == [at |-> "free"]
Unpublished == [hours |-> {}, by |-> NoStudent, version |-> 0]

BookingInit ==
    /\ slots = [s \in Slot |-> Unpublished]
    /\ interviews = [a \in Interview |->
           [status |-> "mutual_interest", furthest |-> "mutual_interest",
            exitedOn |-> 0, version |-> 0, slot |-> NoSlot]]
    /\ bookers = [c \in Booker |-> Free]
    /\ publishers = [p \in Publisher |-> {}]

Published == {s \in Slot : slots[s].hours # {}}

\* A batch clashes with nothing published for the officer, nor with itself.
FreeHours == SUBSET {h \in Hour : \A s \in Published : h \notin slots[s].hours}

CheckCalendar(p) ==
    /\ publishers[p] = {}
    /\ \E batch \in FreeHours \ {{}} : publishers' = [publishers EXCEPT ![p] = batch]
    /\ UNCHANGED <<slots, interviews, bookers>>

\* One transaction inserts the whole batch, one row per time.
Publish(p) ==
    /\ publishers[p] # {}
    /\ \E rows \in SUBSET (Slot \ Published) :
        \E at \in [rows -> publishers[p]] :
            /\ Cardinality(rows) = Cardinality(publishers[p])
            /\ \A s, t \in rows : s # t => at[s] # at[t]
            /\ slots' = [s \in Slot |->
                   IF s \in rows
                   THEN [hours |-> {at[s]}, by |-> NoStudent, version |-> 1]
                   ELSE slots[s]]
    /\ publishers' = [publishers EXCEPT ![p] = {}]
    /\ UNCHANGED <<interviews, bookers>>
-----------------------------------------------------------------------------
\* bookInterviewSlot reads the list of slots and refuses one that is booked.
PickSlot(c) ==
    /\ bookers[c] = Free
    /\ \E a \in Interview, s \in Published :
        /\ slots[s].by = NoStudent
        /\ bookers' = [bookers EXCEPT ![c] =
               [at |-> "picked", app |-> a, slot |-> s, row |-> slots[s]]]
    /\ UNCHANGED <<slots, interviews, publishers>>

Moves(a) == {t.to : t \in TransitionsFrom(interviews[a].status, "standard")}

Within(a) == interviews[a].version < MaxMoves

\* executeTransition reads the application and finds the edge, for a booking ...
DecideBooking(c) ==
    /\ bookers[c].at = "picked"
    /\ LET a == bookers[c].app IN
        /\ Within(a)
        /\ bookers' = [bookers EXCEPT ![c] =
               IF "interview_scheduled" \in Moves(a)
               THEN [at |-> "deciding", app |-> a, to |-> "interview_scheduled",
                     slot |-> @.slot, row |-> @.row, read |-> interviews[a]]
               ELSE Free]
    /\ UNCHANGED <<slots, interviews, publishers>>

\* ... and for a plain move from any portal, which carries no slot.
DecideMove(c) ==
    /\ bookers[c] = Free
    /\ \E a \in Interview : \E to \in Moves(a) :
        /\ to \in {"interview_scheduled", "interview_completed", "mutual_interest"}
        /\ Within(a)
        /\ bookers' = [bookers EXCEPT ![c] =
               [at |-> "deciding", app |-> a, to |-> to,
                slot |-> NoSlot, row |-> Unpublished, read |-> interviews[a]]]
    /\ UNCHANGED <<slots, interviews, publishers>>

\* Mutant: the slot is saved by its id alone.
SlotUnmovedById(c) == TRUE

SlotUnmoved(c) ==
    \/ bookers[c].slot = NoSlot
    \/ slots[bookers[c].slot].version = bookers[c].row.version

\* The patch names the slot; a move without one keeps what the row has.
InterviewMoved(c) ==
    LET call == bookers[c] IN
    [Moved(call.read, call.to) EXCEPT
        !.slot = IF call.slot = NoSlot THEN @ ELSE call.slot]

\* Both rows are written, or neither: the losing call is told to look again.
CommitMove(c) ==
    /\ bookers[c].at = "deciding"
    /\ LET call == bookers[c] IN
        IF interviews[call.app].version = call.read.version /\ SlotUnmoved(c)
        THEN /\ interviews' = [interviews EXCEPT ![call.app] = InterviewMoved(c)]
             /\ slots' = IF call.slot = NoSlot THEN slots
                         ELSE [slots EXCEPT ![call.slot] =
                                  [call.row EXCEPT !.by = Applicant[call.app],
                                                   !.version = @ + 1]]
        ELSE UNCHANGED <<interviews, slots>>
    /\ bookers' = [bookers EXCEPT ![c] = Free]
    /\ UNCHANGED publishers

BookingNext ==
    \/ \E p \in Publisher : CheckCalendar(p) \/ Publish(p)
    \/ \E c \in Booker : PickSlot(c) \/ DecideBooking(c) \/ DecideMove(c)
                         \/ CommitMove(c)

BookingSpec == BookingInit /\ [][BookingNext]_bookingVars
-----------------------------------------------------------------------------
InterviewStatus == {"mutual_interest", "interview_scheduled", "interview_completed"}

\* Slots and applications have the shapes the code gives them.
BookingTypeOK ==
    /\ slots \in [Slot -> [hours: SUBSET Hour,
                           by: {Applicant[a] : a \in Interview} \cup {NoStudent},
                           version: Nat]]
    /\ interviews \in [Interview ->
           [status: InterviewStatus, furthest: InterviewStatus, exitedOn: {0},
            version: Nat, slot: Slot \cup {NoSlot}]]
    /\ publishers \in [Publisher -> SUBSET Hour]

Holders(s) == {a \in Interview : interviews[a].slot = s}

\* However bookings interleave, an application that names a slot is the only one
\* that does, and the slot is booked for its student (saveInterviewSlot's
\* version, in the transaction of the move).
HeldSlotIsBooked ==
    \A s \in Slot :
        /\ Cardinality(Holders(s)) <= 1
        /\ \A a \in Holders(s) : slots[s].by = Applicant[a]

\* "A booked slot with an unmoved application ... is a placement nobody is
\* tracking" (bookInterviewSlot): a booked slot is the slot of an application
\* that was scheduled.
BookedSlotIsTracked ==
    \A s \in Slot : slots[s].by # NoStudent =>
        \E a \in Holders(s) : interviews[a].status # "mutual_interest"
==============================================================================

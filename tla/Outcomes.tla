------------------------------- MODULE Outcomes -------------------------------
(***************************************************************************)
(* What becomes of a learner after a placement: what college, learner and  *)
(* administrator observe, what the host answers, and the quarters in which *)
(* the program asks. A date is its quarter; several people answer at once. *)
(***************************************************************************)
EXTENDS Workflow, FiniteSets, Sequences

CONSTANTS
    Scribe,       \* observations and answers that can be under way at once
    LastQuarter,  \* bound: the clock
    MaxOutcomes   \* bound: outcomes of the placement

ASSUME OutcomesAssumption == LastQuarter \in Nat \ {0} /\ MaxOutcomes \in Nat

VARIABLES
    quarter,     \* the clock
    placement,   \* the application: status, furthest, since, exitedOn (0: not yet)
    outcomes,    \* observations: [kind, at]
    offers,      \* the host's answers in order: [answer, at]
    scribes      \* Scribe -> the call under way, or NotWriting

outcomeVars == <<quarter, placement, outcomes, offers, scribes>>
-----------------------------------------------------------------------------
NotWriting == [at |-> "rest"]

OutcomesInit ==
    /\ quarter = 1
    /\ placement = [status |-> "placement_active", furthest |-> "placement_active",
                    since |-> 1, exitedOn |-> 0]
    /\ outcomes = {} /\ offers = <<>>
    /\ scribes = [s \in Scribe |-> NotWriting]

\* A quarter is long: whoever began an answer in it has given it.
PassQuarter ==
    /\ quarter < LastQuarter
    /\ \A s \in Scribe : scribes[s] = NotWriting
    /\ quarter' = quarter + 1
    /\ UNCHANGED <<placement, outcomes, offers, scribes>>

\* The application goes on: completion or termination, credit, closing.
MoveOn ==
    /\ \E t \in TransitionsFrom(placement.status, "standard") :
        placement' = [status |-> t.to, furthest |-> FurthestOf(placement, t.to),
                      since |-> quarter,
                      exitedOn |-> IF placement.exitedOn = 0 /\ t.to \in NoLongerRunning
                                   THEN quarter ELSE placement.exitedOn]
    /\ UNCHANGED <<quarter, outcomes, offers, scribes>>

\* Mutant: the exit is the last change of status.
ExitDateSliding == placement.since

ExitDateOf == IF placement.exitedOn # 0 THEN placement.exitedOn ELSE placement.since

\* The second and the fourth quarter after exit.
FollowUpWindows == {ExitDateOf + 2, ExitDateOf + 4}

Answered(w) == \E o \in outcomes : o.at = w

WindowState(w) ==
    CASE Answered(w)   -> "answered"
      [] ~Answered(w) /\ quarter < w -> "waiting"
      [] ~Answered(w) /\ quarter = w -> "due"
      [] ~Answered(w) /\ quarter > w -> "missed"

Writes(s, call) == scribes' = [scribes EXCEPT ![s] = call]

Observation(kind, at) == [kind |-> kind, at |-> at]

\* recordOutcome: about a placement that has ended, observed by now, not on file.
BeginOutcome(s) ==
    /\ scribes[s] = NotWriting
    /\ HasExited(placement)
    /\ \E kind \in {"employed", "other"}, at \in 1..quarter :
        /\ Observation(kind, at) \notin outcomes
        /\ Writes(s, [at |-> "recording", what |-> {Observation(kind, at)}, offer |-> <<>>])
    /\ UNCHANGED <<quarter, placement, outcomes, offers>>

\* A hire brings the observation with it, unless the same is on file.
HireObserved(answer) ==
    IF answer = "accepted" THEN {Observation("employed", quarter)} \ outcomes ELSE {}

\* recordHostOffer: ended, not answered.
BeginHostOffer(s) ==
    /\ scribes[s] = NotWriting
    /\ HasExited(placement) /\ offers = <<>>
    /\ \E answer \in {"accepted", "declined"} :
        Writes(s, [at |-> "recording", what |-> HireObserved(answer),
                   offer |-> <<[answer |-> answer, at |-> quarter]>>])
    /\ UNCHANGED <<quarter, placement, outcomes, offers>>

\* Mutant: the second answer is kept beside the first.
OfferInsertableAnyway(offer) == TRUE

\* host_offers has one row per application.
OfferInsertable(offer) == offer = <<>> \/ offers = <<>>

\* Answer and observation in one transaction.
CommitOutcome(s) ==
    LET call == scribes[s] IN
    /\ call.at = "recording"
    /\ Cardinality(outcomes \cup call.what) <= MaxOutcomes
    /\ IF OfferInsertable(call.offer)
       THEN offers' = offers \o call.offer /\ outcomes' = outcomes \cup call.what
       ELSE UNCHANGED <<offers, outcomes>>
    /\ Writes(s, NotWriting)
    /\ UNCHANGED <<quarter, placement>>

OutcomesNext ==
    \/ PassQuarter \/ MoveOn
    \/ \E s \in Scribe : BeginOutcome(s) \/ BeginHostOffer(s) \/ CommitOutcome(s)

OutcomesSpec == OutcomesInit /\ [][OutcomesNext]_outcomeVars
-----------------------------------------------------------------------------
\* Rows have the shapes the code gives them.
OutcomesTypeOK ==
    /\ quarter \in 1..LastQuarter
    /\ placement.status \in Status /\ placement.exitedOn \in 0..LastQuarter
    /\ outcomes \subseteq [kind: {"employed", "other"}, at: 1..LastQuarter]

\* A placement has one answer of its host, whoever gives it first, and a hire is
\* never without the observation that counts it (recordHostOffer, host_offers).
HireIsCounted ==
    /\ Len(offers) <= 1
    /\ \A n \in DOMAIN offers : offers[n].answer = "accepted" =>
           Observation("employed", offers[n].at) \in outcomes

\* Once a placement has ended, the quarters it is asked about never move, whatever is
\* decided about credit later, and a quarter that is answered stays answered; only the
\* clock makes one due or missed (exitDateOf, windowStatuses).
FollowUpsKeepTheirQuarter ==
    [][HasExited(placement) =>
           /\ HasExited(placement)' /\ FollowUpWindows' = FollowUpWindows
           /\ \A w \in FollowUpWindows : WindowState(w)' # WindowState(w) =>
                  \/ WindowState(w)' = "answered"
                  \/ WindowState(w) # "answered" /\ quarter' # quarter]_outcomeVars
==============================================================================

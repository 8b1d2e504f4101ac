------------------------------ MODULE Mentorship ------------------------------
(***************************************************************************)
(* One mentorship offer: the employer opens, pauses and withdraws it, the  *)
(* college introduces verified students while a place is left, and either  *)
(* records what became of an introduction. Places are counted over rows    *)
(* read earlier; one live introduction of a student is held by an index.   *)
(***************************************************************************)
EXTENDS Integers, FiniteSets

CONSTANTS
    Mentee,      \* verified students
    Introducer,  \* calls that can be under way at once
    Pairing,     \* identities of introductions
    Capacity     \* students the mentor takes at a time

ASSUME MentorshipAssumption ==
    Capacity \in Nat \ {0} /\ IsFiniteSet(Introducer) /\ IsFiniteSet(Pairing) /\ Mentee # {}

VARIABLES
    mentor,      \* status of the offer
    pairings,    \* Pairing -> [of, status]; "none" before it is made
    introducers  \* Introducer -> the call under way, or Available

mentorshipVars == <<mentor, pairings, introducers>>
-----------------------------------------------------------------------------
Available == [at |-> "available"]

MentorshipInit ==
    /\ mentor = "open"
    /\ pairings = [m \in Pairing |-> [of |-> CHOOSE s \in Mentee : TRUE, status |-> "none"]]
    /\ introducers = [i \in Introducer |-> Available]

MentorTransitions ==
    {<<"open", "paused">>, <<"paused", "open">>, <<"open", "withdrawn">>,
     <<"paused", "withdrawn">>}

MoveMentor ==
    /\ \E t \in MentorTransitions : t[1] = mentor /\ mentor' = t[2]
    /\ UNCHANGED <<pairings, introducers>>

Live == {m \in Pairing : pairings[m].status = "introduced"}

\* Mutant: the mentor is full only when one more than full.
PlacesLeftRounded == Capacity + 1 - Cardinality(Live)

PlacesLeft == Capacity - Cardinality(Live)

\* introduceStudentToMentor: the offer open, no live introduction, a place left.
BeginIntroduction(i) ==
    /\ introducers[i] = Available
    /\ mentor = "open" /\ PlacesLeft > 0
    /\ \E s \in Mentee :
        /\ \A m \in Live : pairings[m].of # s
        /\ introducers' = [introducers EXCEPT ![i] = [at |-> "introducing", of |-> s]]
    /\ UNCHANGED <<mentor, pairings>>

\* mentorship_pairings_one_live_per_pair refuses a second live one.
InsertPairing(i) ==
    LET s == introducers[i].of IN
    /\ introducers[i].at = "introducing"
    /\ IF \E m \in Live : pairings[m].of = s
       THEN UNCHANGED pairings
       ELSE \E m \in Pairing :
               /\ pairings[m].status = "none"
               /\ pairings' = [pairings EXCEPT ![m] = [of |-> s, status |-> "introduced"]]
    /\ introducers' = [introducers EXCEPT ![i] = Available]
    /\ UNCHANGED mentor

\* recordMentorshipOutcome: it happened, or it did not.
BeginConclusion(i) ==
    /\ introducers[i] = Available
    /\ \E m \in Live, to \in {"met", "declined"} :
        introducers' = [introducers EXCEPT ![i] = [at |-> "concluding", what |-> m, to |-> to]]
    /\ UNCHANGED <<mentor, pairings>>

SaveConclusion(i) ==
    LET call == introducers[i] IN
    /\ call.at = "concluding"
    /\ pairings' = [pairings EXCEPT ![call.what].status = call.to]
    /\ introducers' = [introducers EXCEPT ![i] = Available]
    /\ UNCHANGED mentor

MentorshipNext ==
    \/ MoveMentor
    \/ \E i \in Introducer :
        \/ BeginIntroduction(i) \/ InsertPairing(i)
        \/ BeginConclusion(i) \/ SaveConclusion(i)

MentorshipSpec == MentorshipInit /\ [][MentorshipNext]_mentorshipVars
-----------------------------------------------------------------------------
\* Rows have the shapes the code gives them.
MentorshipTypeOK ==
    /\ mentor \in {"open", "paused", "withdrawn"}
    /\ pairings \in [Pairing -> [of: Mentee,
                                status: {"none", "introduced", "met", "declined"}]]

\* A mentor's places are overbooked by introductions under way at once and by nothing
\* else, and never by the same student twice (introduceStudentToMentor,
\* mentorship_pairings_one_live_per_pair).
PlacesOverbookedOnlyByRace ==
    /\ Cardinality(Live) < Capacity + Cardinality(Introducer)
    /\ \A m, n \in Live : m # n => pairings[m].of # pairings[n].of
==============================================================================

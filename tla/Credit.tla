-------------------------------- MODULE Credit --------------------------------
(***************************************************************************)
(* A student's credit bank: completed work accumulates, a pending award is *)
(* built once a credit is due, and takes the standard placements and as    *)
(* many micro projects, in order, as pay for its credits. What the last    *)
(* project paid too much is carried into the next award.                   *)
(***************************************************************************)
EXTENDS Integers, Sequences

CONSTANTS
    HoursPerCredit,  \* hours a credit stands for
    Hours,           \* hours a placement or a project may bring
    Declared,        \* credits a standard posting may declare
    MaxWork          \* bound: pieces of work completed

ASSUME CreditAssumption ==
    /\ HoursPerCredit \in Nat \ {0} /\ Hours \subseteq Nat
    /\ Declared \subseteq Nat /\ MaxWork \in Nat

VARIABLES
    unclaimed,  \* [standard, micro]: completed work with no award, in order
    carried,    \* hours the last award left over
    awarded,    \* credits awarded so far
    claimed,    \* hours of the work the awards have taken
    done        \* pieces of work completed

creditVars == <<unclaimed, carried, awarded, claimed, done>>
-----------------------------------------------------------------------------
CreditInit ==
    /\ unclaimed = [standard |-> <<>>, micro |-> <<>>]
    /\ carried = 0 /\ awarded = 0 /\ claimed = 0 /\ done = 0

\* A placement of either track is completed; on the standard one only approved
\* hours count, on the micro one the hours of the posting.
CompleteWork ==
    /\ done < MaxWork /\ done' = done + 1
    /\ \E hours \in Hours :
        \/ unclaimed' = [unclaimed EXCEPT !.micro = Append(@, hours)]
        \/ \E declared \in Declared :
               unclaimed' = [unclaimed EXCEPT !.standard =
                   Append(@, [declared |-> declared, hours |-> hours])]
    /\ UNCHANGED <<carried, awarded, claimed>>

AtMost(a, b) == IF a <= b THEN a ELSE b

\* Mutant: the credits the posting declares, whatever was worked.
StandardCreditsDeclared(work) == work.declared

StandardCreditsEarned(work) == AtMost(work.declared, work.hours \div HoursPerCredit)

\* What the first n of these come to, for each n.
Sums(hours) ==
    LET upTo[n \in 0..Len(hours)] == IF n = 0 THEN 0 ELSE upTo[n - 1] + hours[n]
    IN  upTo

Total(hours) == Sums(hours)[Len(hours)]

StandardCredits ==
    Total([n \in DOMAIN unclaimed.standard |-> StandardCreditsEarned(unclaimed.standard[n])])

StandardHours == Total([n \in DOMAIN unclaimed.standard |-> unclaimed.standard[n].hours])

MicroCredits == (carried + Total(unclaimed.micro)) \div HoursPerCredit

\* The first projects that together pay for this many hours, or all of them.
Consumed(hours) ==
    LET Pays(n) == Sums(unclaimed.micro)[n] >= hours
        all     == Len(unclaimed.micro)
    IN CHOOSE n \in 0..all : /\ Pays(n) \/ n = all
                             /\ \A k \in 0..(n - 1) : ~Pays(k)

BuildCreditAward ==
    LET credits == StandardCredits + MicroCredits
        paid    == MicroCredits * HoursPerCredit
        n       == Consumed(paid)
        hours   == Sums(unclaimed.micro)[n]
    IN
    /\ credits >= 1
    /\ awarded' = awarded + credits
    /\ claimed' = claimed + StandardHours + hours
    /\ carried' = IF hours > paid THEN hours - paid ELSE 0
    /\ unclaimed' = [standard |-> <<>>,
                     micro |-> SubSeq(unclaimed.micro, n + 1, Len(unclaimed.micro))]
    /\ UNCHANGED done

CreditNext == CompleteWork \/ BuildCreditAward

CreditSpec == CreditInit /\ [][CreditNext]_creditVars
-----------------------------------------------------------------------------
\* Figures have the shapes the code gives them.
CreditTypeOK ==
    /\ {carried, awarded, claimed} \subseteq Nat /\ done \in 0..MaxWork
    /\ \A n \in DOMAIN unclaimed.micro : unclaimed.micro[n] \in Hours

\* Over any number of awards, no hour pays for two credits: the credits and what is
\* carried never come to more than the work the awards have taken (buildCreditAward,
\* creditProgress).
PaidHoursWereWorked == awarded * HoursPerCredit + carried <= claimed
==============================================================================

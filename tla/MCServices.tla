------------------------------ MODULE MCServices ------------------------------
(***************************************************************************)
(* The services beside the placement core, one scene for each: the scene   *)
(* is chosen at the start, its component moves and the others stay where   *)
(* they began. They share no rows in these models, so the scenes together  *)
(* show what their product would.                                          *)
(***************************************************************************)
EXTENDS MCBooking, Deliverables, Learner, Market, Mentorship, Disclosure, Escalation,
        Outcomes, Regions, SignIn, SecondFactor, Credit, Notices, RateLimit, Visibility

VARIABLE scene  \* the component that moves

vars == <<bookingVars, deliverableVars, learnerVars, marketVars, mentorshipVars, disclosureVars, escalationVars,
          outcomeVars, regionVars, signInVars, factorVars, creditVars, noticeVars, rateVars, visibilityVars,
          scene>>

\* Where a component may begin in two ways, it does so in its own scene.
ServicesInit ==
    /\ scene \in {"booking", "deliverables", "learner", "market", "mentorship", "disclosure",
                 "escalation", "outcomes", "regions", "sign in", "second factor", "credit", "notices",
                 "rate limit", "visibility"}
    /\ BookingInit
    /\ DeliverablesInit
    /\ LearnerInit
    /\ MarketInit
    /\ MentorshipInit
    /\ DisclosureInit
    /\ EscalationInit
    /\ OutcomesInit
    /\ RegionsInit
    /\ SignInInit
    /\ SecondFactorInit
    /\ CreditInit
    /\ NoticesInit
    /\ RateLimitInit
    /\ VisibilityInit
    /\ scene = "disclosure" \/ (standing.track = "standard" /\ ~standing.introduced)
    /\ scene = "notices" \/ file.track = "standard"
    /\ scene = "visibility" \/ reader = CHOOSE a \in Actor : a.role = "board" /\ ~a.demo /\ ~a.everywhere

\* Everything but the component of the scene.
TheRestIsStill ==
    /\ UNCHANGED scene
    /\ IF scene = "booking" THEN TRUE ELSE UNCHANGED bookingVars
    /\ IF scene = "deliverables" THEN TRUE ELSE UNCHANGED deliverableVars
    /\ IF scene = "learner" THEN TRUE ELSE UNCHANGED learnerVars
    /\ IF scene = "market" THEN TRUE ELSE UNCHANGED marketVars
    /\ IF scene = "mentorship" THEN TRUE ELSE UNCHANGED mentorshipVars
    /\ IF scene = "disclosure" THEN TRUE ELSE UNCHANGED disclosureVars
    /\ IF scene = "escalation" THEN TRUE ELSE UNCHANGED escalationVars
    /\ IF scene = "outcomes" THEN TRUE ELSE UNCHANGED outcomeVars
    /\ IF scene = "regions" THEN TRUE ELSE UNCHANGED regionVars
    /\ IF scene = "sign in" THEN TRUE ELSE UNCHANGED signInVars
    /\ IF scene = "second factor" THEN TRUE ELSE UNCHANGED factorVars
    /\ IF scene = "credit" THEN TRUE ELSE UNCHANGED creditVars
    /\ IF scene = "notices" THEN TRUE ELSE UNCHANGED noticeVars
    /\ IF scene = "rate limit" THEN TRUE ELSE UNCHANGED rateVars
    /\ IF scene = "visibility" THEN TRUE ELSE UNCHANGED visibilityVars

ServicesNext ==
    \/ scene = "booking" /\ BookingNext /\ TheRestIsStill
    \/ scene = "deliverables" /\ DeliverablesNext /\ TheRestIsStill
    \/ scene = "learner" /\ LearnerNext /\ TheRestIsStill
    \/ scene = "market" /\ MarketNext /\ TheRestIsStill
    \/ scene = "mentorship" /\ MentorshipNext /\ TheRestIsStill
    \/ scene = "disclosure" /\ DisclosureNext /\ TheRestIsStill
    \/ scene = "escalation" /\ EscalationNext /\ TheRestIsStill
    \/ scene = "outcomes" /\ OutcomesNext /\ TheRestIsStill
    \/ scene = "regions" /\ RegionsNext /\ TheRestIsStill
    \/ scene = "sign in" /\ SignInNext /\ TheRestIsStill
    \/ scene = "second factor" /\ SecondFactorNext /\ TheRestIsStill
    \/ scene = "credit" /\ CreditNext /\ TheRestIsStill
    \/ scene = "notices" /\ NoticesNext /\ TheRestIsStill
    \/ scene = "rate limit" /\ RateLimitNext /\ TheRestIsStill
    \/ scene = "visibility" /\ VisibilityNext /\ TheRestIsStill

ServicesSpec == ServicesInit /\ [][ServicesNext]_vars
-----------------------------------------------------------------------------
\* Every component's rows and calls have the shapes the code gives them.
ServicesTypeOK ==
    /\ BookingTypeOK
    /\ DeliverablesTypeOK
    /\ LearnerTypeOK
    /\ MarketTypeOK
    /\ MentorshipTypeOK
    /\ DisclosureTypeOK
    /\ EscalationTypeOK
    /\ OutcomesTypeOK
    /\ RegionsTypeOK
    /\ SignInTypeOK
    /\ SecondFactorTypeOK
    /\ CreditTypeOK
    /\ NoticesTypeOK
    /\ RateLimitTypeOK
    /\ VisibilityTypeOK
==============================================================================

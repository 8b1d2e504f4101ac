-------------------------------- MODULE Market --------------------------------
(***************************************************************************)
(* Employers are vetted by an administrator, post opportunities a college  *)
(* reviews, and take applications of verified students. Employers and      *)
(* postings are saved as they were read, with no version; a second         *)
(* application of one student to one posting meets a unique index.         *)
(***************************************************************************)
EXTENDS Machine

CONSTANTS
    Employer,    \* organizations of kind business
    Post,        \* identities of postings
    Candidate,   \* verified students
    Desk         \* moves and insertions that can be under way at once

ASSUME MarketAssumption == Employer # {}

VARIABLES
    employers,   \* Employer -> status
    posts,       \* Post -> [of, status]; "none" before it is created
    candidacies, \* the applications: [post, of, open]
    auditLog,    \* of the moves it records, those that open a door: [what, to, by]
    desks        \* Desk -> the call under way, or Vacant

marketVars == <<employers, posts, candidacies, auditLog, desks>>
-----------------------------------------------------------------------------
Vacant == [at |-> "vacant"]

MarketInit ==
    /\ employers = [e \in Employer |-> "applied"]
    /\ posts = [p \in Post |-> [of |-> CHOOSE e \in Employer : TRUE, status |-> "none"]]
    /\ candidacies = {} /\ auditLog = {}
    /\ desks = [d \in Desk |-> Vacant]

OrganizationTransitions ==
    {<<"applied", "under_review">>, <<"under_review", "info_requested">>,
     <<"info_requested", "under_review">>, <<"under_review", "approved">>,
     <<"under_review", "rejected">>, <<"approved", "active">>,
     <<"active", "suspended">>, <<"approved", "suspended">>, <<"suspended", "active">>}

CanTransact(e) == employers[e] \in {"approved", "active"}

\* Mutant: what comes back with the changes made is published as it is.
PostingTransitionsTrusting ==
    {<<"changes_requested", "published", {"business", "college"}>>,
     <<"pending_review", "changes_requested", {"college"}>>}

PostingTransitions ==
    {<<"draft", "pending_review", {"business"}>>, <<"draft", "help_requested", {"business"}>>,
     <<"help_requested", "college_drafting", {"college"}>>,
     <<"college_drafting", "pending_review", {"college"}>>,
     <<"pending_review", "published", {"college"}>>,
     <<"pending_review", "changes_requested", {"college"}>>,
     <<"changes_requested", "pending_review", {"business", "college"}>>,
     <<"published", "filled", {"business", "college"}>>,
     <<"published", "closed", {"business", "college"}>>,
     <<"published", "expired", {"college"}>>,
     <<"filled", "closed", {"business", "college"}>>,
     <<"filled", "published", {"business", "college"}>>}

OpenOn(p) == {a \in candidacies : a.post = p /\ a.open}

\* Closing a published posting needs an empty pipeline; a filled one closes anyway.
PipelineClear(p, from, to) == from = "published" /\ to = "closed" => OpenOn(p) = {}

MayMove(p, t, role) == Attempt(t[3], role, PipelineClear(p, t[1], t[2]), TRUE)

Sits(d, call) == desks' = [desks EXCEPT ![d] = call]

\* transitionOrganization and transitionPosting: read, ask the machine ...
BeginVetting(d) ==
    /\ desks[d] = Vacant
    /\ \E e \in Employer : \E t \in OrganizationTransitions :
        /\ t[1] = employers[e]
        /\ Sits(d, [at |-> "vetting", what |-> e, to |-> t[2], by |-> "admin"])
    /\ UNCHANGED <<employers, posts, candidacies, auditLog>>

BeginPostMove(d) ==
    /\ desks[d] = Vacant
    /\ \E p \in Post, role \in Role : \E t \in PostingTransitions :
        /\ t[1] = posts[p].status /\ MayMove(p, t, role)
        /\ Sits(d, [at |-> "moving", what |-> p, to |-> t[2], by |-> role])
    /\ UNCHANGED <<employers, posts, candidacies, auditLog>>

Landmark == {"approved", "published"}

\* ... and save the status, whatever the row has become, with its audit event.
SaveStatus(d) ==
    LET call == desks[d] IN
    /\ call.at \in {"vetting", "moving"}
    /\ IF call.at = "vetting"
       THEN employers' = [employers EXCEPT ![call.what] = call.to] /\ UNCHANGED posts
       ELSE posts' = [posts EXCEPT ![call.what].status = call.to] /\ UNCHANGED employers
    /\ auditLog' = IF call.to \in Landmark
                   THEN auditLog \cup {[what |-> call.what, to |-> call.to, by |-> call.by]}
                   ELSE auditLog
    /\ Sits(d, Vacant)
    /\ UNCHANGED candidacies

\* createPosting: a vetted employer's, and it waits for review.
BeginPosting(d) ==
    /\ desks[d] = Vacant
    /\ \E e \in Employer, p \in Post :
        /\ CanTransact(e) /\ posts[p].status = "none"
        /\ Sits(d, [at |-> "posting", what |-> p, row |-> [of |-> e, status |-> "pending_review"]])
    /\ UNCHANGED <<employers, posts, candidacies, auditLog>>

InsertPosting(d) ==
    LET call == desks[d] IN
    /\ call.at = "posting"
    /\ posts' = IF posts[call.what].status = "none"
                THEN [posts EXCEPT ![call.what] = call.row] ELSE posts
    /\ Sits(d, Vacant)
    /\ UNCHANGED <<employers, candidacies, auditLog>>

TakesApplications(p) == posts[p].status = "published" /\ CanTransact(posts[p].of)

\* submitApplication: a published posting of a vetted employer, not applied to.
BeginApplication(d) ==
    /\ desks[d] = Vacant
    /\ \E p \in Post, s \in Candidate :
        /\ TakesApplications(p)
        /\ ~\E a \in candidacies : a.post = p /\ a.of = s
        /\ Sits(d, [at |-> "applying", what |-> p, of |-> s])
    /\ UNCHANGED <<employers, posts, candidacies, auditLog>>

\* The insert; a second one for the pair meets the unique index.
InsertApplication(d) ==
    LET call == desks[d] IN
    /\ call.at = "applying"
    /\ candidacies' = IF \E a \in candidacies : a.post = call.what /\ a.of = call.of
                      THEN candidacies
                      ELSE candidacies \cup {[post |-> call.what, of |-> call.of, open |-> TRUE]}
    /\ Sits(d, Vacant)
    /\ UNCHANGED <<employers, posts, auditLog>>

\* The application workflow ends one.
EndCandidacy ==
    /\ \E a \in candidacies :
        a.open /\ candidacies' = (candidacies \ {a}) \cup {[a EXCEPT !.open = FALSE]}
    /\ UNCHANGED <<employers, posts, auditLog, desks>>

MarketNext ==
    \/ \E d \in Desk :
        \/ BeginVetting(d) \/ BeginPostMove(d) \/ SaveStatus(d)
        \/ BeginPosting(d) \/ InsertPosting(d)
        \/ BeginApplication(d) \/ InsertApplication(d)
    \/ EndCandidacy

MarketSpec == MarketInit /\ [][MarketNext]_marketVars
-----------------------------------------------------------------------------
OrganizationStatus ==
    {t[1] : t \in OrganizationTransitions} \cup {t[2] : t \in OrganizationTransitions}

PostingStatus == {t[1] : t \in PostingTransitions} \cup {t[2] : t \in PostingTransitions}

\* Rows have the shapes the code gives them.
MarketTypeOK ==
    /\ employers \in [Employer -> OrganizationStatus]
    /\ posts \in [Post -> [of: Employer, status: PostingStatus \cup {"none"}]]
    /\ candidacies \subseteq [post: Post, of: Candidate, open: BOOLEAN]

Logged(what, to, roles) == \E e \in auditLog : e.what = what /\ e.to = to /\ e.by \in roles

\* What students can see, could see, or have applied to, went through review:
\* however moves overwrite each other, the log shows the college or an administrator
\* publishing the posting, and an administrator approving its employer (createPosting,
\* transitionPosting, submitApplication).
ApplicationsStandOnReview ==
    /\ \A p \in Post : posts[p].status \in {"published", "filled", "expired", "closed"} =>
           /\ Logged(p, "published", {"college", "admin"})
           /\ Logged(posts[p].of, "approved", {"admin"})
    /\ \A a \in candidacies : Logged(a.post, "published", {"college", "admin"})
==============================================================================

---------------------------- MODULE ServicesProofs ----------------------------
(***************************************************************************)
(* Proofs about the services that rest on a rule and not on a row's        *)
(* version: what follows a placement, the boundary of a market, credit,    *)
(* notices, the limiter, who is shown what; and about all the services     *)
(* together.                                                               *)
(***************************************************************************)
EXTENDS VersionedProofs, UnversionedProofs, MCServices, WellFoundedInduction

-----------------------------------------------------------------------------
(* Outcomes. *)

ObservationRow == [kind: {"employed", "other"}, at: 1..LastQuarter]

AnswerRow == [answer: {"accepted", "declined"}, at: 1..LastQuarter]

HostAnswers == {<<>>} \cup {<<a>> : a \in AnswerRow}

ScribeState == {NotWriting} \cup
               [at: {"recording"}, what: SUBSET ObservationRow, offer: HostAnswers]

\* A hire among these answers is among these observations.
Counted(answers, observed) ==
    \A a \in AnswerRow : answers = <<a>> /\ a.answer = "accepted" =>
        Observation("employed", a.at) \in observed

\* A placement that has begun never leaves what was reached but by closing, and its exit
\* is dated as soon as it is no longer running; a call that will write a hire brings the
\* observation, or found it on file.
OutcomesInv ==
    /\ quarter \in 1..LastQuarter
    /\ placement \in [status: ReachedPlacement \cup {"closed"}, furthest: ReachedPlacement,
                      since: 1..LastQuarter, exitedOn: 0..LastQuarter]
    /\ placement.status \in NoLongerRunning => placement.exitedOn # 0
    /\ outcomes \subseteq ObservationRow
    /\ offers \in HostAnswers /\ Counted(offers, outcomes)
    /\ scribes \in [Scribe -> ScribeState]
    /\ \A s \in Scribe : scribes[s].at = "recording" =>
           Counted(scribes[s].offer, scribes[s].what \cup outcomes)

\* The placement has begun, nothing is observed.
LEMMA OutcomesStart == OutcomesInit => OutcomesInv
  <1> SUFFICES ASSUME OutcomesInit PROVE OutcomesInv
    OBVIOUS
  <1>1. /\ quarter \in 1..LastQuarter
        /\ placement \in [status: ReachedPlacement \cup {"closed"}, furthest: ReachedPlacement,
                          since: 1..LastQuarter, exitedOn: 0..LastQuarter]
        /\ placement.status \notin NoLongerRunning
    BY OutcomesAssumption DEF OutcomesInit, ReachedPlacement, NoLongerRunning
  <1>2. offers \in HostAnswers /\ Counted(offers, outcomes)
    BY DEF OutcomesInit, HostAnswers, Counted
  <1>3. scribes \in [Scribe -> ScribeState] /\ \A s \in Scribe : scribes[s].at # "recording"
    BY DEF OutcomesInit, ScribeState, NotWriting
  <1> QED BY <1>1, <1>2, <1>3 DEF OutcomesInit, OutcomesInv

\* From a placement that has begun one comes only to what was reached, or to the close;
\* one that is no longer running does not run again.
LEMMA PlacementEdges ==
    ASSUME NEW from \in ReachedPlacement \cup {"closed"}, NEW track,
           NEW t \in TransitionsFrom(from, track)
    PROVE  /\ t.to \in ReachedPlacement \cup {"closed"} /\ from # "closed"
           /\ t.to \in ReachedPlacement \/ IsTerminal(t.to)
           /\ t.to \in NoLongerRunning
           /\ IsTerminal(t.to) <=> t.to = "closed"
  BY DEF TransitionsFrom, Transitions, Edge, ReachedPlacement, NoLongerRunning, IsTerminal,
         TerminalStatuses

\* A move of the application dates its exit once.
LEMMA MoveOnKeeps ==
    ASSUME OutcomesInv, MoveOn
    PROVE  /\ OutcomesInv' /\ UNCHANGED <<quarter, outcomes, offers, scribes>>
           /\ placement.exitedOn # 0 => placement'.exitedOn = placement.exitedOn
           /\ placement'.furthest \in ReachedPlacement
           /\ placement'.status \in NoLongerRunning
  <1>1. PICK t \in TransitionsFrom(placement.status, "standard") :
            placement' = [status |-> t.to, furthest |-> FurthestOf(placement, t.to),
                          since |-> quarter,
                          exitedOn |-> IF placement.exitedOn = 0 /\ t.to \in NoLongerRunning
                                       THEN quarter ELSE placement.exitedOn]
    BY DEF MoveOn
  <1>2. /\ t.to \in ReachedPlacement \cup {"closed"} /\ t.to \in NoLongerRunning
        /\ FurthestOf(placement, t.to) \in ReachedPlacement
    <2>1. placement.status \in ReachedPlacement \cup {"closed"}
          /\ placement.furthest \in ReachedPlacement
      BY DEF OutcomesInv
    <2> QED BY <2>1, PlacementEdges DEF FurthestOf
  <1>3. /\ quarter \in 1..LastQuarter /\ quarter # 0 /\ quarter \in 0..LastQuarter
        /\ placement.exitedOn \in 0..LastQuarter
    BY OutcomesAssumption DEF OutcomesInv
  <1>4. UNCHANGED <<quarter, outcomes, offers, scribes>>
    BY DEF MoveOn
  <1>5. /\ placement' \in [status: ReachedPlacement \cup {"closed"}, furthest: ReachedPlacement,
                           since: 1..LastQuarter, exitedOn: 0..LastQuarter]
        /\ placement'.exitedOn # 0
        /\ placement.exitedOn # 0 => placement'.exitedOn = placement.exitedOn
        /\ placement'.status \in NoLongerRunning /\ placement'.furthest \in ReachedPlacement
    BY <1>1, <1>2, <1>3
  <1> QED BY <1>4, <1>5 DEF OutcomesInv, Counted

\* A call begun writes what it found missing.
LEMMA ScribesKeep ==
    ASSUME OutcomesInv, NEW s \in Scribe, BeginOutcome(s) \/ BeginHostOffer(s)
    PROVE  OutcomesInv'
  <1> SUFFICES ASSUME NEW call \in ScribeState, Writes(s, call),
                      Counted(call.offer, call.what \cup outcomes)
               PROVE  OutcomesInv'
    <2>1. CASE BeginOutcome(s)
      <3>1. PICK kind \in {"employed", "other"} : \E at \in 1..quarter :
                Writes(s, [at |-> "recording", what |-> {Observation(kind, at)}, offer |-> <<>>])
        BY <2>1 DEF BeginOutcome
      <3>2. PICK at \in 1..quarter :
                Writes(s, [at |-> "recording", what |-> {Observation(kind, at)}, offer |-> <<>>])
        BY <3>1
      <3>3. Observation(kind, at) \in ObservationRow
        BY OutcomesAssumption DEF OutcomesInv, Observation, ObservationRow
      <3> DEFINE call == [at |-> "recording", what |-> {Observation(kind, at)}, offer |-> <<>>]
      <3>4. call \in ScribeState /\ Counted(call.offer, call.what \cup outcomes)
        BY <3>3 DEF ScribeState, HostAnswers, Counted
      <3> HIDE DEF call
      <3> QED BY <3>2, <3>4 DEF call
    <2>2. CASE BeginHostOffer(s)
      <3>1. PICK answer \in {"accepted", "declined"} :
                Writes(s, [at |-> "recording", what |-> HireObserved(answer),
                           offer |-> <<[answer |-> answer, at |-> quarter]>>])
        BY <2>2 DEF BeginHostOffer
      <3> DEFINE row == [answer |-> answer, at |-> quarter]
                 call == [at |-> "recording", what |-> HireObserved(answer), offer |-> <<row>>]
      <3>2. /\ quarter \in 1..LastQuarter /\ row \in AnswerRow
            /\ row.answer = answer /\ row.at = quarter
        BY DEF OutcomesInv, AnswerRow
      <3>3. HireObserved(answer) \subseteq ObservationRow
        BY <3>2 DEF HireObserved, Observation, ObservationRow
      <3>4. answer = "accepted" =>
                Observation("employed", quarter) \in HireObserved(answer) \cup outcomes
        BY DEF HireObserved
      <3> HIDE DEF row
      <3>5. call \in ScribeState
        BY <3>2, <3>3 DEF ScribeState, HostAnswers
      <3>6. Counted(call.offer, call.what \cup outcomes)
        BY <3>2, <3>4 DEF Counted
      <3> HIDE DEF call
      <3> QED BY <3>1, <3>5, <3>6 DEF call, row
    <2> QED BY <2>1, <2>2
  <1>1. UNCHANGED <<quarter, placement, outcomes, offers>>
    BY DEF BeginOutcome, BeginHostOffer
  <1>2. scribes' \in [Scribe -> ScribeState]
        /\ \A r \in Scribe : scribes'[r] = IF r = s THEN call ELSE scribes[r]
    BY DEF Writes, OutcomesInv
  <1> QED BY <1>1, <1>2 DEF OutcomesInv, Counted

\* Answer and observation are written together, or neither.
LEMMA OutcomeCommitted ==
    ASSUME OutcomesInv, NEW s \in Scribe, CommitOutcome(s)
    PROVE  OutcomesInv' /\ UNCHANGED <<quarter, placement>> /\ outcomes \subseteq outcomes'
  <1>1. PICK call \in ScribeState : call = scribes[s]
    BY DEF OutcomesInv
  <1>2. /\ call.at = "recording" /\ UNCHANGED <<quarter, placement>> /\ Writes(s, NotWriting)
        /\ \/ /\ OfferInsertable(call.offer)
              /\ offers' = offers \o call.offer /\ outcomes' = outcomes \cup call.what
           \/ UNCHANGED <<offers, outcomes>>
    BY <1>1 DEF CommitOutcome
  <1>3. call.what \subseteq ObservationRow /\ call.offer \in HostAnswers
    BY <1>2 DEF ScribeState, NotWriting
  <1>4. Counted(call.offer, call.what \cup outcomes)
    BY <1>1, <1>2 DEF OutcomesInv
  <1>5. scribes' \in [Scribe -> ScribeState]
        /\ \A r \in Scribe : scribes'[r] = IF r = s THEN NotWriting ELSE scribes[r]
    BY <1>2 DEF Writes, OutcomesInv, ScribeState
  <1>6. outcomes \subseteq outcomes' /\ outcomes' \subseteq ObservationRow
    BY <1>2, <1>3 DEF OutcomesInv
  <1>7. offers' \in HostAnswers /\ Counted(offers', outcomes')
    <2>1. CASE UNCHANGED <<offers, outcomes>>
      BY <2>1 DEF OutcomesInv, Counted
    <2>2. CASE OfferInsertable(call.offer) /\ offers' = offers \o call.offer
               /\ outcomes' = outcomes \cup call.what
      <3>1. offers' = offers \/ offers' = call.offer
        <4>1. \A list \in HostAnswers : list \o <<>> = list /\ <<>> \o list = list
          BY DEF HostAnswers
        <4> QED BY <1>3, <2>2, <4>1 DEF OfferInsertable, OutcomesInv
      <3> QED BY <1>3, <1>4, <2>2, <3>1 DEF OutcomesInv, Counted
    <2> QED BY <1>2, <2>1, <2>2
  <1>8. \A r \in Scribe : scribes'[r].at = "recording" =>
            Counted(scribes'[r].offer, scribes'[r].what \cup outcomes')
    BY <1>5, <1>6 DEF OutcomesInv, Counted, NotWriting
  <1> QED BY <1>2, <1>5, <1>6, <1>7, <1>8 DEF OutcomesInv

\* The clock only goes on.
LEMMA PassKeeps == OutcomesInv /\ PassQuarter => OutcomesInv'
  BY OutcomesAssumption DEF OutcomesInv, PassQuarter, Counted

\* Every step preserves the invariant.
LEMMA OutcomesStep == OutcomesInv /\ [OutcomesNext]_outcomeVars => OutcomesInv'
  <1>1. OutcomesInv /\ UNCHANGED outcomeVars => OutcomesInv'
    BY DEF outcomeVars, OutcomesInv, Counted
  <1> QED BY <1>1, MoveOnKeeps, ScribesKeep, OutcomeCommitted, PassKeeps DEF OutcomesNext

\* Hires are counted and exits dated, whoever answers, for any number of quarters.
THEOREM OutcomesInvariant == OutcomesSpec => []OutcomesInv
  BY OutcomesStart, OutcomesStep, PTL DEF OutcomesSpec

\* Rows keep their shapes.
THEOREM OutcomesTyped == OutcomesSpec => []OutcomesTypeOK
  <1>1. OutcomesInv => OutcomesTypeOK
    BY DEF OutcomesInv, OutcomesTypeOK, ObservationRow, Status, ReachedPlacement, TerminalStatuses
  <1> QED BY <1>1, OutcomesInvariant, PTL

\* One answer of the host, and a hire never without its observation (recordHostOffer).
THEOREM EveryHireIsCounted == OutcomesSpec => []HireIsCounted
  <1>1. OutcomesInv => HireIsCounted
    <2> SUFFICES ASSUME OutcomesInv PROVE HireIsCounted
      OBVIOUS
    <2>1. CASE offers = <<>>
      BY <2>1 DEF HireIsCounted
    <2>2. ASSUME NEW a \in AnswerRow, offers = <<a>> PROVE HireIsCounted
      BY <2>2 DEF HireIsCounted, OutcomesInv, Counted
    <2> QED BY <2>1, <2>2 DEF OutcomesInv, HostAnswers
  <1> QED BY <1>1, OutcomesInvariant, PTL

\* A window that is not answered, at the same time of the clock, is where it was.
LEMMA WindowsWait ==
    ASSUME OutcomesInv, outcomes \subseteq outcomes', NEW w \in Int, quarter' \in Int,
           WindowState(w)' # WindowState(w)
    PROVE  \/ WindowState(w)' = "answered"
           \/ WindowState(w) # "answered" /\ quarter' # quarter
  <1>1. Answered(w) => Answered(w)'
    BY DEF Answered
  <1>2. Answered(w)' => WindowState(w)' = "answered"
    BY DEF WindowState
  <1>3. CASE ~Answered(w) /\ ~Answered(w)'
    <2>1. quarter \in Int
      BY OutcomesAssumption DEF OutcomesInv
    <2>2. quarter < w \/ quarter = w \/ quarter > w
      BY <2>1
    <2>3. WindowState(w) \in {"waiting", "due", "missed"}
      BY <1>3, <2>1, <2>2 DEF WindowState
    <2>4. quarter' # quarter
      BY <1>3 DEF WindowState
    <2> QED BY <2>3, <2>4
  <1> QED BY <1>1, <1>2, <1>3

\* Once a placement has ended, the quarters it is asked about never move, and an answered
\* one stays answered (exitDateOf, windowStatuses).
THEOREM FollowUpsStay == OutcomesSpec => FollowUpsKeepTheirQuarter
  <1>1. ASSUME OutcomesInv, [OutcomesNext]_outcomeVars, HasExited(placement)
        PROVE  /\ HasExited(placement)' /\ FollowUpWindows' = FollowUpWindows
               /\ \A w \in FollowUpWindows : WindowState(w)' # WindowState(w) =>
                      \/ WindowState(w)' = "answered"
                      \/ WindowState(w) # "answered" /\ quarter' # quarter
    <2>1. placement.exitedOn \in Int /\ placement.exitedOn # 0
      BY <1>1, OutcomesAssumption DEF OutcomesInv, HasExited
    <2>2. /\ placement'.exitedOn = placement.exitedOn /\ HasExited(placement)'
          /\ outcomes \subseteq outcomes'
      <3>1. CASE UNCHANGED placement /\ outcomes \subseteq outcomes'
        BY <1>1, <3>1 DEF HasExited
      <3>2. CASE MoveOn
        BY <1>1, <2>1, <3>2, MoveOnKeeps DEF HasExited
      <3>3. CASE \E s \in Scribe : CommitOutcome(s)
        BY <1>1, <3>3, OutcomeCommitted DEF HasExited
      <3> QED BY <1>1, <3>1, <3>2, <3>3
              DEF OutcomesNext, outcomeVars, PassQuarter, BeginOutcome, BeginHostOffer
    <2>3. FollowUpWindows' = FollowUpWindows /\ FollowUpWindows \subseteq Int
      BY <2>1, <2>2 DEF FollowUpWindows, ExitDateOf
    <2>4. quarter' \in Int
      BY <1>1, OutcomesStep, OutcomesAssumption DEF OutcomesInv
    <2> QED BY <1>1, <2>2, <2>3, <2>4, WindowsWait
  <1> QED BY <1>1, OutcomesInvariant, PTL DEF OutcomesSpec, FollowUpsKeepTheirQuarter
-----------------------------------------------------------------------------
(* Regions. *)

DefinitionRow == [from: 0..LastDate, counties: SUBSET County]

RedefinerState ==
    {NotDefining} \cup [at: {"defining"}, row: DefinitionRow, seen: SUBSET DefinitionRow]

\* What a call is about to insert takes effect after all it read, which is still there.
RedefinerHonest(call) ==
    call.at = "defining" =>
        /\ call.seen # {} /\ call.seen \subseteq regions
        /\ \A d \in call.seen : d.from < call.row.from

\* Definitions have the shape of the code, each date has one, and calls are honest.
RegionsInv ==
    /\ regions \subseteq DefinitionRow /\ regions # {}
    /\ redefiners \in [Redefiner -> RedefinerState]
    /\ \A d, e \in regions : d.from = e.from => d = e
    /\ \A r \in Redefiner : RedefinerHonest(redefiners[r])

\* Dates are bounded, so some definition is the latest.
LEMMA LatestIsLatest ==
    ASSUME NEW defs \in SUBSET DefinitionRow, defs # {}
    PROVE  Latest(defs) \in defs /\ \A e \in defs : e.from <= Latest(defs).from
  <1> DEFINE ToGo == {LastDate - d.from : d \in defs}
             R == OpToRel(<, Nat)
  <1>1. ToGo \subseteq Nat /\ ToGo # {}
    BY RegionsAssumption DEF DefinitionRow
  <1>2. IsWellFoundedOn(R, Nat)
    BY NatLessThanWellFounded, Zenon
  <1>3. PICK n \in ToGo : \A m \in ToGo : ~ (<<m, n>> \in R)
    <2> HIDE DEF ToGo, R
    <2> QED BY <1>1, <1>2, WFMin
  <1>4. ASSUME NEW m \in ToGo PROVE n <= m
    <2>1. n \in Nat /\ m \in Nat
      BY <1>1
    <2>2. ~ (m < n)
      BY <1>3, <2>1 DEF OpToRel
    <2> QED BY <2>1, <2>2
  <1>5. PICK d \in defs : n = LastDate - d.from
    OBVIOUS
  <1>6. \A e \in defs : e.from <= d.from
    <2> SUFFICES ASSUME NEW e \in defs PROVE e.from <= d.from
      OBVIOUS
    <2>1. n <= LastDate - e.from
      BY <1>4
    <2> QED BY <1>5, <2>1, RegionsAssumption DEF DefinitionRow
  <1>7. \E e \in defs : \A f \in defs : f.from <= e.from
    BY <1>6
  <1> QED BY <1>7, Zenon DEF Latest

\* Every step preserves it: a call's date is later than the latest it read, and a date
\* that is taken is not defined again.
LEMMA RegionsStep == RegionsInv /\ [RegionsNext]_regionVars => RegionsInv'
  <1> SUFFICES ASSUME RegionsInv, [RegionsNext]_regionVars PROVE RegionsInv'
    OBVIOUS
  <1>1. CASE UNCHANGED regionVars
    BY <1>1 DEF regionVars, RegionsInv, RedefinerHonest
  <1>2. ASSUME NEW r \in Redefiner, BeginRedefinition(r) PROVE RegionsInv'
    <2>1. PICK from \in 1..LastDate, counties \in SUBSET County \ {{}} :
              /\ TakesEffectLast(from)
              /\ redefiners' = [redefiners EXCEPT ![r] =
                     [at |-> "defining", row |-> [from |-> from, counties |-> counties],
                      seen |-> regions]]
      BY <1>2 DEF BeginRedefinition
    <2> DEFINE row == [from |-> from, counties |-> counties]
               call == [at |-> "defining", row |-> row, seen |-> regions]
    <2>2. row \in DefinitionRow
      BY RegionsAssumption DEF DefinitionRow
    <2>3. call \in RedefinerState
      BY <2>2 DEF RedefinerState, RegionsInv
    <2>4. \A d \in regions : d.from < from
      <3>1. Latest(regions) \in regions /\ \A d \in regions : d.from <= Latest(regions).from
        BY LatestIsLatest DEF RegionsInv
      <3> QED BY <2>1, <3>1, RegionsAssumption DEF TakesEffectLast, RegionsInv, DefinitionRow
    <2>5. UNCHANGED regions /\ redefiners' = [redefiners EXCEPT ![r] = call]
      BY <1>2, <2>1 DEF BeginRedefinition
    <2>6. RedefinerHonest(call)
      BY <2>4 DEF RedefinerHonest, RegionsInv
    <2> HIDE DEF call
    <2> QED BY <2>3, <2>5, <2>6 DEF RegionsInv, RedefinerHonest
  <1>3. ASSUME NEW r \in Redefiner, InsertDefinition(r) PROVE RegionsInv'
    <2>1. redefiners[r].row \in DefinitionRow
      BY <1>3 DEF InsertDefinition, RegionsInv, RedefinerState, NotDefining
    <2>2. redefiners' = [redefiners EXCEPT ![r] = NotDefining]
          /\ regions' = IF DateFree(redefiners[r].row) THEN regions \cup {redefiners[r].row}
                        ELSE regions
      BY <1>3 DEF InsertDefinition
    <2>3. regions \subseteq regions' /\ regions' \subseteq DefinitionRow
          /\ \A d, e \in regions' : d.from = e.from => d = e
      BY <2>1, <2>2 DEF RegionsInv, DateFree
    <2>4. NotDefining \in RedefinerState /\ NotDefining.at # "defining"
      BY DEF RedefinerState, NotDefining
    <2>5. \A s \in Redefiner : RedefinerHonest(redefiners[s])'
      BY <2>2, <2>3, <2>4 DEF RegionsInv, RedefinerHonest
    <2> QED BY <2>2, <2>3, <2>4, <2>5 DEF RegionsInv
  <1> QED BY <1>1, <1>2, <1>3 DEF RegionsNext

\* Each date has one definition of a market, and a definition about to be inserted is
\* later than every one its call read.
THEOREM RegionsInvariant == RegionsSpec => []RegionsInv
  <1>1. RegionsInit => RegionsInv
    <2> SUFFICES ASSUME RegionsInit PROVE RegionsInv
      OBVIOUS
    <2>1. PICK first \in County : first = CHOOSE c \in County : TRUE
      BY RegionsAssumption
    <2>2. regions = {[from |-> 0, counties |-> {first}]}
      BY <2>1 DEF RegionsInit
    <2>3. [from |-> 0, counties |-> {first}] \in DefinitionRow
      BY RegionsAssumption DEF DefinitionRow
    <2>4. NotDefining \in RedefinerState /\ NotDefining.at # "defining"
      BY DEF RedefinerState, NotDefining
    <2> QED BY <2>2, <2>3, <2>4 DEF RegionsInit, RegionsInv, RedefinerHonest
  <1> QED BY <1>1, RegionsStep, PTL DEF RegionsSpec

\* The definitions keep their shape.
THEOREM RegionsTyped == RegionsSpec => []RegionsTypeOK
  <1>1. RegionsInv => RegionsTypeOK
    BY DEF RegionsInv, RegionsTypeOK, DefinitionRow
  <1> QED BY <1>1, RegionsInvariant, PTL

\* A redefinition changes the verdict of a boundary already replaced only when that
\* boundary was inserted by another redefinition after this one had read the history
\* (redefineBlockReason, inRegion, regionInForce).
THEOREM SupersededVerdictsStay == RegionsSpec => SupersededVerdictsStand
  <1>1. ASSUME RegionsInv, [RegionsNext]_regionVars, NEW r \in Redefiner,
               redefiners[r].at = "defining", redefiners'[r] # redefiners[r],
               NEW job \in Job, InRegion(job)' # InRegion(job),
               RegionInForce(job.at) \in redefiners[r].seen
        PROVE  RegionInForce(job.at) = Latest(redefiners[r].seen)
    <2> DEFINE row == redefiners[r].row
               seen == redefiners[r].seen
               Until(defs) == {d \in defs : d.from <= job.at}
               judge == RegionInForce(job.at)
    <2>1. regions' = regions \/ regions' = regions \cup {row}
      BY <1>1 DEF RegionsNext, BeginRedefinition, InsertDefinition, regionVars, NotDefining,
                  RegionsInv
    <2>2. Until(regions') # Until(regions)
      <3> SUFFICES ASSUME Until(regions') = Until(regions) PROVE FALSE
        OBVIOUS
      <3>1. RegionInForce(job.at)' = RegionInForce(job.at)
        BY DEF RegionInForce
      <3> QED BY <1>1, <3>1 DEF InRegion
    <2>3. row.from <= job.at
      BY <2>1, <2>2
    <2>4. /\ seen \in SUBSET DefinitionRow /\ seen # {} /\ seen \subseteq regions
          /\ row \in DefinitionRow /\ \A d \in seen : d.from < row.from
      BY <1>1 DEF RegionsInv, RedefinerState, RedefinerHonest, NotDefining
    <2>5. Latest(seen) \in seen /\ \A e \in seen : e.from <= Latest(seen).from
      BY <2>4, LatestIsLatest
    <2>6. job.at \in Int
      BY RegionsAssumption DEF Job
    <2>7. Latest(seen).from <= job.at
      BY <2>3, <2>4, <2>5, <2>6, RegionsAssumption DEF DefinitionRow
    <2>8. Latest(seen) \in Until(regions)
      BY <2>4, <2>5, <2>7
    <2>9. judge \in Until(regions) /\ \A e \in Until(regions) : e.from <= judge.from
      <3>1. Until(regions) \in SUBSET DefinitionRow /\ Until(regions) # {}
        BY <1>1, <2>8 DEF RegionsInv
      <3> QED BY <3>1, LatestIsLatest DEF RegionInForce
    <2>10. judge.from <= Latest(seen).from /\ Latest(seen).from <= judge.from
      BY <1>1, <2>5, <2>8, <2>9
    <2>11. judge.from = Latest(seen).from
      BY <1>1, <2>4, <2>5, <2>10, RegionsAssumption DEF DefinitionRow
    <2> QED BY <1>1, <2>4, <2>5, <2>9, <2>11 DEF RegionsInv
  <1>2. RegionsInv /\ [RegionsNext]_regionVars =>
            [\A r \in Redefiner : redefiners[r].at = "defining" /\ redefiners'[r] # redefiners[r] =>
                 \A job \in Job : InRegion(job)' # InRegion(job) =>
                     LET judge == RegionInForce(job.at)
                         seen == redefiners[r].seen
                     IN judge = Latest(seen) \/ judge \notin seen]_regionVars
    BY <1>1
  <1> QED BY <1>2, RegionsInvariant, PTL DEF RegionsSpec, SupersededVerdictsStand
-----------------------------------------------------------------------------
(* Credit. *)

\* Induction up to a bound, over a set: a set that has 0 and, below the bound, whatever
\* comes next has every number up to it.
LEMMA Reaches ==
    ASSUME NEW top \in Nat, NEW S, 0 \in S, \A n \in 1..top : n - 1 \in S => n \in S
    PROVE  0..top \subseteq S
  <1> DEFINE Bad == (0..top) \ S
             R == OpToRel(<, Nat)
  <1> SUFFICES ASSUME Bad # {} PROVE FALSE
    OBVIOUS
  <1>1. Bad \subseteq Nat
    OBVIOUS
  <1>2. IsWellFoundedOn(R, Nat)
    BY NatLessThanWellFounded, Zenon
  <1>3. PICK m \in Bad : \A k \in Bad : ~ (<<k, m>> \in R)
    <2> HIDE DEF Bad, R
    <2> QED BY <1>1, <1>2, WFMin
  <1>4. m \in 1..top /\ m - 1 \in Nat /\ m - 1 < m
    OBVIOUS
  <1>5. m - 1 \notin Bad
    BY <1>1, <1>3, <1>4 DEF OpToRel
  <1> QED BY <1>4, <1>5

\* The sums of the first numbers of h, up to the n-th.
IsSums(h, t, n) == /\ t \in [0..n -> Nat] /\ t[0] = 0
                   /\ \A i \in 1..n : t[i] = t[i - 1] + h[i]

\* There is such a function.
LEMMA SumsExist ==
    ASSUME NEW h \in Seq(Nat)
    PROVE  \E t \in [0..Len(h) -> Nat] : IsSums(h, t, Len(h))
  <1> DEFINE Good(n) == \E t \in [0..n -> Nat] : IsSums(h, t, n)
             Goods == {n \in 0..Len(h) : Good(n)}
  <1>1. Len(h) \in Nat /\ \A i \in 1..Len(h) : h[i] \in Nat
    OBVIOUS
  <1>2. Good(0)
    <2> DEFINE t == [i \in 0..0 |-> 0]
    <2>1. t \in [0..0 -> Nat] /\ t[0] = 0
      OBVIOUS
    <2> HIDE DEF t
    <2>2. IsSums(h, t, 0)
      BY <2>1 DEF IsSums
    <2> QED BY <2>1, <2>2
  <1>3. ASSUME NEW n \in 1..Len(h), Good(n - 1) PROVE Good(n)
    <2>1. PICK t \in [0..n - 1 -> Nat] : IsSums(h, t, n - 1)
      BY <1>3
    <2> DEFINE u == [i \in 0..n |-> IF i = n THEN t[n - 1] + h[n] ELSE t[i]]
    <2>2. n - 1 \in 0..n - 1 /\ n \in Nat /\ n # 0 /\ h[n] \in Nat
      BY <1>1
    <2>3. t[n - 1] + h[n] \in Nat
      BY <2>2
    <2>4. u \in [0..n -> Nat]
      BY <2>2, <2>3
    <2>5. u[0] = 0
      BY <2>1, <2>2 DEF IsSums
    <2>6. ASSUME NEW i \in 1..n PROVE u[i] = u[i - 1] + h[i]
      <3>1. CASE i = n
        BY <2>2, <3>1
      <3>2. CASE i # n
        <4>1. i \in 1..n - 1 /\ i - 1 \in 0..n - 1 /\ i \in 0..n /\ i - 1 \in 0..n /\ i - 1 # n
          BY <2>2, <3>2
        <4> QED BY <2>1, <3>2, <4>1 DEF IsSums
      <3> QED BY <3>1, <3>2
    <2> HIDE DEF u
    <2>7. IsSums(h, u, n)
      BY <2>4, <2>5, <2>6 DEF IsSums
    <2> QED BY <2>4, <2>7
  <1> HIDE DEF Good
  <1>4. 0 \in Goods /\ \A n \in 1..Len(h) : n - 1 \in Goods => n \in Goods
    BY <1>1, <1>2, <1>3
  <1>5. 0..Len(h) \subseteq Goods
    <2> HIDE DEF Goods
    <2> QED BY <1>1, <1>4, Reaches
  <1>6. Good(Len(h))
    BY <1>1, <1>5
  <1> QED BY <1>6 DEF Good

\* And the recursive definition is that function.
LEMMA SumsAre ==
    ASSUME NEW h \in Seq(Nat)
    PROVE  IsSums(h, Sums(h), Len(h))
  <1> DEFINE P(t) == t = [n \in 0..Len(h) |-> IF n = 0 THEN 0 ELSE t[n - 1] + h[n]]
  <1>1. Len(h) \in Nat
    OBVIOUS
  <1>2. PICK t \in [0..Len(h) -> Nat] : IsSums(h, t, Len(h))
    BY SumsExist
  <1>3. P(t)
    BY <1>1, <1>2 DEF IsSums
  <1>4. Sums(h) = CHOOSE u : P(u)
    BY DEF Sums
  <1>5. P(Sums(h))
    <2> HIDE DEF P
    <2> QED BY <1>3, <1>4
  <1> DEFINE sums == Sums(h)
             Nats == {n \in 0..Len(h) : sums[n] \in Nat}
  <1> HIDE DEF sums
  <1>6. sums = [n \in 0..Len(h) |-> IF n = 0 THEN 0 ELSE sums[n - 1] + h[n]]
    BY <1>5 DEF sums
  <1>7. sums[0] = 0 /\ \A n \in 1..Len(h) : sums[n] = sums[n - 1] + h[n]
    BY <1>1, <1>6
  <1>8. 0 \in Nats /\ \A n \in 1..Len(h) : n - 1 \in Nats => n \in Nats
    BY <1>1, <1>7
  <1>9. 0..Len(h) \subseteq Nats
    <2> HIDE DEF Nats
    <2> QED BY <1>1, <1>8, Reaches
  <1> QED BY <1>6, <1>7, <1>9 DEF IsSums, sums

\* Term by term at least k times as much is k times as much in all.
LEMMA SumsCompare ==
    ASSUME NEW k \in Nat, NEW a \in Seq(Nat), NEW b \in Seq(Nat), Len(a) = Len(b),
           \A n \in 1..Len(a) : a[n] * k <= b[n]
    PROVE  Total(a) \in Nat /\ Total(b) \in Nat /\ Total(a) * k <= Total(b)
  <1> DEFINE sa == Sums(a)
             sb == Sums(b)
             top == Len(a)
             Below == {n \in 0..top : sa[n] * k <= sb[n]}
  <1>1. IsSums(a, sa, top) /\ IsSums(b, sb, top) /\ top \in Nat
    BY SumsAre
  <1>2. /\ sa \in [0..top -> Nat] /\ sb \in [0..top -> Nat] /\ sa[0] = 0 /\ sb[0] = 0
        /\ \A n \in 1..top : sa[n] = sa[n - 1] + a[n] /\ sb[n] = sb[n - 1] + b[n]
    BY <1>1 DEF IsSums
  <1>3. \A n \in 1..top : a[n] \in Nat /\ b[n] \in Nat /\ a[n] * k <= b[n]
    OBVIOUS
  <1> HIDE DEF sa, sb, top
  <1>4. \A x, y \in Nat : (x + y) * k = x * k + y * k
    OBVIOUS
  <1>5. ASSUME NEW n \in 1..top, n - 1 \in Below PROVE n \in Below
    <2>1. n - 1 \in 0..top /\ sa[n - 1] \in Nat /\ sb[n - 1] \in Nat /\ n \in 0..top
      BY <1>1, <1>2
    <2>2. PICK x \in Nat, y \in Nat, c \in Nat, d \in Nat :
              x = sa[n - 1] /\ y = sb[n - 1] /\ c = a[n] /\ d = b[n]
      BY <1>3, <2>1
    <2>3. sa[n] = x + c /\ sb[n] = y + d
      BY <1>2, <2>2
    <2>4. (x + c) * k = x * k + c * k
      BY <1>4
    <2>5. x * k <= y /\ c * k <= d
      <3>1. sa[n - 1] * k <= sb[n - 1]
        BY <1>5
      <3>2. a[n] * k <= b[n]
        BY <1>3
      <3> QED BY <2>2, <3>1, <3>2
    <2>6. (x + c) * k <= y + d
      <3>1. PICK xk \in Nat, ck \in Nat : xk = x * k /\ ck = c * k
        OBVIOUS
      <3>2. xk + ck <= y + d
        BY <2>5, <3>1
      <3> QED BY <2>4, <3>1, <3>2
    <2> QED BY <2>1, <2>3, <2>6
  <1>6. 0 \in Below
    BY <1>1, <1>2
  <1>7. 0..top \subseteq Below
    <2> HIDE DEF Below
    <2> QED BY <1>1, <1>5, <1>6, Reaches
  <1>8. top \in Below /\ top \in 0..top
    BY <1>1, <1>7
  <1>9. Total(a) = sa[top] /\ Total(b) = sb[top]
    BY DEF Total, sa, sb, top
  <1> QED BY <1>2, <1>8, <1>9

CompletedRow == [declared: Declared, hours: Hours]

\* The hours the awards have taken pay for their credits and for what is carried.
CreditInv ==
    /\ unclaimed \in [standard: Seq(CompletedRow), micro: Seq(Hours)]
    /\ carried \in Nat /\ awarded \in Nat /\ claimed \in Nat /\ done \in 0..MaxWork
    /\ PaidHoursWereWorked

\* Nothing is worked, claimed or carried yet.
LEMMA CreditStart == CreditInit => CreditInv
  <1> SUFFICES ASSUME CreditInit PROVE CreditInv
    OBVIOUS
  <1>1. unclaimed \in [standard: Seq(CompletedRow), micro: Seq(Hours)]
    BY DEF CreditInit
  <1>2. 0 * HoursPerCredit + 0 <= 0
    BY CreditAssumption
  <1> QED BY <1>1, <1>2, CreditAssumption DEF CreditInit, CreditInv, PaidHoursWereWorked

\* Work that is completed is work.
LEMMA CompleteKeeps == CreditInv /\ CompleteWork => CreditInv'
  <1> SUFFICES ASSUME CreditInv, CompleteWork PROVE CreditInv'
    OBVIOUS
  <1>1. PICK hours \in Hours :
            \/ unclaimed' = [unclaimed EXCEPT !.micro = Append(@, hours)]
            \/ \E declared \in Declared :
                   unclaimed' = [unclaimed EXCEPT !.standard =
                       Append(@, [declared |-> declared, hours |-> hours])]
    BY DEF CompleteWork
  <1>2. unclaimed.micro \in Seq(Hours) /\ unclaimed.standard \in Seq(CompletedRow)
    BY DEF CreditInv
  <1>3. unclaimed' \in [standard: Seq(CompletedRow), micro: Seq(Hours)]
    <2>1. CASE unclaimed' = [unclaimed EXCEPT !.micro = Append(@, hours)]
      <3> DEFINE more == Append(unclaimed.micro, hours)
      <3>1. more \in Seq(Hours)
        BY <1>2
      <3>2. unclaimed' = [unclaimed EXCEPT !.micro = more]
        BY <2>1
      <3> HIDE DEF more
      <3> QED BY <3>1, <3>2 DEF CreditInv
    <2>2. ASSUME NEW declared \in Declared,
                 unclaimed' = [unclaimed EXCEPT !.standard =
                     Append(@, [declared |-> declared, hours |-> hours])]
          PROVE  unclaimed' \in [standard: Seq(CompletedRow), micro: Seq(Hours)]
      <3> DEFINE work == [declared |-> declared, hours |-> hours]
                 more == Append(unclaimed.standard, work)
      <3>1. work \in CompletedRow
        BY DEF CompletedRow
      <3>2. more \in Seq(CompletedRow)
        <4> HIDE DEF work
        <4> QED BY <1>2, <3>1
      <3>3. unclaimed' = [unclaimed EXCEPT !.standard = more]
        BY <2>2
      <3> HIDE DEF more
      <3> QED BY <3>2, <3>3 DEF CreditInv
    <2> QED BY <1>1, <2>1, <2>2
  <1>4. done' \in 0..MaxWork /\ UNCHANGED <<carried, awarded, claimed>>
    BY CreditAssumption DEF CompleteWork, CreditInv
  <1> QED BY <1>3, <1>4 DEF CreditInv, PaidHoursWereWorked

\* The standard placements' credits are covered by their hours.
LEMMA StandardCovered ==
    ASSUME CreditInv
    PROVE  /\ StandardCredits \in Nat /\ StandardHours \in Nat
           /\ StandardCredits * HoursPerCredit <= StandardHours
  <1> DEFINE pieces == unclaimed.standard
             earned == [n \in DOMAIN pieces |-> StandardCreditsEarned(pieces[n])]
             hours  == [n \in DOMAIN pieces |-> pieces[n].hours]
  <1>1. pieces \in Seq(CompletedRow) /\ Len(pieces) \in Nat /\ DOMAIN pieces = 1..Len(pieces)
    BY DEF CreditInv
  <1>2. \A n \in 1..Len(pieces) : pieces[n] \in CompletedRow
    BY <1>1
  <1>3. ASSUME NEW d \in Nat, NEW w \in Nat
        PROVE  /\ AtMost(d, w \div HoursPerCredit) \in Nat
               /\ AtMost(d, w \div HoursPerCredit) * HoursPerCredit <= w
    <2>1. PICK k \in Nat \ {0} : k = HoursPerCredit
      BY CreditAssumption
    <2>2. w \div k \in Nat /\ (w \div k) * k <= w
      OBVIOUS
    <2>3. PICK q \in Nat : q = w \div k
      BY <2>2
    <2>4. d <= q => d * k <= q * k
      OBVIOUS
    <2> QED BY <2>1, <2>2, <2>3, <2>4 DEF AtMost
  <1>4. ASSUME NEW n \in 1..Len(pieces)
        PROVE  earned[n] \in Nat /\ hours[n] \in Nat /\ earned[n] * HoursPerCredit <= hours[n]
    <2>1. pieces[n].declared \in Nat /\ pieces[n].hours \in Nat
      BY <1>2, CreditAssumption DEF CompletedRow
    <2>2. earned[n] = AtMost(pieces[n].declared, pieces[n].hours \div HoursPerCredit)
          /\ hours[n] = pieces[n].hours
      BY <1>1 DEF StandardCreditsEarned
    <2> HIDE DEF earned, hours, pieces
    <2> QED BY <1>3, <2>1, <2>2
  <1>5. /\ earned \in Seq(Nat) /\ hours \in Seq(Nat)
        /\ Len(earned) = Len(pieces) /\ Len(hours) = Len(pieces)
    <2>1. earned \in [1..Len(pieces) -> Nat] /\ hours \in [1..Len(pieces) -> Nat]
      BY <1>1, <1>4
    <2> HIDE DEF earned, hours
    <2> QED BY <1>1, <2>1
  <1>6. StandardCredits = Total(earned) /\ StandardHours = Total(hours)
    BY DEF StandardCredits, StandardHours
  <1> HIDE DEF earned, hours, pieces
  <1> QED BY <1>4, <1>5, <1>6, SumsCompare, CreditAssumption

\* The projects an award takes pay for its credits, with what was carried; what they
\* pay too much, and no more, is carried on.
LEMMA MicroCovered ==
    ASSUME CreditInv
    PROVE  LET paid  == MicroCredits * HoursPerCredit
               n     == Consumed(paid)
               hours == Sums(unclaimed.micro)[n]
           IN  /\ MicroCredits \in Nat /\ paid \in Nat /\ hours \in Nat
               /\ n \in 0..Len(unclaimed.micro)
               /\ paid <= carried + hours
  <1> DEFINE micro == unclaimed.micro
             sums  == Sums(micro)
             all   == Len(micro)
             paid  == MicroCredits * HoursPerCredit
             Enough(n) == /\ sums[n] >= paid \/ n = all
                         /\ \A k \in 0..(n - 1) : ~(sums[k] >= paid)
             n == Consumed(paid)
  <1>1. micro \in Seq(Nat) /\ all \in Nat
    <2>1. micro \in Seq(Hours)
      BY DEF CreditInv
    <2> HIDE DEF micro
    <2>2. all \in Nat /\ micro \in [1..all -> Hours]
      BY <2>1
    <2>3. micro \in [1..all -> Nat]
      BY <2>2, CreditAssumption
    <2> QED BY <2>2, <2>3
  <1>2. sums \in [0..all -> Nat]
    BY <1>1, SumsAre DEF IsSums
  <1>3. PICK bank \in Nat : bank = carried + sums[all]
    BY <1>1, <1>2 DEF CreditInv
  <1>4. PICK k \in Nat \ {0} : k = HoursPerCredit
    BY CreditAssumption
  <1>5. MicroCredits = bank \div k
    BY <1>3, <1>4 DEF MicroCredits, Total
  <1>6. MicroCredits \in Nat /\ paid \in Nat /\ paid <= carried + sums[all]
    <2>1. bank \div k \in Nat /\ (bank \div k) * k \in Nat /\ (bank \div k) * k <= bank
      OBVIOUS
    <2> QED BY <1>3, <1>4, <1>5, <2>1
  <1> HIDE DEF paid, sums, micro, all
  <1>7. \E m \in 0..all : Enough(m)
    <2> DEFINE Waits == {m \in 0..all : \A j \in 0..m : ~(sums[j] >= paid)}
    <2>1. CASE 0 \notin Waits
      <3>1. sums[0] >= paid
        BY <1>1, <2>1
      <3> QED BY <1>1, <3>1
    <2>2. CASE \A m \in 1..all : m - 1 \in Waits => m \in Waits
      <3>1. CASE 0 \in Waits
        <4>1. 0..all \subseteq Waits
          <5> HIDE DEF Waits
          <5> QED BY <1>1, <2>2, <3>1, Reaches
        <4>2. all \in Waits
          BY <1>1, <4>1
        <4>3. Enough(all) /\ all \in 0..all
          BY <1>1, <4>2
        <4> QED BY <4>3
      <3> QED BY <2>1, <3>1
    <2>3. ASSUME NEW m \in 1..all, m - 1 \in Waits, m \notin Waits PROVE Enough(m) /\ m \in 0..all
      <3>1. \A j \in 0..m - 1 : ~(sums[j] >= paid)
        BY <2>3
      <3>2. \A j \in 0..m : j = m \/ j \in 0..m - 1
        BY <1>1
      <3>3. m \in 0..all
        BY <1>1
      <3>4. sums[m] >= paid
        BY <2>3, <3>1, <3>2, <3>3
      <3> QED BY <3>1, <3>3, <3>4
    <2> HIDE DEF Waits, Enough
    <2>4. (\A m \in 1..all : m - 1 \in Waits => m \in Waits)
          \/ \E m \in 1..all : m - 1 \in Waits /\ m \notin Waits
      OBVIOUS
    <2> QED BY <2>2, <2>3, <2>4
  <1>8. n \in 0..all /\ Enough(n)
    <2>1. n = CHOOSE m \in 0..all : Enough(m)
      BY DEF Consumed, sums, micro, all
    <2> HIDE DEF Enough, n
    <2> QED BY <1>7, <2>1
  <1> HIDE DEF n
  <1>9. sums[n] \in Nat /\ (sums[n] >= paid \/ n = all)
    BY <1>2, <1>8
  <1>10. carried \in Nat
    BY DEF CreditInv
  <1>11. paid <= carried + sums[n]
    BY <1>6, <1>9, <1>10
  <1> QED BY <1>6, <1>8, <1>9, <1>11 DEF n, paid, sums, micro, all

\* An award takes no more from the work than its credits and what it carries on.
LEMMA AwardKeeps == CreditInv /\ BuildCreditAward => CreditInv'
  <1> SUFFICES ASSUME CreditInv, BuildCreditAward PROVE CreditInv'
    OBVIOUS
  <1>1. PICK sc \in Nat, sh \in Nat : sc = StandardCredits /\ sh = StandardHours
    BY StandardCovered
  <1>2. PICK mc \in Nat, paid \in Nat :
            mc = MicroCredits /\ paid = MicroCredits * HoursPerCredit
    BY MicroCovered
  <1>3. PICK n \in 0..Len(unclaimed.micro) : n = Consumed(paid)
    BY <1>2, MicroCovered
  <1>4. PICK hours \in Nat : hours = Sums(unclaimed.micro)[n]
    BY <1>2, <1>3, MicroCovered
  <1>5. paid <= carried + hours
    BY <1>2, <1>3, <1>4, MicroCovered
  <1>6. PICK k \in Nat : k = HoursPerCredit
    BY CreditAssumption
  <1>7. sc * k <= sh /\ paid = mc * k
    BY <1>1, <1>2, <1>6, StandardCovered
  <1>8. /\ awarded' = awarded + (sc + mc)
        /\ claimed' = claimed + sh + hours
        /\ carried' = IF hours > paid THEN hours - paid ELSE 0
        /\ unclaimed' = [standard |-> <<>>,
                         micro |-> SubSeq(unclaimed.micro, n + 1, Len(unclaimed.micro))]
        /\ UNCHANGED done
    BY <1>1, <1>2, <1>3, <1>4 DEF BuildCreditAward
  <1>9. PICK a \in Nat, c \in Nat, r \in Nat : a = awarded /\ c = claimed /\ r = carried
    BY DEF CreditInv
  <1>10. a * k + r <= c
    BY <1>6, <1>9 DEF CreditInv, PaidHoursWereWorked
  <1>11. (a + (sc + mc)) * k = a * k + sc * k + paid
    <2>1. \A x, y \in Nat : (x + y) * k = x * k + y * k
      OBVIOUS
    <2>2. (a + (sc + mc)) * k = a * k + (sc + mc) * k /\ (sc + mc) * k = sc * k + mc * k
      BY <2>1
    <2>3. a * k \in Nat /\ sc * k \in Nat /\ mc * k \in Nat
      OBVIOUS
    <2> QED BY <1>7, <2>2, <2>3
  <1>12. PICK ak \in Nat, sk \in Nat : ak = a * k /\ sk = sc * k
    OBVIOUS
  <1>13. /\ carried' \in Nat /\ paid + carried' <= r + hours
    BY <1>5, <1>8, <1>9
  <1>14. ak + sk + paid + carried' <= c + sh + hours
    <2>1. ak + r <= c /\ sk <= sh
      BY <1>7, <1>10, <1>12
    <2>2. PICK left \in Nat : left = carried'
      BY <1>13
    <2>3. paid + left <= r + hours
      BY <1>13, <2>2
    <2>4. ak + sk + paid + left <= c + sh + hours
      BY <2>1, <2>3
    <2> QED BY <2>2, <2>4
  <1>15. PaidHoursWereWorked'
    <2>1. awarded' * HoursPerCredit = ak + sk + paid
      BY <1>6, <1>8, <1>9, <1>11, <1>12
    <2> QED BY <1>8, <1>9, <1>14, <2>1 DEF PaidHoursWereWorked
  <1>16. unclaimed' \in [standard: Seq(CompletedRow), micro: Seq(Hours)]
    <2> DEFINE left == SubSeq(unclaimed.micro, n + 1, Len(unclaimed.micro))
    <2>1. unclaimed.micro \in Seq(Hours) /\ Len(unclaimed.micro) \in Nat
      BY DEF CreditInv
    <2>2. left \in Seq(Hours)
      BY <2>1
    <2>3. unclaimed' = [standard |-> <<>>, micro |-> left] /\ <<>> \in Seq(CompletedRow)
      BY <1>8
    <2> HIDE DEF left
    <2> QED BY <2>2, <2>3
  <1>17. awarded' \in Nat /\ claimed' \in Nat
    BY <1>8, <1>9
  <1> QED BY <1>8, <1>13, <1>15, <1>16, <1>17 DEF CreditInv

\* No hour pays twice, over any number of awards.
THEOREM CreditInvariant == CreditSpec => []CreditInv
  <1>1. CreditInv /\ UNCHANGED creditVars => CreditInv'
    BY DEF creditVars, CreditInv, PaidHoursWereWorked
  <1>2. CreditInv /\ [CreditNext]_creditVars => CreditInv'
    BY <1>1, CompleteKeeps, AwardKeeps DEF CreditNext
  <1> QED BY <1>2, CreditStart, PTL DEF CreditSpec

\* Figures keep their shapes.
THEOREM CreditTyped == CreditSpec => []CreditTypeOK
  <1>1. CreditInv => CreditTypeOK
    <2> SUFFICES ASSUME CreditInv PROVE CreditTypeOK
      OBVIOUS
    <2>1. \A n \in DOMAIN unclaimed.micro : unclaimed.micro[n] \in Hours
      BY DEF CreditInv
    <2> QED BY <2>1 DEF CreditInv, CreditTypeOK
  <1> QED BY <1>1, CreditInvariant, PTL

\* The credits and what is carried never come to more than the work the awards have
\* taken, however work and awards come (buildCreditAward, creditProgress).
THEOREM NoHourPaysTwice == CreditSpec => []PaidHoursWereWorked
  <1>1. CreditInv => PaidHoursWereWorked
    BY DEF CreditInv
  <1> QED BY <1>1, CreditInvariant, PTL
-----------------------------------------------------------------------------
(* The limiter. *)

\* The bucket opened a window before it ends.
Opened == bucket.resetAt - Window

\* How many of the bucket's hits got through, and the place of the first of them.
Passed == IF bucket.count > Limit THEN Limit ELSE bucket.count

FirstHere == Len(granted) + 1 - Passed

\* What is in the bucket came since it opened, what came earlier before that, and what
\* is more than a bucket back before the bucket that went before.
RateLimitInv ==
    /\ now \in 1..LastTick
    /\ bucket \in [count: 0..Limit + 1, resetAt: 0..LastTick + Window]
    /\ granted \in Seq(Int)
    /\ Passed <= Len(granted)
    /\ bucket.count # 0 => Opened <= now
    /\ bucket.count = 0 => granted = <<>> /\ bucket.resetAt = 0
    /\ \A n \in 1..Len(granted) : granted[n] < bucket.resetAt
    /\ \A n \in 1..FirstHere - 1 : granted[n] < Opened
    /\ \A n \in 1..FirstHere - 1 - Limit : granted[n] < Opened - Window
    /\ GrantsInAnyWindow

\* Before the first request the bucket is over and nothing has got through.
LEMMA RateLimitStart == RateLimitInit => RateLimitInv
  BY RateLimitAssumption
     DEF RateLimitInit, RateLimitInv, Passed, FirstHere, Opened, GrantsInAnyWindow

\* One request more got through: only the window that ends with it is new.
LEMMA OneMoreGranted ==
    ASSUME NEW log \in Seq(Int), NEW t \in Int,
           \A n \in 1..Len(log) - 2 * Limit : log[n + 2 * Limit] - log[n] >= Window,
           \A n \in 1..Len(log) : n = Len(log) + 1 - 2 * Limit => t - log[n] >= Window
    PROVE  /\ Append(log, t) \in Seq(Int) /\ Len(Append(log, t)) = Len(log) + 1
           /\ \A n \in 1..Len(log) : Append(log, t)[n] = log[n]
           /\ Append(log, t)[Len(log) + 1] = t
           /\ \A n \in 1..Len(log) + 1 - 2 * Limit :
                  Append(log, t)[n + 2 * Limit] - Append(log, t)[n] >= Window
  <1> DEFINE twice == 2 * Limit
             longer == Append(log, t)
  <1>1. twice \in Nat \ {0}
    BY RateLimitAssumption
  <1>2. /\ longer \in Seq(Int) /\ Len(longer) = Len(log) + 1
        /\ \A n \in 1..Len(log) : longer[n] = log[n]
        /\ longer[Len(log) + 1] = t
    OBVIOUS
  <1>3. Len(log) \in Nat
    OBVIOUS
  <1> HIDE DEF twice, longer
  <1>4. ASSUME NEW n \in 1..Len(log) + 1 - twice
        PROVE  longer[n + twice] - longer[n] >= Window
    <2>1. CASE n + twice = Len(log) + 1
      <3>1. n \in 1..Len(log) /\ n = Len(log) + 1 - twice
        BY <1>1, <1>3, <2>1
      <3> QED BY <1>2, <2>1, <3>1 DEF twice
    <2>2. CASE n + twice # Len(log) + 1
      <3>1. n \in 1..Len(log) - twice /\ n \in 1..Len(log) /\ n + twice \in 1..Len(log)
        BY <1>1, <1>3, <2>2
      <3> QED BY <1>2, <3>1 DEF twice
    <2> QED BY <2>1, <2>2
  <1> QED BY <1>2, <1>4 DEF twice, longer

\* Time changes nothing but how late it is.
LEMMA TickKeeps == RateLimitInv /\ Tick => RateLimitInv'
  <1> SUFFICES ASSUME RateLimitInv, Tick PROVE RateLimitInv'
    OBVIOUS
  <1>1. UNCHANGED <<bucket, granted>> /\ now' = now + 1 /\ now' \in 1..LastTick
    BY RateLimitAssumption DEF Tick, RateLimitInv
  <1>2. UNCHANGED <<Passed, FirstHere, Opened>> /\ (GrantsInAnyWindow => GrantsInAnyWindow')
    BY <1>1 DEF Passed, FirstHere, Opened, GrantsInAnyWindow
  <1>3. bucket.count # 0 => Opened <= now'
    BY <1>1, RateLimitAssumption DEF RateLimitInv, Opened
  <1> QED BY <1>1, <1>2, <1>3 DEF RateLimitInv

\* The first hit after a bucket has ended opens the next, and gets through: what went
\* through before is at least a window older than the end of that one.
LEMMA OpeningKeeps == RateLimitInv /\ Request /\ bucket.resetAt <= now => RateLimitInv'
  <1> SUFFICES ASSUME RateLimitInv, Request, bucket.resetAt <= now PROVE RateLimitInv'
    OBVIOUS
  <1>1. /\ bucket' = [count |-> 1, resetAt |-> now + Window] /\ now' = now
        /\ granted' = Append(granted, now)
    BY RateLimitAssumption DEF Request, HitBucket, WithinLimit
  <1>2. /\ now \in 1..LastTick /\ granted \in Seq(Int) /\ Len(granted) \in Nat
        /\ bucket.count \in 0..Limit + 1 /\ bucket.resetAt \in Nat /\ Passed <= Len(granted)
        /\ Passed \in 0..Limit
    BY RateLimitAssumption DEF RateLimitInv, Passed
  <1>3. \A n \in 1..Len(granted) : granted[n] \in Int /\ granted[n] < bucket.resetAt
    BY <1>2 DEF RateLimitInv
  <1>4. \A n \in 1..Len(granted) - Limit : granted[n] < Opened
    <2>1. \A n \in 1..Len(granted) - Limit : n \in 1..FirstHere - 1
      BY <1>2, RateLimitAssumption DEF FirstHere
    <2> QED BY <2>1 DEF RateLimitInv
  <1>5. ASSUME NEW n \in 1..Len(granted), n = Len(granted) + 1 - 2 * Limit
        PROVE  now - granted[n] >= Window
    <2>1. n \in 1..Len(granted) - Limit
      BY <1>2, <1>5, RateLimitAssumption
    <2> QED BY <1>2, <1>3, <1>4, <2>1, RateLimitAssumption DEF Opened
  <1>6. /\ granted' \in Seq(Int) /\ Len(granted') = Len(granted) + 1
        /\ \A n \in 1..Len(granted) : granted'[n] = granted[n]
        /\ granted'[Len(granted) + 1] = now
        /\ GrantsInAnyWindow'
    <2> DEFINE longer == Append(granted, now)
    <2>1. \A n \in 1..Len(granted) - 2 * Limit :
              granted[n + 2 * Limit] - granted[n] >= Window
      BY DEF RateLimitInv, GrantsInAnyWindow
    <2>2. now \in Int
      BY <1>2
    <2>3. /\ longer \in Seq(Int) /\ Len(longer) = Len(granted) + 1
          /\ \A n \in 1..Len(granted) : longer[n] = granted[n]
          /\ longer[Len(granted) + 1] = now
          /\ \A n \in 1..Len(granted) + 1 - 2 * Limit :
                 longer[n + 2 * Limit] - longer[n] >= Window
      BY <1>2, <1>5, <2>1, <2>2, OneMoreGranted
    <2>4. granted' = longer
      BY <1>1
    <2> HIDE DEF longer
    <2> QED BY <1>2, <2>3, <2>4, RateLimitAssumption DEF GrantsInAnyWindow
  <1>7. /\ bucket' \in [count: 0..Limit + 1, resetAt: 0..LastTick + Window]
        /\ bucket'.count = 1 /\ bucket'.resetAt = now + Window
    BY <1>1, <1>2, RateLimitAssumption
  <1>8. Passed' = 1 /\ FirstHere' = Len(granted) + 1 /\ Opened' = now
    BY <1>2, <1>6, <1>7, RateLimitAssumption DEF Passed, FirstHere, Opened
  <1>9. ASSUME NEW n \in 1..Len(granted) + 1
        PROVE  granted'[n] < now + Window
    <2>1. n = Len(granted) + 1 \/ n \in 1..Len(granted)
      BY <1>2
    <2>2. CASE n = Len(granted) + 1
      BY <1>2, <1>6, <2>2, RateLimitAssumption
    <2>3. CASE n \in 1..Len(granted)
      <3>1. granted'[n] = granted[n] /\ granted[n] \in Int /\ granted[n] < bucket.resetAt
        BY <1>3, <1>6, <2>3
      <3> QED BY <1>2, <3>1, RateLimitAssumption
    <2> QED BY <2>1, <2>2, <2>3
  <1>10. \A n \in 1..Len(granted) : granted'[n] < now
    BY <1>2, <1>3, <1>6
  <1>11. \A n \in 1..Len(granted) - Limit : granted'[n] < now - Window
    <2>1. ASSUME NEW n \in 1..Len(granted) - Limit PROVE granted'[n] < now - Window
      <3>1. n \in 1..Len(granted)
        BY <1>2, RateLimitAssumption
      <3>2. granted'[n] = granted[n] /\ granted[n] \in Int /\ granted[n] < Opened
        BY <1>3, <1>4, <1>6, <3>1
      <3> QED BY <1>2, <3>2, RateLimitAssumption DEF Opened
    <2> QED BY <2>1
  <1>12. /\ Passed' <= Len(granted') /\ Opened' <= now' /\ bucket'.count # 0
    BY <1>1, <1>2, <1>6, <1>7, <1>8
  <1>13. \A n \in 1..Len(granted') : granted'[n] < bucket'.resetAt
    BY <1>6, <1>7, <1>9
  <1>14. \A n \in 1..FirstHere' - 1 : granted'[n] < Opened'
    BY <1>2, <1>8, <1>10
  <1>15. \A n \in 1..FirstHere' - 1 - Limit : granted'[n] < Opened' - Window
    BY <1>2, <1>8, <1>11, RateLimitAssumption
  <1> QED BY <1>1, <1>2, <1>6, <1>7, <1>12, <1>13, <1>14, <1>15 DEF RateLimitInv

\* A hit in the bucket's time is counted, and gets through while the count allows it:
\* what is two limits back is from before the bucket that went before.
LEMMA CountingKeeps == RateLimitInv /\ Request /\ bucket.resetAt > now => RateLimitInv'
  <1> SUFFICES ASSUME RateLimitInv, Request, bucket.resetAt > now PROVE RateLimitInv'
    OBVIOUS
  <1> DEFINE count == IF bucket.count > Limit THEN bucket.count ELSE bucket.count + 1
  <1>1. /\ now \in 1..LastTick /\ granted \in Seq(Int) /\ Len(granted) \in Nat
        /\ bucket.count \in 0..Limit + 1 /\ bucket.resetAt \in 0..LastTick + Window
        /\ Passed <= Len(granted) /\ Passed \in 0..Limit /\ count \in 1..Limit + 1
    BY RateLimitAssumption DEF RateLimitInv, Passed
  <1>2. bucket.count # 0
    BY <1>1 DEF RateLimitInv
  <1>3. /\ bucket' \in [count: 0..Limit + 1, resetAt: 0..LastTick + Window]
        /\ bucket'.count = count /\ bucket'.resetAt = bucket.resetAt /\ now' = now
        /\ bucket' = HitBucket
    <2>1. bucket' = [bucket EXCEPT !.count = count] /\ now' = now /\ bucket' = HitBucket
      BY <1>1 DEF Request, HitBucket
    <2> HIDE DEF count
    <2> QED BY <1>1, <2>1, RateLimitAssumption DEF RateLimitInv
  <1>4. Opened' = Opened /\ Opened <= now /\ Opened \in Int
    BY <1>1, <1>2, <1>3, RateLimitAssumption DEF RateLimitInv, Opened
  <1>5. CASE count <= Limit
    <2>1. granted' = Append(granted, now)
      BY <1>3, <1>5 DEF Request, WithinLimit
    <2>2. Passed = bucket.count /\ count = bucket.count + 1
      BY <1>1, <1>5, RateLimitAssumption DEF Passed
    <2>3. \A n \in 1..Len(granted) : granted[n] \in Int /\ granted[n] < bucket.resetAt
      BY <1>1 DEF RateLimitInv
    <2>4. ASSUME NEW n \in 1..Len(granted), n = Len(granted) + 1 - 2 * Limit
          PROVE  now - granted[n] >= Window
      <3>1. n <= FirstHere - 1 - Limit /\ FirstHere - 1 - Limit \in Int
        <4> DEFINE len == Len(granted)
                   n2  == 2 * Limit
        <4>1. len \in Nat /\ Passed \in Nat /\ Passed + 1 <= Limit /\ Limit \in Nat
              /\ FirstHere = len + 1 - Passed /\ n2 = Limit + Limit /\ n = len + 1 - n2
          BY <1>1, <1>5, <2>2, <2>4, RateLimitAssumption DEF FirstHere
        <4> HIDE DEF len, n2
        <4> QED BY <4>1
      <3>2. granted[n] < Opened - Window
        BY <1>1, <3>1 DEF RateLimitInv
      <3> QED BY <1>1, <1>4, <2>3, <3>2, RateLimitAssumption
    <2>5. /\ granted' \in Seq(Int) /\ Len(granted') = Len(granted) + 1
          /\ \A n \in 1..Len(granted) : granted'[n] = granted[n]
          /\ granted'[Len(granted) + 1] = now
          /\ GrantsInAnyWindow'
      <3> DEFINE longer == Append(granted, now)
                 twice  == 2 * Limit
      <3>1. \A n \in 1..Len(granted) - 2 * Limit :
                granted[n + 2 * Limit] - granted[n] >= Window
        BY DEF RateLimitInv, GrantsInAnyWindow
      <3>2. now \in Int
        BY <1>1
      <3>3. /\ longer \in Seq(Int) /\ Len(longer) = Len(granted) + 1
            /\ \A n \in 1..Len(granted) : longer[n] = granted[n]
            /\ longer[Len(granted) + 1] = now
            /\ \A n \in 1..Len(granted) + 1 - 2 * Limit :
                   longer[n + 2 * Limit] - longer[n] >= Window
        BY <1>1, <2>4, <3>1, <3>2, OneMoreGranted
      <3>4. granted' = longer
        BY <2>1
      <3> HIDE DEF longer, count
      <3>5. GrantsInAnyWindow'
        <4>1. Len(longer) = Len(granted) + 1
              /\ \A n \in 1..Len(granted) + 1 - twice : longer[n + twice] - longer[n] >= Window
          BY <3>3
        <4>0. Len(granted) \in Nat /\ twice \in Nat
          BY <1>1, RateLimitAssumption
        <4> HIDE DEF twice
        <4>2. \A n \in 1..Len(longer) - twice : longer[n + twice] - longer[n] >= Window
          BY <4>0, <4>1
        <4> QED BY <3>4, <4>2 DEF GrantsInAnyWindow, twice
      <3> QED BY <3>3, <3>4, <3>5
    <2>6. Passed' = Passed + 1 /\ FirstHere' = FirstHere
      <3>1. Passed' = count
        BY <1>3, <1>5, <2>2, RateLimitAssumption DEF Passed
      <3>2. Passed' = Passed + 1
        BY <2>2, <3>1
      <3> QED BY <1>1, <2>5, <3>2 DEF FirstHere
    <2>7. ASSUME NEW n \in 1..Len(granted) + 1
          PROVE  granted'[n] < bucket.resetAt
      <3>1. n = Len(granted) + 1 \/ n \in 1..Len(granted)
        BY <1>1
      <3>2. CASE n = Len(granted) + 1
        BY <2>5, <3>2
      <3>3. CASE n \in 1..Len(granted)
        BY <2>3, <2>5, <3>3
      <3> QED BY <3>1, <3>2, <3>3
    <2>8. FirstHere - 1 \in 0..Len(granted) /\ FirstHere - 1 - Limit <= Len(granted)
          /\ FirstHere - 1 - Limit \in Int
      BY <1>1, RateLimitAssumption DEF FirstHere
    <2>9. /\ \A n \in 1..FirstHere - 1 : n \in 1..Len(granted) /\ granted[n] < Opened
          /\ \A n \in 1..FirstHere - 1 - Limit :
                 n \in 1..Len(granted) /\ granted[n] < Opened - Window
      BY <1>1, <2>8 DEF RateLimitInv
    <2>10. /\ \A n \in 1..FirstHere - 1 : granted'[n] < Opened
           /\ \A n \in 1..FirstHere - 1 - Limit : granted'[n] < Opened - Window
      BY <2>5, <2>9
    <2>11. Passed' <= Len(granted') /\ bucket'.count # 0
      BY <1>1, <1>3, <2>5, <2>6
    <2> HIDE DEF count
    <2> QED BY <1>1, <1>3, <1>4, <2>5, <2>6, <2>7, <2>10, <2>11 DEF RateLimitInv
  <1>6. CASE count > Limit
    <2>1. granted' = granted
      BY <1>1, <1>3, <1>6, RateLimitAssumption DEF Request, WithinLimit
    <2>2. Passed' = Passed
      BY <1>1, <1>3, <1>6, RateLimitAssumption DEF Passed
    <2>3. FirstHere' = FirstHere /\ GrantsInAnyWindow'
      BY <2>1, <2>2 DEF FirstHere, GrantsInAnyWindow, RateLimitInv
    <2>4. bucket'.count # 0
      BY <1>1, <1>3
    <2> HIDE DEF count
    <2> QED BY <1>3, <1>4, <2>1, <2>2, <2>3, <2>4 DEF RateLimitInv
  <1> QED BY <1>1, <1>5, <1>6, RateLimitAssumption

\* Every step of the limiter preserves its invariant.
LEMMA RateLimitStep == RateLimitInv /\ [RateLimitNext]_rateVars => RateLimitInv'
  <1>1. RateLimitInv /\ UNCHANGED rateVars => RateLimitInv'
    BY DEF rateVars, RateLimitInv, Passed, FirstHere, Opened, GrantsInAnyWindow
  <1>2. RateLimitInv => bucket.resetAt <= now \/ bucket.resetAt > now
    BY DEF RateLimitInv
  <1> QED BY <1>1, <1>2, TickKeeps, OpeningKeeps, CountingKeeps DEF RateLimitNext

\* Where the grants stand among the buckets, for any limit, window and requests.
THEOREM RateLimitInvariant == RateLimitSpec => []RateLimitInv
  BY RateLimitStart, RateLimitStep, PTL DEF RateLimitSpec

\* The bucket keeps its shape.
THEOREM RateLimitTyped == RateLimitSpec => []RateLimitTypeOK
  <1>1. RateLimitInv => RateLimitTypeOK
    BY DEF RateLimitInv, RateLimitTypeOK
  <1> QED BY <1>1, RateLimitInvariant, PTL

\* In any stretch as long as a window, across two buckets too, at most twice the limit
\* gets through, whatever the limit and the window (hit, checkRateLimit).
THEOREM TwiceTheLimitAtMost == RateLimitSpec => []GrantsInAnyWindow
  <1>1. RateLimitInv => GrantsInAnyWindow
    BY DEF RateLimitInv
  <1> QED BY <1>1, RateLimitInvariant, PTL
-----------------------------------------------------------------------------
(* Who is shown what. *)

\* A reader as sessions make them: only an administrator's chooses a world.
Session == {a \in Actor : a.role # "admin" => ~a.demo /\ ~a.everywhere}

\* The two ways of writing the market agree.
LEMMA SameMarket ==
    ASSUME NEW a \in Session, NEW r
    PROVE  InScope(a, r) <=> MarketScope(a, r)
  <1>1. a.demo \in BOOLEAN /\ a.everywhere \in BOOLEAN
    BY DEF Session, Actor
  <1>2. CASE a.role = "admin" /\ a.everywhere
    BY <1>2 DEF InScope, MarketScope
  <1>3. CASE a.role = "admin" /\ ~a.everywhere
    <2>1. ((r.place \in Showcase) = a.demo) <=> (r.place \in Showcase <=> a.demo)
      <3>1. PICK demo \in BOOLEAN : demo = a.demo
        BY <1>1
      <3>2. ((r.place \in Showcase) = demo) <=> (r.place \in Showcase <=> demo)
        BY SMT
      <3> QED BY <3>1, <3>2
    <2>2. InScope(a, r) <=> ((r.place \in Showcase) = a.demo)
      BY <1>3 DEF InScope
    <2>3. MarketScope(a, r) <=> (r.place \in Showcase <=> a.demo)
      BY <1>3 DEF MarketScope
    <2> QED BY <2>1, <2>2, <2>3
  <1>4. CASE a.role # "admin"
    BY <1>4 DEF InScope, MarketScope
  <1> QED BY <1>1, <1>2, <1>3, <1>4

\* The WHERE clauses of every table select what its filter shows, and blank what it blanks.
LEMMA SameRow ==
    ASSUME NEW a \in Session, NEW r \in Row
    PROVE  FromPostgres(a, r) = FromMemory(a, r)
  <1> DEFINE market == MarketScope(a, r)
             host   == r.host = a.org
             self   == r.learner = a.user
  <1>1. InScope(a, r) <=> market
    BY SameMarket
  <1>2. a.role \in {"student", "business", "college", "board", "admin"}
    BY DEF Session, Actor, Role
  <1>3. CASE r.table = "applications"
    BY <1>1, <1>2, <1>3 DEF FromPostgres, FromMemory, Selected, Blanked, ApplicationScope,
       PostingOwnershipScope, OwnRecord, VisibleApplications, ByParty, Shown
  <1>4. CASE r.table = "mentorship_pairings"
    BY <1>1, <1>2, <1>4 DEF FromPostgres, FromMemory, Selected, Blanked, ApplicationScope,
       MentorshipPairingScope, PostingOwnershipScope, OwnRecord, VisibleMentorshipPairings,
       ByParty, Shown
  <1>5. CASE r.table = "outcomes"
    BY <1>1, <1>2, <1>5 DEF FromPostgres, FromMemory, Selected, Blanked, OutcomeScope,
       OwnRecord, VisibleOutcomes, ByParty, Shown
  <1>6. CASE r.table = "host_offers"
    BY <1>1, <1>2, <1>6 DEF FromPostgres, FromMemory, Selected, Blanked, HostOfferScope,
       ApplicationScope, PostingOwnershipScope, OwnRecord, VisibleHostOffers, ByParty, Shown
  <1>7. CASE r.table = "funding_commitments"
    BY <1>1, <1>2, <1>7 DEF FromPostgres, FromMemory, Selected, Blanked, FundingCommitmentScope,
       ApplicationScope, PostingOwnershipScope, OwnRecord, VisibleCommitments, ByParty, Shown
  <1>8. CASE r.table = "deliverables"
    BY <1>1, <1>2, <1>8 DEF FromPostgres, FromMemory, Selected, Blanked, DeliverableScope,
       ApplicationScope, PostingOwnershipScope, OwnRecord, VisibleDeliverables, ByParty, Shown
  <1>9. CASE r.table = "escalations"
    BY <1>1, <1>2, <1>9 DEF FromPostgres, FromMemory, Selected, Blanked, EscalationScope,
       VisibleEscalations, Shown
  <1>10. CASE r.table = "consents"
    BY <1>1, <1>2, <1>10 DEF FromPostgres, FromMemory, Selected, Blanked, ConsentScope,
       OwnRecord, VisibleConsents, ByParty, Shown
  <1>11. CASE r.table = "students"
    BY <1>1, <1>2, <1>11 DEF FromPostgres, FromMemory, Selected, Blanked, StudentScope,
       OwnRecord, VisibleStudents, Shown
  <1>12. CASE r.table = "time_entries"
    BY <1>1, <1>2, <1>12 DEF FromPostgres, FromMemory, Selected, Blanked, TimeEntryScope,
       ApplicationScope, PostingOwnershipScope, OwnRecord, VisibleTimeEntries, ByParty, Shown
  <1>13. CASE r.table = "postings"
    BY <1>1, <1>2, <1>13 DEF FromPostgres, FromMemory, Selected, Blanked,
       PostingOwnershipScope, OwnedByActor, Shown
  <1>14. CASE r.table = "markets"
    BY <1>1, <1>2, <1>14 DEF FromPostgres, FromMemory, Selected, Blanked, OwnMarketScope, Shown
  <1>15. r.table \in Table
    BY DEF Row
  <1> HIDE DEF market, host, self
  <1> QED BY <1>3, <1>4, <1>5, <1>6, <1>7, <1>8, <1>9, <1>10, <1>11, <1>12, <1>13, <1>14, <1>15
          DEF Table

VisibilityInv == reader \in Session /\ shelf \subseteq Row

\* The reader is a session's, the rows are rows.
THEOREM VisibilityInvariant == VisibilitySpec => []VisibilityInv
  <1>1. VisibilityInit => VisibilityInv
    BY DEF VisibilityInit, VisibilityInv, Session
  <1>2. VisibilityInv /\ [VisibilityNext]_visibilityVars => VisibilityInv'
    BY DEF VisibilityNext, InsertRow, visibilityVars, VisibilityInv
  <1> QED BY <1>1, <1>2, PTL DEF VisibilitySpec

\* Readers and rows keep their shapes.
THEOREM VisibilityTyped == VisibilitySpec => []VisibilityTypeOK
  <1>1. VisibilityInv => VisibilityTypeOK
    BY DEF VisibilityInv, VisibilityTypeOK, Session
  <1> QED BY <1>1, VisibilityInvariant, PTL

\* Whatever markets, organizations and people there are, the database and the
\* demonstration show every actor the same rows, blanked alike (scoping.ts, memory.ts).
THEOREM TheLayersAgree == VisibilitySpec => []LayersShowTheSame
  <1>1. VisibilityInv => LayersShowTheSame
    BY SameRow DEF VisibilityInv, LayersShowTheSame
  <1> QED BY <1>1, VisibilityInvariant, PTL
-----------------------------------------------------------------------------
(* Who is told. *)

\* An application is at its submission, of which the business was told, or at the end of
\* an edge that somebody took who may, and the policy was followed.
Arrived ==
    \E t \in Transitions :
        /\ t.to = file.status /\ file.track \in t.tracks
        /\ mover \in t.roles \cup {"admin"}
        /\ told = NotificationsFor(file.status, file.track)

NoticesInv ==
    /\ file \in [track: Track, status: Status]
    /\ mover \in Role \cup {Unmoved} /\ told \subseteq Role
    /\ \/ file.status = "submitted" /\ told = {"business"}
       \/ Arrived

\* A move goes to a status, and is somebody's.
LEMMA MovesTyped ==
    ASSUME NEW t \in Transitions
    PROVE  /\ t.from \in Status /\ t.to \in Status
           /\ t.roles \subseteq Role /\ t.tracks \subseteq Track
  BY DEF Transitions, Edge, Status, ReachedPlacement, TerminalStatuses, Role, Track

\* Every move arrives, and what was told follows the policy.
LEMMA NoticesStep == NoticesInv /\ [NoticesNext]_noticeVars => NoticesInv'
  <1> SUFFICES ASSUME NoticesInv, [NoticesNext]_noticeVars PROVE NoticesInv'
    OBVIOUS
  <1>1. CASE UNCHANGED noticeVars
    BY <1>1 DEF noticeVars, NoticesInv, Arrived
  <1>2. CASE MoveFile
    <2>1. PICK t \in TransitionsFrom(file.status, file.track) : \E role \in Role :
              /\ role \in t.roles \cup {"admin"}
              /\ file' = [file EXCEPT !.status = t.to] /\ mover' = role
              /\ told' = NotificationsFor(t.to, file.track)
      BY <1>2 DEF MoveFile
    <2>2. t \in Transitions /\ file.track \in t.tracks /\ t.to \in Status
      BY MovesTyped DEF TransitionsFrom
    <2>3. /\ file' \in [track: Track, status: Status]
          /\ file'.status = t.to /\ file'.track = file.track
      BY <2>1, <2>2 DEF NoticesInv
    <2>4. mover' \in Role /\ mover' \in t.roles \cup {"admin"}
          /\ told' = NotificationsFor(t.to, file.track)
      BY <2>1
    <2>5. told' \subseteq Role
      BY <2>4 DEF NotificationsFor, Policy
    <2>6. Arrived'
      BY <2>2, <2>3, <2>4 DEF Arrived
    <2> QED BY <2>3, <2>4, <2>5, <2>6 DEF NoticesInv
  <1> QED BY <1>1, <1>2 DEF NoticesNext

\* An application follows the table, and its notices the policy, from the submission on.
THEOREM NoticesInvariant == NoticesSpec => []NoticesInv
  <1>1. NoticesInit => NoticesInv
    <2> SUFFICES ASSUME NoticesInit PROVE NoticesInv
      OBVIOUS
    <2>1. PICK track \in Track : file = [track |-> track, status |-> "submitted"]
      BY DEF NoticesInit
    <2> QED BY <2>1 DEF NoticesInit, NoticesInv, Status, Role
  <1> QED BY <1>1, NoticesStep, PTL DEF NoticesSpec

\* Files and parties keep their shapes.
THEOREM NoticesTyped == NoticesSpec => []NoticesTypeOK
  <1>1. NoticesInv => NoticesTypeOK
    BY DEF NoticesInv, NoticesTypeOK
  <1> QED BY <1>1, NoticesInvariant, PTL

\* The owners of a move that is open own the turn.
LEMMA OwnersOfEdge ==
    ASSUME NEW t \in Transitions, t.from = file.status, file.track \in t.tracks
    PROVE  t.roles \subseteq Owners
  BY DEF Owners, TransitionsFrom

\* What a status is quiet about its last mover knows; of the others an owner of the next
\* move is told.
Quiet == {"under_review", "interview_completed", "cleared", "credit_granted", "credit_denied"}

\* Who comes to a quiet status may go on from it.
LEMMA MoverGoesOn ==
    ASSUME NEW t \in Transitions, t.to \in Quiet
    PROVE  \E u \in Transitions : /\ u.from = t.to /\ t.tracks \subseteq u.tracks
                                  /\ t.roles \subseteq u.roles /\ t.roles # {}
  <1>1. CASE t.to = "under_review"
    <2>1. t.roles = {"business"}
      BY <1>1 DEF Transitions, Edge
    <2>2. t.tracks \subseteq Track
      BY MovesTyped
    <2> DEFINE u == Edge("under_review", "shortlisted", {"business"}, Track)
    <2>3. u \in Transitions /\ u.from = "under_review" /\ u.tracks = Track
          /\ u.roles = {"business"}
      BY DEF Transitions, Edge
    <2> QED BY <1>1, <2>1, <2>2, <2>3
  <1>2. CASE t.to = "interview_completed"
    <2>1. t.roles = {"board"} /\ t.tracks = {"standard"}
      BY <1>2 DEF Transitions, Edge
    <2> DEFINE u == Edge("interview_completed", "cleared", {"board"}, {"standard"})
    <2>2. u \in Transitions /\ u.from = "interview_completed" /\ u.tracks = {"standard"}
          /\ u.roles = {"board"}
      BY DEF Transitions, Edge
    <2> QED BY <1>2, <2>1, <2>2
  <1>3. CASE t.to = "cleared"
    <2>1. t.roles = {"board"} /\ t.tracks = {"standard"}
      BY <1>3 DEF Transitions, Edge
    <2> DEFINE u == Edge("cleared", "funding_authorized", {"board"}, {"standard"})
    <2>2. u \in Transitions /\ u.from = "cleared" /\ u.tracks = {"standard"}
          /\ u.roles = {"board"}
      BY DEF Transitions, Edge
    <2> QED BY <1>3, <2>1, <2>2
  <1>4. CASE t.to \in {"credit_granted", "credit_denied"}
    <2>1. t.roles = {"college"}
      BY <1>4 DEF Transitions, Edge
    <2>2. t.tracks \subseteq Track
      BY MovesTyped
    <2> DEFINE u == Edge(t.to, "closed", {"college"}, Track)
    <2>3. u \in Transitions /\ u.from = t.to /\ u.tracks = Track /\ u.roles = {"college"}
      BY <1>4 DEF Transitions, Edge
    <2> QED BY <2>1, <2>2, <2>3
  <1> QED BY <1>1, <1>2, <1>3, <1>4 DEF Quiet

\* A party that hears of a status and may move on from it, on each track.
NextToMove(status, track) ==
    CASE status \in {"submitted", "funding_authorized", "unsubsidized"} -> "business"
      [] status \in {"shortlisted", "interview_scheduled"} -> "student"
      [] status = "mutual_interest" -> IF track = "micro" THEN "business" ELSE "student"
      [] OTHER -> "college"

\* That party is told by the policy, and its skipping of the board takes nobody else.
LEMMA NextIsTold ==
    ASSUME NEW track \in Track, NEW status \in Status \ (Quiet \cup TerminalStatuses)
    PROVE  NextToMove(status, track) \in NotificationsFor(status, track)
  <1> DEFINE party == NextToMove(status, track)
  <1>1. party \in Role \ {"board"}
    BY DEF NextToMove, Role
  <1>2. status \in Hears[party]
    <2>1. CASE status \in {"submitted", "funding_authorized", "unsubsidized"}
      BY <2>1 DEF NextToMove, Hears
    <2>2. CASE status \in {"shortlisted", "interview_scheduled"}
      BY <2>2 DEF NextToMove, Hears
    <2>3. CASE status = "mutual_interest"
      BY <2>3 DEF NextToMove, Hears
    <2>4. CASE status \in {"placement_active", "placement_completed", "terminated_early",
                           "credit_pending"}
      BY <2>4 DEF NextToMove, Hears
    <2> QED BY <2>1, <2>2, <2>3, <2>4 DEF Status, ReachedPlacement, Quiet, TerminalStatuses
  <1> HIDE DEF party
  <1> QED BY <1>1, <1>2 DEF NotificationsFor, Policy, party

\* And it owns a move that is open, wherever an application has come to.
LEMMA NextOwns ==
    ASSUME NEW track \in Track, NEW status \in Status \ (Quiet \cup TerminalStatuses),
           status = "submitted" \/ \E t \in Transitions : t.to = status /\ track \in t.tracks
    PROVE  \E u \in Transitions : /\ u.from = status /\ track \in u.tracks
                                  /\ NextToMove(status, track) \in u.roles
  <1>1. ASSUME NEW to, NEW roles, NEW tracks, track \in tracks,
               Edge(status, to, roles, tracks) \in Transitions,
               NextToMove(status, track) \in roles
        PROVE  \E u \in Transitions : /\ u.from = status /\ track \in u.tracks
                                      /\ NextToMove(status, track) \in u.roles
    <2> DEFINE u == Edge(status, to, roles, tracks)
    <2>1. u.from = status /\ u.tracks = tracks /\ u.roles = roles
      BY DEF Edge
    <2> HIDE DEF u
    <2> QED BY <1>1, <2>1 DEF u
  <1>2. track = "standard" \/ track = "micro"
    BY DEF Track
  <1>3. CASE status = "submitted"
    <2>1. Edge(status, "under_review", {"business"}, Track) \in Transitions
      BY <1>3 DEF Transitions
    <2> QED BY <1>1, <1>3, <2>1 DEF NextToMove
  <1>4. CASE status = "shortlisted"
    <2>1. Edge(status, "mutual_interest", {"student"}, Track) \in Transitions
      BY <1>4 DEF Transitions
    <2> QED BY <1>1, <1>4, <2>1 DEF NextToMove
  <1>5. CASE status = "mutual_interest" /\ track = "standard"
    <2>1. Edge(status, "interview_scheduled", {"student"}, {"standard"}) \in Transitions
      BY <1>5 DEF Transitions
    <2> QED BY <1>1, <1>5, <2>1 DEF NextToMove
  <1>6. CASE status = "mutual_interest" /\ track = "micro"
    <2>1. Edge(status, "placement_active", {"business"}, {"micro"}) \in Transitions
      BY <1>6 DEF Transitions
    <2> QED BY <1>1, <1>6, <2>1 DEF NextToMove
  <1>7. CASE status = "interview_scheduled"
    <2>1. Edge(status, "mutual_interest", {"board", "student"}, {"standard"}) \in Transitions
      BY <1>7 DEF Transitions
    <2>2. track = "standard"
      BY <1>2, <1>7 DEF Transitions, Edge
    <2> QED BY <1>1, <1>7, <2>1, <2>2 DEF NextToMove
  <1>8. CASE status = "funding_authorized"
    <2>1. Edge(status, "placement_active", {"business"}, {"standard"}) \in Transitions
      BY <1>8 DEF Transitions
    <2>2. track = "standard"
      BY <1>2, <1>8 DEF Transitions, Edge
    <2> QED BY <1>1, <1>8, <2>1, <2>2 DEF NextToMove
  <1>9. CASE status = "unsubsidized"
    <2>1. Edge(status, "placement_active", {"business"}, {"standard"}) \in Transitions
      BY <1>9 DEF Transitions
    <2>2. track = "standard"
      BY <1>2, <1>9 DEF Transitions, Edge
    <2> QED BY <1>1, <1>9, <2>1, <2>2 DEF NextToMove
  <1>10. CASE status = "placement_active"
    <2>1. Edge(status, "terminated_early", {"business", "college"}, Track) \in Transitions
      BY <1>10 DEF Transitions
    <2> QED BY <1>1, <1>10, <2>1 DEF NextToMove
  <1>11. CASE status = "placement_completed"
    <2>1. Edge(status, "credit_pending", {"student", "college"}, Track) \in Transitions
      BY <1>11 DEF Transitions
    <2> QED BY <1>1, <1>11, <2>1 DEF NextToMove
  <1>12. CASE status = "terminated_early"
    <2>1. Edge(status, "closed", {"college", "business"}, Track) \in Transitions
      BY <1>12 DEF Transitions
    <2> QED BY <1>1, <1>12, <2>1 DEF NextToMove
  <1>13. CASE status = "credit_pending"
    <2>1. Edge(status, "credit_granted", {"college"}, Track) \in Transitions
      BY <1>13 DEF Transitions
    <2> QED BY <1>1, <1>13, <2>1 DEF NextToMove
  <1> QED BY <1>2, <1>3, <1>4, <1>5, <1>6, <1>7, <1>8, <1>9, <1>10, <1>11, <1>12, <1>13
          DEF Status, ReachedPlacement, Quiet, TerminalStatuses

\* Nobody moves on from a terminal status.
LEMMA NothingIsOpen ==
    ASSUME file.status \in TerminalStatuses
    PROVE  Owners = {}
  <1>1. \A t \in Transitions : t.from \notin TerminalStatuses
    BY DEF Transitions, Edge, TerminalStatuses
  <1> QED BY <1>1 DEF Owners, TransitionsFrom

\* The console's party owns a move from the status it is named for.
LEMMA BlockedOwns ==
    ASSUME file.track = "standard", file.status \in DOMAIN BlockedOn
    PROVE  BlockedOn[file.status] \in Owners
  <1>1. ASSUME NEW to, NEW roles, NEW tracks, "standard" \in tracks, NEW party \in roles,
               Edge(file.status, to, roles, tracks) \in Transitions
        PROVE  party \in Owners
    <2> DEFINE u == Edge(file.status, to, roles, tracks)
    <2>1. u \in Transitions /\ u.from = file.status /\ u.tracks = tracks /\ u.roles = roles
      BY <1>1 DEF Edge
    <2> HIDE DEF u
    <2> QED BY <1>1, <2>1, OwnersOfEdge
  <1>2. CASE file.status = "submitted"
    <2>1. Edge(file.status, "under_review", {"business"}, Track) \in Transitions
      BY <1>2 DEF Transitions
    <2>2. BlockedOn[file.status] = "business"
      BY <1>2 DEF BlockedOn
    <2> QED BY <1>1, <2>1, <2>2 DEF Track
  <1>3. CASE file.status = "under_review"
    <2>1. Edge(file.status, "shortlisted", {"business"}, Track) \in Transitions
      BY <1>3 DEF Transitions
    <2>2. BlockedOn[file.status] = "business"
      BY <1>3 DEF BlockedOn
    <2> QED BY <1>1, <2>1, <2>2 DEF Track
  <1>4. CASE file.status = "shortlisted"
    <2>1. Edge(file.status, "mutual_interest", {"student"}, Track) \in Transitions
      BY <1>4 DEF Transitions
    <2>2. BlockedOn[file.status] = "student"
      BY <1>4 DEF BlockedOn
    <2> QED BY <1>1, <2>1, <2>2 DEF Track
  <1>5. CASE file.status = "mutual_interest"
    <2>1. Edge(file.status, "interview_scheduled", {"student"}, {"standard"}) \in Transitions
      BY <1>5 DEF Transitions
    <2>2. BlockedOn[file.status] = "student"
      BY <1>5 DEF BlockedOn
    <2> QED BY <1>1, <2>1, <2>2 DEF Track
  <1>6. CASE file.status = "interview_scheduled"
    <2>1. Edge(file.status, "interview_completed", {"board"}, {"standard"}) \in Transitions
      BY <1>6 DEF Transitions
    <2>2. BlockedOn[file.status] = "board"
      BY <1>6 DEF BlockedOn
    <2> QED BY <1>1, <2>1, <2>2 DEF Track
  <1>7. CASE file.status = "interview_completed"
    <2>1. Edge(file.status, "cleared", {"board"}, {"standard"}) \in Transitions
      BY <1>7 DEF Transitions
    <2>2. BlockedOn[file.status] = "board"
      BY <1>7 DEF BlockedOn
    <2> QED BY <1>1, <2>1, <2>2 DEF Track
  <1>8. CASE file.status = "cleared"
    <2>1. Edge(file.status, "funding_authorized", {"board"}, {"standard"}) \in Transitions
      BY <1>8 DEF Transitions
    <2>2. BlockedOn[file.status] = "board"
      BY <1>8 DEF BlockedOn
    <2> QED BY <1>1, <2>1, <2>2 DEF Track
  <1>9. CASE file.status = "credit_pending"
    <2>1. Edge(file.status, "credit_granted", {"college"}, Track) \in Transitions
      BY <1>9 DEF Transitions
    <2>2. BlockedOn[file.status] = "college"
      BY <1>9 DEF BlockedOn
    <2> QED BY <1>1, <2>1, <2>2 DEF Track
  <1> QED BY <1>2, <1>3, <1>4, <1>5, <1>6, <1>7, <1>8, <1>9 DEF BlockedOn

\* Whoever may make the next move made the last one or was told of it, on each track and
\* from every status (POLICY against TRANSITIONS).
THEOREM TheTurnIsKnown == NoticesSpec => []TurnIsKnown
  <1>1. ASSUME NoticesInv PROVE TurnIsKnown
    <2>1. file.track \in Track /\ file.status \in Status
      BY <1>1 DEF NoticesInv
    <2>2. Owners = {} \/ mover = "admin" \/ (told \cup {mover}) \cap Owners # {}
      <3>1. CASE file.status \in TerminalStatuses
        BY <3>1, NothingIsOpen
      <3>2. CASE file.status \in Quiet
        <4>1. PICK t \in Transitions :
                  /\ t.to = file.status /\ file.track \in t.tracks
                  /\ mover \in t.roles \cup {"admin"}
          BY <1>1, <3>2 DEF NoticesInv, Arrived, Quiet
        <4>2. PICK u \in Transitions :
                  u.from = t.to /\ t.tracks \subseteq u.tracks /\ t.roles \subseteq u.roles
          BY <3>2, <4>1, MoverGoesOn
        <4>3. u.roles \subseteq Owners
          BY <4>1, <4>2, OwnersOfEdge
        <4> QED BY <4>1, <4>2, <4>3
      <3>3. CASE file.status \notin Quiet \cup TerminalStatuses
        <4> DEFINE party == NextToMove(file.status, file.track)
        <4>1. party \in told
          <5>1. CASE file.status = "submitted" /\ told = {"business"}
            BY <5>1 DEF NextToMove
          <5>2. CASE Arrived
            BY <2>1, <3>3, <5>2, NextIsTold DEF Arrived
          <5> QED BY <1>1, <5>1, <5>2 DEF NoticesInv
        <4>2. file.status = "submitted"
              \/ \E t \in Transitions : t.to = file.status /\ file.track \in t.tracks
          BY <1>1 DEF NoticesInv, Arrived
        <4>3. PICK u \in Transitions :
                  u.from = file.status /\ file.track \in u.tracks /\ party \in u.roles
          BY <2>1, <3>3, <4>2, NextOwns
        <4>4. party \in Owners
          BY <4>3, OwnersOfEdge
        <4> QED BY <4>1, <4>4
      <3> QED BY <3>1, <3>2, <3>3
    <2>3. file.track = "standard" /\ file.status \in DOMAIN BlockedOn =>
              BlockedOn[file.status] \in Owners
      BY BlockedOwns
    <2> QED BY <2>2, <2>3 DEF TurnIsKnown
  <1> QED BY <1>1, NoticesInvariant, PTL
-----------------------------------------------------------------------------
(* All the services together. *)

\* The scene that is played moves one component as its own specification does, and the
\* others not at all.
LEMMA ScenesMoveOne ==
    ASSUME [ServicesNext]_vars
    PROVE  /\ [BookingNext]_bookingVars /\ [DeliverablesNext]_deliverableVars
           /\ [LearnerNext]_learnerVars /\ [MarketNext]_marketVars
           /\ [MentorshipNext]_mentorshipVars /\ [DisclosureNext]_disclosureVars
           /\ [EscalationNext]_escalationVars /\ [OutcomesNext]_outcomeVars
           /\ [RegionsNext]_regionVars /\ [SignInNext]_signInVars
           /\ [SecondFactorNext]_factorVars /\ [CreditNext]_creditVars
           /\ [NoticesNext]_noticeVars /\ [RateLimitNext]_rateVars
           /\ [VisibilityNext]_visibilityVars
  <1>1. CASE UNCHANGED vars
    BY <1>1 DEF vars
  <1>2. CASE ServicesNext
    BY <1>2 DEF ServicesNext, TheRestIsStill
  <1> QED BY <1>1, <1>2

\* In the composition every component behaves as it does alone: what is proved of it there
\* holds here.
THEOREM ServicesCompose ==
    ServicesSpec => /\ BookingSpec /\ DeliverablesSpec /\ LearnerSpec /\ MarketSpec
                    /\ MentorshipSpec /\ DisclosureSpec /\ EscalationSpec /\ OutcomesSpec
                    /\ RegionsSpec /\ SignInSpec /\ SecondFactorSpec /\ CreditSpec
                    /\ NoticesSpec /\ RateLimitSpec /\ VisibilitySpec
  <1>1. ServicesInit => /\ BookingInit /\ DeliverablesInit /\ LearnerInit /\ MarketInit
                        /\ MentorshipInit /\ DisclosureInit /\ EscalationInit /\ OutcomesInit
                        /\ RegionsInit /\ SignInInit /\ SecondFactorInit /\ CreditInit
                        /\ NoticesInit /\ RateLimitInit /\ VisibilityInit
    BY DEF ServicesInit
  <1> QED BY <1>1, ScenesMoveOne, PTL
          DEF ServicesSpec, BookingSpec, DeliverablesSpec, LearnerSpec, MarketSpec,
              MentorshipSpec, DisclosureSpec, EscalationSpec, OutcomesSpec, RegionsSpec,
              SignInSpec, SecondFactorSpec, CreditSpec, NoticesSpec, RateLimitSpec,
              VisibilitySpec

\* All rows and calls of the fifteen components keep their shapes.
THEOREM ServicesTyped == ServicesSpec => []ServicesTypeOK
  BY ServicesCompose, BookingTyped, DeliverablesTyped, LearnerTyped, MarketTyped,
     MentorshipTyped, DisclosureTyped, EscalationTyped, OutcomesTyped, RegionsTyped,
     SignInTyped, SecondFactorTyped, CreditTyped, NoticesTyped, RateLimitTyped,
     VisibilityTyped, PTL
     DEF ServicesTypeOK
===============================================================================

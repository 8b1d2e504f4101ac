------------------------------- MODULE Regions -------------------------------
(***************************************************************************)
(* The boundary of a market and the jobs judged by it: administrators      *)
(* redefine the region from a date on, several at once, and every figure   *)
(* asks of a job whether it was in the region of its own date.             *)
(***************************************************************************)
EXTENDS Integers, FiniteSets

CONSTANTS
    County,      \* counties a job or a region may name
    Unplaced,    \* a job recorded without a place
    Redefiner,   \* redefinitions that can be under way at once
    LastDate     \* bound: dates

ASSUME RegionsAssumption ==
    Unplaced \notin County /\ County # {} /\ LastDate \in Nat

VARIABLES
    regions,     \* definitions of the market: [from, counties]
    redefiners   \* Redefiner -> the definition about to be inserted and the history
                 \* the call read, or NotDefining

regionVars == <<regions, redefiners>>
-----------------------------------------------------------------------------
NotDefining == [at |-> "rest"]

RegionsInit ==
    /\ regions = {[from |-> 0, counties |-> {CHOOSE c \in County : TRUE}]}
    /\ redefiners = [r \in Redefiner |-> NotDefining]

\* byEffectiveDescending, first of the history
Latest(defs) == CHOOSE d \in defs : \A e \in defs : e.from <= d.from

\* The definition an observation of that date is judged by.
RegionInForce(at) == Latest({d \in regions : d.from <= at})

\* Mutant: only the date of the latest definition itself is refused.
TakesEffectApart(from) == from # Latest(regions).from

TakesEffectLast(from) == from > Latest(regions).from

\* redefineRegion: after the one it replaces, and another boundary.
BeginRedefinition(r) ==
    /\ redefiners[r] = NotDefining
    /\ \E from \in 1..LastDate, counties \in SUBSET County \ {{}} :
        /\ TakesEffectLast(from)
        /\ counties # Latest(regions).counties
        /\ redefiners' = [redefiners EXCEPT ![r] =
               [at |-> "defining", row |-> [from |-> from, counties |-> counties],
                seen |-> regions]]
    /\ UNCHANGED regions

\* One definition per market and date, by an index.
DateFree(row) == \A d \in regions : d.from # row.from

InsertDefinition(r) ==
    LET row == redefiners[r].row IN
    /\ redefiners[r].at = "defining"
    /\ regions' = IF DateFree(row) THEN regions \cup {row} ELSE regions
    /\ redefiners' = [redefiners EXCEPT ![r] = NotDefining]

Job == [host: BOOLEAN, county: County \cup {Unplaced}, at: 0..LastDate]

\* Whether a job is in the region of its date; nobody knows without a place.
InRegion(job) ==
    CASE job.host -> "yes"
      [] ~job.host /\ job.county = Unplaced -> "unknown"
      [] OTHER -> IF job.county \in RegionInForce(job.at).counties THEN "yes" ELSE "no"

RegionsNext == \E r \in Redefiner : BeginRedefinition(r) \/ InsertDefinition(r)

RegionsSpec == RegionsInit /\ [][RegionsNext]_regionVars
-----------------------------------------------------------------------------
\* Definitions have the shape the code gives them.
RegionsTypeOK == regions \subseteq [from: 0..LastDate, counties: SUBSET County]

\* What was judged by a boundary that had already been replaced keeps its verdict: a
\* redefinition changes only verdicts of the latest definition it read, or of one that
\* another redefinition inserted since (redefineBlockReason, regionInForce, inRegion).
SupersededVerdictsStand ==
    [][\A r \in Redefiner : redefiners[r].at = "defining" /\ redefiners'[r] # redefiners[r] =>
           \A job \in Job : InRegion(job)' # InRegion(job) =>
               LET judge == RegionInForce(job.at)
                   seen == redefiners[r].seen
               IN judge = Latest(seen) \/ judge \notin seen]_regionVars
==============================================================================

------------------------------- MODULE RateLimit -------------------------------
(***************************************************************************)
(* The limiter in front of sign-in and of every action: one bucket of one  *)
(* key in one process, opened by the first hit after the last bucket ended *)
(* and counting every hit until it ends. Time advances in ticks.           *)
(***************************************************************************)
EXTENDS Integers, Sequences

CONSTANTS
    Limit,     \* requests permitted per bucket
    Window,    \* ticks a bucket lasts
    LastTick   \* bound: the clock

ASSUME RateLimitAssumption ==
    Limit \in Nat \ {0} /\ Window \in Nat \ {0} /\ LastTick \in Nat \ {0}

VARIABLES
    now,       \* the clock
    bucket,    \* [count, resetAt]; resetAt 0 before the first hit
    granted    \* the ticks of the requests let through, in order

rateVars == <<now, bucket, granted>>
-----------------------------------------------------------------------------
RateLimitInit ==
    /\ now = 1
    /\ bucket = [count |-> 0, resetAt |-> 0]
    /\ granted = <<>>

Tick ==
    /\ now < LastTick
    /\ now' = now + 1
    /\ UNCHANGED <<bucket, granted>>

\* hit(): a new bucket, or one more in this one (beyond the limit the count only grows).
HitBucket ==
    IF bucket.resetAt <= now
    THEN [count |-> 1, resetAt |-> now + Window]
    ELSE [bucket EXCEPT !.count = IF @ > Limit THEN @ ELSE @ + 1]

\* Mutant: one request more.
WithinOneMore(count) == count <= Limit + 1

WithinLimit(count) == count <= Limit

\* checkRateLimit
Request ==
    /\ bucket' = HitBucket
    /\ granted' = IF WithinLimit(HitBucket.count) THEN Append(granted, now) ELSE granted
    /\ UNCHANGED now

RateLimitNext == Tick \/ Request

RateLimitSpec == RateLimitInit /\ [][RateLimitNext]_rateVars
-----------------------------------------------------------------------------
\* Rows have the shapes the code gives them.
RateLimitTypeOK ==
    /\ now \in 1..LastTick
    /\ bucket \in [count: 0..Limit + 1, resetAt: 0..LastTick + Window]

\* What a fixed window really promises: whenever one looks back over a stretch as long
\* as a window, across two buckets too, at most twice the limit got through: of any so many
\* requests and one more, the last came a window or more after the first (hit,
\* checkRateLimit).
GrantsInAnyWindow ==
    \A n \in 1..Len(granted) - 2 * Limit : granted[n + 2 * Limit] - granted[n] >= Window
==============================================================================

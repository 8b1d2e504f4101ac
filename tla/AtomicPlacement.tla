--------------------------- MODULE AtomicPlacement ---------------------------
(***************************************************************************)
(* What the placement service promises its callers: each call happens at   *)
(* one instant, on the rows as they are at that instant.  The code earns   *)
(* this with nothing but version checks and two unique indexes, while its  *)
(* calls read, wait and decide in between (Placement).                     *)
(*                                                                         *)
(* Two promises are deliberately absent because the code does not keep     *)
(* them: that a draw fits what the fund has left at that instant, and that *)
(* a move settles the draws a sponsor committed while it was under way.    *)
(***************************************************************************)
EXTENDS PlacementTables

-----------------------------------------------------------------------------
(* The guards of the standard track that rest on the placement alone, all  *)
(* of them true at the instant of the move.                                *)
Decided(row, to, a) ==
    /\ Eligible(to, a)
    /\ to = "funding_authorized" => row.authorized > 0
    /\ HoursReviewed(row, to, a)

Authorizing(row, amount) ==
    IF amount = 0 THEN row ELSE [row EXCEPT !.authorized = amount]

\* The draws of the placement that becoming row settles.
Due(row, a) == {d \in Draw : Settles(row, DrawsOf(draws, a)[d])}

Settling(row, settled) ==
    [d \in Draw |->
        IF d \in settled
        THEN [draws[d] EXCEPT !.status = SettlementFor(row, draws[d]),
                              !.version = @ + 1]
        ELSE draws[d]]

\* Somebody moves a placement along an edge of the table.  Either every guard
\* holds or the audit log shows an override.  Authorizing hours also creates
\* the draw for them, unless the placement has one; ending the placement
\* settles at least every draw that carries an hour cap.
Move(a) ==
    \E t \in TransitionsFrom(apps[a].status, "standard"), amount \in Amount \cup {0} :
        LET row  == Authorizing(apps[a], amount)
            next == Moved(row, t.to)
        IN
        /\ amount # 0 => t.to = "funding_authorized"
        /\ apps' = [apps EXCEPT ![a] = next]
        /\ \/ Decided(row, t.to, a) /\ UNCHANGED overridden
           \/ overridden' = overridden \cup {<<a, t.to>>}
        /\ \E settled \in SUBSET Due(next, a) :
              /\ \A d \in Due(next, a) : draws[d].hourly => d \in settled
              /\ \/ draws' = Settling(next, settled)
                 \/ /\ amount # 0 /\ ~CoveredBy(draws, Wage, a)
                    /\ \E d \in Draw :
                          /\ draws[d] = NoDraw
                          /\ draws' = [Settling(next, settled) EXCEPT
                                          ![d] = NewDraw(Wage, a, amount, TRUE)]
        /\ UNCHANGED <<entries, funds>>

\* The student logs a week nobody has claimed, while the placement is active.
Log(a, w) ==
    /\ apps[a].status = "placement_active"
    /\ w \notin ClaimedWeeks(EntriesOf(entries, a))
    /\ \E e \in Entry :
          /\ entries[e] = NoEntry
          /\ entries' = [entries EXCEPT ![e] =
                [app |-> a, week |-> w, status |-> "submitted", version |-> 1]]
    /\ apps' = [apps EXCEPT ![a] = Recached(@, EntriesOf(entries', a))]
    /\ UNCHANGED <<draws, funds, overridden>>

\* The employer decides on a week that awaits a decision.
Review(e, verdict) ==
    /\ entries[e].status = "submitted"
    /\ entries' = [entries EXCEPT ![e] =
                      [entries[e] EXCEPT !.status = verdict, !.version = @ + 1]]
    /\ apps' = [apps EXCEPT ![entries[e].app] =
                   Recached(@, EntriesOf(entries', entries[e].app))]
    /\ UNCHANGED <<draws, funds, overridden>>

\* A sponsor commits money of an open fund, at most once to a placement.
Promise(s, a, amount) ==
    /\ a # Unplaced => ~CoveredBy(draws, s, a)
    /\ \E d \in Draw :
          /\ draws[d] = NoDraw
          /\ draws' = [draws EXCEPT ![d] = NewDraw(s, a, amount, FALSE)]
    /\ UNCHANGED <<apps, entries, funds, overridden>>

\* A sponsor takes back money that was not paid out.
Release(d) ==
    /\ draws[d].status = "authorized"
    /\ draws[d].source \notin Closed
    /\ draws' = [draws EXCEPT ![d] =
                    [draws[d] EXCEPT !.status = "released", !.version = @ + 1]]
    /\ UNCHANGED <<apps, entries, funds, overridden>>

\* A sponsor sets what an open fund holds.
Adjust(s, figure) ==
    /\ funds' = [funds EXCEPT ![s] =
                    [funds[s] EXCEPT !.allocated = figure, !.version = @ + 1]]
    /\ UNCHANGED <<apps, entries, draws, overridden>>

AtomicNext ==
    \/ \E a \in App : Move(a)
    \/ \E a \in App, w \in Week : Log(a, w)
    \/ \E e \in Entry, verdict \in {"approved", "rejected"} : Review(e, verdict)
    \/ \E s \in Source \ Closed, a \in App \cup {Unplaced}, amount \in Amount :
          Promise(s, a, amount)
    \/ \E d \in Draw : Release(d)
    \/ \E s \in Source \ Closed, figure \in Allocation : Adjust(s, figure)

\* Calls behave as if each happened at one instant: every sequence of commits
\* the concurrent service makes is one this specification allows (the version
\* check of every save in src/src/data/postgres/store.ts).
AtomicSpec == InitTables /\ [][AtomicNext]_tables
==============================================================================

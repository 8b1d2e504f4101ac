------------------------------- MODULE Machine -------------------------------
(***************************************************************************)
(* The guarded state machine every entity with a status is moved by        *)
(* (src/src/domain/machine.ts).  Applications, students, postings and      *)
(* organizations differ in their tables and their guards; how a move is    *)
(* resolved is written once in the code and once here.                     *)
(*                                                                         *)
(* Market membership and ownership are decided before anything is read:    *)
(* a caller outside the record's market, or on somebody else's record,     *)
(* gets a refusal and changes nothing.  The modules therefore enumerate    *)
(* callers by role only, each standing for a caller who may see the row.   *)
(***************************************************************************)

\* The five roles of a membership.
Role == {"student", "business", "college", "board", "admin"}

\* What a caller who is not an administrator needs: the role and the guard.
Permitted(roles, role, guard) == role \in roles /\ guard

\* An administrator skips role and guard, and only by saying why.
Overrides(roles, role, guard, reason) ==
    /\ role = "admin"
    /\ ~Permitted(roles, role, guard)
    /\ reason

\* The verdict of attempt() on a transition the table contains.
Attempt(roles, role, guard, reason) ==
    \/ Permitted(roles, role, guard)
    \/ Overrides(roles, role, guard, reason)
==============================================================================

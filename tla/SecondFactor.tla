----------------------------- MODULE SecondFactor -----------------------------
(***************************************************************************)
(* One account's authenticator and its recovery codes. Enrolling, removing *)
(* and answering a challenge each write several rows, one statement at a   *)
(* time and in no transaction; the process may stop after any of them.     *)
(* Nothing keeps calls of one account apart; overlapped is a history       *)
(* variable that only says whether two of them got between each other.     *)
(***************************************************************************)
EXTENDS Integers

CONSTANTS
    Enroller,    \* calls that can be under way at once
    MaxSecrets,  \* bound: secrets offered
    BatchSize    \* recovery codes issued with an enrolment

ASSUME SecondFactorAssumption == MaxSecrets \in Nat /\ BatchSize \in Nat \ {0}

VARIABLES
    factor,      \* the row of user_totp: [secret, confirmed], secret 0 for none
    minted,      \* secrets offered so far
    recovery,    \* unused recovery codes: [of, n]
    enrollers,   \* Enroller -> the call under way, or Unhurried
    overlapped   \* history: calls were under way at once, and calls or codes are left

factorVars == <<factor, minted, recovery, enrollers, overlapped>>
-----------------------------------------------------------------------------
Unhurried == [at |-> "rest"]
NoFactor == [secret |-> 0, confirmed |-> FALSE]

SecondFactorInit ==
    /\ factor = NoFactor /\ minted = 0 /\ recovery = {}
    /\ enrollers = [e \in Enroller |-> Unhurried]
    /\ overlapped = FALSE

Does(e, call) == enrollers' = [enrollers EXCEPT ![e] = call]

\* beginEnrolment: the upsert leaves a confirmed authenticator alone.
BeginEnrolment ==
    /\ ~factor.confirmed /\ minted < MaxSecrets
    /\ minted' = minted + 1
    /\ factor' = [secret |-> minted + 1, confirmed |-> FALSE]
    /\ UNCHANGED <<recovery, enrollers>>

\* confirmEnrolment: offered, not confirmed, and the code is right ...
BeginConfirmation(e) ==
    /\ enrollers[e] = Unhurried
    /\ factor.secret # 0 /\ ~factor.confirmed
    /\ Does(e, [at |-> "confirming"])
    /\ UNCHANGED <<factor, minted, recovery>>

\* ... whatever the row is by then ...
ConfirmFactor(e) ==
    /\ enrollers[e].at = "confirming"
    /\ factor' = [factor EXCEPT !.confirmed = @ \/ factor.secret # 0]
    /\ Does(e, [at |-> "clearing", of |-> factor.secret])
    /\ UNCHANGED <<minted, recovery>>

\* ... then the old codes go and the new ones come, one by one.
ClearRecoveryCodes(e) ==
    /\ enrollers[e].at = "clearing"
    /\ recovery' = {}
    /\ Does(e, [at |-> "issuing", of |-> enrollers[e].of, n |-> 1])
    /\ UNCHANGED <<factor, minted>>

IssueRecoveryCode(e) ==
    LET call == enrollers[e] IN
    /\ call.at = "issuing"
    /\ recovery' = recovery \cup {[of |-> call.of, n |-> call.n]}
    /\ Does(e, IF call.n = BatchSize THEN Unhurried ELSE [call EXCEPT !.n = @ + 1])
    /\ UNCHANGED <<factor, minted>>

\* Mutant: the authenticator goes first, its codes after.
FactorGoesFirst == <<"factor", "codes">>

\* removeTotpEnrolment deletes the codes, then the authenticator.
RemovalOrder == <<"codes", "factor">>

Delete(what) ==
    /\ recovery' = IF what = "codes" THEN {} ELSE recovery
    /\ factor' = IF what = "factor" THEN NoFactor ELSE factor

BeginRemoval(e) ==
    /\ enrollers[e] = Unhurried
    /\ Delete(RemovalOrder[1])
    /\ Does(e, [at |-> "removing"])
    /\ UNCHANGED minted

FinishRemoval(e) ==
    /\ enrollers[e].at = "removing"
    /\ Delete(RemovalOrder[2])
    /\ Does(e, Unhurried)
    /\ UNCHANGED minted

\* acceptRecoveryCode: found unused while the authenticator is confirmed ...
BeginRecovery(e) ==
    /\ enrollers[e] = Unhurried /\ factor.confirmed
    /\ \E code \in recovery : Does(e, [at |-> "spending", code |-> code])
    /\ UNCHANGED <<factor, minted, recovery>>

\* ... and marked as used.
UseRecoveryCode(e) ==
    /\ enrollers[e].at = "spending"
    /\ recovery' = recovery \ {enrollers[e].code}
    /\ Does(e, Unhurried)
    /\ UNCHANGED <<factor, minted>>

\* The process stops between two statements.
StopHalfway(e) ==
    /\ enrollers[e] # Unhurried
    /\ Does(e, Unhurried)
    /\ UNCHANGED <<factor, minted, recovery>>

SecondFactorStatement ==
    \/ BeginEnrolment
    \/ \E e \in Enroller :
        \/ BeginConfirmation(e) \/ ConfirmFactor(e)
        \/ ClearRecoveryCodes(e) \/ IssueRecoveryCode(e)
        \/ BeginRemoval(e) \/ FinishRemoval(e)
        \/ BeginRecovery(e) \/ UseRecoveryCode(e) \/ StopHalfway(e)

UnderWay == {e \in Enroller : enrollers[e] # Unhurried}

\* The history is over when every call has ended and no code is left of it.
Overlaps ==
    overlapped' = \/ \E e, f \in UnderWay' : e # f
                  \/ overlapped /\ (UnderWay' # {} \/ recovery' # {})

SecondFactorNext == SecondFactorStatement /\ Overlaps

SecondFactorSpec == SecondFactorInit /\ [][SecondFactorNext]_factorVars
-----------------------------------------------------------------------------
\* Rows have the shapes the code gives them.
SecondFactorTypeOK ==
    /\ factor \in [secret: 0..MaxSecrets, confirmed: BOOLEAN]
    /\ recovery \subseteq [of: 0..MaxSecrets, n: 1..BatchSize]
    /\ overlapped \in BOOLEAN

\* A recovery code outlives the authenticator it was issued with only where calls of the
\* account overlapped, and no longer than codes are left from then: otherwise a confirmed
\* authenticator's unused codes are its own, wherever a call stops between two statements
\* (removeTotpEnrolment deletes the codes first, putRecoveryCodes before it inserts).
RecoveryCodesAreCurrent ==
    factor.confirmed /\ ~overlapped => \A code \in recovery : code.of = factor.secret
==============================================================================

-------------------------------- MODULE SignIn --------------------------------
(***************************************************************************)
(* One account: codes sent to its address, to sign in with or to reset the *)
(* password, the second factor and sessions, while an administrator moves  *)
(* the account to another address. None of it is in one transaction.       *)
(* Sessions, codes, challenges and calls are told apart by their origin    *)
(* only: the address they go back to, or Overlapping when the address      *)
(* changed under them.                                                     *)
(***************************************************************************)
EXTENDS Integers

CONSTANTS
    Caller,      \* requests that can be under way at once
    MaxAddress,  \* bound: changes of the address
    MaxTries     \* wrong codes after which a code is refused

ASSUME SignInAssumption == MaxAddress \in Nat /\ MaxTries \in Nat \ {0}

VARIABLES
    address,     \* the account's address, numbered
    changing,    \* the step a change of the address has come to
    letters,     \* CodePurpose -> its row of sign_in_codes
    sessions,    \* origins of the sessions that are alive
    challenges,  \* origins of the challenges waiting for a second factor
    callers      \* Caller -> the call under way, or Absent

signInVars == <<address, changing, letters, sessions, challenges, callers>>
-----------------------------------------------------------------------------
CodePurpose == {"sign_in", "password_reset"}
Overlapping == -1
Origin == 0..MaxAddress \cup {Overlapping}
Absent == [at |-> "absent"]
\* No code, or a used one: either is refused, whatever else the row says.
NoLetter == [used |-> TRUE, from |-> 0, tries |-> 0]

SignInInit ==
    /\ address = 0 /\ changing = "no"
    /\ letters = [p \in CodePurpose |-> NoLetter]
    /\ sessions = {} /\ challenges = {}
    /\ callers = [c \in Caller |-> Absent]

\* A call begun now goes back to this address.
Today == IF changing = "no" THEN address ELSE Overlapping

Answers(c, call) == callers' = [callers EXCEPT ![c] = call]

At(c, where) == callers[c].at = where

Proceeds(c, where) == Answers(c, [callers[c] EXCEPT !.at = where])

\* The caller's code, as it is now.
Letter(c) == letters[callers[c].purpose]

Relabel(c, row) == letters' = [letters EXCEPT ![callers[c].purpose] = row]

\* requestSignInCode, verifySignInCode and verifyPasswordSignIn find the user ...
FindUser(c) ==
    /\ callers[c] = Absent
    /\ \E where \in {"requesting", "verifying", "finishing"} :
           Answers(c, [at |-> where, from |-> Today, purpose |-> "sign_in"])
    /\ UNCHANGED <<address, changing, letters, sessions, challenges>>

\* ... and so do requestPasswordReset, for an account that has one, and resetPassword.
FindUserForReset(c) ==
    /\ callers[c] = Absent
    /\ \E where \in {"requesting", "verifying"} :
           Answers(c, [at |-> where, from |-> Today, purpose |-> "password_reset"])
    /\ UNCHANGED <<address, changing, letters, sessions, challenges>>

\* One row per account and purpose: a new code replaces the last one.
PutSignInCode(c) ==
    /\ At(c, "requesting")
    /\ Relabel(c, [used |-> FALSE, from |-> callers[c].from, tries |-> 0])
    /\ Answers(c, Absent)
    /\ UNCHANGED <<address, changing, sessions, challenges>>

Older(c) == IF callers[c].from = Overlapping THEN Overlapping ELSE Letter(c).from

\* Mutant: one wrong code more.
OneTryMore(code) == code.tries <= MaxTries

TriesLeft(code) == code.tries < MaxTries

\* The code as it is read: refused (also for a weak new password), wrong, or right.
ReadCode(c) ==
    /\ At(c, "verifying")
    /\ \/ Answers(c, Absent)
       \/ /\ ~Letter(c).used /\ TriesLeft(Letter(c))
          /\ \/ Answers(c, [at |-> "rejecting", from |-> Overlapping,  \* it opens nothing
                            purpose |-> callers[c].purpose, tries |-> Letter(c).tries])
             \/ Answers(c, [callers[c] EXCEPT !.at = "consuming", !.from = Older(c)])
    /\ UNCHANGED <<address, changing, letters, sessions, challenges>>

\* One more than was read, on whatever row is there now (of a used one nobody asks).
RecordAttempt(c) ==
    /\ At(c, "rejecting")
    /\ Relabel(c, [Letter(c) EXCEPT !.tries = IF Letter(c).used THEN @ ELSE callers[c].tries + 1])
    /\ Answers(c, Absent)
    /\ UNCHANGED <<address, changing, sessions, challenges>>

\* Spent without asking whether somebody else just spent it.
ConsumeCode(c) ==
    /\ At(c, "consuming")
    /\ Relabel(c, NoLetter)
    /\ Proceeds(c, "revoking")
    /\ UNCHANGED <<address, changing, sessions, challenges>>

\* "Every other session for this account goes."
RevokeOthers(c) ==
    /\ At(c, "revoking") /\ callers[c].purpose = "sign_in"
    /\ sessions' = {}
    /\ Proceeds(c, "finishing")
    /\ UNCHANGED <<address, changing, letters, challenges>>

\* A reset ends with every session revoked, the password written.
FinishReset(c) ==
    /\ At(c, "revoking") /\ callers[c].purpose = "password_reset"
    /\ sessions' = {}
    /\ Answers(c, Absent)
    /\ UNCHANGED <<address, changing, letters, challenges>>

\* A challenge where a factor is enrolled; refused where one is owed; a session.
FinishSignIn(c) ==
    /\ At(c, "finishing")
    /\ \/ challenges' = challenges \cup {callers[c].from} /\ UNCHANGED sessions
       \/ sessions' = sessions \cup {callers[c].from} /\ UNCHANGED challenges
       \/ UNCHANGED <<sessions, challenges>>
    /\ Answers(c, Absent)
    /\ UNCHANGED <<address, changing, letters>>

\* completeChallenge; a challenge from before a change is not revoked by it.
CompleteChallenge ==
    /\ \E from \in challenges :
        /\ challenges' \in {challenges, challenges \ {from}}
        /\ sessions' = sessions \cup {IF from = address THEN Today ELSE Overlapping}
    /\ UNCHANGED <<address, changing, letters, callers>>

\* Signing out, idling, expiring: a session is over, or another like it lives.
EndSession ==
    /\ \E from \in sessions : sessions' = sessions \ {from}
    /\ UNCHANGED <<address, changing, letters, challenges, callers>>

\* A challenge is answered wrongly too often, or too late.
DropChallenge ==
    /\ \E from \in challenges : challenges' = challenges \ {from}
    /\ UNCHANGED <<address, changing, letters, sessions, callers>>

\* setOwnPassword ends with every session revoked.
RevokeAll ==
    /\ sessions' = {}
    /\ UNCHANGED <<address, changing, letters, challenges, callers>>
-----------------------------------------------------------------------------
\* changeWorkAddress: the address and its audit event in one transaction, and
\* whatever is under way has read the old one.
CommitAddress ==
    /\ changing = "no" /\ address < MaxAddress
    /\ address' = address + 1 /\ changing' = "sessions"
    /\ callers' = [c \in Caller |-> IF callers[c] = Absent THEN Absent
                                    ELSE [callers[c] EXCEPT !.from = Overlapping]]
    /\ UNCHANGED <<letters, sessions, challenges>>

\* Mutant: the sessions are left to expire.
SurvivorsAll == sessions

Survivors == {}

\* ... then, after it, every session ...
RevokeSessions ==
    /\ changing = "sessions" /\ changing' = "codes"
    /\ sessions' = Survivors
    /\ UNCHANGED <<address, letters, challenges, callers>>

\* ... and the codes in flight, one by one. A crash before the last of these leaves
\* the change unfinished.
ConsumeCodes ==
    /\ \/ /\ changing = "codes" /\ changing' = "resets"
          /\ letters' = [letters EXCEPT !["sign_in"] = NoLetter]
       \/ /\ changing = "resets" /\ changing' = "no"
          /\ letters' = [letters EXCEPT !["password_reset"] = NoLetter]
    /\ UNCHANGED <<address, sessions, challenges, callers>>

SignInNext ==
    \/ \E c \in Caller :
        \/ FindUser(c) \/ FindUserForReset(c) \/ PutSignInCode(c) \/ ReadCode(c) \/ RecordAttempt(c)
        \/ ConsumeCode(c) \/ RevokeOthers(c) \/ FinishReset(c) \/ FinishSignIn(c)
    \/ CompleteChallenge \/ EndSession \/ DropChallenge \/ RevokeAll
    \/ CommitAddress \/ RevokeSessions \/ ConsumeCodes

SignInSpec == SignInInit /\ [][SignInNext]_signInVars
-----------------------------------------------------------------------------
\* Rows and calls have the shapes the code gives them.
SignInTypeOK ==
    /\ address \in 0..MaxAddress /\ changing \in {"no", "sessions", "codes", "resets"}
    /\ letters \in [CodePurpose -> [used: BOOLEAN, from: Origin, tries: 0..MaxTries]]
    /\ sessions \subseteq Origin /\ challenges \subseteq Origin

\* "A session opened from the old mailbox must not survive the mailbox": once a change
\* of the address is done, no session and no unused code, for whichever purpose, goes
\* back to an earlier one, whatever calls were under way; only what overlapped the change,
\* or had only its second factor to show, is excepted (changeWorkAddress,
\* verifySignInCode, resetPassword).
OldAddressOpensNothing ==
    changing = "no" =>
        /\ sessions \subseteq {address, Overlapping}
        /\ \A p \in CodePurpose :
               letters[p].used \/ letters[p].from \in {address, Overlapping}
==============================================================================

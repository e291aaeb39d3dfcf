----------------------------- MODULE LoginCodes -----------------------------
(***************************************************************************)
(* Email login codes (auth.rs code_request, code_verify, issue_login_code; *)
(* the login_codes part of db.rs), for one email address: the one pending  *)
(* code, the requests in flight for it, and the account behind it being    *)
(* registered and erased meanwhile.                                        *)
(*                                                                         *)
(* Codes are told apart by the serial number of their issue; whether a     *)
(* presented code has the stored hash is a choice.  Statements of a        *)
(* closure commit one by one, so the process may crash between the bump of *)
(* the attempts and what follows it.                                       *)
(***************************************************************************)
EXTENDS Naturals

CONSTANTS
    CodeReqs,
    MaxAttempts,   \* LOGIN_CODE_MAX_ATTEMPTS
    MaxIssues,     \* bound: codes issued
    MaxCrashes,    \* bound: crashes inside code_verify
    NoCode

ASSUME LoginCodesAssumption ==
    /\ MaxAttempts \in Nat \ {0}
    /\ MaxIssues \in Nat
    /\ MaxCrashes \in Nat
    /\ NoCode \notin [serial: Nat, attempts: Nat, expired: BOOLEAN]

VARIABLES
    account,    \* is there a users row with this email
    code,       \* the login_codes row, or NoCode
    pc,         \* requests between two Db::calls
    issued,     \* codes issued so far
    compared,   \* history: comparisons with each issued code
    signedIn,   \* history: sign-ins each issued code was good for
    crashes     \* history: crashes after a bump, by issued code

codesVars == <<account, code, pc, issued, compared, signedIn, crashes>>

Serials == 1..MaxIssues

CodesTypeOK ==
    /\ account \in BOOLEAN
    /\ code \in [serial: 1..issued, attempts: 0..MaxAttempts, expired: BOOLEAN] \union {NoCode}
    /\ pc \in [CodeReqs -> {"idle", "exists", "erasing", "late"}]
    /\ issued \in 0..MaxIssues
    /\ compared \in [Serials -> Nat]
    /\ signedIn \in [Serials -> Nat]
    /\ crashes \in [Serials -> 0..MaxCrashes]

CodesInit ==
    /\ account = FALSE
    /\ code = NoCode
    /\ pc = [r \in CodeReqs |-> "idle"]
    /\ issued = 0
    /\ compared = [s \in Serials |-> 0]
    /\ signedIn = [s \in Serials |-> 0]
    /\ crashes = [s \in Serials |-> 0]

CodeGoto(r, label) == pc' = [pc EXCEPT ![r] = label]

-----------------------------------------------------------------------------

\* code_request, first call: codes go to existing accounts only.
CodeRequest(r) ==
    /\ pc[r] = "idle"
    /\ account
    /\ CodeGoto(r, "exists")
    /\ UNCHANGED <<account, code, issued, compared, signedIn, crashes>>

\* Mutant: replacing the hash keeps the attempts of the code before.
Fresh_Inherits(serial) ==
    [serial |-> serial, expired |-> FALSE,
     attempts |-> IF code = NoCode THEN 0 ELSE code.attempts]

\* upsert_login_code's INSERT OR REPLACE.
Fresh(serial) == [serial |-> serial, expired |-> FALSE, attempts |-> 0]

\* code_request, second call: the account is not looked at again.
IssueCode(r) ==
    /\ pc[r] = "exists"
    /\ issued < MaxIssues
    /\ issued' = issued + 1
    /\ code' = Fresh(issued + 1)
    /\ CodeGoto(r, "idle")
    /\ UNCHANGED <<account, compared, signedIn, crashes>>

-----------------------------------------------------------------------------
(* code_verify's closure.                                                  *)

\* expires_at < now || attempts >= LOGIN_CODE_MAX_ATTEMPTS.
Dead(c) == c.expired \/ c.attempts >= MaxAttempts

\* A dead code is deleted and never compared.
VerifyDead ==
    /\ code # NoCode
    /\ Dead(code)
    /\ code' = NoCode
    /\ UNCHANGED <<account, pc, issued, compared, signedIn, crashes>>

\* Mutant: no bump before the comparison.
Bumped_Not(c) == c

\* bump_login_code_attempts.
Bumped(c) == [c EXCEPT !.attempts = @ + 1]

\* A wrong code costs an attempt, the last one the code.
VerifyWrong ==
    /\ code # NoCode
    /\ ~Dead(code)
    /\ compared' = [compared EXCEPT ![code.serial] = @ + 1]
    /\ code' = IF code.attempts + 1 >= MaxAttempts THEN NoCode ELSE Bumped(code)
    /\ UNCHANGED <<account, pc, issued, signedIn, crashes>>

\* Mutant: the code survives its use.
Spent_Kept(c) == Bumped(c)

\* delete_login_code: single use.
Spent(c) == NoCode

\* The right code opens the account, if there still is one.
VerifyRight ==
    /\ code # NoCode
    /\ ~Dead(code)
    /\ compared' = [compared EXCEPT ![code.serial] = @ + 1]
    /\ signedIn' = [signedIn EXCEPT ![code.serial] = IF account THEN @ + 1 ELSE @]
    /\ code' = Spent(code)
    /\ UNCHANGED <<account, pc, issued, crashes>>

\* The process dies after the comparison, with the bump committed and perhaps
\* the deletion, but before anybody is signed in.
VerifyCut ==
    /\ code # NoCode
    /\ ~Dead(code)
    /\ crashes[code.serial] < MaxCrashes
    /\ compared' = [compared EXCEPT ![code.serial] = @ + 1]
    /\ crashes' = [crashes EXCEPT ![code.serial] = @ + 1]
    /\ code' \in {Bumped(code), NoCode}
    /\ pc' = [r \in CodeReqs |-> "idle"]
    /\ UNCHANGED <<account, issued, signedIn>>

\* Ten minutes pass.
Expire ==
    /\ code # NoCode
    /\ ~code.expired
    /\ code' = [code EXCEPT !.expired = TRUE]
    /\ UNCHANGED <<account, pc, issued, compared, signedIn, crashes>>

-----------------------------------------------------------------------------
(* The account behind the address.                                         *)

Register ==
    /\ ~account
    /\ account' = TRUE
    /\ UNCHANGED <<code, pc, issued, compared, signedIn, crashes>>

\* delete_me: the session's user is read; then the code of its email goes, and
\* its row with it.
BeginErase(r) ==
    /\ pc[r] = "idle"
    /\ account
    /\ CodeGoto(r, "erasing")
    /\ UNCHANGED <<account, code, issued, compared, signedIn, crashes>>

FinishErase(r) ==
    /\ pc[r] = "erasing"
    /\ code' = NoCode
    /\ account' = FALSE
    /\ pc' = [q \in CodeReqs |-> IF q = r THEN "idle"
                             ELSE IF pc[q] = "erasing" THEN "late" ELSE pc[q]]
    /\ UNCHANGED <<issued, compared, signedIn, crashes>>

\* A second erasure that read the same user: the row is gone, and whoever has
\* the email now keeps the account but not its pending code.
FinishLateErase(r) ==
    /\ pc[r] = "late"
    /\ code' = NoCode
    /\ CodeGoto(r, "idle")
    /\ UNCHANGED <<account, issued, compared, signedIn, crashes>>

\* A request is dropped between its two calls.
Abandon(r) ==
    /\ pc[r] # "idle"
    /\ CodeGoto(r, "idle")
    /\ UNCHANGED <<account, code, issued, compared, signedIn, crashes>>

CodesNext ==
    \/ \E r \in CodeReqs :
        \/ CodeRequest(r)
        \/ IssueCode(r)
        \/ BeginErase(r)
        \/ FinishErase(r)
        \/ FinishLateErase(r)
        \/ Abandon(r)
    \/ VerifyDead \/ VerifyWrong \/ VerifyRight \/ VerifyCut
    \/ Expire
    \/ Register

CodesSpec == CodesInit /\ [][CodesNext]_codesVars

-----------------------------------------------------------------------------
(* Properties.                                                             *)

\* "Single-use": however verifications, new requests, erasures and crashes
\* overlap, one issued code signs in once.
SingleUse == \A s \in Serials : signedIn[s] <= 1

\* "5 attempts" (auth.rs): no code is compared more often than that, because
\* the attempt is on record before the comparison can be cut short.
FiveAttempts == \A s \in Serials : compared[s] <= MaxAttempts

\* What was tried on earlier codes does not count against a new one: the
\* attempts on record are comparisons with this very code.
AttemptsAreItsOwn ==
    code # NoCode => code.attempts <= compared[code.serial]
=============================================================================

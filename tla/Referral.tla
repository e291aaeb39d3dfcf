------------------------------ MODULE Referral ------------------------------
(***************************************************************************)
(* Referrals (server/src/referral.rs, the referral part of db.rs, and what *)
(* sign-up, merging and erasure do to it): who was referred by whom, the   *)
(* reading days an invitee qualifies with, and the sweep that pays both    *)
(* sides when a referrer opens the status page during an event.            *)
(*                                                                         *)
(* The sweep is one closure but no transaction: its updates commit one by  *)
(* one, so a crash can cut it anywhere.                                    *)
(***************************************************************************)
EXTENDS Naturals, FiniteSets

CONSTANTS
    Users, Days, IPs, NoUser, NoIP,
    Goal,          \* DAILY_GOAL, in reports of read words
    QualifyDays,   \* QUALIFY_DAYS
    MaxCrashes     \* bound: crashes in a sweep

ASSUME ReferralAssumption ==
    /\ NoUser \notin Users /\ NoIP \notin IPs
    /\ Goal \in Nat \ {0} /\ QualifyDays \in Nat /\ MaxCrashes \in Nat

VARIABLES
    kind,       \* users rows: none, guest, member, gone
    signupIp,   \* users.signup_ip
    refCode,    \* users with a ref_code
    referredBy, \* users.referred_by
    credited,   \* users.ref_credited
    words,      \* reading_days, counted up to the goal
    event,      \* is a referral event active
    opening,    \* status and friend-link requests that have read their user
    earned,     \* history: invitee grants each user got
    crashes

vars == <<kind, signupIp, refCode, referredBy, credited, words, event,
          opening, earned, crashes>>

Here(u) == kind[u] \in {"guest", "member"}

TypeOK ==
    /\ kind \in [Users -> {"none", "guest", "member", "gone"}]
    /\ signupIp \in [Users -> IPs \union {NoIP}]
    /\ refCode \subseteq Users
    /\ referredBy \in [Users -> Users \union {NoUser}]
    /\ credited \in [Users -> {"pending", "credited", "rejected"}]
    /\ words \in [Users -> [Days -> 0..Goal]]
    /\ event \in BOOLEAN
    /\ opening \subseteq Users
    /\ earned \in [Users -> Nat]
    /\ crashes \in 0..MaxCrashes
    /\ \A u \in Users : referredBy[u] # NoUser => referredBy[u] \in refCode

Init ==
    /\ kind = [u \in Users |-> "none"]
    /\ signupIp = [u \in Users |-> NoIP]
    /\ refCode = {}
    /\ referredBy = [u \in Users |-> NoUser]
    /\ credited = [u \in Users |-> "pending"]
    /\ words = [u \in Users |-> [d \in Days |-> 0]]
    /\ event = FALSE
    /\ opening = {}
    /\ earned = [u \in Users |-> 0]
    /\ crashes = 0

-----------------------------------------------------------------------------

\* user_id_by_ref_code: the codes that resolve to a row.
Codes == {u \in refCode : Here(u)}

\* ensure_ref_code mints a code for a row without one.
Minted(u) == IF Here(u) THEN {u} ELSE {}

\* guest and register: an invite code, if it resolves, and the (hashed) address
\* are recorded together; without one neither is.
SignUp(u, status, ip, referrer) ==
    /\ kind[u] = "none"
    /\ referrer \in Codes \union {NoUser}
    /\ kind' = [kind EXCEPT ![u] = status]
    /\ referredBy' = [referredBy EXCEPT ![u] = referrer]
    /\ signupIp' = [signupIp EXCEPT ![u] = IF referrer # NoUser THEN ip ELSE NoIP]
    /\ UNCHANGED <<refCode, credited, words, event, opening, earned, crashes>>

\* add_read_words.
Read(u, d) ==
    /\ Here(u)
    /\ words[u][d] < Goal
    /\ words' = [words EXCEPT ![u][d] = @ + 1]
    /\ UNCHANGED <<kind, signupIp, refCode, referredBy, credited, event,
                   opening, earned, crashes>>

\* Mutant: without COALESCE the guest's referrer, or none, replaces the account's.
Inherited_Replaces(g, m) == IF referredBy[g] # m THEN referredBy[g] ELSE NoUser

\* Mutant: without the "never self" condition.
Inherited_Self(g, m) ==
    IF referredBy[m] = NoUser THEN referredBy[g] ELSE referredBy[m]

\* COALESCE(referred_by, the guest's referrer unless that is the account).
Inherited(g, m) ==
    IF referredBy[m] = NoUser /\ referredBy[g] # m THEN referredBy[g] ELSE referredBy[m]

\* Mutant: on a day both have, the guest's count wins.
Summed_Overwrites(g, m) ==
    [d \in Days |-> IF words[g][d] > 0 THEN words[g][d] ELSE words[m][d]]

\* reading_days: the counts of both add up (here: up to the goal).
Summed(g, m) ==
    [d \in Days |-> IF words[g][d] + words[m][d] > Goal THEN Goal
                                                       ELSE words[g][d] + words[m][d]]

\* merge_guest_into.
Merge(g, m) ==
    /\ kind[g] = "guest"
    /\ kind[m] = "member"
    /\ kind' = [kind EXCEPT ![g] = "gone"]
    /\ referredBy' = [referredBy EXCEPT ![m] = Inherited(g, m)]
    /\ signupIp' = [signupIp EXCEPT ![m] = IF @ = NoIP THEN signupIp[g] ELSE @]
    /\ words' = [words EXCEPT ![m] = Summed(g, m)]
    /\ UNCHANGED <<refCode, credited, event, opening, earned, crashes>>

\* delete_user: referred_by of the others goes stale.
Erase(u) ==
    /\ Here(u)
    /\ kind' = [kind EXCEPT ![u] = "gone"]
    /\ UNCHANGED <<signupIp, refCode, referredBy, credited, words, event,
                   opening, earned, crashes>>

\* An admin opens an event, or it ends.
Toggle ==
    /\ event' = ~event
    /\ UNCHANGED <<kind, signupIp, refCode, referredBy, credited, words,
                   opening, earned, crashes>>

-----------------------------------------------------------------------------
(* GET /api/referral.                                                      *)

\* The user is read; guests are turned away.
OpenStatus(u) ==
    /\ kind[u] = "member"
    /\ u \notin opening
    /\ opening' = opening \union {u}
    /\ UNCHANGED <<kind, signupIp, refCode, referredBy, credited, words, event,
                   earned, crashes>>

Pending(c) == credited[c] = "pending"

\* referral_children whose referral is not settled.
Unsettled(u) == {c \in Users : Here(c) /\ referredBy[c] = u /\ Pending(c)}

\* The address check needs a recorded address on both sides.
SameIp(u, c) == Here(u) /\ signupIp[u] # NoIP /\ signupIp[u] = signupIp[c]

QualifyingDays(c) == Cardinality({d \in Days : words[c][d] >= Goal})

Done(c) ==
    /\ kind[c] = "member"
    /\ QualifyingDays(c) >= QualifyDays

Rejected(u) == {c \in Unsettled(u) : SameIp(u, c)}
Payable(u) == {c \in Unsettled(u) \ Rejected(u) : event /\ Done(c)}

\* Mutant: the flag of the other invitees is forgotten.
Settle_PayOnly(reject, pay) == [c \in Users |-> IF c \in reject THEN "rejected" ELSE credited[c]]

\* set_ref_credited for the invitees that were rejected and paid.
Settle(reject, pay) ==
    [c \in Users |-> IF c \in reject THEN "rejected"
                     ELSE IF c \in pay THEN "credited" ELSE credited[c]]

Pay(pay) == [c \in Users |-> earned[c] + IF c \in pay THEN 1 ELSE 0]

\* The closure: mint the code, reject, pay.  The user may be gone by now; then
\* there is nothing to mint, but the invitees are still paid.
Sweep(u) ==
    /\ u \in opening
    /\ opening' = opening \ {u}
    /\ refCode' = refCode \union Minted(u)
    /\ credited' = Settle(Rejected(u), Payable(u))
    /\ earned' = Pay(Payable(u))
    /\ UNCHANGED <<kind, signupIp, referredBy, words, event, crashes>>

\* GET /api/friends/link asks for the same code, and settles nothing.
FriendLink(u) ==
    /\ u \in opening
    /\ opening' = opening \ {u}
    /\ refCode' = refCode \union Minted(u)
    /\ UNCHANGED <<kind, signupIp, referredBy, credited, words, event, earned, crashes>>

\* A crash after some invitees, right after granting c its days.
SweepCut(u, done, c) ==
    /\ u \in opening
    /\ crashes < MaxCrashes
    /\ c \in Payable(u) \ done
    /\ crashes' = crashes + 1
    /\ opening' = {}
    /\ refCode' = refCode \union Minted(u)
    /\ credited' = Settle(Rejected(u) \intersect done, Payable(u) \intersect done)
    /\ earned' = Pay((Payable(u) \intersect done) \union {c})
    /\ UNCHANGED <<kind, signupIp, referredBy, words, event>>

Next ==
    \/ \E u \in Users, status \in {"guest", "member"}, ip \in IPs,
          referrer \in Users \union {NoUser} : SignUp(u, status, ip, referrer)
    \/ \E u \in Users, d \in Days : Read(u, d)
    \/ \E g, m \in Users : Merge(g, m)
    \/ \E u \in Users : Erase(u) \/ OpenStatus(u) \/ Sweep(u) \/ FriendLink(u)
    \/ Toggle
    \/ \E u, c \in Users, done \in SUBSET Users : SweepCut(u, done, c)

Spec == Init /\ [][Next]_vars

-----------------------------------------------------------------------------
(* Properties.                                                             *)

\* Nobody refers themselves, not even by reading as the guest of one's own
\* invite and signing in to the inviting account later.
NeverSelf == \A u \in Users : referredBy[u] # u

\* Attribution is recorded once: merging guests that came by other invites
\* into an account does not change who referred it.
AttributedOnce ==
    [][\A u \in Users : referredBy[u] # NoUser => referredBy'[u] = referredBy[u]]_vars

\* A day the goal was reached on, by the guest, by the account or by both
\* together, is a goal day of the merged account.
GoalDaysSurviveMerge ==
    [][\A g, m \in Users : kind[g] = "guest" /\ kind'[g] = "gone" /\ words'[m] # words[m] =>
         \A d \in Days : words[g][d] >= Goal \/ words[m][d] >= Goal => words'[m][d] >= Goal]_vars

\* However many sweeps run, for referrers that may be erased meanwhile, an
\* invitee is paid once; every crash inside a sweep can cost one more payout.
PaidOncePerCrash == \A c \in Users : earned[c] <= 1 + crashes
=============================================================================

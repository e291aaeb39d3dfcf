------------------------------ MODULE Accounts ------------------------------
(***************************************************************************)
(* Users, sessions, linked identities and the uploaded books they own      *)
(* (server/src/auth.rs, oidc.rs and the user, session and merge parts of   *)
(* db.rs).                                                                 *)
(*                                                                         *)
(* Every Db::call closure runs alone under the connection's mutex and is   *)
(* one action here; a handler is a sequence of such closures with awaits   *)
(* between them, so the requests in Reqs interleave between their actions, *)
(* and each may stop for good between two of them (a client that hangs up  *)
(* drops the handler's future, a crash drops them all).                    *)
(*                                                                         *)
(* Ids and tokens are random and never reused: a row that is gone stays    *)
(* gone under its name.  Items are uploaded books; the intro and catalog   *)
(* copies every library is seeded with are in module Library.              *)
(***************************************************************************)
EXTENDS Naturals, FiniteSets

CONSTANTS Users, Emails, Tokens, Subs, Items, Reqs, NoUser, NoEmail, NoToken

ASSUME NoUserAssumption  == NoUser \notin Users
ASSUME NoEmailAssumption == NoEmail \notin Emails
ASSUME NoTokenAssumption == NoToken \notin Tokens

VARIABLES
    users,       \* users rows: absent, guest, member; merged or erased once deleted
    email,       \* users.email
    holder,      \* sessions rows: the user of each token, NoUser without a row
    issued,      \* tokens that were ever handed out as cookies
    expired,     \* session rows past expires_at and not yet swept
    identities,  \* identities rows: (provider, sub) -> user
    owner,       \* books.user_id of each uploaded book
    stored,      \* uploaded books that were ever inserted
    pc,          \* where each request stands between two Db::calls
    subject,     \* the user snapshot the handler carries
    cookie       \* the flick_session cookie the request presented

rows == <<users, email, holder, issued, expired, identities, owner, stored>>
vars == <<users, email, holder, issued, expired, identities, owner, stored,
          pc, subject, cookie>>

UserStatus == {"absent", "guest", "member", "merged", "erased"}
PCs == {"idle", "merge", "session", "authed"}

TypeOK ==
    /\ users \in [Users -> UserStatus]
    /\ email \in [Users -> Emails \union {NoEmail}]
    /\ holder \in [Tokens -> Users \union {NoUser}]
    /\ issued \subseteq Tokens
    /\ expired \subseteq Tokens
    /\ identities \in [Subs -> Users \union {NoUser}]
    /\ owner \in [Items -> Users \union {NoUser}]
    /\ stored \subseteq Items
    /\ pc \in [Reqs -> PCs]
    /\ subject \in [Reqs -> Users \union {NoUser}]
    /\ cookie \in [Reqs -> Tokens \union {NoToken}]
    /\ \A r \in Reqs : pc[r] # "idle" => subject[r] \in Users

Init ==
    /\ users = [u \in Users |-> "absent"]
    /\ email = [u \in Users |-> NoEmail]
    /\ holder = [t \in Tokens |-> NoUser]
    /\ issued = {}
    /\ expired = {}
    /\ identities = [s \in Subs |-> NoUser]
    /\ owner = [i \in Items |-> NoUser]
    /\ stored = {}
    /\ pc = [r \in Reqs |-> "idle"]
    /\ subject = [r \in Reqs |-> NoUser]
    /\ cookie = [r \in Reqs |-> NoToken]

-----------------------------------------------------------------------------
(* Reads.                                                                  *)

Present(u) == u \in Users /\ users[u] \in {"guest", "member"}

IsGuest(u) == u \in Users /\ users[u] = "guest"

\* Mutant: registration trusts the caller and skips the look-before-insert.
EmailFree_Unchecked(e) == TRUE

\* db::user_by_email finds nobody.
EmailFree(e) == \A u \in Users : Present(u) => email[u] # e

\* db::session_user: the row joins a user and expires_at >= now.
CookieUser(t) == IF t \in Tokens \ expired THEN holder[t] ELSE NoUser

Cookies == issued \union {NoToken}

-----------------------------------------------------------------------------
(* Writes.  Deleting a users row cascades over the foreign keys.           *)

\* Mutant: sessions without ON DELETE CASCADE.
HoldersWithout_Dangling(u) == holder

HoldersWithout(u) ==
    [t \in Tokens |-> IF holder[t] = u THEN NoUser ELSE holder[t]]

\* Mutant: merging without moving the uploads first loses them to the cascade.
OwnersMoved_Lost(g, m) ==
    [i \in Items |-> IF owner[i] = g THEN NoUser ELSE owner[i]]

OwnersMoved(g, m) ==
    [i \in Items |-> IF owner[i] = g THEN m ELSE owner[i]]

DeleteUser(u) ==
    /\ users' = [users EXCEPT ![u] = "erased"]
    /\ email' = [email EXCEPT ![u] = NoEmail]
    /\ holder' = HoldersWithout(u)
    /\ expired' = {t \in expired : holder[t] # u}
    /\ identities' = [s \in Subs |-> IF identities[s] = u THEN NoUser ELSE identities[s]]
    /\ owner' = OwnersMoved(u, NoUser)
    /\ UNCHANGED <<issued, stored>>

Goto(r, label, u, t) ==
    /\ pc' = [pc EXCEPT ![r] = label]
    /\ subject' = [subject EXCEPT ![r] = u]
    /\ cookie' = [cookie EXCEPT ![r] = t]

\* The handler answers, with success or an error, or is dropped.
Finish(r) == Goto(r, "idle", NoUser, NoToken)

-----------------------------------------------------------------------------
(* Signing in.  Each entry ends with the handler holding a user snapshot.  *)

\* guest: an anonymous row; the request's own cookie is not looked at.
GuestSignup(r, u) ==
    /\ pc[r] = "idle"
    /\ users[u] = "absent"
    /\ users' = [users EXCEPT ![u] = "guest"]
    /\ Goto(r, "session", u, NoToken)
    /\ UNCHANGED <<email, holder, issued, expired, identities, owner, stored>>

\* register: look for the email and insert the row, in one closure.
Register(r, u, e, t) ==
    /\ pc[r] = "idle"
    /\ users[u] = "absent"
    /\ t \in Cookies
    /\ EmailFree(e)
    /\ users' = [users EXCEPT ![u] = "member"]
    /\ email' = [email EXCEPT ![u] = e]
    /\ Goto(r, "merge", u, t)
    /\ UNCHANGED <<holder, issued, expired, identities, owner, stored>>

\* login and code_verify: the row is read, then the password is hashed on
\* another thread (or the code was consumed with the read).
Login(r, u, t) ==
    /\ pc[r] = "idle"
    /\ users[u] = "member"
    /\ t \in Cookies
    /\ Goto(r, "merge", u, t)
    /\ UNCHANGED rows

\* db::user_by_identity finds the account.
Linked(s) == identities[s] # NoUser

\* complete: the identity is already linked.
OAuthKnown(r, s, t) ==
    /\ pc[r] = "idle"
    /\ Linked(s)
    /\ t \in Cookies
    /\ Goto(r, "merge", identities[s], t)
    /\ UNCHANGED rows

\* Mutant: linking before looking for the identity.
Unlinked_Unchecked(s) == TRUE

Unlinked(s) == identities[s] = NoUser

\* link_identity's INSERT OR REPLACE.
Link(s, u) == [identities EXCEPT ![s] = u]

\* complete: a verified provider email matches an account; link and use it.
OAuthLink(r, s, u, t) ==
    /\ pc[r] = "idle"
    /\ Unlinked(s)
    /\ users[u] = "member"
    /\ t \in Cookies
    /\ identities' = Link(s, u)
    /\ Goto(r, "merge", u, t)
    /\ UNCHANGED <<users, email, holder, issued, expired, owner, stored>>

\* complete: nobody has the email; create the account and link it.
OAuthCreate(r, s, u, e, t) ==
    /\ pc[r] = "idle"
    /\ Unlinked(s)
    /\ users[u] = "absent"
    /\ t \in Cookies
    /\ EmailFree(e)
    /\ users' = [users EXCEPT ![u] = "member"]
    /\ email' = [email EXCEPT ![u] = e]
    /\ identities' = Link(s, u)
    /\ Goto(r, "merge", u, t)
    /\ UNCHANGED <<holder, issued, expired, owner, stored>>

\* The statements of that closure commit one by one: a crash between the
\* inserts leaves an account without its identity, and no request alive.
CrashInOAuthCreate(s, u, e) ==
    /\ Unlinked(s)
    /\ users[u] = "absent"
    /\ EmailFree(e)
    /\ users' = [users EXCEPT ![u] = "member"]
    /\ email' = [email EXCEPT ![u] = e]
    /\ pc' = [r \in Reqs |-> "idle"]
    /\ subject' = [r \in Reqs |-> NoUser]
    /\ cookie' = [r \in Reqs |-> NoToken]
    /\ UNCHANGED <<holder, issued, expired, identities, owner, stored>>

-----------------------------------------------------------------------------
(* merge_guest_from_request, then start_session.                           *)

\* Mutant: a guest without uploads is not worth merging.
OpensGuest_WithUploads(t) ==
    IsGuest(CookieUser(t)) /\ \E i \in Items : owner[i] = CookieUser(t)

\* The cookie is resolved now, not when the request came in.
OpensGuest(t) == IsGuest(CookieUser(t))

MergeNothing(r) ==
    /\ pc[r] = "merge"
    /\ ~OpensGuest(cookie[r])
    /\ Goto(r, "session", subject[r], cookie[r])
    /\ UNCHANGED rows

\* merge_guest_into in its transaction: the uploads move, the guest row goes
\* and takes its sessions along.
MergeGuest(r) ==
    LET g == CookieUser(cookie[r])
        m == subject[r]
    IN  /\ pc[r] = "merge"
        /\ OpensGuest(cookie[r])
        /\ Present(m)
        /\ users' = [users EXCEPT ![g] = "merged"]
        /\ holder' = HoldersWithout(g)
        /\ expired' = {t \in expired : holder[t] # g}
        /\ owner' = OwnersMoved(g, m)
        /\ Goto(r, "session", m, cookie[r])
        /\ UNCHANGED <<email, issued, identities, stored>>

\* The target was erased meanwhile: moving any row to it breaks the foreign
\* key and the transaction rolls back.  (Seeded copies and reading days are
\* rows too, so this can happen to a guest without uploads.)
MergeRolledBack(r) ==
    /\ pc[r] = "merge"
    /\ OpensGuest(cookie[r])
    /\ ~Present(subject[r])
    /\ Finish(r)
    /\ UNCHANGED rows

\* The same with a guest that has no row to move: only its own row goes.
MergeIntoMissing(r) ==
    LET g == CookieUser(cookie[r])
    IN  /\ pc[r] = "merge"
        /\ OpensGuest(cookie[r])
        /\ ~Present(subject[r])
        /\ \A i \in Items : owner[i] # g
        /\ users' = [users EXCEPT ![g] = "merged"]
        /\ holder' = HoldersWithout(g)
        /\ expired' = {t \in expired : holder[t] # g}
        /\ Goto(r, "session", subject[r], cookie[r])
        /\ UNCHANGED <<email, issued, identities, owner, stored>>

\* create_session: expired rows are dropped, then the new one is inserted.
StartSession(r, t) ==
    /\ pc[r] = "session"
    /\ t \notin issued
    /\ Present(subject[r])
    /\ holder' = [x \in Tokens |-> IF x = t THEN subject[r]
                                   ELSE IF x \in expired THEN NoUser ELSE holder[x]]
    /\ issued' = issued \union {t}
    /\ expired' = {}
    /\ Finish(r)
    /\ UNCHANGED <<users, email, identities, owner, stored>>

\* The user is gone: the foreign key refuses the row (the sweep stays done).
StartSessionRefused(r) ==
    /\ pc[r] = "session"
    /\ ~Present(subject[r])
    /\ holder' = [x \in Tokens |-> IF x \in expired THEN NoUser ELSE holder[x]]
    /\ expired' = {}
    /\ Finish(r)
    /\ UNCHANGED <<users, email, issued, identities, owner, stored>>

-----------------------------------------------------------------------------
(* Requests of a signed-in reader: the AuthUser extractor reads the user,  *)
(* the handler's own closure runs later.                                   *)

Authenticate(r, t) ==
    /\ pc[r] = "idle"
    /\ t \in issued
    /\ CookieUser(t) # NoUser
    /\ Goto(r, "authed", CookieUser(t), t)
    /\ UNCHANGED rows

\* insert_book under the snapshot's id.
Upload(r, i) ==
    /\ pc[r] = "authed"
    /\ i \notin stored
    /\ Present(subject[r])
    /\ owner' = [owner EXCEPT ![i] = subject[r]]
    /\ stored' = stored \union {i}
    /\ Finish(r)
    /\ UNCHANGED <<users, email, holder, issued, expired, identities>>

\* purge_book: WHERE id = ... AND user_id = the snapshot's id (that the row
\* must be in the trash is in Library).
MayPurge(r, i) == owner[i] = subject[r]

Purge(r, i) ==
    /\ pc[r] = "authed"
    /\ MayPurge(r, i)
    /\ owner' = [owner EXCEPT ![i] = NoUser]
    /\ Finish(r)
    /\ UNCHANGED <<users, email, holder, issued, expired, identities, stored>>

\* delete_me: erasure of the snapshot's id.
EraseSelf(r) ==
    /\ pc[r] = "authed"
    /\ Present(subject[r])
    /\ DeleteUser(subject[r])
    /\ Finish(r)

\* admin::user_delete.
EraseByAdmin(u) ==
    /\ Present(u)
    /\ DeleteUser(u)
    /\ UNCHANGED <<pc, subject, cookie>>

\* logout needs no user: it deletes the row of the token it is shown.
Logout(t) ==
    /\ holder[t] # NoUser
    /\ holder' = [holder EXCEPT ![t] = NoUser]
    /\ expired' = expired \ {t}
    /\ UNCHANGED <<users, email, issued, identities, owner, stored, pc, subject, cookie>>

\* The clock passes a session's expires_at.
Expire(t) ==
    /\ holder[t] # NoUser
    /\ t \notin expired
    /\ expired' = expired \union {t}
    /\ UNCHANGED <<users, email, holder, issued, identities, owner, stored, pc, subject, cookie>>

\* A request stops between two closures: hang-up, crash, or an authenticated
\* call that changes nothing here (a 404, or a write that the foreign key
\* refuses because the user is gone).
Stop(r) ==
    /\ pc[r] # "idle"
    /\ Finish(r)
    /\ UNCHANGED rows

-----------------------------------------------------------------------------

SignIn(r) ==
    \/ \E u \in Users : GuestSignup(r, u)
    \/ \E u \in Users, e \in Emails, t \in Cookies : Register(r, u, e, t)
    \/ \E u \in Users, t \in Cookies : Login(r, u, t)
    \/ \E s \in Subs, t \in Cookies : OAuthKnown(r, s, t)
    \/ \E s \in Subs, u \in Users, t \in Cookies : OAuthLink(r, s, u, t)
    \/ \E s \in Subs, u \in Users, e \in Emails, t \in Cookies : OAuthCreate(r, s, u, e, t)

Merge(r) ==
    \/ MergeNothing(r)
    \/ MergeGuest(r)
    \/ MergeRolledBack(r)
    \/ MergeIntoMissing(r)

Session(r) ==
    \/ \E t \in Tokens : StartSession(r, t)
    \/ StartSessionRefused(r)

SignedIn(r) ==
    \/ \E t \in Tokens : Authenticate(r, t)
    \/ \E i \in Items : Upload(r, i)
    \/ \E i \in Items : Purge(r, i)
    \/ EraseSelf(r)

Environment ==
    \/ \E s \in Subs, u \in Users, e \in Emails : CrashInOAuthCreate(s, u, e)
    \/ \E u \in Users : EraseByAdmin(u)
    \/ \E t \in Tokens : Logout(t)
    \/ \E t \in Tokens : Expire(t)
    \/ \E r \in Reqs : Stop(r)

Next ==
    \/ \E r \in Reqs : SignIn(r) \/ Merge(r) \/ Session(r) \/ SignedIn(r)
    \/ Environment

Spec == Init /\ [][Next]_vars

-----------------------------------------------------------------------------
(* Properties.                                                             *)

\* Nothing outlives its user: whatever way an account ends (merged by a
\* concurrent sign-in, erased by its owner or by an admin) and whatever
\* requests were in flight for it, no session, identity or book of it is left
\* or comes back.
NothingOutlivesItsUser ==
    /\ \A t \in Tokens : holder[t] # NoUser => Present(holder[t])
    /\ \A s \in Subs : identities[s] # NoUser => Present(identities[s])
    /\ \A i \in Items : owner[i] # NoUser => Present(owner[i])

\* When a sign-in is about to start its session, the cookie it came with no
\* longer opens a guest library: the guest was merged, or was not one.  This
\* is "merge before issuing the new session cookie" (auth.rs), with the
\* cookie's session ending, expiring or changing hands in between.
CookieSettled ==
    \A r \in Reqs : pc[r] = "session" => ~IsGuest(CookieUser(cookie[r]))

\* The look-before-insert of register and OAuth is enough to keep one account
\* per email: the UNIQUE column never has to turn a request into an error.
OneAccountPerEmail ==
    \A u, v \in Users :
        Present(u) /\ Present(v) /\ email[u] = email[v] /\ email[u] # NoEmail => u = v

\* A linked identity opens the same account until that account is erased: no
\* sign-in through another email relinks it.
IdentityStable ==
    [][\A s \in Subs : identities[s] # NoUser =>
           identities'[s] = identities[s] \/ users'[identities[s]] = "erased"]_vars

\* Nobody but the owner acting destroys a book: it disappears with its owner's
\* row, or by a request that carries its owner's snapshot.
OnlyOwnersDestroy ==
    [][\A i \in Items : owner[i] # NoUser /\ owner'[i] = NoUser =>
           \/ users'[owner[i]] = "erased"
           \/ \E r \in Reqs : pc[r] = "authed" /\ subject[r] = owner[i]]_vars

C == INSTANCE Custody

\* Accounts implements Custody: books change hands only when a guest becomes
\* part of an account that still exists, and then all together.
ImplementsCustody == C!CustodySpec
=============================================================================

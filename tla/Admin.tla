-------------------------------- MODULE Admin --------------------------------
(***************************************************************************)
(* Who administers the server (admin.rs require_admin, login, logout,      *)
(* user_patch, user_delete; the admin part of db.rs), next to the requests *)
(* of the users themselves that write the same rows (auth.rs update_me,    *)
(* delete_me).                                                             *)
(*                                                                         *)
(* Every one of these handlers is several Db::calls with awaits between    *)
(* them and acts on what an earlier call returned: the principal that was  *)
(* authorised, the target that was looked up, the profile that was read.   *)
(* It may go away before the next one, with its client or with the server. *)
(* Two principals: the environment's token and panel sessions.             *)
(***************************************************************************)
EXTENDS Naturals, FiniteSets

CONSTANTS
    Users,         \* users, one row each in its life
    Registered,    \* those of them that are accounts with an email
    Sessions,      \* admin_sessions rows there can be at a time
    Requests,      \* handlers in progress
    MaxDemotions,  \* bound: demotions of one user
    Token,         \* the principal of FLICK_ADMIN_TOKEN
    NoRow, NoSession, Idle

Plans == {"free", "pro"}

\* The columns of a users row: privileges, and a field of the profile.
Row == [admin : BOOLEAN, plan : Plans, name : {"old", "new"}]

Session == [user : Users, read : Nat, since : Nat, spared : BOOLEAN]

\* What a handler holds between two of its calls.
Handler ==
    [pc : {"save"}, user : Users, copy : Row]
        \union [pc : {"login"}, user : Users, read : Nat]
        \union [pc : {"lookup", "admin", "plan"}, user : Users, by : Users \union {Token},
                is_admin : {"keep", "grant", "demote"}]
        \union [pc : {"target", "delete"}, user : Users, by : Users \union {Token}]

ASSUME AdminAssumption ==
    /\ Registered \subseteq Users
    /\ Token \notin Users
    /\ MaxDemotions \in Nat
    /\ NoRow \notin Row /\ NoSession \notin Session /\ Idle \notin Handler

VARIABLES
    row,        \* users rows: is_admin, plan and a field of the profile
    used,       \* users whose row has existed: ids are random
    session,    \* admin_sessions rows; as history the demotions of the user until the
                \* login read the row and until it inserted this one, and whether
                \* a demotion cut short has left it
    req,        \* the handlers' locals
    demoted     \* history: how often each user was demoted

vars == <<row, used, session, req, demoted>>

Init ==
    /\ row = [u \in Users |-> NoRow]
    /\ used = {}
    /\ session = [s \in Sessions |-> NoSession]
    /\ req = [r \in Requests |-> Idle]
    /\ demoted = [u \in Users |-> 0]

Exists(u) == row[u] # NoRow
IsAdmin(u) == Exists(u) /\ row[u].admin
Admins == {u \in Users : IsAdmin(u)}

At(r, pc) == req[r] # Idle /\ req[r].pc = pc

Answered(r) == req' = [req EXCEPT ![r] = Idle]

\* A handler is dropped with its client's connection; a crash drops them all.
Drop(r) == req[r] # Idle /\ Answered(r) /\ UNCHANGED <<row, used, session, demoted>>

\* Sessions left when those of the users in gone are deleted, or cascade.
Without(gone) == [s \in Sessions |->
    IF session[s] # NoSession /\ session[s].user \in gone THEN NoSession ELSE session[s]]

-----------------------------------------------------------------------------
(* The users.                                                              *)

\* A new row: no admin, on the free plan.
SignUp(u) ==
    /\ u \notin used
    /\ used' = used \union {u}
    /\ row' = [row EXCEPT ![u] = [admin |-> FALSE, plan |-> "free", name |-> "old"]]
    /\ UNCHANGED <<session, req, demoted>>

\* PATCH /api/auth/me: the extractor reads the row and the patch is put on the
\* copy ...
UpdateMe(r, u) ==
    /\ req[r] = Idle /\ Exists(u)
    /\ req' = [req EXCEPT ![r] = [pc |-> "save", user |-> u,
                                  copy |-> [row[u] EXCEPT !.name = "new"]]]
    /\ UNCHANGED <<row, used, session, demoted>>

\* Mutant: the whole copy is written.
Saved_Row(u, copy) == copy

\* update_profile: the columns of the profile.
Saved(u, copy) == [row[u] EXCEPT !.name = copy.name]

\* ... which is written in a later call, to no row if it is gone.
SaveProfile(r) ==
    LET u == req[r].user
    IN  /\ At(r, "save")
        /\ row' = IF Exists(u) THEN [row EXCEPT ![u] = Saved(u, req[r].copy)] ELSE row
        /\ Answered(r)
        /\ UNCHANGED <<used, session, demoted>>

\* delete_user: the row, and by cascade its sessions.
Erase(u) ==
    /\ row' = [row EXCEPT ![u] = NoRow]
    /\ session' = Without({u})
    /\ UNCHANGED <<used, demoted>>

DeleteMe(u) == Exists(u) /\ Erase(u) /\ UNCHANGED req

-----------------------------------------------------------------------------
(* Sessions of the panel.                                                  *)

\* POST /api/admin/login: the row is read, the password is checked off the
\* runtime and is right; is_admin is as of the read.
Login(r, u) ==
    /\ req[r] = Idle
    /\ IsAdmin(u)
    /\ req' = [req EXCEPT ![r] = [pc |-> "login", user |-> u, read |-> demoted[u]]]
    /\ UNCHANGED <<row, used, session, demoted>>

\* REFERENCES users(id).
Refused(u) == ~Exists(u)

\* admin_session_insert.
StartSession(r) ==
    LET u == req[r].user
    IN  /\ At(r, "login")
        /\ IF Refused(u) THEN UNCHANGED session
           ELSE \E s \in Sessions :
                   /\ session[s] = NoSession
                   /\ session' = [session EXCEPT ![s] =
                                     [user |-> u, read |-> req[r].read, since |-> demoted[u],
                                      spared |-> FALSE]]
        /\ Answered(r)
        /\ UNCHANGED <<row, used, demoted>>

\* Logging out, or twelve hours: an expired row authorises nothing and is
\* pruned by a later login.
EndSession(s) ==
    /\ session[s] # NoSession
    /\ session' = [session EXCEPT ![s] = NoSession]
    /\ UNCHANGED <<row, used, req, demoted>>

\* admin_session_user: the users of live sessions who are admins now.
SessionUsers ==
    {u \in Users : IsAdmin(u) /\ \E s \in Sessions : session[s] # NoSession /\ session[s].user = u}

\* Mutant: without AND u.is_admin = 1.
Principals_AnySession == {Token} \union {session[s].user : s \in {t \in Sessions : session[t] # NoSession}}

\* require_admin: the token, or the panel's cookie.
Principals == {Token} \union SessionUsers

-----------------------------------------------------------------------------
(* PATCH /api/admin/users/{id}.                                            *)

\* What a body's is_admin asks for; what its plan asks for is in SetPlan.
AuthorisePatch(r, by, u, is_admin) ==
    /\ req[r] = Idle
    /\ by \in Principals
    /\ req' = [req EXCEPT ![r] = [pc |-> "lookup", by |-> by, user |-> u, is_admin |-> is_admin]]
    /\ UNCHANGED <<row, used, session, demoted>>

\* Mutant: a session may be turned against its own user.
Oneself_Allowed(r) == FALSE

\* "you cannot demote yourself", "you cannot delete yourself".
Oneself(r) == req[r].by = req[r].user

\* The target is looked up: 404, 400, or on.
LookUp(r) ==
    LET u == req[r].user
        asks == req[r].is_admin
        refused == \/ ~Exists(u)
                   \/ asks = "grant" /\ u \notin Registered
                   \/ asks = "demote" /\ Oneself(r)
    IN  /\ At(r, "lookup")
        /\ IF refused THEN Answered(r)
           ELSE req' = [req EXCEPT ![r].pc = IF asks = "keep" THEN "plan" ELSE "admin"]
        /\ UNCHANGED <<row, used, session, demoted>>

\* Mutant: sessions are left to expire.
Killed_None(u) == {}

\* "Demoting kills their panel sessions immediately."
Killed(u) == {u}

\* The UPDATE of user_set_admin.
Write(u, grant) ==
    /\ ~grant /\ IsAdmin(u) => demoted[u] < MaxDemotions
    /\ row' = IF Exists(u) THEN [row EXCEPT ![u].admin = grant] ELSE row
    /\ demoted' = IF ~grant /\ IsAdmin(u) THEN [demoted EXCEPT ![u] = @ + 1] ELSE demoted

\* user_set_admin: the UPDATE, and for a demotion the DELETE of the sessions, with
\* nothing of this server's between them: the connection is locked.
SetAdmin(r) ==
    LET u == req[r].user
        grant == req[r].is_admin = "grant"
    IN  /\ At(r, "admin")
        /\ Write(u, grant)
        /\ session' = IF grant THEN session ELSE Without(Killed(u))
        /\ req' = [req EXCEPT ![r].pc = "plan"]
        /\ UNCHANGED used

\* The sessions of u are left.
Sparing(u) == [s \in Sessions |->
    IF session[s] # NoSession /\ session[s].user = u THEN [session[s] EXCEPT !.spared = TRUE]
    ELSE session[s]]

\* The two commit apart: the server dies between them, or the DELETE fails and the
\* request with it.
SetAdminCut(r) ==
    LET u == req[r].user
    IN  /\ At(r, "admin")
        /\ req[r].is_admin = "demote"
        /\ Write(u, FALSE)
        /\ session' = Sparing(u)
        /\ Answered(r)
        /\ UNCHANGED used

\* user_set_plan.  Without a plan nothing happens; with a bad one it is a 400,
\* and what was set before stays set.
SetPlan(r) ==
    LET u == req[r].user
    IN  /\ At(r, "plan")
        /\ \E plan \in {"absent", "bad"} \union Plans :
              row' = IF Exists(u) /\ plan \in Plans THEN [row EXCEPT ![u].plan = plan] ELSE row
        /\ Answered(r)
        /\ UNCHANGED <<used, session, demoted>>

-----------------------------------------------------------------------------
(* DELETE /api/admin/users/{id}.                                           *)

AuthoriseDelete(r, by, u) ==
    /\ req[r] = Idle
    /\ by \in Principals
    /\ req' = [req EXCEPT ![r] = [pc |-> "target", by |-> by, user |-> u]]
    /\ UNCHANGED <<row, used, session, demoted>>

LookUpTarget(r) ==
    /\ At(r, "target")
    /\ IF Oneself(r) \/ ~Exists(req[r].user) THEN Answered(r)
       ELSE req' = [req EXCEPT ![r].pc = "delete"]
    /\ UNCHANGED <<row, used, session, demoted>>

Delete(r) == At(r, "delete") /\ Erase(req[r].user) /\ Answered(r)

Next ==
    \/ \E u \in Users : SignUp(u) \/ DeleteMe(u)
    \/ \E s \in Sessions : EndSession(s)
    \/ \E r \in Requests :
          \/ SaveProfile(r) \/ StartSession(r)
          \/ LookUp(r) \/ SetAdmin(r) \/ SetAdminCut(r) \/ SetPlan(r)
          \/ LookUpTarget(r) \/ Delete(r) \/ Drop(r)
          \/ \E u \in Users :
                \/ UpdateMe(r, u) \/ Login(r, u)
                \/ \E by \in Principals :
                      \/ AuthoriseDelete(r, by, u)
                      \/ \E is_admin \in {"keep", "grant", "demote"} : AuthorisePatch(r, by, u, is_admin)

Spec == Init /\ [][Next]_vars

-----------------------------------------------------------------------------
(* Properties.                                                             *)

\* Rows and locals keep their types, and no session is left with a user whose row is gone,
\* whichever of the two an overlapping login and erasure finish first.
TypeOK ==
    /\ row \in [Users -> Row \union {NoRow}]
    /\ used \subseteq Users
    /\ session \in [Sessions -> Session \union {NoSession}]
    /\ req \in [Requests -> Handler \union {Idle}]
    /\ demoted \in [Users -> 0..MaxDemotions]
    /\ \A s \in Sessions : session[s] # NoSession => Exists(session[s].user)

\* "Demoting kills their panel sessions immediately" (db.rs), and for good: a session
\* of before a demotion does not come back to life when the user is made an admin again.
SessionsDieWithDemotion ==
    \A s \in Sessions : session[s] # NoSession => session[s].read = demoted[session[s].user]

\* What of that holds: a session that was there when its user was last demoted is left
\* only where that demotion was cut short between its two statements, and the next
\* whole one, of an admin or not, takes it along.
WholeDemotionsEndSessions ==
    \A s \in Sessions : session[s] # NoSession =>
        session[s].since = demoted[session[s].user] \/ session[s].spared

\* A user that is not an admin (any more) gets no request authorised, the
\* session of a login that overtook its own demotion included.
NothingAfterDemotion ==
    [][\A r \in Requests :
          req[r] = Idle /\ req'[r] # Idle /\ req'[r].pc \in {"lookup", "target"}
             => req'[r].by = Token \/ IsAdmin(req'[r].by)]_vars

\* The last admin goes by the token's hand, by erasing the own account, or by
\* that of a request whose own principal was demoted or erased after it was
\* authorised: while requests do not overlap, admins do not lock the panel.
LastAdminStays ==
    [][Admins # {} /\ Admins' = {} =>
          \/ \E r \in Requests : /\ req[r] # Idle /\ req[r].pc \in {"admin", "delete"}
                                 /\ req'[r] # req[r]
                                 /\ req[r].by \notin Admins
          \/ req' = req]_vars

\* is_admin and plan of a row change by a PATCH of an admin only: a profile
\* that was read before and saved after it does not bring them back.
PrivilegesAreGranted ==
    [][\A u \in Users : Exists(u) /\ row'[u] # NoRow /\ row'[u] # [row[u] EXCEPT !.name = row'[u].name]
          => \E r \in Requests : /\ req[r] # Idle /\ req[r].pc \in {"admin", "plan"}
                                 /\ req[r].user = u /\ req'[r] # req[r]]_vars
=============================================================================

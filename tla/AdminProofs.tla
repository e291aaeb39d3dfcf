---------------------------- MODULE AdminProofs -----------------------------
(***************************************************************************)
(* Machine-checked proofs about Admin for any number of users, sessions    *)
(* and overlapping requests.                                               *)
(***************************************************************************)
EXTENDS Admin, TLAPS

\* A user's row exists once.
RowsAreUsed == \A u \in Users : Exists(u) => u \in used

\* A request that is about to demote or delete acts on another than its principal.
NeverOneself ==
    \A r \in Requests :
        /\ At(r, "admin") => req[r].is_admin # "keep"
        /\ At(r, "admin") /\ req[r].is_admin = "demote" => ~Oneself(r)
        /\ At(r, "delete") => ~Oneself(r)

IInv ==
    /\ TypeOK
    /\ RowsAreUsed
    /\ NeverOneself
    /\ WholeDemotionsEndSessions

-----------------------------------------------------------------------------
(* What a handler holds at each of its stages.                             *)

\* What a handler holds has the parts its stage needs.
LEMMA Holds ==
    ASSUME TypeOK, NEW r \in Requests
    PROVE  /\ At(r, "save") => req[r] \in [pc : {"save"}, user : Users, copy : Row]
           /\ At(r, "login") => req[r] \in [pc : {"login"}, user : Users, read : Nat]
           /\ \A pc \in {"lookup", "admin", "plan"} : At(r, pc) =>
                req[r] \in [pc : {"lookup", "admin", "plan"}, user : Users,
                            by : Users \union {Token}, is_admin : {"keep", "grant", "demote"}]
           /\ \A pc \in {"target", "delete"} : At(r, pc) =>
                req[r] \in [pc : {"target", "delete"}, user : Users, by : Users \union {Token}]
BY DEF TypeOK, At, Handler

\* Sessions that are left when some users lose theirs are the sessions there were.
LEMMA WithoutTyped ==
    ASSUME TypeOK, NEW S
    PROVE  /\ Without(S) \in [Sessions -> Session \union {NoSession}]
           /\ \A s \in Sessions : Without(S)[s] # NoSession =>
                Without(S)[s] = session[s] /\ session[s].user \notin S
BY AdminAssumption DEF TypeOK, Without

\* A demotion cut short marks sessions and leaves them.
LEMMA SparingTyped ==
    ASSUME TypeOK, NEW u \in Users
    PROVE  /\ Sparing(u) \in [Sessions -> Session \union {NoSession}]
           /\ \A s \in Sessions : Sparing(u)[s] # NoSession =>
                /\ session[s] # NoSession
                /\ Sparing(u)[s].user = session[s].user
                /\ Sparing(u)[s].since = session[s].since
                /\ session[s].spared \/ session[s].user = u => Sparing(u)[s].spared
<1>1. ASSUME NEW s \in Sessions, session[s] # NoSession
      PROVE  /\ session[s] \in Session
             /\ [session[s] EXCEPT !.spared = TRUE] \in Session
             /\ [session[s] EXCEPT !.spared = TRUE].user = session[s].user
             /\ [session[s] EXCEPT !.spared = TRUE].since = session[s].since
             /\ [session[s] EXCEPT !.spared = TRUE].spared
  BY <1>1 DEF TypeOK, Session
<1>2. QED
  BY <1>1 DEF TypeOK, Sparing

\* A handler that has answered holds nothing.
LEMMA AnsweredTyped ==
    ASSUME TypeOK, NEW r \in Requests, Answered(r)
    PROVE  req' \in [Requests -> Handler \union {Idle}]
BY DEF TypeOK, Answered

\* require_admin answers with a user or the token.
LEMMA PrincipalsTyped == Principals \subseteq Users \union {Token}
BY DEF Principals, SessionUsers

\* Erasing a row leaves types, sessions of other users, and history.
LEMMA EraseStep ==
    ASSUME IInv, NEW u \in Users, Erase(u)
    PROVE  /\ row' \in [Users -> Row \union {NoRow}]
           /\ used' \subseteq Users
           /\ session' \in [Sessions -> Session \union {NoSession}]
           /\ \A s \in Sessions : session'[s] # NoSession => row'[session'[s].user] # NoRow
           /\ demoted' \in [Users -> 0..MaxDemotions]
           /\ RowsAreUsed'
           /\ WholeDemotionsEndSessions'
<1>1. \A s \in Sessions : session'[s] # NoSession => session'[s] = session[s] /\ session[s].user # u
  BY WithoutTyped DEF IInv, Erase
<1>2. \A s \in Sessions : session[s] # NoSession =>
         session[s].user \in Users /\ row[session[s].user] # NoRow
  BY DEF IInv, TypeOK, Exists, Session
<1>3. session' \in [Sessions -> Session \union {NoSession}]
  BY WithoutTyped DEF IInv, Erase
<1>4. \A s \in Sessions : session'[s] # NoSession => row'[session'[s].user] # NoRow
  BY <1>1, <1>2 DEF IInv, TypeOK, Erase
<1>5. WholeDemotionsEndSessions'
  BY <1>1 DEF IInv, WholeDemotionsEndSessions, Erase
<1>6. RowsAreUsed'
  BY DEF IInv, TypeOK, RowsAreUsed, Exists, Erase
<1>7. QED
  BY <1>3, <1>4, <1>5, <1>6 DEF IInv, TypeOK, Erase

\* The first state, with nobody demoted and no session.
LEMMA InitIInv == Init => IInv
<1> SUFFICES ASSUME Init PROVE IInv
  OBVIOUS
<1> USE AdminAssumption DEF Init
<1>1. TypeOK
  BY DEF TypeOK
<1>2. RowsAreUsed /\ WholeDemotionsEndSessions /\ NeverOneself
  BY DEF RowsAreUsed, Exists, WholeDemotionsEndSessions, NeverOneself, At
<1>3. QED
  BY <1>1, <1>2 DEF IInv

-----------------------------------------------------------------------------
(* The steps.                                                              *)

\* The steps that leave rows, sessions and history alone.
LEMMA HandlerOnly ==
    ASSUME IInv, UNCHANGED <<row, used, session, demoted>>,
           req' \in [Requests -> Handler \union {Idle}]
    PROVE  TypeOK' /\ RowsAreUsed' /\ WholeDemotionsEndSessions'
BY DEF IInv, TypeOK, Exists, RowsAreUsed, WholeDemotionsEndSessions

\* Every step keeps the tables: types, rows that were used, and sessions younger than
\* the last demotion of their user or marked as left by one cut short.
LEMMA TablesStep ==
    IInv /\ [Next]_vars => TypeOK' /\ RowsAreUsed' /\ WholeDemotionsEndSessions'
<1> SUFFICES ASSUME IInv, [Next]_vars
             PROVE  TypeOK' /\ RowsAreUsed' /\ WholeDemotionsEndSessions'
  OBVIOUS
<1> DEFINE Good == TypeOK' /\ RowsAreUsed' /\ WholeDemotionsEndSessions'
<1> USE AdminAssumption
<1>t. TypeOK /\ RowsAreUsed /\ WholeDemotionsEndSessions
  BY DEF IInv
<1>1. ASSUME NEW u \in Users, SignUp(u) PROVE Good
  <2>1. row' \in [Users -> Row \union {NoRow}] /\ used' \subseteq Users
    BY <1>1, <1>t DEF SignUp, TypeOK, Row, Plans
  <2>2. \A v \in Users : row[v] # NoRow => row'[v] # NoRow
    BY <1>1, <1>t DEF SignUp, TypeOK, RowsAreUsed, Exists
  <2>3. \A s \in Sessions : session'[s] # NoSession => row'[session'[s].user] # NoRow
    BY <1>1, <1>t, <2>2 DEF SignUp, TypeOK, Exists, Session
  <2>4. RowsAreUsed'
    BY <1>1, <1>t DEF SignUp, TypeOK, RowsAreUsed, Exists
  <2>5. QED
    BY <1>1, <1>t, <2>1, <2>3, <2>4 DEF SignUp, TypeOK, Exists, WholeDemotionsEndSessions
<1>2. ASSUME NEW u \in Users, DeleteMe(u) PROVE Good
  BY <1>2, <1>t, EraseStep DEF DeleteMe, TypeOK, Exists
<1>3. ASSUME NEW s \in Sessions, EndSession(s) PROVE Good
  <2>1. session' \in [Sessions -> Session \union {NoSession}]
    BY <1>3, <1>t DEF EndSession, TypeOK
  <2>2. \A x \in Sessions : session'[x] # NoSession => session'[x] = session[x]
    BY <1>3, <1>t DEF EndSession, TypeOK
  <2>3. QED
    BY <1>3, <1>t, <2>1, <2>2
    DEF EndSession, TypeOK, Exists, RowsAreUsed, WholeDemotionsEndSessions
<1>4. ASSUME NEW r \in Requests, SaveProfile(r) PROVE Good
  <2>1. PICK u \in Users : u = req[r].user
    BY <1>4, <1>t, Holds DEF SaveProfile
  <2>2. req[r].copy.name \in {"old", "new"}
    BY <1>4, <1>t, Holds DEF SaveProfile, Row
  <2>3. row' \in [Users -> Row \union {NoRow}]
    BY <1>4, <1>t, <2>1, <2>2 DEF SaveProfile, TypeOK, Exists, Saved, Row
  <2>4. \A v \in Users : row'[v] # NoRow <=> row[v] # NoRow
    BY <1>4, <1>t, <2>1, <2>3, <2>2 DEF SaveProfile, TypeOK, Exists, Saved, Row
  <2>5. req' \in [Requests -> Handler \union {Idle}]
    BY <1>4, <1>t, AnsweredTyped DEF SaveProfile
  <2>6. QED
    BY <1>4, <1>t, <2>3, <2>4, <2>5
    DEF SaveProfile, TypeOK, Exists, Session, RowsAreUsed, WholeDemotionsEndSessions
<1>5. ASSUME NEW r \in Requests, StartSession(r) PROVE Good
  <2>1. PICK u \in Users : u = req[r].user
    BY <1>5, <1>t, Holds DEF StartSession
  <2>2. req' \in [Requests -> Handler \union {Idle}]
    BY <1>5, <1>t, AnsweredTyped DEF StartSession
  <2>3. CASE Refused(u)
    BY <1>5, <2>1, <2>2, <2>3, HandlerOnly DEF StartSession
  <2>4. CASE ~Refused(u)
    <3>1. PICK s \in Sessions :
             session' = [session EXCEPT ![s] = [user |-> u, read |-> req[r].read,
                                                since |-> demoted[u], spared |-> FALSE]]
      BY <1>5, <2>1, <2>4 DEF StartSession
    <3>2. [user |-> u, read |-> req[r].read, since |-> demoted[u], spared |-> FALSE] \in Session
      BY <1>5, <1>t, Holds DEF StartSession, TypeOK, Session
    <3>3. session' \in [Sessions -> Session \union {NoSession}]
      BY <1>t, <3>1, <3>2 DEF TypeOK
    <3>4. QED
      BY <1>5, <1>t, <2>2, <2>4, <3>1, <3>3
      DEF StartSession, Refused, TypeOK, Exists, RowsAreUsed, WholeDemotionsEndSessions
  <2>5. QED
    BY <2>3, <2>4
<1>6. ASSUME NEW r \in Requests, SetAdmin(r) PROVE Good
  <2>1. PICK u \in Users : u = req[r].user
    BY <1>6, <1>t, Holds DEF SetAdmin
  <2> DEFINE grant == req[r].is_admin = "grant"
  <2>2. row' \in [Users -> Row \union {NoRow}]
    <3>1. row' = IF Exists(u) THEN [row EXCEPT ![u].admin = grant] ELSE row
      BY <1>6, <2>1 DEF SetAdmin, Write
    <3>2. ASSUME Exists(u) PROVE [row[u] EXCEPT !.admin = grant] \in Row
      BY <1>t, <3>2 DEF TypeOK, Exists, Row
    <3>3. QED
      BY <1>t, <3>1, <3>2 DEF TypeOK
  <2>3. \A v \in Users : row'[v] # NoRow <=> row[v] # NoRow
    BY <1>6, <1>t, <2>1 DEF SetAdmin, Write, TypeOK, Exists, Row
  <2>4. req' \in [Requests -> Handler \union {Idle}]
    <3>1. [req[r] EXCEPT !.pc = "plan"] \in Handler
      BY <1>6, <1>t, Holds DEF SetAdmin, Handler
    <3>2. QED
      BY <1>6, <1>t, <3>1 DEF SetAdmin, TypeOK
  <2>5. /\ session' \in [Sessions -> Session \union {NoSession}]
        /\ \A s \in Sessions : session'[s] # NoSession =>
              session'[s] = session[s] /\ (~grant => session[s].user # u)
    BY <1>6, <1>t, <2>1, WithoutTyped DEF SetAdmin, TypeOK, Killed
  <2>6. /\ demoted' \in [Users -> 0..MaxDemotions]
        /\ \A v \in Users : demoted'[v] = demoted[v] \/ (~grant /\ v = u)
    BY <1>6, <1>t, <2>1 DEF SetAdmin, Write, TypeOK
  <2>7. \A s \in Sessions : session'[s] # NoSession =>
           /\ row'[session'[s].user] # NoRow
           /\ session'[s].since = demoted'[session'[s].user] \/ session'[s].spared
    BY <1>t, <2>3, <2>5, <2>6 DEF TypeOK, Exists, Session, WholeDemotionsEndSessions
  <2>8. QED
    BY <1>6, <1>t, <2>2, <2>3, <2>4, <2>5, <2>6, <2>7
    DEF SetAdmin, TypeOK, Exists, RowsAreUsed, WholeDemotionsEndSessions
<1>7. ASSUME NEW r \in Requests, SetPlan(r) PROVE Good
  <2>1. PICK u \in Users : u = req[r].user
    BY <1>7, <1>t, Holds DEF SetPlan
  <2>2. PICK plan \in {"absent", "bad"} \union Plans :
           row' = IF Exists(u) /\ plan \in Plans THEN [row EXCEPT ![u].plan = plan] ELSE row
    BY <1>7, <2>1 DEF SetPlan
  <2>3. row' \in [Users -> Row \union {NoRow}]
    BY <1>t, <2>2 DEF TypeOK, Exists, Row
  <2>4. \A v \in Users : row'[v] # NoRow <=> row[v] # NoRow
    BY <1>t, <2>2 DEF TypeOK, Exists, Row
  <2>5. req' \in [Requests -> Handler \union {Idle}]
    BY <1>7, <1>t, AnsweredTyped DEF SetPlan
  <2>6. QED
    BY <1>7, <1>t, <2>3, <2>4, <2>5
    DEF SetPlan, TypeOK, Exists, Session, RowsAreUsed, WholeDemotionsEndSessions
<1>8. ASSUME NEW r \in Requests, Delete(r) PROVE Good
  <2>1. req[r].user \in Users
    BY <1>8, <1>t, Holds DEF Delete
  <2>2. req' \in [Requests -> Handler \union {Idle}]
    BY <1>8, <1>t, AnsweredTyped DEF Delete
  <2>3. QED
    BY <1>8, <2>1, <2>2, EraseStep DEF Delete, TypeOK, Exists
<1>9. ASSUME NEW r \in Requests, NEW u \in Users, UpdateMe(r, u) \/ Login(r, u) PROVE Good
  <2>1. CASE UpdateMe(r, u)
    <3>1. [row[u] EXCEPT !.name = "new"] \in Row
      BY <2>1, <1>t DEF UpdateMe, TypeOK, Exists, Row
    <3>2. req' \in [Requests -> Handler \union {Idle}]
      BY <2>1, <1>t, <3>1 DEF UpdateMe, TypeOK, Handler
    <3>3. QED
      BY <2>1, <3>2, HandlerOnly DEF UpdateMe
  <2>2. CASE Login(r, u)
    <3>1. req' \in [Requests -> Handler \union {Idle}]
      BY <2>2, <1>t DEF Login, TypeOK, Handler
    <3>2. QED
      BY <2>2, <3>1, HandlerOnly DEF Login
  <2>3. QED
    BY <1>9, <2>1, <2>2
<1>10. ASSUME NEW r \in Requests, NEW by \in Principals, NEW u \in Users,
              NEW is_admin \in {"keep", "grant", "demote"}, AuthorisePatch(r, by, u, is_admin)
       PROVE  Good
  <2>1. by \in Users \union {Token}
    BY PrincipalsTyped
  <2>2. req' \in [Requests -> Handler \union {Idle}]
    BY <1>10, <1>t, <2>1 DEF AuthorisePatch, TypeOK, Handler
  <2>3. QED
    BY <1>10, <2>2, HandlerOnly DEF AuthorisePatch
<1>11. ASSUME NEW r \in Requests, NEW by \in Principals, NEW u \in Users,
              AuthoriseDelete(r, by, u)
       PROVE  Good
  <2>1. by \in Users \union {Token}
    BY PrincipalsTyped
  <2>2. req' \in [Requests -> Handler \union {Idle}]
    BY <1>11, <1>t, <2>1 DEF AuthoriseDelete, TypeOK, Handler
  <2>3. QED
    BY <1>11, <2>2, HandlerOnly DEF AuthoriseDelete
<1>12. ASSUME NEW r \in Requests, LookUp(r) PROVE Good
  <2>1. \A pc \in {"plan", "admin"} : [req[r] EXCEPT !.pc = pc] \in Handler
    BY <1>12, <1>t, Holds DEF LookUp, Handler
  <2>2. req' \in [Requests -> Handler \union {Idle}]
    BY <1>12, <1>t, <2>1, AnsweredTyped DEF LookUp, TypeOK
  <2>3. QED
    BY <1>12, <2>2, HandlerOnly DEF LookUp
<1>13. ASSUME NEW r \in Requests, LookUpTarget(r) PROVE Good
  <2>1. [req[r] EXCEPT !.pc = "delete"] \in Handler
    BY <1>13, <1>t, Holds DEF LookUpTarget, Handler
  <2>2. req' \in [Requests -> Handler \union {Idle}]
    BY <1>13, <1>t, <2>1, AnsweredTyped DEF LookUpTarget, TypeOK
  <2>3. QED
    BY <1>13, <2>2, HandlerOnly DEF LookUpTarget
<1>14. ASSUME UNCHANGED vars PROVE Good
  BY <1>14, <1>t, HandlerOnly DEF vars, TypeOK
<1>15. ASSUME NEW r \in Requests, SetAdminCut(r) PROVE Good
  <2>1. PICK u \in Users : u = req[r].user
    BY <1>15, <1>t, Holds DEF SetAdminCut
  <2>2. row' = IF Exists(u) THEN [row EXCEPT ![u].admin = FALSE] ELSE row
    BY <1>15, <2>1 DEF SetAdminCut, Write
  <2>3. ASSUME Exists(u) PROVE [row[u] EXCEPT !.admin = FALSE] \in Row
    BY <1>t, <2>3 DEF TypeOK, Exists, Row
  <2>4. row' \in [Users -> Row \union {NoRow}]
    BY <1>t, <2>2, <2>3 DEF TypeOK
  <2>5. \A v \in Users : row'[v] # NoRow <=> row[v] # NoRow
    BY <1>t, <2>2, <2>3 DEF TypeOK, Exists
  <2>6. req' \in [Requests -> Handler \union {Idle}]
    BY <1>15, <1>t, AnsweredTyped DEF SetAdminCut
  <2>7. /\ demoted' \in [Users -> 0..MaxDemotions]
        /\ \A v \in Users : demoted'[v] = demoted[v] \/ v = u
    BY <1>15, <1>t, <2>1 DEF SetAdminCut, Write, TypeOK
  <2>8. session' = Sparing(u) /\ used' = used
    BY <1>15, <2>1 DEF SetAdminCut
  <2>9. session' \in [Sessions -> Session \union {NoSession}]
    BY <1>t, <2>8, SparingTyped
  <2>10. \A s \in Sessions : session'[s] # NoSession =>
            /\ session'[s].user = session[s].user
            /\ session[s].user \in Users
            /\ row[session[s].user] # NoRow
    BY <1>t, <2>8, SparingTyped DEF TypeOK, Exists, Session
  <2>11. \A s \in Sessions : session'[s] # NoSession =>
            session'[s].since = demoted'[session'[s].user] \/ session'[s].spared
    <3>1. SUFFICES ASSUME NEW s \in Sessions, session'[s] # NoSession
                   PROVE  session'[s].since = demoted'[session'[s].user] \/ session'[s].spared
      OBVIOUS
    <3>2. /\ session[s] # NoSession
          /\ session'[s].since = session[s].since
          /\ session[s].spared \/ session[s].user = u => session'[s].spared
      BY <1>t, <2>8, <3>1, SparingTyped
    <3>3. session[s].since = demoted[session[s].user] \/ session[s].spared
      BY <1>t, <3>2 DEF WholeDemotionsEndSessions
    <3>4. QED
      BY <2>7, <2>10, <3>1, <3>2, <3>3
  <2>12. QED
    BY <1>t, <2>4, <2>5, <2>6, <2>7, <2>8, <2>9, <2>10, <2>11
    DEF TypeOK, Exists, RowsAreUsed, WholeDemotionsEndSessions
<1>16. ASSUME NEW r \in Requests, Drop(r) PROVE Good
  <2>1. req' \in [Requests -> Handler \union {Idle}]
    BY <1>16, <1>t, AnsweredTyped DEF Drop
  <2>2. QED
    BY <1>16, <2>1, HandlerOnly DEF Drop
<1>17. QED
  BY <1>1, <1>2, <1>3, <1>4, <1>5, <1>6, <1>7, <1>8, <1>9, <1>10, <1>11, <1>12, <1>13, <1>14,
     <1>15, <1>16
  DEF Next

\* What a handler was told not to do, it still may not do at its next step.
LEMMA NeverOneselfStep == IInv /\ [Next]_vars => NeverOneself'
<1> SUFFICES ASSUME IInv, [Next]_vars, NEW q \in Requests
             PROVE  /\ At(q, "admin")' => req'[q].is_admin # "keep"
                    /\ At(q, "admin")' /\ req'[q].is_admin = "demote" => ~Oneself(q)'
                    /\ At(q, "delete")' => ~Oneself(q)'
  BY DEF NeverOneself
<1> DEFINE Good == /\ At(q, "admin")' => req'[q].is_admin # "keep"
                   /\ At(q, "admin")' /\ req'[q].is_admin = "demote" => ~Oneself(q)'
                   /\ At(q, "delete")' => ~Oneself(q)'
<1> USE AdminAssumption
<1>t. TypeOK /\ NeverOneself
  BY DEF IInv
<1>1. ASSUME req'[q] = req[q] \/ req'[q] = Idle PROVE Good
  BY <1>1, <1>t DEF NeverOneself, At, Oneself
<1>2. ASSUME req'[q] # Idle, req'[q].pc \notin {"admin", "delete"} PROVE Good
  BY <1>2 DEF At
<1>3. ASSUME NEW r \in Requests,
             \/ SaveProfile(r) \/ StartSession(r) \/ SetPlan(r) \/ Delete(r)
             \/ SetAdminCut(r) \/ Drop(r)
      PROVE  Good
  <2>1. req' = [req EXCEPT ![r] = Idle]
    BY <1>3 DEF SaveProfile, StartSession, SetPlan, Delete, SetAdminCut, Drop, Answered
  <2>2. QED
    BY <1>1, <1>t, <2>1 DEF TypeOK
<1>4. ASSUME NEW r \in Requests, SetAdmin(r) PROVE Good
  <2>1. req' = [req EXCEPT ![r].pc = "plan"]
    BY <1>4 DEF SetAdmin
  <2>2. [req[r] EXCEPT !.pc = "plan"] \in Handler /\ [req[r] EXCEPT !.pc = "plan"].pc = "plan"
    BY <1>4, <1>t, Holds DEF SetAdmin, Handler
  <2>3. QED
    BY <1>1, <1>2, <1>t, <2>1, <2>2 DEF TypeOK
<1>5. ASSUME NEW r \in Requests, LookUp(r) PROVE Good
  <2>1. CASE req' = [req EXCEPT ![r] = Idle]
    BY <1>1, <1>t, <2>1 DEF TypeOK
  <2>2. CASE req' = [req EXCEPT ![r].pc = IF req[r].is_admin = "keep" THEN "plan" ELSE "admin"]
    <3>1. PICK pc \in {"plan", "admin"} :
             /\ pc = IF req[r].is_admin = "keep" THEN "plan" ELSE "admin"
             /\ req' = [req EXCEPT ![r].pc = pc]
      BY <2>2
    <3>2. req[r].is_admin = "demote" => ~Oneself(r) \/ req' = [req EXCEPT ![r] = Idle]
      BY <1>5 DEF LookUp, Answered
    <3>3. /\ [req[r] EXCEPT !.pc = pc] \in Handler
          /\ [req[r] EXCEPT !.pc = pc].pc = pc
          /\ [req[r] EXCEPT !.pc = pc].by = req[r].by
          /\ [req[r] EXCEPT !.pc = pc].user = req[r].user
          /\ [req[r] EXCEPT !.pc = pc].is_admin = req[r].is_admin
      BY <1>5, <1>t, Holds DEF LookUp, Handler
    <3>4. q # r => req'[q] = req[q]
      BY <1>t, <3>1 DEF TypeOK
    <3>5. req'[r] = [req[r] EXCEPT !.pc = pc]
      BY <1>t, <3>1 DEF TypeOK
    <3>6. CASE q = r
      <4>1. req'[q] # Idle
        BY <3>3, <3>5, <3>6
      <4>2. req' # [req EXCEPT ![r] = Idle]
        BY <1>t, <3>6, <4>1 DEF TypeOK
      <4>3. QED
        BY <3>1, <3>2, <3>3, <3>5, <3>6, <4>1, <4>2 DEF At, Oneself
    <3>7. QED
      BY <1>1, <3>4, <3>6
  <2>3. QED
    BY <1>5, <2>1, <2>2 DEF LookUp, Answered
<1>6. ASSUME NEW r \in Requests, LookUpTarget(r) PROVE Good
  <2>1. CASE req' = [req EXCEPT ![r] = Idle]
    BY <1>1, <1>t, <2>1 DEF TypeOK
  <2>2. CASE req' = [req EXCEPT ![r].pc = "delete"] /\ ~Oneself(r)
    <3>1. /\ [req[r] EXCEPT !.pc = "delete"].pc = "delete"
          /\ [req[r] EXCEPT !.pc = "delete"].by = req[r].by
          /\ [req[r] EXCEPT !.pc = "delete"].user = req[r].user
      BY <1>6, <1>t, Holds DEF LookUpTarget
    <3>2. QED
      BY <1>1, <1>t, <2>2, <3>1 DEF TypeOK, At, Oneself
  <2>3. QED
    BY <1>6, <2>1, <2>2 DEF LookUpTarget, Answered
<1>7. ASSUME NEW r \in Requests, NEW u \in Users,
             \/ UpdateMe(r, u) \/ Login(r, u)
             \/ \E by \in Principals :
                   \/ AuthoriseDelete(r, by, u)
                   \/ \E is_admin \in {"keep", "grant", "demote"} :
                         AuthorisePatch(r, by, u, is_admin)
      PROVE  Good
  <2>1. q # r => req'[q] = req[q]
    BY <1>7, <1>t DEF UpdateMe, Login, AuthoriseDelete, AuthorisePatch, TypeOK
  <2>2. req'[r].pc \in {"save", "login", "target", "lookup"}
    BY <1>7, <1>t DEF UpdateMe, Login, AuthoriseDelete, AuthorisePatch, TypeOK
  <2>3. QED
    BY <1>1, <2>1, <2>2 DEF At
<1>8. ASSUME UNCHANGED req PROVE Good
  BY <1>1, <1>8
<1>9. QED
  BY <1>3, <1>4, <1>5, <1>6, <1>7, <1>8
  DEF Next, SignUp, DeleteMe, EndSession, vars

\* The inductive invariant holds in every reachable state of every instance.
THEOREM Invariance == Spec => []IInv
<1>1. IInv /\ [Next]_vars => IInv'
  BY TablesStep, NeverOneselfStep DEF IInv
<1>2. QED
  BY InitIInv, <1>1, PTL DEF Spec

-----------------------------------------------------------------------------
(* What single steps may do.                                               *)

\* The actions by their effect on rows: all but these leave them alone.
LEMMA RowActions ==
    ASSUME IInv, [Next]_vars, row' # row
    PROVE  \/ \E u \in Users : SignUp(u) \/ DeleteMe(u)
           \/ \E r \in Requests :
                 \/ SaveProfile(r) \/ SetAdmin(r) \/ SetAdminCut(r) \/ SetPlan(r) \/ Delete(r)
BY DEF Next, EndSession, StartSession, LookUp, LookUpTarget, UpdateMe, Login, Drop,
       AuthoriseDelete, AuthorisePatch, vars

\* A request that takes a step is not where it was.
LEMMA RequestsMove ==
    ASSUME IInv, NEW r \in Requests,
           SetAdmin(r) \/ SetAdminCut(r) \/ SetPlan(r) \/ Delete(r)
    PROVE  req'[r] # req[r]
<1>1. CASE SetAdmin(r)
  <2>1. req'[r] = [req[r] EXCEPT !.pc = "plan"] /\ req[r].pc = "admin"
    BY <1>1 DEF SetAdmin, At, IInv, TypeOK
  <2>2. [req[r] EXCEPT !.pc = "plan"].pc = "plan"
    BY <1>1, Holds DEF SetAdmin, IInv
  <2>3. QED
    BY <2>1, <2>2
<1>2. CASE SetAdminCut(r) \/ SetPlan(r) \/ Delete(r)
  BY <1>2 DEF SetAdminCut, SetPlan, Delete, Answered, At, IInv, TypeOK
<1>3. QED
  BY <1>1, <1>2

\* What each of them makes of the rows.
LEMMA RowEffects ==
    ASSUME IInv, NEW u \in Users, row[u] # NoRow, [Next]_vars
    PROVE  \/ row'[u] = NoRow
           \/ \E n \in {"old", "new"} : row'[u] = [row[u] EXCEPT !.name = n]
           \/ \E r \in Requests, plan \in Plans :
                  At(r, "plan") /\ req[r].user = u /\ req'[r] # req[r]
                     /\ row'[u] = [row[u] EXCEPT !.plan = plan]
           \/ \E r \in Requests :
                  At(r, "admin") /\ req[r].user = u /\ req'[r] # req[r]
                     /\ row'[u] = [row[u] EXCEPT !.admin = (req[r].is_admin = "grant")]
<1>t. TypeOK /\ RowsAreUsed
  BY DEF IInv
<1>0. row[u] \in Row
  BY <1>t DEF TypeOK
<1>1. CASE row'[u] = row[u]
  <2>1. row[u] = [row[u] EXCEPT !.name = row[u].name] /\ row[u].name \in {"old", "new"}
    BY <1>0 DEF Row
  <2>2. QED
    BY <1>1, <2>1
<1>2. ASSUME NEW v \in Users, SignUp(v) PROVE row'[u] = row[u]
  BY <1>2, <1>t DEF SignUp, TypeOK, RowsAreUsed, Exists
<1>3. ASSUME NEW v \in Users, Erase(v) PROVE row'[u] = NoRow \/ row'[u] = row[u]
  BY <1>3, <1>t DEF Erase, TypeOK
<1>4. ASSUME NEW r \in Requests, SaveProfile(r), row'[u] # row[u]
      PROVE  \E n \in {"old", "new"} : row'[u] = [row[u] EXCEPT !.name = n]
  <2>1. req[r].copy.name \in {"old", "new"}
    BY <1>4, <1>t, Holds DEF SaveProfile, Row
  <2>2. row'[u] = [row[u] EXCEPT !.name = req[r].copy.name]
    BY <1>4, <1>t DEF SaveProfile, Saved, TypeOK
  <2>3. QED
    BY <2>1, <2>2
<1>5. ASSUME NEW r \in Requests, SetAdmin(r), row'[u] # row[u]
      PROVE  /\ At(r, "admin") /\ req[r].user = u /\ req'[r] # req[r]
             /\ row'[u] = [row[u] EXCEPT !.admin = (req[r].is_admin = "grant")]
  BY <1>5, <1>t, RequestsMove DEF SetAdmin, Write, TypeOK
<1>9. ASSUME NEW r \in Requests, SetAdminCut(r), row'[u] # row[u]
      PROVE  /\ At(r, "admin") /\ req[r].user = u /\ req'[r] # req[r]
             /\ row'[u] = [row[u] EXCEPT !.admin = (req[r].is_admin = "grant")]
  <2>1. At(r, "admin") /\ req[r].is_admin = "demote"
    BY <1>9 DEF SetAdminCut
  <2>2. req[r].user = u /\ row'[u] = [row[u] EXCEPT !.admin = FALSE]
    BY <1>9, <1>t DEF SetAdminCut, Write, TypeOK
  <2>3. (req[r].is_admin = "grant") = FALSE
    BY <2>1
  <2>4. QED
    BY <1>9, <2>1, <2>2, <2>3, RequestsMove
<1>6. ASSUME NEW r \in Requests, SetPlan(r), row'[u] # row[u]
      PROVE  \E plan \in Plans :
                At(r, "plan") /\ req[r].user = u /\ req'[r] # req[r]
                   /\ row'[u] = [row[u] EXCEPT !.plan = plan]
  <2>1. PICK plan \in {"absent", "bad"} \union Plans :
           row' = IF Exists(req[r].user) /\ plan \in Plans
                  THEN [row EXCEPT ![req[r].user].plan = plan] ELSE row
    BY <1>6 DEF SetPlan
  <2>2. plan \in Plans /\ req[r].user = u /\ row'[u] = [row[u] EXCEPT !.plan = plan]
    BY <1>6, <1>t, <2>1 DEF TypeOK
  <2>3. QED
    BY <1>6, <2>2, RequestsMove DEF SetPlan
<1>7. ASSUME NEW r \in Requests, Delete(r) PROVE row'[u] = NoRow \/ row'[u] = row[u]
  <2>1. req[r].user \in Users
    BY <1>7, <1>t, Holds DEF Delete
  <2>2. QED
    BY <1>7, <1>3, <2>1 DEF Delete
<1>8. QED
  BY <1>1, <1>2, <1>3, <1>4, <1>5, <1>6, <1>7, <1>9, RowActions DEF DeleteMe

\* Privileges change in no step but the two writes of user_patch.
LEMMA PrivilegesStep ==
    IInv /\ [Next]_vars =>
        [\A u \in Users : Exists(u) /\ row'[u] # NoRow
                            /\ row'[u] # [row[u] EXCEPT !.name = row'[u].name]
            => \E r \in Requests : /\ req[r] # Idle /\ req[r].pc \in {"admin", "plan"}
                                   /\ req[r].user = u /\ req'[r] # req[r]]_vars
<1> SUFFICES ASSUME IInv, [Next]_vars, NEW u \in Users, Exists(u), row'[u] # NoRow,
                    row'[u] # [row[u] EXCEPT !.name = row'[u].name]
             PROVE  \E r \in Requests : /\ req[r] # Idle /\ req[r].pc \in {"admin", "plan"}
                                        /\ req[r].user = u /\ req'[r] # req[r]
  OBVIOUS
<1>1. row[u] # NoRow /\ row[u] \in Row
  BY DEF IInv, TypeOK, Exists
<1>2. ASSUME NEW n \in {"old", "new"}, row'[u] = [row[u] EXCEPT !.name = n] PROVE FALSE
  <2>1. row'[u].name = n
    BY <1>1, <1>2 DEF Row
  <2>2. QED
    BY <1>2, <2>1
<1>3. ASSUME NEW r \in Requests, At(r, "plan") \/ At(r, "admin"), req[r].user = u, req'[r] # req[r]
      PROVE  \E q \in Requests : /\ req[q] # Idle /\ req[q].pc \in {"admin", "plan"}
                                /\ req[q].user = u /\ req'[q] # req[q]
  BY <1>3 DEF At
<1>4. \/ \E r \in Requests, plan \in Plans :
            At(r, "plan") /\ req[r].user = u /\ req'[r] # req[r]
               /\ row'[u] = [row[u] EXCEPT !.plan = plan]
      \/ \E r \in Requests :
            At(r, "admin") /\ req[r].user = u /\ req'[r] # req[r]
               /\ row'[u] = [row[u] EXCEPT !.admin = (req[r].is_admin = "grant")]
  BY <1>1, <1>2, RowEffects
<1>5. QED
  BY <1>3, <1>4

\* A PATCH or DELETE starts only for the token or a present admin.
LEMMA AuthorisedStep ==
    IInv /\ [Next]_vars =>
        [\A r \in Requests :
            req[r] = Idle /\ req'[r] # Idle /\ req'[r].pc \in {"lookup", "target"}
               => req'[r].by = Token \/ IsAdmin(req'[r].by)]_vars
<1> SUFFICES ASSUME IInv, [Next]_vars, NEW r \in Requests,
                    req[r] = Idle, req'[r] # Idle, req'[r].pc \in {"lookup", "target"}
             PROVE  req'[r].by = Token \/ IsAdmin(req'[r].by)
  OBVIOUS
<1>t. TypeOK
  BY DEF IInv
<1>1. ASSUME NEW q \in Requests, q # r \/ req[q] # Idle,
             \E h : req' = [req EXCEPT ![q] = h]
      PROVE  FALSE
  BY <1>1, <1>t DEF TypeOK
<1>2. \E u \in Users, by \in Principals :
         \/ AuthoriseDelete(r, by, u)
         \/ \E is_admin \in {"keep", "grant", "demote"} : AuthorisePatch(r, by, u, is_admin)
  <2>1. ASSUME NEW q \in Requests,
               \/ SaveProfile(q) \/ StartSession(q) \/ SetPlan(q) \/ Delete(q)
               \/ LookUp(q) \/ LookUpTarget(q) \/ SetAdmin(q) \/ SetAdminCut(q) \/ Drop(q)
        PROVE  FALSE
    <3>1. req[q] # Idle
      BY <2>1 DEF SaveProfile, StartSession, SetPlan, Delete, LookUp, LookUpTarget, SetAdmin,
                  SetAdminCut, Drop, At
    <3>2. req'[r] = req[r]
      BY <2>1, <3>1, <1>t
      DEF SaveProfile, StartSession, SetPlan, Delete, LookUp, LookUpTarget, SetAdmin,
          SetAdminCut, Drop, Answered, TypeOK
    <3>3. QED
      BY <3>2
  <2>2. ASSUME NEW q \in Requests, NEW u \in Users, UpdateMe(q, u) \/ Login(q, u) PROVE FALSE
    BY <2>2, <1>t DEF UpdateMe, Login, TypeOK
  <2>3. ASSUME NEW q \in Requests, NEW u \in Users, NEW by \in Principals,
               \/ AuthoriseDelete(q, by, u)
               \/ \E is_admin \in {"keep", "grant", "demote"} :
                     AuthorisePatch(q, by, u, is_admin)
        PROVE  q = r
    BY <2>3, <1>t DEF AuthoriseDelete, AuthorisePatch, TypeOK
  <2>4. req' # req
    OBVIOUS
  <2>5. QED
    BY <2>1, <2>2, <2>3, <2>4 DEF Next, SignUp, DeleteMe, EndSession, vars
<1>3. PICK by \in Principals : req'[r].by = by
  BY <1>2, <1>t DEF AuthoriseDelete, AuthorisePatch, TypeOK
<1>4. QED
  BY <1>3 DEF Principals, SessionUsers

\* The last admin goes by self-erasure or by a request whose own admin has gone.
LEMMA LastAdminStep ==
    IInv /\ [Next]_vars =>
        [Admins # {} /\ Admins' = {} =>
            \/ \E r \in Requests : /\ req[r] # Idle /\ req[r].pc \in {"admin", "delete"}
                                   /\ req'[r] # req[r]
                                   /\ req[r].by \notin Admins
            \/ req' = req]_vars
<1> SUFFICES ASSUME IInv, [Next]_vars, Admins # {}, Admins' = {}, req' # req
             PROVE  \E r \in Requests : /\ req[r] # Idle /\ req[r].pc \in {"admin", "delete"}
                                        /\ req'[r] # req[r]
                                        /\ req[r].by \notin Admins
  OBVIOUS
<1>t. TypeOK /\ NeverOneself
  BY DEF IInv
\* Whoever was an admin is none now: every admin's row has changed.
<1>1. PICK u \in Users : IsAdmin(u)
  BY DEF Admins
<1>2. \A v \in Users : IsAdmin(v) => row'[v] = NoRow \/ ~row'[v].admin
  BY DEF Admins, IsAdmin, Exists
<1>3. \A v \in Users : IsAdmin(v) => row[v] \in Row /\ row[v].admin
  BY <1>t DEF TypeOK, IsAdmin, Exists
<1>4. \A v \in Users : IsAdmin(v) => row'[v] # row[v]
  BY <1>2, <1>3, AdminAssumption
<1>5. ASSUME NEW r \in Requests, SaveProfile(r) PROVE FALSE
  <2>1. row'[u] = [row[u] EXCEPT !.name = req[r].copy.name]
    BY <1>1, <1>4, <1>5, <1>t DEF SaveProfile, Saved, TypeOK
  <2>2. row'[u].admin /\ row'[u] # NoRow
    <3>1. req[r].copy.name \in {"old", "new"}
      BY <1>5, <1>t, Holds DEF SaveProfile, Row
    <3>2. row'[u] \in Row /\ row'[u].admin = row[u].admin
      BY <1>1, <1>3, <2>1, <3>1 DEF Row
    <3>3. QED
      BY <1>1, <1>3, <3>2, AdminAssumption
  <2>3. QED
    BY <1>1, <1>2, <2>2
<1>6. ASSUME NEW r \in Requests, SetPlan(r) PROVE FALSE
  <2>1. PICK plan \in Plans : row'[u] = [row[u] EXCEPT !.plan = plan]
    BY <1>1, <1>4, <1>6, <1>t DEF SetPlan, TypeOK
  <2>2. row'[u] \in Row /\ row'[u].admin = row[u].admin
    BY <1>1, <1>3, <2>1 DEF Row
  <2>3. QED
    BY <1>1, <1>2, <1>3, <2>2, AdminAssumption
<1>7. ASSUME NEW r \in Requests, SetAdmin(r) \/ SetAdminCut(r) \/ Delete(r)
      PROVE  req[r].by \notin Admins
  <2>1. \A v \in Users : IsAdmin(v) => v = req[r].user
    BY <1>4, <1>7, <1>t DEF SetAdmin, SetAdminCut, Write, Delete, Erase, TypeOK
  <2>2. ~Oneself(r)
    <3>1. CASE Delete(r)
      BY <3>1, <1>t DEF Delete, NeverOneself
    <3>2. CASE SetAdmin(r)
      <4>1. req[r].is_admin # "grant"
        <5>1. SUFFICES ASSUME req[r].is_admin = "grant" PROVE FALSE
          OBVIOUS
        <5>2. row'[u] = [row[u] EXCEPT !.admin = TRUE]
          BY <1>1, <1>4, <3>2, <1>t, <5>1 DEF SetAdmin, Write, TypeOK
        <5>3. row'[u] \in Row /\ row'[u].admin
          BY <1>1, <1>3, <5>2 DEF Row
        <5>4. QED
          BY <1>1, <1>2, <5>3, AdminAssumption
      <4>2. req[r].is_admin = "demote"
        BY <3>2, <4>1, <1>t, Holds DEF SetAdmin, NeverOneself
      <4>3. QED
        BY <3>2, <4>2, <1>t DEF SetAdmin, NeverOneself
    <3>3. CASE SetAdminCut(r)
      BY <3>3, <1>t DEF SetAdminCut, NeverOneself
    <3>4. QED
      BY <1>7, <3>1, <3>2, <3>3
  <2>3. QED
    BY <2>1, <2>2 DEF Oneself, Admins
<1>8. row' # row
  BY <1>1, <1>4
<1>9. ~\E v \in Users : SignUp(v) \/ DeleteMe(v)
  BY DEF SignUp, DeleteMe
<1>10. PICK r \in Requests : SetAdmin(r) \/ SetAdminCut(r) \/ Delete(r)
  BY <1>5, <1>6, <1>8, <1>9, RowActions
<1>11. req[r] # Idle /\ req[r].pc \in {"admin", "delete"}
  BY <1>10 DEF SetAdmin, SetAdminCut, Delete, At
<1>12. QED
  BY <1>7, <1>10, <1>11, RequestsMove

-----------------------------------------------------------------------------
(* What holds of every behaviour.                                          *)

\* Rows, sessions and locals keep their types, and no session of the panel
\* belongs to an erased user.
THEOREM TypeCorrect == Spec => []TypeOK
BY Invariance, PTL DEF IInv

\* However logins, demotions and crashes overlap, a session that was in the table when
\* its user was demoted is left only by demotions cut between their two commits, and
\* ends at the next whole one.
THEOREM DemotionEndsSessions == Spec => []WholeDemotionsEndSessions
BY Invariance, PTL DEF IInv

\* Only the token and present admins get a request authorised.
THEOREM OnlyAdminsAct == Spec => NothingAfterDemotion
BY Invariance, AuthorisedStep, PTL DEF Spec, NothingAfterDemotion

\* The panel loses its last admin only to the token, to erasing oneself, or to
\* a request that outlived the privilege it was authorised with.
THEOREM LastAdmin == Spec => LastAdminStays
BY Invariance, LastAdminStep, PTL DEF Spec, LastAdminStays

\* Privileges change by a PATCH of an admin only.
THEOREM PrivilegesHold == Spec => PrivilegesAreGranted
BY Invariance, PrivilegesStep, PTL DEF Spec, PrivilegesAreGranted
=============================================================================

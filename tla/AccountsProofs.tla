--------------------------- MODULE AccountsProofs ---------------------------
(***************************************************************************)
(* Machine-checked proofs about Accounts for every set of users, emails,   *)
(* tokens, identities, books and concurrent requests.                      *)
(***************************************************************************)
EXTENDS Accounts, TLAPS

\* A session row was inserted under a token handed out for it, a request can
\* only present a cookie that was handed out, and a book in a library was
\* inserted: fresh names are fresh.  A row that was never inserted has no email.
NamesAreSpent ==
    /\ \A t \in Tokens : holder[t] # NoUser => t \in issued
    /\ \A r \in Reqs : cookie[r] \in issued \union {NoToken}
    /\ \A i \in Items : owner[i] # NoUser => i \in stored
    /\ \A u \in Users : users[u] = "absent" => email[u] = NoEmail

\* Who a request acts for: a sign-in about to merge carries an account (that
\* may have been erased since), and identities belong to accounts.
SubjectsKnown ==
    /\ \A r \in Reqs : pc[r] = "merge" => users[subject[r]] \in {"member", "erased"}
    /\ \A s \in Subs : identities[s] # NoUser => users[identities[s]] = "member"

IInv ==
    /\ TypeOK
    /\ NothingOutlivesItsUser
    /\ CookieSettled
    /\ OneAccountPerEmail
    /\ NamesAreSpent
    /\ SubjectsKnown

\* The initial state satisfies the inductive invariant.
LEMMA InitIInv == Init => IInv
BY NoUserAssumption, NoTokenAssumption
   DEF Init, IInv, TypeOK, UserStatus, PCs, NothingOutlivesItsUser, CookieSettled,
       OneAccountPerEmail, NamesAreSpent, SubjectsKnown, Present, IsGuest, CookieUser

\* Every step keeps the types of the rows and of the handlers' locals.
LEMMA TypeOKStep == IInv /\ [Next]_vars => TypeOK'
<1> SUFFICES ASSUME IInv, [Next]_vars PROVE TypeOK'
  OBVIOUS
<1>1. ASSUME NEW r \in Reqs, NEW u \in Users,
             GuestSignup(r, u)
       PROVE  TypeOK'
  BY <1>1
  DEF GuestSignup, Goto, IInv, TypeOK, UserStatus, PCs
<1>2. ASSUME NEW r \in Reqs, NEW u \in Users, NEW e \in Emails, NEW t \in Cookies,
             Register(r, u, e, t)
       PROVE  TypeOK'
  BY <1>2
  DEF Register, Goto, Cookies, IInv, TypeOK, UserStatus, PCs
<1>3. ASSUME NEW r \in Reqs, NEW s \in Subs, NEW u \in Users, NEW t \in Cookies,
             OAuthLink(r, s, u, t)
       PROVE  TypeOK'
  BY <1>3
  DEF OAuthLink, Link, Goto, Cookies, IInv, TypeOK, PCs
<1>4. ASSUME NEW r \in Reqs, NEW s \in Subs, NEW u \in Users, NEW e \in Emails, NEW t \in Cookies,
             OAuthCreate(r, s, u, e, t)
       PROVE  TypeOK'
  BY <1>4
  DEF OAuthCreate, Link, Goto, Cookies, IInv, TypeOK, UserStatus, PCs
<1>5. ASSUME NEW s \in Subs, NEW u \in Users, NEW e \in Emails,
             CrashInOAuthCreate(s, u, e)
       PROVE  TypeOK'
  BY <1>5
  DEF CrashInOAuthCreate, IInv, TypeOK, UserStatus, PCs
<1>6. ASSUME NEW r \in Reqs,
             MergeGuest(r)
       PROVE  TypeOK'
  BY <1>6
  DEF MergeGuest, HoldersWithout, OwnersMoved, Goto, IInv, TypeOK,
      UserStatus, PCs
<1>7. ASSUME NEW r \in Reqs,
             MergeIntoMissing(r)
       PROVE  TypeOK'
  BY <1>7
  DEF MergeIntoMissing, HoldersWithout, Goto, IInv, TypeOK, UserStatus, PCs
<1>8. ASSUME NEW r \in Reqs, NEW t \in Tokens,
             StartSession(r, t)
       PROVE  TypeOK'
  BY <1>8
  DEF StartSession, Finish, Goto, IInv, TypeOK, PCs
<1>9. ASSUME NEW r \in Reqs,
             StartSessionRefused(r)
       PROVE  TypeOK'
  BY <1>9
  DEF StartSessionRefused, Finish, Goto, IInv, TypeOK, PCs
<1>10. ASSUME NEW r \in Reqs, NEW i \in Items,
             Upload(r, i)
       PROVE  TypeOK'
  BY <1>10
  DEF Upload, Finish, Goto, IInv, TypeOK, PCs
<1>11. ASSUME NEW r \in Reqs, NEW i \in Items,
             Purge(r, i)
       PROVE  TypeOK'
  BY <1>11
  DEF Purge, Finish, Goto, IInv, TypeOK, PCs
<1>12. ASSUME NEW r \in Reqs,
             EraseSelf(r)
       PROVE  TypeOK'
  BY <1>12
  DEF EraseSelf, DeleteUser, HoldersWithout, OwnersMoved, Finish, Goto,
      IInv, TypeOK, UserStatus, PCs
<1>13. ASSUME NEW u \in Users,
             EraseByAdmin(u)
       PROVE  TypeOK'
  BY <1>13
  DEF EraseByAdmin, DeleteUser, HoldersWithout, OwnersMoved, IInv, TypeOK,
      UserStatus
<1>14. ASSUME NEW t \in Tokens,
             Logout(t)
       PROVE  TypeOK'
  BY <1>14
  DEF Logout, IInv, TypeOK
<1>15. ASSUME NEW t \in Tokens,
             Expire(t)
       PROVE  TypeOK'
  BY <1>15
  DEF Expire, IInv, TypeOK
<1>16. ASSUME NEW r \in Reqs, NEW u \in Users, NEW t \in Cookies,
             Login(r, u, t)
       PROVE  TypeOK'
  BY <1>16
  DEF Login, Goto, Cookies, rows, IInv, TypeOK, PCs
<1>17. ASSUME NEW r \in Reqs, NEW s \in Subs, NEW t \in Cookies,
             OAuthKnown(r, s, t)
       PROVE  TypeOK'
  BY <1>17
  DEF OAuthKnown, Goto, Cookies, rows, IInv, TypeOK, PCs, Linked
<1>18. ASSUME NEW r \in Reqs,
             MergeNothing(r)
       PROVE  TypeOK'
  BY <1>18
  DEF MergeNothing, Goto, rows, IInv, TypeOK, PCs
<1>19. ASSUME NEW r \in Reqs,
             MergeRolledBack(r)
       PROVE  TypeOK'
  BY <1>19
  DEF MergeRolledBack, Finish, Goto, rows, IInv, TypeOK, PCs
<1>20. ASSUME NEW r \in Reqs, NEW t \in Tokens,
             Authenticate(r, t)
       PROVE  TypeOK'
  BY <1>20
  DEF Authenticate, Goto, CookieUser, rows, IInv, TypeOK, PCs
<1>21. ASSUME NEW r \in Reqs,
             Stop(r)
       PROVE  TypeOK'
  BY <1>21
  DEF Stop, Finish, Goto, rows, IInv, TypeOK, PCs
<1>22. CASE UNCHANGED vars
  BY <1>22
  DEF vars, IInv, TypeOK
<1>23. QED
  BY <1>1, <1>2, <1>3, <1>4, <1>5, <1>6, <1>7, <1>8, <1>9, <1>10, <1>11,
     <1>12, <1>13, <1>14, <1>15, <1>16, <1>17, <1>18, <1>19, <1>20, <1>21,
     <1>22
  DEF Next, SignIn, Merge, Session, SignedIn, Environment

\* Cascades and the foreign-key checks leave nothing of a user who is gone.
LEMMA NothingOutlivesItsUserStep == IInv /\ [Next]_vars => NothingOutlivesItsUser'
<1> SUFFICES ASSUME IInv, [Next]_vars PROVE NothingOutlivesItsUser'
  OBVIOUS
<1>1. ASSUME NEW r \in Reqs, NEW u \in Users,
             GuestSignup(r, u)
       PROVE  NothingOutlivesItsUser'
  BY <1>1
  DEF GuestSignup, IInv, NothingOutlivesItsUser, Present
<1>2. ASSUME NEW r \in Reqs, NEW u \in Users, NEW e \in Emails, NEW t \in Cookies,
             Register(r, u, e, t)
       PROVE  NothingOutlivesItsUser'
  BY <1>2
  DEF Register, IInv, NothingOutlivesItsUser, Present
<1>3. ASSUME NEW r \in Reqs, NEW s \in Subs, NEW u \in Users, NEW t \in Cookies,
             OAuthLink(r, s, u, t)
       PROVE  NothingOutlivesItsUser'
  BY <1>3
  DEF OAuthLink, Link, IInv, NothingOutlivesItsUser, Present
<1>4. ASSUME NEW r \in Reqs, NEW s \in Subs, NEW u \in Users, NEW e \in Emails, NEW t \in Cookies,
             OAuthCreate(r, s, u, e, t)
       PROVE  NothingOutlivesItsUser'
  BY <1>4
  DEF OAuthCreate, Link, IInv, NothingOutlivesItsUser, TypeOK, Present
<1>5. ASSUME NEW s \in Subs, NEW u \in Users, NEW e \in Emails,
             CrashInOAuthCreate(s, u, e)
       PROVE  NothingOutlivesItsUser'
  BY <1>5
  DEF CrashInOAuthCreate, IInv, NothingOutlivesItsUser, Present
<1>6. ASSUME NEW r \in Reqs,
             MergeGuest(r)
       PROVE  NothingOutlivesItsUser'
  BY <1>6
  DEF MergeGuest, OpensGuest, HoldersWithout, OwnersMoved, IInv,
      NothingOutlivesItsUser, Present, IsGuest, SubjectsKnown, TypeOK
<1>7. ASSUME NEW r \in Reqs,
             MergeIntoMissing(r)
       PROVE  NothingOutlivesItsUser'
  BY <1>7
  DEF MergeIntoMissing, OpensGuest, HoldersWithout, IInv,
      NothingOutlivesItsUser, Present, IsGuest, SubjectsKnown, TypeOK
<1>8. ASSUME NEW r \in Reqs, NEW t \in Tokens,
             StartSession(r, t)
       PROVE  NothingOutlivesItsUser'
  BY <1>8
  DEF StartSession, IInv, NothingOutlivesItsUser, Present
<1>9. ASSUME NEW r \in Reqs,
             StartSessionRefused(r)
       PROVE  NothingOutlivesItsUser'
  BY <1>9
  DEF StartSessionRefused, IInv, NothingOutlivesItsUser, Present
<1>10. ASSUME NEW r \in Reqs, NEW i \in Items,
             Upload(r, i)
       PROVE  NothingOutlivesItsUser'
  BY <1>10
  DEF Upload, IInv, NothingOutlivesItsUser, Present
<1>11. ASSUME NEW r \in Reqs, NEW i \in Items,
             Purge(r, i)
       PROVE  NothingOutlivesItsUser'
  BY <1>11
  DEF Purge, IInv, NothingOutlivesItsUser, Present
<1>12. ASSUME NEW r \in Reqs,
             EraseSelf(r)
       PROVE  NothingOutlivesItsUser'
  BY <1>12
  DEF EraseSelf, DeleteUser, HoldersWithout, OwnersMoved, IInv,
      NothingOutlivesItsUser, Present
<1>13. ASSUME NEW u \in Users,
             EraseByAdmin(u)
       PROVE  NothingOutlivesItsUser'
  BY <1>13
  DEF EraseByAdmin, DeleteUser, HoldersWithout, OwnersMoved, IInv,
      NothingOutlivesItsUser, Present
<1>14. ASSUME NEW t \in Tokens,
             Logout(t)
       PROVE  NothingOutlivesItsUser'
  BY <1>14
  DEF Logout, IInv, NothingOutlivesItsUser, Present
<1>15. ASSUME NEW t \in Tokens,
             Expire(t)
       PROVE  NothingOutlivesItsUser'
  BY <1>15
  DEF Expire, IInv, NothingOutlivesItsUser, Present
<1>16. CASE UNCHANGED rows
  BY <1>16
  DEF rows, IInv, NothingOutlivesItsUser, Present
<1>17. QED
  BY <1>1, <1>2, <1>3, <1>4, <1>5, <1>6, <1>7, <1>8, <1>9, <1>10, <1>11,
     <1>12, <1>13, <1>14, <1>15, <1>16
  DEF Next, SignIn, Merge, Session, SignedIn, Environment, Login, OAuthKnown,
      MergeNothing, MergeRolledBack, Authenticate, Stop, vars, rows

\* No step lets the cookie of a merged sign-in open a guest library again.
LEMMA CookieSettledStep == IInv /\ [Next]_vars => CookieSettled'
<1> SUFFICES ASSUME IInv, [Next]_vars PROVE CookieSettled'
  OBVIOUS
<1>1. ASSUME NEW r \in Reqs, NEW u \in Users,
             GuestSignup(r, u)
       PROVE  CookieSettled'
  BY <1>1, NoUserAssumption, NoTokenAssumption
  DEF GuestSignup, Goto, IInv, CookieSettled, TypeOK,
      NothingOutlivesItsUser, Present, IsGuest, CookieUser
<1>2. ASSUME NEW r \in Reqs, NEW u \in Users, NEW e \in Emails, NEW t \in Cookies,
             Register(r, u, e, t)
       PROVE  CookieSettled'
  BY <1>2
  DEF Register, Goto, IInv, CookieSettled, IsGuest, CookieUser
<1>3. ASSUME NEW r \in Reqs, NEW s \in Subs, NEW u \in Users, NEW t \in Cookies,
             OAuthLink(r, s, u, t)
       PROVE  CookieSettled'
  BY <1>3
  DEF OAuthLink, Link, Goto, IInv, CookieSettled, IsGuest, CookieUser
<1>4. ASSUME NEW r \in Reqs, NEW s \in Subs, NEW u \in Users, NEW e \in Emails, NEW t \in Cookies,
             OAuthCreate(r, s, u, e, t)
       PROVE  CookieSettled'
  BY <1>4
  DEF OAuthCreate, Link, Goto, IInv, CookieSettled, IsGuest, CookieUser
<1>5. ASSUME NEW s \in Subs, NEW u \in Users, NEW e \in Emails,
             CrashInOAuthCreate(s, u, e)
       PROVE  CookieSettled'
  BY <1>5
  DEF CrashInOAuthCreate, CookieSettled
<1>6. ASSUME NEW r \in Reqs,
             MergeGuest(r)
       PROVE  CookieSettled'
  BY <1>6, NoUserAssumption
  DEF MergeGuest, HoldersWithout, Goto, IInv, CookieSettled, IsGuest,
      CookieUser
<1>7. ASSUME NEW r \in Reqs,
             MergeIntoMissing(r)
       PROVE  CookieSettled'
  BY <1>7, NoUserAssumption
  DEF MergeIntoMissing, HoldersWithout, Goto, IInv, CookieSettled, IsGuest,
      CookieUser
<1>8. ASSUME NEW r \in Reqs, NEW t \in Tokens,
             StartSession(r, t)
       PROVE  CookieSettled'
  BY <1>8, NoTokenAssumption
  DEF StartSession, Finish, Goto, IInv, CookieSettled, TypeOK, IsGuest,
      CookieUser, NamesAreSpent
<1>9. ASSUME NEW r \in Reqs,
             StartSessionRefused(r)
       PROVE  CookieSettled'
  BY <1>9
  DEF StartSessionRefused, Finish, Goto, IInv, CookieSettled, TypeOK,
      IsGuest, CookieUser
<1>10. ASSUME NEW r \in Reqs, NEW i \in Items,
             Upload(r, i)
       PROVE  CookieSettled'
  BY <1>10
  DEF Upload, Finish, Goto, IInv, CookieSettled, IsGuest, CookieUser
<1>11. ASSUME NEW r \in Reqs, NEW i \in Items,
             Purge(r, i)
       PROVE  CookieSettled'
  BY <1>11
  DEF Purge, Finish, Goto, IInv, CookieSettled, IsGuest, CookieUser
<1>12. ASSUME NEW r \in Reqs,
             EraseSelf(r)
       PROVE  CookieSettled'
  BY <1>12, NoUserAssumption
  DEF EraseSelf, DeleteUser, HoldersWithout, Finish, Goto, IInv,
      CookieSettled, IsGuest, CookieUser
<1>13. ASSUME NEW u \in Users,
             EraseByAdmin(u)
       PROVE  CookieSettled'
  BY <1>13, NoUserAssumption
  DEF EraseByAdmin, DeleteUser, HoldersWithout, IInv, CookieSettled,
      IsGuest, CookieUser
<1>14. ASSUME NEW t \in Tokens,
             Logout(t)
       PROVE  CookieSettled'
  BY <1>14, NoUserAssumption
  DEF Logout, IInv, CookieSettled, TypeOK, IsGuest, CookieUser
<1>15. ASSUME NEW t \in Tokens,
             Expire(t)
       PROVE  CookieSettled'
  BY <1>15, NoUserAssumption
  DEF Expire, IInv, CookieSettled, IsGuest, CookieUser
<1>16. ASSUME NEW r \in Reqs, NEW u \in Users, NEW t \in Cookies,
             Login(r, u, t)
       PROVE  CookieSettled'
  BY <1>16
  DEF Login, Goto, rows, IInv, CookieSettled, IsGuest, CookieUser
<1>17. ASSUME NEW r \in Reqs, NEW s \in Subs, NEW t \in Cookies,
             OAuthKnown(r, s, t)
       PROVE  CookieSettled'
  BY <1>17
  DEF OAuthKnown, Goto, rows, IInv, CookieSettled, IsGuest, CookieUser,
      Linked
<1>18. ASSUME NEW r \in Reqs,
             MergeNothing(r)
       PROVE  CookieSettled'
  BY <1>18
  DEF MergeNothing, OpensGuest, Goto, rows, IInv, CookieSettled, IsGuest,
      CookieUser
<1>19. ASSUME NEW r \in Reqs,
             MergeRolledBack(r)
       PROVE  CookieSettled'
  BY <1>19
  DEF MergeRolledBack, Finish, Goto, rows, IInv, CookieSettled, IsGuest,
      CookieUser
<1>20. ASSUME NEW r \in Reqs, NEW t \in Tokens,
             Authenticate(r, t)
       PROVE  CookieSettled'
  BY <1>20
  DEF Authenticate, Goto, CookieUser, rows, IInv, CookieSettled, IsGuest
<1>21. ASSUME NEW r \in Reqs,
             Stop(r)
       PROVE  CookieSettled'
  BY <1>21
  DEF Stop, Finish, Goto, rows, IInv, CookieSettled, TypeOK, IsGuest,
      CookieUser
<1>22. CASE UNCHANGED vars
  BY <1>22
  DEF vars, IInv, CookieSettled, IsGuest, CookieUser
<1>23. QED
  BY <1>1, <1>2, <1>3, <1>4, <1>5, <1>6, <1>7, <1>8, <1>9, <1>10, <1>11,
     <1>12, <1>13, <1>14, <1>15, <1>16, <1>17, <1>18, <1>19, <1>20, <1>21,
     <1>22
  DEF Next, SignIn, Merge, Session, SignedIn, Environment

\* Look-before-insert in one closure keeps addresses unique.
LEMMA OneAccountPerEmailStep == IInv /\ [Next]_vars => OneAccountPerEmail'
<1> SUFFICES ASSUME IInv, [Next]_vars PROVE OneAccountPerEmail'
  OBVIOUS
<1>1. ASSUME NEW r \in Reqs, NEW u \in Users,
             GuestSignup(r, u)
       PROVE  OneAccountPerEmail'
  BY <1>1
  DEF GuestSignup, IInv, OneAccountPerEmail, Present, NamesAreSpent
<1>2. ASSUME NEW r \in Reqs, NEW u \in Users, NEW e \in Emails, NEW t \in Cookies,
             Register(r, u, e, t)
       PROVE  OneAccountPerEmail'
  BY <1>2
  DEF Register, EmailFree, IInv, OneAccountPerEmail, TypeOK, Present
<1>3. ASSUME NEW r \in Reqs, NEW s \in Subs, NEW u \in Users, NEW t \in Cookies,
             OAuthLink(r, s, u, t)
       PROVE  OneAccountPerEmail'
  BY <1>3
  DEF OAuthLink, Link, IInv, OneAccountPerEmail, Present
<1>4. ASSUME NEW r \in Reqs, NEW s \in Subs, NEW u \in Users, NEW e \in Emails, NEW t \in Cookies,
             OAuthCreate(r, s, u, e, t)
       PROVE  OneAccountPerEmail'
  BY <1>4
  DEF OAuthCreate, Link, EmailFree, IInv, OneAccountPerEmail, TypeOK, Present
<1>5. ASSUME NEW s \in Subs, NEW u \in Users, NEW e \in Emails,
             CrashInOAuthCreate(s, u, e)
       PROVE  OneAccountPerEmail'
  BY <1>5
  DEF CrashInOAuthCreate, EmailFree, IInv, OneAccountPerEmail, TypeOK,
      Present
<1>6. ASSUME NEW r \in Reqs,
             MergeGuest(r)
       PROVE  OneAccountPerEmail'
  BY <1>6
  DEF MergeGuest, IInv, OneAccountPerEmail, Present
<1>7. ASSUME NEW r \in Reqs,
             MergeIntoMissing(r)
       PROVE  OneAccountPerEmail'
  BY <1>7
  DEF MergeIntoMissing, IInv, OneAccountPerEmail, Present
<1>8. ASSUME NEW r \in Reqs, NEW t \in Tokens,
             StartSession(r, t)
       PROVE  OneAccountPerEmail'
  BY <1>8
  DEF StartSession, IInv, OneAccountPerEmail, Present
<1>9. ASSUME NEW r \in Reqs,
             StartSessionRefused(r)
       PROVE  OneAccountPerEmail'
  BY <1>9
  DEF StartSessionRefused, IInv, OneAccountPerEmail, Present
<1>10. ASSUME NEW r \in Reqs, NEW i \in Items,
             Upload(r, i)
       PROVE  OneAccountPerEmail'
  BY <1>10
  DEF Upload, IInv, OneAccountPerEmail, Present
<1>11. ASSUME NEW r \in Reqs, NEW i \in Items,
             Purge(r, i)
       PROVE  OneAccountPerEmail'
  BY <1>11
  DEF Purge, IInv, OneAccountPerEmail, Present
<1>12. ASSUME NEW r \in Reqs,
             EraseSelf(r)
       PROVE  OneAccountPerEmail'
  BY <1>12
  DEF EraseSelf, DeleteUser, IInv, OneAccountPerEmail, Present
<1>13. ASSUME NEW u \in Users,
             EraseByAdmin(u)
       PROVE  OneAccountPerEmail'
  BY <1>13
  DEF EraseByAdmin, DeleteUser, IInv, OneAccountPerEmail, Present
<1>14. ASSUME NEW t \in Tokens,
             Logout(t)
       PROVE  OneAccountPerEmail'
  BY <1>14
  DEF Logout, IInv, OneAccountPerEmail, Present
<1>15. ASSUME NEW t \in Tokens,
             Expire(t)
       PROVE  OneAccountPerEmail'
  BY <1>15
  DEF Expire, IInv, OneAccountPerEmail, Present
<1>16. CASE UNCHANGED rows
  BY <1>16
  DEF rows, IInv, OneAccountPerEmail, Present
<1>17. QED
  BY <1>1, <1>2, <1>3, <1>4, <1>5, <1>6, <1>7, <1>8, <1>9, <1>10, <1>11,
     <1>12, <1>13, <1>14, <1>15, <1>16
  DEF Next, SignIn, Merge, Session, SignedIn, Environment, Login, OAuthKnown,
      MergeNothing, MergeRolledBack, Authenticate, Stop, vars, rows

\* Tokens, cookies and books in use stay among those handed out.
LEMMA NamesAreSpentStep == IInv /\ [Next]_vars => NamesAreSpent'
<1> SUFFICES ASSUME IInv, [Next]_vars PROVE NamesAreSpent'
  OBVIOUS
<1>1. ASSUME NEW r \in Reqs, NEW u \in Users,
             GuestSignup(r, u)
       PROVE  NamesAreSpent'
  BY <1>1
  DEF GuestSignup, Goto, IInv, NamesAreSpent
<1>2. ASSUME NEW r \in Reqs, NEW u \in Users, NEW e \in Emails, NEW t \in Cookies,
             Register(r, u, e, t)
       PROVE  NamesAreSpent'
  BY <1>2
  DEF Register, Goto, Cookies, IInv, NamesAreSpent, TypeOK
<1>3. ASSUME NEW r \in Reqs, NEW s \in Subs, NEW u \in Users, NEW t \in Cookies,
             OAuthLink(r, s, u, t)
       PROVE  NamesAreSpent'
  BY <1>3
  DEF OAuthLink, Link, Goto, Cookies, IInv, NamesAreSpent
<1>4. ASSUME NEW r \in Reqs, NEW s \in Subs, NEW u \in Users, NEW e \in Emails, NEW t \in Cookies,
             OAuthCreate(r, s, u, e, t)
       PROVE  NamesAreSpent'
  BY <1>4
  DEF OAuthCreate, Link, Goto, Cookies, IInv, NamesAreSpent, TypeOK
<1>5. ASSUME NEW s \in Subs, NEW u \in Users, NEW e \in Emails,
             CrashInOAuthCreate(s, u, e)
       PROVE  NamesAreSpent'
  BY <1>5
  DEF CrashInOAuthCreate, IInv, NamesAreSpent, TypeOK
<1>6. ASSUME NEW r \in Reqs,
             MergeGuest(r)
       PROVE  NamesAreSpent'
  BY <1>6, NoUserAssumption
  DEF MergeGuest, OpensGuest, HoldersWithout, OwnersMoved, Goto, IInv,
      NamesAreSpent, IsGuest
<1>7. ASSUME NEW r \in Reqs,
             MergeIntoMissing(r)
       PROVE  NamesAreSpent'
  BY <1>7
  DEF MergeIntoMissing, HoldersWithout, Goto, IInv, NamesAreSpent
<1>8. ASSUME NEW r \in Reqs, NEW t \in Tokens,
             StartSession(r, t)
       PROVE  NamesAreSpent'
  BY <1>8
  DEF StartSession, Finish, Goto, IInv, NamesAreSpent
<1>9. ASSUME NEW r \in Reqs,
             StartSessionRefused(r)
       PROVE  NamesAreSpent'
  BY <1>9
  DEF StartSessionRefused, Finish, Goto, IInv, NamesAreSpent
<1>10. ASSUME NEW r \in Reqs, NEW i \in Items,
             Upload(r, i)
       PROVE  NamesAreSpent'
  BY <1>10
  DEF Upload, Finish, Goto, IInv, NamesAreSpent
<1>11. ASSUME NEW r \in Reqs, NEW i \in Items,
             Purge(r, i)
       PROVE  NamesAreSpent'
  BY <1>11
  DEF Purge, Finish, Goto, IInv, NamesAreSpent
<1>12. ASSUME NEW r \in Reqs,
             EraseSelf(r)
       PROVE  NamesAreSpent'
  BY <1>12
  DEF EraseSelf, DeleteUser, HoldersWithout, OwnersMoved, Finish, Goto,
      IInv, NamesAreSpent
<1>13. ASSUME NEW u \in Users,
             EraseByAdmin(u)
       PROVE  NamesAreSpent'
  BY <1>13
  DEF EraseByAdmin, DeleteUser, HoldersWithout, OwnersMoved, IInv,
      NamesAreSpent
<1>14. ASSUME NEW t \in Tokens,
             Logout(t)
       PROVE  NamesAreSpent'
  BY <1>14
  DEF Logout, IInv, NamesAreSpent
<1>15. ASSUME NEW t \in Tokens,
             Expire(t)
       PROVE  NamesAreSpent'
  BY <1>15
  DEF Expire, IInv, NamesAreSpent
<1>16. ASSUME NEW r \in Reqs, NEW u \in Users, NEW t \in Cookies,
             Login(r, u, t)
       PROVE  NamesAreSpent'
  BY <1>16
  DEF Login, Goto, Cookies, rows, IInv, NamesAreSpent
<1>17. ASSUME NEW r \in Reqs, NEW s \in Subs, NEW t \in Cookies,
             OAuthKnown(r, s, t)
       PROVE  NamesAreSpent'
  BY <1>17
  DEF OAuthKnown, Goto, Cookies, rows, IInv, NamesAreSpent, Linked
<1>18. ASSUME NEW r \in Reqs,
             MergeNothing(r)
       PROVE  NamesAreSpent'
  BY <1>18
  DEF MergeNothing, Goto, rows, IInv, NamesAreSpent
<1>19. ASSUME NEW r \in Reqs,
             MergeRolledBack(r)
       PROVE  NamesAreSpent'
  BY <1>19
  DEF MergeRolledBack, Finish, Goto, rows, IInv, NamesAreSpent
<1>20. ASSUME NEW r \in Reqs, NEW t \in Tokens,
             Authenticate(r, t)
       PROVE  NamesAreSpent'
  BY <1>20
  DEF Authenticate, Goto, rows, IInv, NamesAreSpent
<1>21. ASSUME NEW r \in Reqs,
             Stop(r)
       PROVE  NamesAreSpent'
  BY <1>21
  DEF Stop, Finish, Goto, rows, IInv, NamesAreSpent
<1>22. CASE UNCHANGED vars
  BY <1>22
  DEF vars, IInv, NamesAreSpent
<1>23. QED
  BY <1>1, <1>2, <1>3, <1>4, <1>5, <1>6, <1>7, <1>8, <1>9, <1>10, <1>11,
     <1>12, <1>13, <1>14, <1>15, <1>16, <1>17, <1>18, <1>19, <1>20, <1>21,
     <1>22
  DEF Next, SignIn, Merge, Session, SignedIn, Environment

\* Handlers keep acting for users that exist or existed.
LEMMA SubjectsKnownStep == IInv /\ [Next]_vars => SubjectsKnown'
<1> SUFFICES ASSUME IInv, [Next]_vars PROVE SubjectsKnown'
  OBVIOUS
<1>1. ASSUME NEW r \in Reqs, NEW u \in Users,
             GuestSignup(r, u)
       PROVE  SubjectsKnown'
  BY <1>1
  DEF GuestSignup, Goto, IInv, SubjectsKnown, TypeOK
<1>2. ASSUME NEW r \in Reqs, NEW u \in Users, NEW e \in Emails, NEW t \in Cookies,
             Register(r, u, e, t)
       PROVE  SubjectsKnown'
  BY <1>2
  DEF Register, Goto, IInv, SubjectsKnown, TypeOK
<1>3. ASSUME NEW r \in Reqs, NEW s \in Subs, NEW u \in Users, NEW t \in Cookies,
             OAuthLink(r, s, u, t)
       PROVE  SubjectsKnown'
  BY <1>3
  DEF OAuthLink, Link, Goto, IInv, SubjectsKnown, TypeOK
<1>4. ASSUME NEW r \in Reqs, NEW s \in Subs, NEW u \in Users, NEW e \in Emails, NEW t \in Cookies,
             OAuthCreate(r, s, u, e, t)
       PROVE  SubjectsKnown'
  BY <1>4
  DEF OAuthCreate, Link, Goto, IInv, SubjectsKnown, TypeOK
<1>5. ASSUME NEW s \in Subs, NEW u \in Users, NEW e \in Emails,
             CrashInOAuthCreate(s, u, e)
       PROVE  SubjectsKnown'
  BY <1>5
  DEF CrashInOAuthCreate, IInv, SubjectsKnown, TypeOK
<1>6. ASSUME NEW r \in Reqs,
             MergeGuest(r)
       PROVE  SubjectsKnown'
  BY <1>6
  DEF MergeGuest, OpensGuest, Goto, IInv, SubjectsKnown, IsGuest, TypeOK
<1>7. ASSUME NEW r \in Reqs,
             MergeIntoMissing(r)
       PROVE  SubjectsKnown'
  BY <1>7
  DEF MergeIntoMissing, OpensGuest, Goto, IInv, SubjectsKnown, IsGuest,
      TypeOK
<1>8. ASSUME NEW r \in Reqs, NEW t \in Tokens,
             StartSession(r, t)
       PROVE  SubjectsKnown'
  BY <1>8
  DEF StartSession, Finish, Goto, IInv, SubjectsKnown, TypeOK
<1>9. ASSUME NEW r \in Reqs,
             StartSessionRefused(r)
       PROVE  SubjectsKnown'
  BY <1>9
  DEF StartSessionRefused, Finish, Goto, IInv, SubjectsKnown, TypeOK
<1>10. ASSUME NEW r \in Reqs, NEW i \in Items,
             Upload(r, i)
       PROVE  SubjectsKnown'
  BY <1>10
  DEF Upload, Finish, Goto, IInv, SubjectsKnown, TypeOK
<1>11. ASSUME NEW r \in Reqs, NEW i \in Items,
             Purge(r, i)
       PROVE  SubjectsKnown'
  BY <1>11
  DEF Purge, Finish, Goto, IInv, SubjectsKnown, TypeOK
<1>12. ASSUME NEW r \in Reqs,
             EraseSelf(r)
       PROVE  SubjectsKnown'
  BY <1>12
  DEF EraseSelf, DeleteUser, Finish, Goto, IInv, SubjectsKnown, TypeOK
<1>13. ASSUME NEW u \in Users,
             EraseByAdmin(u)
       PROVE  SubjectsKnown'
  BY <1>13
  DEF EraseByAdmin, DeleteUser, IInv, SubjectsKnown, TypeOK
<1>14. ASSUME NEW t \in Tokens,
             Logout(t)
       PROVE  SubjectsKnown'
  BY <1>14
  DEF Logout, IInv, SubjectsKnown, TypeOK
<1>15. ASSUME NEW t \in Tokens,
             Expire(t)
       PROVE  SubjectsKnown'
  BY <1>15
  DEF Expire, IInv, SubjectsKnown, TypeOK
<1>16. ASSUME NEW r \in Reqs, NEW u \in Users, NEW t \in Cookies,
             Login(r, u, t)
       PROVE  SubjectsKnown'
  BY <1>16
  DEF Login, Goto, rows, IInv, SubjectsKnown, TypeOK
<1>17. ASSUME NEW r \in Reqs, NEW s \in Subs, NEW t \in Cookies,
             OAuthKnown(r, s, t)
       PROVE  SubjectsKnown'
  BY <1>17
  DEF OAuthKnown, Goto, rows, IInv, SubjectsKnown, TypeOK, Linked
<1>18. ASSUME NEW r \in Reqs,
             MergeNothing(r)
       PROVE  SubjectsKnown'
  BY <1>18
  DEF MergeNothing, Goto, rows, IInv, SubjectsKnown, TypeOK
<1>19. ASSUME NEW r \in Reqs,
             MergeRolledBack(r)
       PROVE  SubjectsKnown'
  BY <1>19
  DEF MergeRolledBack, Finish, Goto, rows, IInv, SubjectsKnown, TypeOK
<1>20. ASSUME NEW r \in Reqs, NEW t \in Tokens,
             Authenticate(r, t)
       PROVE  SubjectsKnown'
  BY <1>20
  DEF Authenticate, Goto, CookieUser, rows, IInv, SubjectsKnown, TypeOK
<1>21. ASSUME NEW r \in Reqs,
             Stop(r)
       PROVE  SubjectsKnown'
  BY <1>21
  DEF Stop, Finish, Goto, rows, IInv, SubjectsKnown, TypeOK
<1>22. CASE UNCHANGED vars
  BY <1>22
  DEF vars, IInv, SubjectsKnown, TypeOK
<1>23. QED
  BY <1>1, <1>2, <1>3, <1>4, <1>5, <1>6, <1>7, <1>8, <1>9, <1>10, <1>11,
     <1>12, <1>13, <1>14, <1>15, <1>16, <1>17, <1>18, <1>19, <1>20, <1>21,
     <1>22
  DEF Next, SignIn, Merge, Session, SignedIn, Environment
-----------------------------------------------------------------------------

\* No step moves a linked identity to another account.
LEMMA IdentityStep ==
    IInv /\ [Next]_vars =>
        \A s \in Subs : identities[s] # NoUser =>
            identities'[s] = identities[s] \/ users'[identities[s]] = "erased"
<1> SUFFICES ASSUME IInv, [Next]_vars, NEW s \in Subs, identities[s] # NoUser
             PROVE  identities'[s] = identities[s] \/ users'[identities[s]] = "erased"
  OBVIOUS
<1>1. CASE UNCHANGED identities
  BY <1>1
<1>2. ASSUME NEW r \in Reqs, NEW x \in Subs, NEW u \in Users, NEW t \in Cookies,
             OAuthLink(r, x, u, t)
      PROVE  identities'[s] = identities[s]
  BY <1>2 DEF OAuthLink, Link, Unlinked, IInv, TypeOK
<1>3. ASSUME NEW r \in Reqs, NEW x \in Subs, NEW u \in Users, NEW e \in Emails,
             NEW t \in Cookies, OAuthCreate(r, x, u, e, t)
      PROVE  identities'[s] = identities[s]
  BY <1>3 DEF OAuthCreate, Link, Unlinked, IInv, TypeOK
<1>4. ASSUME NEW u \in Users, DeleteUser(u)
      PROVE  identities'[s] = identities[s] \/ users'[identities[s]] = "erased"
  BY <1>4 DEF DeleteUser, IInv, TypeOK
<1>5. ASSUME NEW r \in Reqs, EraseSelf(r)
      PROVE  \E u \in Users : DeleteUser(u)
  BY <1>5 DEF EraseSelf, Present
<1>6. ASSUME NEW u \in Users, EraseByAdmin(u)
      PROVE  DeleteUser(u)
  BY <1>6 DEF EraseByAdmin
<1>7. QED
  BY <1>1, <1>2, <1>3, <1>4, <1>5, <1>6
  DEF Next, SignIn, Merge, Session, SignedIn, Environment, GuestSignup, Register,
      Login, OAuthKnown, CrashInOAuthCreate, MergeNothing, MergeGuest, MergeRolledBack,
      MergeIntoMissing, StartSession, StartSessionRefused, Authenticate, Upload,
      Purge, Logout, Expire, Stop, rows, vars

\* A book leaves all libraries only with its owner's row or by a request that
\* carries its owner's snapshot.
LEMMA OwnersDestroyStep ==
    IInv /\ [Next]_vars =>
        \A i \in Items : owner[i] # NoUser /\ owner'[i] = NoUser =>
            \/ users'[owner[i]] = "erased"
            \/ \E r \in Reqs : pc[r] = "authed" /\ subject[r] = owner[i]
<1> SUFFICES ASSUME IInv, [Next]_vars, NEW i \in Items, owner[i] # NoUser, owner'[i] = NoUser
             PROVE  \/ users'[owner[i]] = "erased"
                    \/ \E r \in Reqs : pc[r] = "authed" /\ subject[r] = owner[i]
  OBVIOUS
<1>1. CASE UNCHANGED owner
  BY <1>1
<1>2. ASSUME NEW r \in Reqs, NEW x \in Items, Purge(r, x)
      PROVE  pc[r] = "authed" /\ subject[r] = owner[i]
  BY <1>2 DEF Purge, MayPurge, IInv, TypeOK
<1>3. ASSUME NEW r \in Reqs, NEW x \in Items, Upload(r, x)
      PROVE  FALSE
  BY <1>3, NoUserAssumption DEF Upload, Present, IInv, TypeOK
<1>4. ASSUME NEW r \in Reqs, MergeGuest(r)
      PROVE  FALSE
  BY <1>4, NoUserAssumption DEF MergeGuest, Present, OwnersMoved
<1>5. ASSUME NEW u \in Users, DeleteUser(u)
      PROVE  users'[owner[i]] = "erased"
  BY <1>5 DEF DeleteUser, OwnersMoved, IInv, TypeOK
<1>6. ASSUME NEW r \in Reqs, EraseSelf(r)
      PROVE  \E u \in Users : DeleteUser(u)
  BY <1>6 DEF EraseSelf, Present
<1>7. ASSUME NEW u \in Users, EraseByAdmin(u)
      PROVE  DeleteUser(u)
  BY <1>7 DEF EraseByAdmin
<1>8. QED
  BY <1>1, <1>2, <1>3, <1>4, <1>5, <1>6, <1>7
  DEF Next, SignIn, Merge, Session, SignedIn, Environment, GuestSignup, Register,
      Login, OAuthKnown, OAuthLink, OAuthCreate, CrashInOAuthCreate, MergeNothing,
      MergeRolledBack, MergeIntoMissing, StartSession, StartSessionRefused,
      Authenticate, Logout, Expire, Stop, rows, vars

-----------------------------------------------------------------------------
(* The refinement: each step of Accounts is a step of Custody or leaves    *)
(* its variables alone.                                                    *)

\* No user, no book: where Custody starts.
LEMMA InitCustody == Init => C!CustodyInit
BY DEF Init, C!CustodyInit

\* A step inserts, drops, moves or erases as Custody does, or stutters.
LEMMA CustodyStep == IInv /\ [Next]_vars => [C!CustodyNext]_C!custody
<1> SUFFICES ASSUME IInv, [Next]_vars PROVE [C!CustodyNext]_C!custody
  OBVIOUS
<1>1. CASE UNCHANGED <<users, owner, stored>>
  BY <1>1 DEF C!custody
<1>2. ASSUME NEW u \in Users, NEW kind \in {"guest", "member"}, users[u] = "absent",
             users' = [users EXCEPT ![u] = kind], UNCHANGED <<owner, stored>>
      PROVE  C!CustodyNext
  BY <1>2 DEF C!CustodyNext, C!Join, C!Here
<1>3. ASSUME NEW r \in Reqs, NEW i \in Items, Upload(r, i)
      PROVE  C!CustodyNext
  BY <1>3 DEF Upload, Present, C!CustodyNext, C!Store, C!Present, C!Here
<1>4. ASSUME NEW r \in Reqs, NEW i \in Items, Purge(r, i)
      PROVE  C!CustodyNext
  BY <1>4, NoUserAssumption
  DEF Purge, MayPurge, IInv, TypeOK, C!CustodyNext, C!Drop
<1>5. ASSUME NEW u \in Users, Present(u), DeleteUser(u)
      PROVE  C!CustodyNext
  BY <1>5 DEF DeleteUser, OwnersMoved, Present, C!CustodyNext, C!Erase, C!Present, C!Here
<1>6. ASSUME NEW r \in Reqs, MergeGuest(r)
      PROVE  C!CustodyNext
  <2>1. CookieUser(cookie[r]) \in Users /\ users[CookieUser(cookie[r])] = "guest"
    BY <1>6 DEF MergeGuest, OpensGuest, IsGuest
  <2>2. subject[r] \in Users /\ users[subject[r]] = "member"
    BY <1>6 DEF MergeGuest, Present, IInv, SubjectsKnown
  <2>3. QED
    BY <1>6, <2>1, <2>2 DEF MergeGuest, OwnersMoved, C!CustodyNext, C!Adopt
<1>7. ASSUME NEW r \in Reqs, MergeIntoMissing(r)
      PROVE  C!CustodyNext
  BY <1>7 DEF MergeIntoMissing, OpensGuest, IsGuest, C!CustodyNext, C!Dissolve
<1>8. ASSUME NEW r \in Reqs, EraseSelf(r)
      PROVE  \E u \in Users : Present(u) /\ DeleteUser(u)
  BY <1>8 DEF EraseSelf, Present
<1>9. ASSUME NEW u \in Users, EraseByAdmin(u)
      PROVE  DeleteUser(u) /\ Present(u)
  BY <1>9 DEF EraseByAdmin
<1>10. ASSUME NEW r \in Reqs, NEW u \in Users, GuestSignup(r, u)
       PROVE  C!CustodyNext
  BY <1>10, <1>2 DEF GuestSignup
<1>11. ASSUME NEW r \in Reqs, NEW u \in Users, NEW e \in Emails, NEW t \in Cookies,
              Register(r, u, e, t)
       PROVE  C!CustodyNext
  BY <1>11, <1>2 DEF Register
<1>12. ASSUME NEW r \in Reqs, NEW s \in Subs, NEW u \in Users, NEW e \in Emails,
              NEW t \in Cookies, OAuthCreate(r, s, u, e, t)
       PROVE  C!CustodyNext
  BY <1>12, <1>2 DEF OAuthCreate
<1>13. ASSUME NEW s \in Subs, NEW u \in Users, NEW e \in Emails, CrashInOAuthCreate(s, u, e)
       PROVE  C!CustodyNext
  BY <1>13, <1>2 DEF CrashInOAuthCreate
<1>14. QED
  BY <1>1, <1>3, <1>4, <1>5, <1>6, <1>7, <1>8, <1>9, <1>10, <1>11, <1>12, <1>13
  DEF Next, SignIn, Merge, Session, SignedIn, Environment, Login, OAuthKnown,
      OAuthLink, MergeNothing, MergeRolledBack, StartSession, StartSessionRefused,
      Authenticate, Logout, Expire, Stop, rows, vars

-----------------------------------------------------------------------------
(* What holds of every behaviour.                                          *)

\* The inductive invariant holds in every reachable state of every instance.
THEOREM Invariance == Spec => []IInv
<1>1. IInv /\ [Next]_vars => IInv'
  BY TypeOKStep, NothingOutlivesItsUserStep, CookieSettledStep, OneAccountPerEmailStep,
     NamesAreSpentStep, SubjectsKnownStep DEF IInv
<1>2. QED
  BY InitIInv, <1>1, PTL DEF Spec

\* The rows and the handlers' locals keep their types.
THEOREM TypeCorrect == Spec => []TypeOK
BY Invariance, PTL DEF IInv

\* However many sign-ins, uploads and erasures overlap, no session, identity or
\* book is ever left with a user who was merged or erased.
THEOREM NothingOutlives == Spec => []NothingOutlivesItsUser
BY Invariance, PTL DEF IInv

\* Every sign-in that reaches start_session has settled the guest its cookie
\* opened, whatever other requests did with the same cookie.
THEOREM CookiesSettle == Spec => []CookieSettled
BY Invariance, PTL DEF IInv

\* No two accounts share an email, without relying on the UNIQUE column.
THEOREM UniqueEmails == Spec => []OneAccountPerEmail
BY Invariance, PTL DEF IInv

\* An identity keeps opening the same account until the account is erased.
THEOREM IdentitiesStay == Spec => IdentityStable
<1>1. IInv /\ [Next]_vars =>
        [\A s \in Subs : identities[s] # NoUser =>
            identities'[s] = identities[s] \/ users'[identities[s]] = "erased"]_vars
  BY IdentityStep
<1>2. QED
  BY Invariance, <1>1, PTL DEF Spec, IdentityStable

\* Whatever overlaps, only a book's owner acting, or the erasure of its owner,
\* destroys it.
THEOREM OwnersDestroy == Spec => OnlyOwnersDestroy
<1>1. IInv /\ [Next]_vars =>
        [\A i \in Items : owner[i] # NoUser /\ owner'[i] = NoUser =>
            \/ users'[owner[i]] = "erased"
            \/ \E r \in Reqs : pc[r] = "authed" /\ subject[r] = owner[i]]_vars
  BY OwnersDestroyStep
<1>2. QED
  BY Invariance, <1>1, PTL DEF Spec, OnlyOwnersDestroy

\* Accounts implements Custody: for any number of users, books and overlapping
\* requests, a book changes hands only with the whole guest that held it.
THEOREM Refinement == Spec => ImplementsCustody
BY InitCustody, CustodyStep, Invariance, PTL DEF Spec, ImplementsCustody, C!CustodySpec
=============================================================================

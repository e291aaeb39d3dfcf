------------------------------- MODULE Custody -------------------------------
(***************************************************************************)
(* What flick promises about who holds a reader's books, with sessions,    *)
(* requests, cookies and crashes hidden.  A book enters the system in the  *)
(* library of a user who exists; it leaves by its owner's hand or with its *)
(* owner; and it changes hands only when a guest becomes part of an        *)
(* account that exists, all of the guest's books at once.                  *)
(* Accounts implements this specification.                                 *)
(***************************************************************************)

CONSTANTS Users, Items, NoUser

VARIABLES
    users,    \* what became of each user row
    owner,    \* the library each book is in, or NoUser
    stored    \* the books that were ever accepted

custody == <<users, owner, stored>>

Here == {"guest", "member"}

Present(u) == u \in Users /\ users[u] \in Here

CustodyInit ==
    /\ users = [u \in Users |-> "absent"]
    /\ owner = [i \in Items |-> NoUser]
    /\ stored = {}

Join(u, kind) ==
    /\ users[u] = "absent"
    /\ users' = [users EXCEPT ![u] = kind]
    /\ UNCHANGED <<owner, stored>>

Store(u, i) ==
    /\ Present(u)
    /\ i \notin stored
    /\ owner' = [owner EXCEPT ![i] = u]
    /\ stored' = stored \union {i}
    /\ UNCHANGED users

\* The owner destroys one book.
Drop(i) ==
    /\ owner[i] # NoUser
    /\ owner' = [owner EXCEPT ![i] = NoUser]
    /\ UNCHANGED <<users, stored>>

\* Guest g becomes part of account m, with every book it holds.
Adopt(g, m) ==
    /\ users[g] = "guest"
    /\ users[m] = "member"
    /\ users' = [users EXCEPT ![g] = "merged"]
    /\ owner' = [i \in Items |-> IF owner[i] = g THEN m ELSE owner[i]]
    /\ UNCHANGED stored

\* A guest that holds nothing may disappear without a successor.
Dissolve(g) ==
    /\ users[g] = "guest"
    /\ \A i \in Items : owner[i] # g
    /\ users' = [users EXCEPT ![g] = "merged"]
    /\ UNCHANGED <<owner, stored>>

Erase(u) ==
    /\ Present(u)
    /\ users' = [users EXCEPT ![u] = "erased"]
    /\ owner' = [i \in Items |-> IF owner[i] = u THEN NoUser ELSE owner[i]]
    /\ UNCHANGED stored

CustodyNext ==
    \/ \E u \in Users, kind \in Here : Join(u, kind)
    \/ \E u \in Users, i \in Items : Store(u, i)
    \/ \E i \in Items : Drop(i)
    \/ \E g, m \in Users : Adopt(g, m)
    \/ \E u \in Users : Dissolve(u) \/ Erase(u)

CustodySpec == CustodyInit /\ [][CustodyNext]_custody
=============================================================================

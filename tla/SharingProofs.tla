--------------------------- MODULE SharingProofs ----------------------------
(***************************************************************************)
(* Machine-checked proofs about Sharing for any sets of users and works    *)
(* and any number of books and links.                                      *)
(***************************************************************************)
EXTENDS Sharing, SequenceTheorems, TLAPS

Issue == [book : Ids, by : Users, mode : Modes]

\* A row with a link carries the token that was issued for it, in the mode last
\* asked for, is owned by who issued it or by the account that guest became,
\* and was not revoked.
LinksAreIssued ==
    \A i \in Ids : Exists(i) /\ book[i].token # NoToken =>
        /\ book[i].token \in DOMAIN minted
        /\ book[i].token \notin revoked
        /\ minted[book[i].token].book = i
        /\ minted[book[i].token].mode = book[i].mode
        /\ book[i].user \in {minted[book[i].token].by, user[minted[book[i].token].by]}

\* Ids are used in turn.
IdsInTurn == \A i \in Ids : Exists(i) => i <= added

IInv == TypeOK /\ LinksAreIssued /\ IdsInTurn

-----------------------------------------------------------------------------
(* The operators.                                                          *)

\* A row has its columns and an owner that is there.
LEMMA RowTyped ==
    ASSUME TypeOK, NEW i \in Ids, Exists(i)
    PROVE  book[i] \in Book /\ Here(book[i].user)
BY DEF TypeOK, Exists

\* What is remembered of a token has its parts.
LEMMA IssueTyped ==
    ASSUME TypeOK, NEW t \in DOMAIN minted
    PROVE  minted[t] \in Issue /\ minted[t].by \in Users
<1>1. minted \in Seq(Issue)
  BY DEF TypeOK, Issue
<1>2. minted[t] \in Issue
  BY <1>1
<1>3. QED
  BY <1>2 DEF Issue

\* Rows that are left when some go are the rows there were.
LEMMA WithoutTyped ==
    ASSUME TypeOK, NEW S
    PROVE  /\ Without(S) \in [Ids -> Book \union {NoBook}]
           /\ \A i \in Ids : i \notin S => Without(S)[i] = book[i]
           /\ \A i \in Ids : Without(S)[i] # NoBook => i \notin S
BY DEF TypeOK, Without

\* Steps that neither issue nor move links keep what is known of them: every
\* row there is keeps its owner, token and mode.
LEMMA LinksKept ==
    ASSUME IInv, UNCHANGED History,
           book' \in [Ids -> Book \union {NoBook}],
           user' \in [Users -> {"none", "here", "erased"} \union Members],
           added' \in 0..MaxBooks, added <= added',
           \A u \in Users : user[u] \in Members => user'[u] = user[u],
           \A i \in Ids : book'[i] # NoBook => user'[book'[i].user] = "here",
           \A i \in Ids : book'[i] # NoBook =>
               \/ /\ book[i] # NoBook /\ book'[i].user = book[i].user
                  /\ book'[i].token = book[i].token /\ book'[i].mode = book[i].mode
               \/ book'[i].token = NoToken /\ i <= added'
    PROVE  IInv'
<1>1. TypeOK /\ LinksAreIssued /\ IdsInTurn
  BY DEF IInv
<1>2. ASSUME NEW i \in Ids, book'[i] # NoBook, book'[i].token # NoToken
      PROVE  /\ book[i] # NoBook /\ book[i].token = book'[i].token
             /\ book'[i].token \in DOMAIN minted
             /\ book'[i].token \notin revoked
             /\ minted[book'[i].token].book = i
             /\ minted[book'[i].token].mode = book'[i].mode
             /\ book'[i].user \in {minted[book'[i].token].by, user'[minted[book'[i].token].by]}
  <2>1. /\ book[i] # NoBook /\ book'[i].user = book[i].user
        /\ book'[i].token = book[i].token /\ book'[i].mode = book[i].mode
    BY <1>2
  <2>2. minted[book[i].token].by \in Users
    BY <1>1, <2>1, <1>2, IssueTyped DEF LinksAreIssued, Exists
  <2>3. book[i].user \in Users /\ user[book[i].user] = "here"
    BY <1>1, <2>1, RowTyped DEF Exists, Here, Book
  <2>4. book[i].user \in {minted[book[i].token].by, user'[minted[book[i].token].by]}
    <3>1. CASE book[i].user = minted[book[i].token].by
      BY <3>1
    <3>2. CASE book[i].user = user[minted[book[i].token].by]
      <4>1. user[minted[book[i].token].by] \in Members
        BY <1>1, <2>2, <2>3, <3>2, SharingAssumption DEF TypeOK
      <4>2. QED
        BY <2>2, <3>2, <4>1
    <3>3. QED
      BY <1>1, <1>2, <2>1, <3>1, <3>2 DEF LinksAreIssued, Exists
  <2>5. QED
    BY <1>1, <1>2, <2>1, <2>4 DEF LinksAreIssued, Exists
<1>3. TypeOK'
  <2>1. ASSUME NEW i \in Ids, NEW j \in Ids, book'[i] # NoBook, book'[j] # NoBook,
               book'[i].token = book'[j].token, i # j
        PROVE  book'[i].token = NoToken
    BY <1>2, <2>1
  <2>2. /\ minted' \in Seq([book : Ids, by : Users, mode : Modes])
        /\ Len(minted') <= MaxTokens /\ revoked' \subseteq DOMAIN minted'
    BY <1>1 DEF TypeOK, History
  <2>3. QED
    BY <2>1, <2>2 DEF TypeOK, Exists, Here
<1>4. LinksAreIssued'
  BY <1>2 DEF LinksAreIssued, Exists, History
<1>5. IdsInTurn'
  <2>1. added \in Nat /\ added' \in Nat
    BY <1>1, SharingAssumption DEF TypeOK
  <2>2. QED
    BY <1>1, <2>1 DEF IdsInTurn, Exists, Ids
<1>6. QED
  BY <1>3, <1>4, <1>5 DEF IInv

\* The empty database is a state of the invariant.
LEMMA InitIInv == Init => IInv
<1> SUFFICES ASSUME Init PROVE IInv
  OBVIOUS
<1> USE SharingAssumption DEF Init
<1>1. TypeOK
  <2>1. minted \in Seq([book : Ids, by : Users, mode : Modes]) /\ Len(minted) = 0
    OBVIOUS
  <2>2. added \in 0..MaxBooks /\ Len(minted) <= MaxTokens
    BY <2>1
  <2>3. QED
    BY <2>1, <2>2 DEF TypeOK, Exists
<1>2. LinksAreIssued /\ IdsInTurn
  BY DEF LinksAreIssued, IdsInTurn, Exists
<1>3. QED
  BY <1>1, <1>2 DEF IInv

-----------------------------------------------------------------------------
(* The steps.                                                              *)

\* A new row has the next id.
LEMMA InsertEffect ==
    ASSUME IInv, NEW u \in Users, NEW source \in Sources, NEW text \in 0..MaxBooks,
           Insert(u, source, text)
    PROVE  /\ added' = added + 1 /\ added' \in Ids /\ book[added'] = NoBook
           /\ Here(u) /\ added' \in 0..MaxBooks
           /\ book' \in [Ids -> Book \union {NoBook}]
           /\ \A i \in Ids : i # added' => book'[i] = book[i]
           /\ book'[added'].user = u /\ book'[added'].token = NoToken
           /\ book'[added'].source = source /\ book'[added'].text = text
<1>1. added' = added + 1 /\ added' \in Ids /\ added' \in 0..MaxBooks
  BY SharingAssumption DEF IInv, TypeOK, Insert, Ids
<1>2. book[added'] = NoBook
  BY <1>1, SharingAssumption DEF IInv, TypeOK, IdsInTurn, Exists, Ids
<1> DEFINE new == [user |-> u, source |-> source, text |-> text, live |-> TRUE,
                   position |-> 0, token |-> NoToken, mode |-> "import"]
<1>3. new \in Book
  BY DEF Book, Modes
<1>4. book' = [book EXCEPT ![added'] = new]
  BY DEF Insert
<1>5. QED
  BY <1>1, <1>2, <1>3, <1>4 DEF IInv, TypeOK, Insert

\* A new row (insert_book) breaks no link.
LEMMA InsertStep ==
    ASSUME IInv, NEW u \in Users, NEW source \in Sources, NEW text \in 0..MaxBooks,
           Insert(u, source, text), UNCHANGED <<user, History>>
    PROVE  IInv'
<1>1. \A i \in Ids : book'[i] # NoBook => user'[book'[i].user] = "here"
  BY InsertEffect, RowTyped DEF IInv, Exists, Here
<1>2. \A i \in Ids : book'[i] # NoBook =>
         \/ /\ book[i] # NoBook /\ book'[i].user = book[i].user
            /\ book'[i].token = book[i].token /\ book'[i].mode = book[i].mode
         \/ book'[i].token = NoToken /\ i <= added'
  BY InsertEffect DEF Ids
<1>3. added <= added'
  BY InsertEffect, SharingAssumption DEF IInv, TypeOK
<1>4. QED
  BY <1>1, <1>2, <1>3, InsertEffect, LinksKept DEF IInv, TypeOK

\* An upload or a catalog add is an insert of a row that is no copy.
LEMMA AddInserts ==
    ASSUME IInv, NEW u \in Users, NEW s \in Sources, Add(u, s)
    PROVE  /\ s # "shared" /\ UNCHANGED <<user, History>>
           /\ Insert(u, s, IF s = "own" THEN added + 1 ELSE 0)
           /\ (IF s = "own" THEN added + 1 ELSE 0) \in 0..MaxBooks
<1>1. added \in 0..MaxBooks /\ added < MaxBooks
  BY DEF Add, Insert, IInv, TypeOK
<1>2. QED
  BY <1>1, SharingAssumption DEF Add

\* shared_import is an insert of a copy of a served, importable book.
LEMMA ImportInserts ==
    ASSUME IInv, NEW u \in Users, NEW t \in Tokens, Import(u, t)
    PROVE  /\ UNCHANGED <<user, History>>
           /\ \E i \in Serving(t) : /\ book[i].mode # "read" /\ book[i].text \in 0..MaxBooks
                                     /\ Insert(u, "shared", book[i].text)
<1>1. PICK i \in Serving(t) : book[i].mode # "read" /\ Insert(u, "shared", book[i].text)
  BY DEF Import
<1>2. book[i] \in Book
  BY <1>1, RowTyped DEF IInv, Serving
<1>3. QED
  BY <1>1, <1>2 DEF Import, Book

\* Reading and the trash bin: rows go, or keep their owner and link; what is
\* live stays, in the trash at worst.
LEMMA BinEffect ==
    ASSUME IInv, NEW u \in Users,
           \/ \E i \in Ids : Read(u, i) \/ Trash(u, i) \/ Restore(u, i)
           \/ \E S \in SUBSET Ids : Purge(u, S)
    PROVE  /\ UNCHANGED <<user, added, History>>
           /\ book' \in [Ids -> Book \union {NoBook}]
           /\ \A j \in Ids : book'[j] # NoBook =>
                 /\ book[j] # NoBook /\ book'[j].user = book[j].user
                 /\ book'[j].token = book[j].token /\ book'[j].mode = book[j].mode
           /\ \A j \in Ids : Exists(j) /\ book[j].live => book'[j] # NoBook
<1> DEFINE Good == /\ UNCHANGED <<user, added, History>>
                   /\ book' \in [Ids -> Book \union {NoBook}]
                   /\ \A j \in Ids : book'[j] # NoBook =>
                         /\ book[j] # NoBook /\ book'[j].user = book[j].user
                         /\ book'[j].token = book[j].token /\ book'[j].mode = book[j].mode
                   /\ \A j \in Ids : Exists(j) /\ book[j].live => book'[j] # NoBook
<1> USE SharingAssumption
<1>t. TypeOK
  BY DEF IInv
<1>1. ASSUME NEW i \in Ids, Read(u, i) PROVE Good
  <2>1. PICK p \in 0..1 : book' = [book EXCEPT ![i] = [book[i] EXCEPT !.position = p]]
    BY <1>1 DEF Read
  <2>2. book[i] # NoBook /\ book[i] \in Book
    BY <1>1, <1>t, RowTyped DEF Read, Open, Yours, Exists
  <2> DEFINE new == [book[i] EXCEPT !.position = p]
  <2>3. /\ new \in Book /\ new.user = book[i].user /\ new.token = book[i].token
        /\ new.mode = book[i].mode
    BY <2>2 DEF Book
  <2>4. QED
    BY <1>1, <1>t, <2>1, <2>2, <2>3 DEF Read, TypeOK, Exists
<1>2. ASSUME NEW i \in Ids, Trash(u, i) PROVE Good
  <2>1. PICK S \in SUBSET Trashed(u) :
           book' = [Without(S) EXCEPT ![i] = [Without(S)[i] EXCEPT !.live = FALSE]]
    BY <1>2 DEF Trash
  <2>2. book[i] # NoBook /\ book[i] \in Book /\ book[i].live
    BY <1>2, <1>t, RowTyped DEF Trash, Open, Yours, Exists
  <2>3. \A j \in S : ~book[j].live
    BY DEF Trashed
  <2>4. Without(S)[i] = book[i]
    BY <2>2, <2>3, <1>t, WithoutTyped
  <2> DEFINE new == [book[i] EXCEPT !.live = FALSE]
  <2>5. /\ new \in Book /\ new.user = book[i].user /\ new.token = book[i].token
        /\ new.mode = book[i].mode
    BY <2>2 DEF Book
  <2>6. book' = [Without(S) EXCEPT ![i] = new]
    BY <2>1, <2>4
  <2>7. Without(S) \in [Ids -> Book \union {NoBook}]
    BY <1>t, WithoutTyped
  <2>8. \A j \in Ids : j # i => book'[j] = IF j \in S THEN NoBook ELSE book[j]
    BY <2>6, <2>7 DEF Without
  <2>9. book'[i] = new
    BY <2>6, <2>7
  <2>10. QED
    BY <1>2, <2>2, <2>3, <2>5, <2>6, <2>7, <2>8, <2>9 DEF Trash, Exists
<1>3. ASSUME NEW i \in Ids, Restore(u, i) PROVE Good
  <2>1. book[i] # NoBook /\ book[i] \in Book
    BY <1>3, <1>t, RowTyped DEF Restore, Trashed, Yours, Exists
  <2> DEFINE new == [book[i] EXCEPT !.live = TRUE]
  <2>2. /\ new \in Book /\ new.user = book[i].user /\ new.token = book[i].token
        /\ new.mode = book[i].mode
    BY <2>1 DEF Book
  <2>3. book' = [book EXCEPT ![i] = new]
    BY <1>3 DEF Restore
  <2>4. QED
    BY <1>3, <1>t, <2>1, <2>2, <2>3 DEF Restore, TypeOK, Exists
<1>4. ASSUME NEW S \in SUBSET Ids, Purge(u, S) PROVE Good
  <2>1. \A j \in S : ~book[j].live
    BY <1>4 DEF Purge, Trashed
  <2>2. QED
    BY <1>4, <1>t, <2>1, WithoutTyped DEF Purge, Exists
<1>5. QED
  BY <1>1, <1>2, <1>3, <1>4

\* Where rows keep their owners and links, the invariant is kept.
LEMMA BinStep ==
    ASSUME IInv, UNCHANGED <<user, added, History>>,
           book' \in [Ids -> Book \union {NoBook}],
           \A j \in Ids : book'[j] # NoBook =>
               /\ book[j] # NoBook /\ book'[j].user = book[j].user
               /\ book'[j].token = book[j].token /\ book'[j].mode = book[j].mode
    PROVE  IInv'
<1>1. \A j \in Ids : book'[j] # NoBook => user'[book'[j].user] = "here"
  BY RowTyped DEF IInv, Exists, Here
<1>2. added <= added' /\ added' \in 0..MaxBooks
  BY SharingAssumption DEF IInv, TypeOK
<1>3. QED
  BY <1>1, <1>2, LinksKept DEF IInv, TypeOK

\* A link to share: the book's row, and what was minted for it.
Shared(u, i, m) ==
    /\ book[i] \in Book /\ book[i] # NoBook /\ book[i].user = u /\ Here(u)
    /\ TokenFor(i) \in Tokens /\ TokenFor(i) # NoToken
    /\ book' = [book EXCEPT ![i] = [book[i] EXCEPT !.token = TokenFor(i), !.mode = m]]
    /\ UNCHANGED <<user, added, revoked>>
    /\ minted' \in Seq(Issue) /\ Len(minted') <= MaxTokens
    /\ TokenFor(i) \in DOMAIN minted' /\ DOMAIN minted \subseteq DOMAIN minted'
    /\ minted'[TokenFor(i)].mode = m
    /\ minted'[TokenFor(i)].book = i
    /\ \/ minted'[TokenFor(i)].by = u
       \/ /\ TokenFor(i) = book[i].token /\ TokenFor(i) \in DOMAIN minted
          /\ minted'[TokenFor(i)].by = minted[TokenFor(i)].by
    /\ \A t \in DOMAIN minted : t # TokenFor(i) => minted'[t] = minted[t]
    /\ TokenFor(i) \notin revoked
    /\ \A j \in Ids : Exists(j) /\ j # i => book[j].token # TokenFor(i)
    /\ book[i].token # NoToken => TokenFor(i) = book[i].token

\* share_book has the effect Shared.
LEMMA ShareEffect ==
    ASSUME IInv, NEW u \in Users, NEW i \in Ids, NEW m \in Modes, Share(u, i, m)
    PROVE  Shared(u, i, m)
<1>t. TypeOK /\ LinksAreIssued
  BY DEF IInv
<1>1. /\ book[i] # NoBook /\ book[i] \in Book /\ book[i].user = u /\ Here(u)
      /\ TokenFor(i) \in Tokens
      /\ book' = [book EXCEPT ![i] = [book[i] EXCEPT !.token = TokenFor(i), !.mode = m]]
      /\ UNCHANGED <<user, added, revoked>>
  <2>1. Exists(i) /\ book[i].user = u
    BY DEF Share, Open, Yours
  <2>2. book' = [book EXCEPT ![i] = [book[i] EXCEPT !.token = TokenFor(i), !.mode = m]]
    BY DEF Share, Mode
  <2>3. QED
    BY <1>t, <2>1, <2>2, RowTyped DEF Share, Exists
<1>2. TokenFor(i) # NoToken
  BY <1>1 DEF Tokens, NoToken
<1>3. minted \in Seq(Issue) /\ Len(minted) \in Nat
  BY <1>t DEF TypeOK, Issue
<1>4. CASE book[i].token = NoToken
  <2>1. TokenFor(i) = Len(minted) + 1
    BY <1>4 DEF TokenFor, Fresh
  <2> DEFINE new == [book |-> i, by |-> u, mode |-> m]
  <2>2. minted' = Append(minted, new) /\ new \in Issue
    BY <1>4 DEF Share, Issue
  <2>3. /\ minted' \in Seq(Issue) /\ Len(minted') = Len(minted) + 1
        /\ minted'[Len(minted) + 1] = new
        /\ \A t \in 1..Len(minted) : minted'[t] = minted[t]
    BY <1>3, <2>2
  <2>4. DOMAIN minted = 1..Len(minted) /\ DOMAIN minted' = 1..(Len(minted) + 1)
    BY <1>3, <2>3
  <2>5. Len(minted') <= MaxTokens
    BY <1>1, <2>1, <2>3, SharingAssumption DEF Tokens
  <2>6. TokenFor(i) \notin DOMAIN minted
    BY <1>3, <2>1, <2>4
  <2>7. TokenFor(i) \notin revoked
    BY <1>t, <2>6 DEF TypeOK
  <2>8. \A j \in Ids : Exists(j) => book[j].token # TokenFor(i)
    BY <1>t, <1>2, <2>6 DEF LinksAreIssued
  <2>9. TokenFor(i) \in DOMAIN minted' /\ DOMAIN minted \subseteq DOMAIN minted'
    BY <1>3, <2>1, <2>4
  <2>10. minted'[TokenFor(i)].mode = m /\ minted'[TokenFor(i)].book = i
         /\ minted'[TokenFor(i)].by = u
    BY <2>1, <2>3
  <2>11. QED
    BY <1>1, <1>2, <1>4, <2>3, <2>4, <2>5, <2>7, <2>8, <2>9, <2>10 DEF Shared
<1>5. CASE book[i].token # NoToken
  <2>1. TokenFor(i) = book[i].token
    BY <1>5 DEF TokenFor
  <2>2. minted' = [minted EXCEPT ![TokenFor(i)] = [minted[TokenFor(i)] EXCEPT !.mode = m]]
    BY <1>5, <2>1 DEF Share
  <2>3. TokenFor(i) \in DOMAIN minted /\ TokenFor(i) \notin revoked
        /\ minted[TokenFor(i)].book = i
    BY <1>1, <1>5, <1>t, <2>1 DEF LinksAreIssued, Exists
  <2>4. minted[TokenFor(i)] \in Issue
    BY <1>t, <2>3, IssueTyped
  <2> DEFINE new == [minted[TokenFor(i)] EXCEPT !.mode = m]
  <2>5. /\ new \in Issue /\ new.mode = m /\ new.book = i
        /\ new.by = minted[TokenFor(i)].by
    BY <2>3, <2>4 DEF Issue
  <2>6. minted' \in Seq(Issue) /\ Len(minted') = Len(minted)
    <3>1. TokenFor(i) \in 1..Len(minted)
      BY <1>3, <2>3
    <3>2. QED
      BY <1>3, <2>2, <2>5, <3>1, ExceptSeq
  <2>7. DOMAIN minted' = DOMAIN minted /\ minted'[TokenFor(i)] = new
        /\ \A t \in DOMAIN minted : t # TokenFor(i) => minted'[t] = minted[t]
    BY <1>3, <2>2, <2>3
  <2>8. \A j \in Ids : Exists(j) /\ j # i => book[j].token # TokenFor(i)
    BY <1>1, <1>2, <1>t, <2>1 DEF TypeOK, Exists
  <2>9. Len(minted') <= MaxTokens
    BY <1>t, <2>6 DEF TypeOK
  <2>10. QED
    BY <1>1, <1>2, <2>1, <2>3, <2>5, <2>6, <2>7, <2>8, <2>9 DEF Shared
<1>6. QED
  BY <1>4, <1>5

\* share_book keeps the invariant.
LEMMA ShareStep ==
    ASSUME IInv, NEW u \in Users, NEW i \in Ids, NEW m \in Modes, Share(u, i, m)
    PROVE  IInv'
<1>t. TypeOK /\ LinksAreIssued /\ IdsInTurn
  BY DEF IInv
<1>0. Shared(u, i, m)
  BY ShareEffect
<1>a. /\ book[i] \in Book /\ book[i] # NoBook /\ book[i].user = u /\ Here(u)
      /\ TokenFor(i) \in Tokens /\ TokenFor(i) # NoToken
  BY <1>0 DEF Shared
<1>b. book' = [book EXCEPT ![i] = [book[i] EXCEPT !.token = TokenFor(i), !.mode = m]]
  BY <1>0 DEF Shared
<1>c. UNCHANGED <<user, added, revoked>> /\ TokenFor(i) \notin revoked
  BY <1>0 DEF Shared
<1>d. /\ minted' \in Seq(Issue) /\ Len(minted') <= MaxTokens
      /\ TokenFor(i) \in DOMAIN minted' /\ DOMAIN minted \subseteq DOMAIN minted'
      /\ minted'[TokenFor(i)].mode = m /\ minted'[TokenFor(i)].book = i
  BY <1>0 DEF Shared
<1>e. \A s \in DOMAIN minted : s # TokenFor(i) => minted'[s] = minted[s]
  BY <1>0 DEF Shared
<1>f. \/ minted'[TokenFor(i)].by = u
      \/ /\ TokenFor(i) = book[i].token /\ TokenFor(i) \in DOMAIN minted
         /\ minted'[TokenFor(i)].by = minted[TokenFor(i)].by
  BY <1>0 DEF Shared
<1>g. \A j \in Ids : Exists(j) /\ j # i => book[j].token # TokenFor(i)
  BY <1>0 DEF Shared
<1> DEFINE t == TokenFor(i)
           new == [book[i] EXCEPT !.token = t, !.mode = m]
<1>1. /\ new \in Book /\ new.user = u /\ new.token = t /\ new.mode = m
  BY <1>a DEF Book
<1>2. /\ book' \in [Ids -> Book \union {NoBook}] /\ book'[i] = new
      /\ \A j \in Ids : j # i => book'[j] = book[j]
  BY <1>1, <1>b, <1>t DEF TypeOK
<1>3. new # NoBook
  BY <1>1, SharingAssumption
<1>4. \A j \in Ids : j # i /\ book[j] # NoBook => book[j].token # t
  BY <1>g DEF Exists
<1>5. TypeOK'
  <2>1. \A j \in Ids : book'[j] # NoBook => user'[book'[j].user] = "here"
    BY <1>1, <1>2, <1>a, <1>c, <1>t DEF TypeOK, Exists, Here
  <2>2. \A j, k \in Ids : book'[j] # NoBook /\ book'[k] # NoBook
                         /\ book'[j].token = book'[k].token /\ j # k => book'[j].token = NoToken
    <3> SUFFICES ASSUME NEW j \in Ids, NEW k \in Ids, book'[j] # NoBook, book'[k] # NoBook,
                        book'[j].token = book'[k].token, j # k
                 PROVE  book'[j].token = NoToken
      OBVIOUS
    <3>1. j # i /\ k # i
      BY <1>1, <1>2, <1>4
    <3>2. book'[j] = book[j] /\ book'[k] = book[k]
      BY <1>2, <3>1
    <3>3. QED
      BY <3>2, <1>t DEF TypeOK, Exists
  <2>3. revoked' \subseteq DOMAIN minted'
    BY <1>c, <1>d, <1>t DEF TypeOK
  <2>4. minted' \in Seq([book : Ids, by : Users, mode : Modes]) /\ Len(minted') <= MaxTokens
    BY <1>d DEF Issue
  <2>5. UNCHANGED <<user, added>>
    BY <1>c
  <2>6. QED
    BY <1>2, <1>t, <2>1, <2>2, <2>3, <2>4, <2>5 DEF TypeOK, Exists, Here
<1>6. LinksAreIssued'
  <2>1. ASSUME NEW j \in Ids, book'[j] # NoBook, book'[j].token # NoToken
        PROVE  /\ book'[j].token \in DOMAIN minted'
               /\ book'[j].token \notin revoked'
               /\ minted'[book'[j].token].book = j
               /\ minted'[book'[j].token].mode = book'[j].mode
               /\ book'[j].user \in {minted'[book'[j].token].by,
                                    user'[minted'[book'[j].token].by]}
    <3>1. CASE j = i
      <4>1. minted'[t].by = u \/ (book[i].token = t /\ minted'[t].by = minted[t].by)
        BY <1>f
      <4>2. book[i].token = t => u \in {minted[t].by, user[minted[t].by]}
        BY <1>a, <1>t DEF LinksAreIssued, Exists
      <4>3. u \in {minted'[t].by, user'[minted'[t].by]}
        BY <1>c, <4>1, <4>2
      <4>4. /\ t \in DOMAIN minted' /\ t \notin revoked' /\ minted'[t].book = i
            /\ minted'[t].mode = m
        BY <1>c, <1>d
      <4>5. QED
        BY <1>1, <1>2, <3>1, <4>3, <4>4
    <3>2. CASE j # i
      <4>1. book'[j] = book[j] /\ book[j].token # t /\ book[j].token \in DOMAIN minted
        BY <1>2, <1>4, <1>t, <2>1, <3>2 DEF LinksAreIssued, Exists
      <4>2. minted'[book[j].token] = minted[book[j].token]
            /\ book[j].token \in DOMAIN minted'
        BY <1>d, <1>e, <4>1
      <4>3. UNCHANGED <<user, revoked>>
        BY <1>c
      <4>4. QED
        BY <1>t, <2>1, <4>1, <4>2, <4>3 DEF LinksAreIssued, Exists
    <3>3. QED
      BY <3>1, <3>2
  <2>2. QED
    BY <2>1 DEF LinksAreIssued, Exists
<1>7. IdsInTurn'
  BY <1>2, <1>a, <1>c, <1>t DEF IdsInTurn, Exists
<1>8. QED
  BY <1>5, <1>6, <1>7 DEF IInv

\* unshare_book keeps the invariant and records the token it took off the row.
LEMMA UnshareStep ==
    ASSUME IInv, NEW u \in Users, NEW i \in Ids, Unshare(u, i)
    PROVE  /\ IInv' /\ UNCHANGED <<user, added, minted>>
           /\ book'[i] # NoBook /\ book[i].token \in revoked'
           /\ \A j \in Ids : j # i => book'[j] = book[j]
<1> DEFINE new == [book[i] EXCEPT !.token = NoToken]
<1>t. TypeOK /\ LinksAreIssued /\ IdsInTurn
  BY DEF IInv
<1>1. /\ book[i] # NoBook /\ book[i] \in Book /\ book[i].token # NoToken
      /\ Here(book[i].user)
  BY <1>t, RowTyped DEF Unshare, Yours, Exists
<1>2. new \in Book /\ new.user = book[i].user /\ new.token = NoToken
  BY <1>1 DEF Book
<1>3. /\ book' \in [Ids -> Book \union {NoBook}] /\ book'[i] = new
      /\ \A j \in Ids : j # i => book'[j] = book[j]
      /\ revoked' = revoked \union {book[i].token} /\ UNCHANGED <<user, added, minted>>
  BY <1>2, <1>t DEF Unshare, TypeOK
<1>4. new # NoBook
  BY <1>2, SharingAssumption
<1>5. TypeOK'
  <2>1. revoked' \subseteq DOMAIN minted'
    BY <1>1, <1>3, <1>t DEF TypeOK, LinksAreIssued, Exists
  <2>2. \A j \in Ids : book'[j] # NoBook => user'[book'[j].user] = "here"
    <3>1. user[book[i].user] = "here"
      BY <1>1 DEF Here
    <3>2. \A j \in Ids : book[j] # NoBook => user[book[j].user] = "here"
      BY <1>t DEF TypeOK, Exists, Here
    <3>3. QED
      BY <3>1, <3>2, <1>2, <1>3
  <2>3. \A j, k \in Ids : book'[j] # NoBook /\ book'[k] # NoBook
                         /\ book'[j].token = book'[k].token /\ j # k => book'[j].token = NoToken
    <3> SUFFICES ASSUME NEW j \in Ids, NEW k \in Ids, book'[j] # NoBook, book'[k] # NoBook,
                        book'[j].token = book'[k].token, j # k
                 PROVE  book'[j].token = NoToken
      OBVIOUS
    <3>1. CASE j = i \/ k = i
      BY <3>1, <1>2, <1>3
    <3>2. CASE j # i /\ k # i
      <4>1. book'[j] = book[j] /\ book'[k] = book[k]
        BY <1>3, <3>2
      <4>2. QED
        BY <4>1, <1>t DEF TypeOK, Exists
    <3>3. QED
      BY <3>1, <3>2
  <2>4. /\ user' \in [Users -> {"none", "here", "erased"} \union Members]
        /\ added' \in 0..MaxBooks
        /\ minted' \in Seq([book : Ids, by : Users, mode : Modes]) /\ Len(minted') <= MaxTokens
    BY <1>3, <1>t DEF TypeOK
  <2>5. QED
    BY <1>3, <2>1, <2>2, <2>3, <2>4 DEF TypeOK, Exists, Here
<1>6. LinksAreIssued'
  <2>1. \A j \in Ids : j # i /\ book[j] # NoBook /\ book[j].token # NoToken
                       => book[j].token # book[i].token
    BY <1>1, <1>t DEF TypeOK, Exists
  <2>2. ASSUME NEW j \in Ids, book'[j] # NoBook, book'[j].token # NoToken
        PROVE  j # i /\ book'[j] = book[j] /\ book[j].token \notin revoked'
    BY <1>2, <1>3, <1>t, <2>1, <2>2 DEF LinksAreIssued, Exists
  <2>3. QED
    BY <1>3, <1>t, <2>2 DEF LinksAreIssued, Exists
<1>7. IdsInTurn'
  BY <1>1, <1>3, <1>t DEF IdsInTurn, Exists
<1>8. QED
  BY <1>3, <1>4, <1>5, <1>6, <1>7 DEF IInv

\* Where the rows of a guest go when it becomes part of an account.
LEMMA MergeEffect ==
    ASSUME IInv, NEW g \in Guests, NEW m \in Members, Merge(g, m)
    PROVE  /\ user' = [user EXCEPT ![g] = m] /\ UNCHANGED <<added, History>>
           /\ g # m /\ user[g] = "here" /\ user[m] = "here"
           /\ book' \in [Ids -> Book \union {NoBook}]
           /\ \A i \in Ids : book'[i] # NoBook =>
                 /\ book[i] # NoBook /\ book'[i].source = book[i].source
                 /\ book'[i].token = book[i].token /\ book'[i].mode = book[i].mode
                 /\ book'[i].live = book[i].live
                 /\ book'[i].user = IF book[i].user = g THEN m ELSE book[i].user
           /\ \A i \in Ids : book[i] # NoBook /\ book'[i] = NoBook =>
                 i \in Intros(g, m) \union Outread(g, m) \union Doubles(g, m)
           /\ \A i \in Ids : i \notin Intros(g, m) \union Outread(g, m) \union Doubles(g, m)
                              /\ book[i] # NoBook => book'[i] # NoBook
<1>t. TypeOK
  BY DEF IInv
<1>1. \A i \in Ids : i \in Shelf(g) <=> book[i] # NoBook /\ book[i].user = g
  BY DEF Shelf, Yours, Exists
<1>2. \A i \in Shelf(g) : /\ Moved(i, m) \in Book /\ Moved(i, m).user = m
                          /\ Moved(i, m).source = book[i].source
                          /\ Moved(i, m).token = book[i].token
                          /\ Moved(i, m).mode = book[i].mode /\ Moved(i, m).live = book[i].live
  <2>1. ASSUME NEW i \in Shelf(g) PROVE book[i] \in Book
    BY <1>1, <1>t, RowTyped DEF Shelf, Exists
  <2>2. QED
    BY <2>1 DEF Moved, Book, Users
<1>3. /\ user' = [user EXCEPT ![g] = m] /\ UNCHANGED <<added, History>>
      /\ g # m /\ user[g] = "here" /\ user[m] = "here"
  BY SharingAssumption DEF Merge, Here
<1>4. \A i \in Ids : book'[i] = IF i \in Intros(g, m) \union Outread(g, m) \union Doubles(g, m)
                                THEN NoBook ELSE IF i \in Shelf(g) THEN Moved(i, m) ELSE book[i]
  BY DEF Merge
<1>5. book' \in [Ids -> Book \union {NoBook}]
  BY <1>2, <1>t DEF Merge, TypeOK
<1>6. \A i \in Shelf(g) : Moved(i, m) # NoBook
  BY <1>2, SharingAssumption
<1>7. QED
  BY <1>1, <1>2, <1>3, <1>4, <1>5, <1>6

\* merge_guest_into keeps the invariant: links move with their rows and owners.
LEMMA MergeStep ==
    ASSUME IInv, NEW g \in Guests, NEW m \in Members, Merge(g, m)
    PROVE  IInv'
<1>t. TypeOK /\ LinksAreIssued /\ IdsInTurn
  BY DEF IInv
<1>1. /\ user' \in [Users -> {"none", "here", "erased"} \union Members]
      /\ \A u \in Users : u # g => user'[u] = user[u]
      /\ user'[g] = m
  BY <1>t, MergeEffect DEF TypeOK, Users
<1>2. ASSUME NEW i \in Ids, book'[i] # NoBook
      PROVE  user'[book'[i].user] = "here"
  <2>1. book[i] # NoBook /\ book'[i].user = IF book[i].user = g THEN m ELSE book[i].user
    BY <1>2, MergeEffect
  <2>2. book[i].user \in Users /\ user[book[i].user] = "here"
    BY <1>t, <2>1, RowTyped DEF Exists, Here, Book
  <2>3. QED
    BY <1>1, <2>1, <2>2, MergeEffect DEF Users
<1>3. TypeOK'
  <2>1. \A i, j \in Ids : book'[i] # NoBook /\ book'[j] # NoBook
                         /\ book'[i].token = book'[j].token /\ i # j => book'[i].token = NoToken
    BY <1>t, MergeEffect DEF TypeOK, Exists
  <2>2. QED
    BY <1>1, <1>2, <1>t, <2>1, MergeEffect DEF TypeOK, Exists, Here, History
<1>4. ASSUME NEW i \in Ids, book'[i] # NoBook, book'[i].token # NoToken
      PROVE  book'[i].user \in {minted[book[i].token].by, user'[minted[book[i].token].by]}
  <2> DEFINE by == minted[book[i].token].by
  <2>1. book[i] # NoBook /\ book[i].token # NoToken
        /\ book'[i].user = IF book[i].user = g THEN m ELSE book[i].user
    BY <1>4, MergeEffect
  <2>2. by \in Users /\ book[i].user \in {by, user[by]}
    BY <1>t, <2>1, IssueTyped DEF LinksAreIssued, Exists
  <2>3. CASE by = g
    <3>1. user[by] # book[i].user
      <4>1. user[by] = "here"
        BY <2>3, MergeEffect
      <4>2. book[i].user \in Users
        BY <1>t, <2>1, RowTyped DEF Exists, Book
      <4>3. QED
        BY <4>1, <4>2, SharingAssumption
    <3>2. book[i].user = g
      BY <2>2, <2>3, <3>1
    <3>3. book'[i].user = m
      BY <2>1, <3>2
    <3>4. user'[by] = m
      <4>1. user'[g] = m
        BY <1>1
      <4>2. QED
        BY <2>3, <4>1
    <3>5. QED
      BY <3>3, <3>4
  <2>4. CASE by # g
    <3>1. user'[by] = user[by]
      BY <1>1, <2>2, <2>4
    <3>2. book[i].user # g
      <4>1. user[by] # g
        BY <1>t, <2>2, SharingAssumption DEF TypeOK, Users
      <4>2. QED
        BY <2>2, <2>4, <4>1
    <3>3. QED
      BY <2>1, <2>2, <3>1, <3>2
  <2>5. QED
    BY <2>3, <2>4
<1>5. LinksAreIssued'
  BY <1>4, <1>t, MergeEffect DEF LinksAreIssued, Exists, History
<1>6. IdsInTurn'
  BY <1>t, MergeEffect DEF IdsInTurn, Exists
<1>7. QED
  BY <1>3, <1>5, <1>6 DEF IInv

\* delete_user keeps the invariant.
LEMMA EraseStep ==
    ASSUME IInv, NEW u \in Users, Erase(u)
    PROVE  IInv'
<1>t. TypeOK
  BY DEF IInv
<1>1. /\ user[u] = "here" /\ user' = [user EXCEPT ![u] = "erased"]
      /\ UNCHANGED <<added, History>>
  BY DEF Erase, Here
<1>2. /\ book' \in [Ids -> Book \union {NoBook}]
      /\ \A i \in Ids : book'[i] # NoBook => book'[i] = book[i] /\ book[i].user # u
  BY <1>t, WithoutTyped DEF Erase, Shelf, Yours, Exists
<1>3. \A i \in Ids : book'[i] # NoBook => user'[book'[i].user] = "here"
  BY <1>1, <1>2, <1>t, RowTyped DEF TypeOK, Exists, Here, Book
<1>4. \A v \in Users : user[v] \in Members => user'[v] = user[v]
  BY <1>1, <1>t, SharingAssumption DEF TypeOK, Users
<1>5. added <= added' /\ added' \in 0..MaxBooks
  BY <1>1, <1>t, SharingAssumption DEF TypeOK
<1>6. user' \in [Users -> {"none", "here", "erased"} \union Members]
  BY <1>1, <1>t DEF TypeOK
<1>7. QED
  BY <1>1, <1>2, <1>3, <1>4, <1>5, <1>6, LinksKept

\* A new user keeps the invariant.
LEMMA ComeStep ==
    ASSUME IInv, NEW u \in Users, Come(u)
    PROVE  IInv'
<1>t. TypeOK
  BY DEF IInv
<1>1. /\ user[u] = "none" /\ user' = [user EXCEPT ![u] = "here"]
      /\ UNCHANGED <<book, added, History>>
  BY DEF Come
<1>2. \A i \in Ids : book'[i] # NoBook => user'[book'[i].user] = "here"
  BY <1>1, <1>t, RowTyped DEF TypeOK, Exists, Here, Book
<1>3. \A v \in Users : user[v] \in Members => user'[v] = user[v]
  BY <1>1, <1>t, SharingAssumption DEF TypeOK, Users
<1>4. added <= added' /\ added' \in 0..MaxBooks
  BY <1>1, <1>t, SharingAssumption DEF TypeOK
<1>5. user' \in [Users -> {"none", "here", "erased"} \union Members]
  BY <1>1, <1>t DEF TypeOK
<1>6. book' \in [Ids -> Book \union {NoBook}]
  BY <1>1, <1>t DEF TypeOK
<1>7. QED
  BY <1>1, <1>2, <1>3, <1>4, <1>5, <1>6, LinksKept

\* Every state of every behaviour has its links issued, its ids in turn and its
\* rows typed: one step for each action of Next.
THEOREM Invariance == Spec => []IInv
<1>1. Init => IInv
  BY InitIInv
<1>2. IInv /\ [Next]_vars => IInv'
  <2> SUFFICES ASSUME IInv, [Next]_vars PROVE IInv'
    OBVIOUS
  <2>1. ASSUME NEW u \in Users, Come(u) PROVE IInv'
    BY <2>1, ComeStep
  <2>2. ASSUME NEW u \in Users, Erase(u) PROVE IInv'
    BY <2>2, EraseStep
  <2>3. ASSUME NEW u \in Users, NEW s \in Sources, Add(u, s) PROVE IInv'
    BY <2>3, AddInserts, InsertStep
  <2>4. ASSUME NEW u \in Users, \/ \E i \in Ids : Read(u, i) \/ Trash(u, i) \/ Restore(u, i)
                                \/ \E S \in SUBSET Ids : Purge(u, S)
        PROVE  IInv'
    BY <2>4, BinEffect, BinStep
  <2>5. ASSUME NEW u \in Users, NEW i \in Ids, Unshare(u, i) PROVE IInv'
    BY <2>5, UnshareStep
  <2>6. ASSUME NEW u \in Users, NEW i \in Ids, NEW m \in Modes, Share(u, i, m) PROVE IInv'
    BY <2>6, ShareStep
  <2>7. ASSUME NEW u \in Users, NEW t \in Tokens, Import(u, t) PROVE IInv'
    <3>1. /\ UNCHANGED <<user, History>>
          /\ \E i \in Serving(t) : /\ book[i].mode # "read" /\ book[i].text \in 0..MaxBooks
                                   /\ Insert(u, "shared", book[i].text)
      BY <2>7, ImportInserts
    <3>2. PICK i \in Serving(t) : /\ book[i].text \in 0..MaxBooks
                                  /\ Insert(u, "shared", book[i].text)
      BY <3>1
    <3>3. "shared" \in Sources
      BY DEF Sources
    <3>4. QED
      BY <3>1, <3>2, <3>3, InsertStep
  <2>8. ASSUME NEW g \in Guests, NEW m \in Members, Merge(g, m) PROVE IInv'
    BY <2>8, MergeStep
  <2>9. CASE UNCHANGED vars
    BY <2>9, BinStep DEF vars, History, IInv, TypeOK
  <2>10. QED
    BY <2>1, <2>2, <2>3, <2>4, <2>5, <2>6, <2>7, <2>8, <2>9 DEF Next
<1>3. QED
  BY <1>1, <1>2, PTL DEF Spec

-----------------------------------------------------------------------------
(* The properties.                                                         *)

\* TypeOK: rows have their columns' types and users that exist (ON DELETE
\* CASCADE), and a token is on one row at most (the index books_share).
THEOREM TypeCorrect == Spec => []TypeOK
BY Invariance, PTL DEF IInv

\* A served book is the one the token was issued for, in the mode last asked for.
LEMMA Served ==
    ASSUME IInv, NEW t \in Tokens, NEW i \in Serving(t)
    PROVE  /\ i \in Ids /\ book[i] # NoBook /\ book[i].token = t /\ book[i].live
           /\ t # NoToken /\ t \in DOMAIN minted /\ t \notin revoked
           /\ minted[t].book = i /\ minted[t].mode = book[i].mode
           /\ book[i].user \in {minted[t].by, user[minted[t].by]}
<1>1. i \in Ids /\ book[i] # NoBook /\ book[i].token = t /\ book[i].live
  BY DEF Serving, Exists
<1>2. t # NoToken
  BY DEF Tokens, NoToken
<1>3. QED
  BY <1>1, <1>2 DEF IInv, LinksAreIssued, Exists

\* LinksServeTheirBook: share_book's token leads to the book it was made for,
\* of the user that made it or the account that user became, whatever becomes
\* of book and user.
THEOREM LinksServe == Spec => []LinksServeTheirBook
<1>1. IInv => LinksServeTheirBook
  <2> SUFFICES ASSUME IInv, NEW t \in Tokens, Serving(t) # {}
               PROVE  /\ t \in DOMAIN minted /\ Serving(t) = {minted[t].book}
                      /\ book[minted[t].book].user \in {minted[t].by, user[minted[t].by]}
    BY DEF LinksServeTheirBook
  <2>1. PICK i : i \in Serving(t)
    OBVIOUS
  <2>2. \A j \in Serving(t) : j = minted[t].book
    BY Served
  <2>3. QED
    BY <2>1, <2>2, Served
<1>2. QED
  BY <1>1, Invariance, PTL

\* RevokedStaysRevoked: after unshare_book's 204 no restore, merge or new share
\* brings the link back.
THEOREM RevokedStays == Spec => []RevokedStaysRevoked
<1>1. IInv => RevokedStaysRevoked
  <2> SUFFICES ASSUME IInv, NEW t \in revoked, Serving(t) # {} PROVE FALSE
    BY DEF RevokedStaysRevoked
  <2>1. t \in Tokens
    <3>1. t \in DOMAIN minted /\ Len(minted) \in Nat /\ Len(minted) <= MaxTokens
          /\ DOMAIN minted = 1..Len(minted)
      BY DEF IInv, TypeOK
    <3>2. QED
      BY <3>1, SharingAssumption DEF Tokens
  <2>2. PICK i : i \in Serving(t)
    OBVIOUS
  <2>3. QED
    BY <2>1, <2>2, Served
<1>2. QED
  BY <1>1, Invariance, PTL

\* ReadOnlyIsNotCopied: shared_import copies nothing from a link whose owner
\* last asked for reading only.
THEOREM ReadOnlyStays == Spec => ReadOnlyIsNotCopied
<1> DEFINE Allowed(i) == \/ book'[i].source # "shared"
                         \/ \E t \in Tokens : \E j \in Serving(t) :
                               minted[t].mode = "import" /\ book[j].text = book'[i].text
           NoCopy == \A i \in Ids : ~Exists(i) /\ book'[i] # NoBook => Allowed(i)
<1>1. IInv /\ [Next]_vars => [NoCopy]_vars
  <2> SUFFICES ASSUME IInv, Next PROVE NoCopy
    OBVIOUS
  <2> SUFFICES ASSUME NEW i \in Ids, book[i] = NoBook, book'[i] # NoBook PROVE Allowed(i)
    BY DEF Exists
  <2>1. ASSUME NEW u \in Users, Come(u) PROVE FALSE
    BY <2>1 DEF Come
  <2>2. ASSUME NEW u \in Users, Erase(u) PROVE FALSE
    BY <2>2 DEF Erase, Without
  <2>3. ASSUME NEW u \in Users, NEW s \in Sources, Add(u, s) PROVE Allowed(i)
    <3>1. s # "shared" /\ Insert(u, s, IF s = "own" THEN added + 1 ELSE 0)
          /\ (IF s = "own" THEN added + 1 ELSE 0) \in 0..MaxBooks
      BY <2>3, AddInserts
    <3>2. book'[i].source = s
      BY <3>1, InsertEffect
    <3>3. QED
      BY <3>1, <3>2
  <2>4. ASSUME NEW u \in Users, \/ \E k \in Ids : Read(u, k) \/ Trash(u, k) \/ Restore(u, k)
                                \/ \E S \in SUBSET Ids : Purge(u, S)
        PROVE  FALSE
    BY <2>4, BinEffect
  <2>5. ASSUME NEW u \in Users, NEW k \in Ids, Unshare(u, k) PROVE FALSE
    BY <2>5, UnshareStep DEF Unshare, Yours, Exists
  <2>6. ASSUME NEW u \in Users, NEW k \in Ids, NEW m \in Modes, Share(u, k, m) PROVE FALSE
    <3>1. Shared(u, k, m)
      BY <2>6, ShareEffect
    <3>2. book[k] # NoBook
          /\ book' = [book EXCEPT ![k] = [book[k] EXCEPT !.token = TokenFor(k), !.mode = m]]
      BY <3>1 DEF Shared
    <3>3. QED
      BY <3>2 DEF IInv, TypeOK
  <2>7. ASSUME NEW u \in Users, NEW t \in Tokens, Import(u, t) PROVE Allowed(i)
    <3>1. PICK j \in Serving(t) : /\ book[j].mode # "read" /\ book[j].text \in 0..MaxBooks
                                  /\ Insert(u, "shared", book[j].text)
      BY <2>7, ImportInserts
    <3>2. book'[i].text = book[j].text
      <4>1. "shared" \in Sources
        BY DEF Sources
      <4>2. QED
        BY <3>1, <4>1, InsertEffect
    <3>3. minted[t].mode = "import"
      <4>1. minted[t].mode = book[j].mode /\ j \in Ids /\ book[j] # NoBook
        BY Served
      <4>2. book[j].mode \in {"import", "read"}
        BY <4>1, RowTyped DEF IInv, Exists, Book, Modes
      <4>3. QED
        BY <3>1, <4>1, <4>2
    <3>4. QED
      BY <3>2, <3>3
  <2>8. ASSUME NEW g \in Guests, NEW m \in Members, Merge(g, m) PROVE FALSE
    BY <2>8, MergeEffect
  <2>9. QED
    BY <2>1, <2>2, <2>3, <2>4, <2>5, <2>6, <2>7, <2>8 DEF Next
<1>2. QED
  BY <1>1, Invariance, PTL DEF Spec, ReadOnlyIsNotCopied

\* What a merge drops has a double of the starter library that stays.
LEMMA DoublesStay ==
    ASSUME IInv, NEW g \in Guests, NEW m \in Members, Merge(g, m),
           NEW i \in Ids, book[i] # NoBook, book'[i] = NoBook
    PROVE  /\ book[i].source \in Works \union {"intro"}
           /\ \E j \in Ids : book'[j] # NoBook /\ book'[j].source = book[i].source
<1> DEFINE Dropped == Intros(g, m) \union Outread(g, m) \union Doubles(g, m)
<1>1. \A j \in Ids : j \notin Dropped /\ book[j] # NoBook
                     => book'[j] # NoBook /\ book'[j].source = book[j].source
  BY MergeEffect
<1>2. i \in Dropped
  BY MergeEffect
<1>3. /\ \A j \in Shelf(g) : j \in Ids /\ book[j] # NoBook /\ book[j].user = g
      /\ \A j \in Shelf(m) : j \in Ids /\ book[j] # NoBook /\ book[j].user = m
      /\ g # m
  BY MergeEffect DEF Shelf, Yours, Exists
<1>4. "intro" \notin Works
  BY SharingAssumption
\* A copy of the account's that is not read further by the guest stays.
<1>5. ASSUME NEW j \in Shelf(m) \ Outread(g, m) PROVE j \notin Dropped
  BY <1>3, <1>5 DEF Intros, Doubles
<1>6. CASE i \in Intros(g, m)
  <2>1. PICK j \in Shelf(m) : book[j].source = "intro" /\ book[i].source = "intro"
    BY <1>6 DEF Intros
  <2>2. j \notin Outread(g, m)
    BY <1>4, <2>1 DEF Outread, SameWork
  <2>3. QED
    BY <1>1, <1>3, <1>5, <2>1, <2>2
<1>7. CASE i \in Doubles(g, m)
  <2>1. PICK j \in Shelf(m) \ Outread(g, m) : SameWork(i, j)
    BY <1>7 DEF Doubles
  <2>2. QED
    BY <1>1, <1>3, <1>5, <2>1 DEF SameWork
<1>8. CASE i \in Outread(g, m)
  <2>1. PICK k \in Shelf(g) : SameWork(k, i)
    BY <1>8 DEF Outread
  <2>2. book[i].source \in Works /\ book[k].source = book[i].source
    BY <2>1 DEF SameWork
  <2>3. CASE k \in Doubles(g, m)
    <3>1. PICK j \in Shelf(m) \ Outread(g, m) : SameWork(k, j)
      BY <2>3 DEF Doubles
    <3>2. QED
      BY <1>1, <1>3, <1>5, <2>2, <3>1 DEF SameWork
  <2>4. CASE k \notin Doubles(g, m)
    <3>1. k \notin Intros(g, m)
      BY <1>4, <2>2 DEF Intros
    <3>2. k \notin Outread(g, m)
      BY <1>3 DEF Outread
    <3>3. QED
      BY <1>1, <1>3, <2>2, <2>4, <3>1, <3>2
  <2>5. QED
    BY <2>3, <2>4
<1>9. QED
  BY <1>2, <1>6, <1>7, <1>8

\* LinksEndByTheOwner: of all handlers only unshare_book, delete_book, the
\* erasure of the owner and the merge, for doubles of the starter library, end
\* a link.
THEOREM LinksEnd == Spec => LinksEndByTheOwner
<1> DEFINE Ended(t, i) == \/ t \in revoked'
                          \/ book'[i] # NoBook /\ ~book'[i].live
                          \/ user'[book[i].user] = "erased"
                          \/ /\ user' # user
                             /\ \E j \in Ids : book'[j] # NoBook /\ book'[j].source = book[i].source
                             /\ book[i].source \in Works \union {"intro"}
           ByOwner == \A t \in Tokens : \A i \in Serving(t) : Serving(t)' = {} => Ended(t, i)
<1>1. IInv /\ [Next]_vars => [ByOwner]_vars
  <2> SUFFICES ASSUME IInv, Next, NEW t \in Tokens, NEW i \in Serving(t), Serving(t)' = {}
               PROVE  Ended(t, i)
    OBVIOUS
  <2>a. i \in Ids /\ book[i] # NoBook /\ book[i].token = t /\ book[i].live /\ t # NoToken
    BY Served
  <2>b. book'[i] # NoBook /\ book'[i].token = t => ~book'[i].live
    BY <2>a DEF Serving, Exists
  \* Where the row stays as it is, the link does.
  <2>c. book'[i] # book[i]
    BY <2>a, <2>b
  <2>1. ASSUME NEW u \in Users, Come(u) PROVE FALSE
    BY <2>1, <2>c DEF Come
  <2>2. ASSUME NEW u \in Users, Erase(u) PROVE Ended(t, i)
    <3>1. i \in Shelf(u)
      BY <2>2, <2>a, <2>c DEF Erase, Without
    <3>2. book[i].user = u
      BY <3>1 DEF Shelf, Yours
    <3>3. user'[u] = "erased"
      BY <2>2 DEF Erase, IInv, TypeOK
    <3>4. QED
      BY <3>2, <3>3
  <2>3. ASSUME NEW u \in Users, NEW s \in Sources, Add(u, s) PROVE FALSE
    BY <2>3, <2>a, <2>c, AddInserts, InsertEffect
  <2>4. ASSUME NEW u \in Users, \/ \E k \in Ids : Read(u, k) \/ Trash(u, k) \/ Restore(u, k)
                                \/ \E S \in SUBSET Ids : Purge(u, S)
        PROVE  Ended(t, i)
    <3>1. book'[i] # NoBook /\ book'[i].token = book[i].token
      BY <2>4, <2>a, BinEffect DEF Exists
    <3>2. QED
      BY <2>a, <2>b, <3>1
  <2>5. ASSUME NEW u \in Users, NEW k \in Ids, Unshare(u, k) PROVE Ended(t, i)
    <3>1. k = i /\ book[k].token \in revoked'
      BY <2>5, <2>a, <2>c, UnshareStep
    <3>2. QED
      BY <2>a, <3>1
  <2>6. ASSUME NEW u \in Users, NEW k \in Ids, NEW m \in Modes, Share(u, k, m) PROVE FALSE
    <3>1. Shared(u, k, m)
      BY <2>6, ShareEffect
    <3>2. /\ book[k] \in Book
          /\ book' = [book EXCEPT ![k] = [book[k] EXCEPT !.token = TokenFor(k), !.mode = m]]
          /\ book[k].token # NoToken => TokenFor(k) = book[k].token
      BY <3>1 DEF Shared
    <3>3. k = i
      BY <2>a, <2>c, <3>2 DEF IInv, TypeOK
    <3>4. book'[i] = [book[i] EXCEPT !.token = t, !.mode = m]
      BY <2>a, <3>2, <3>3 DEF IInv, TypeOK
    <3>5. book'[i] \in Book /\ book'[i].token = t /\ book'[i].live
      <4> DEFINE new == [book[i] EXCEPT !.token = t, !.mode = m]
      <4>1. book[i] \in Book
        BY <3>2, <3>3
      <4>2. new \in Book /\ new.token = t /\ new.live = book[i].live
        BY <4>1 DEF Book
      <4>3. QED
        BY <2>a, <3>4, <4>2
    <3>6. book'[i] # NoBook
      BY <3>5, SharingAssumption
    <3>7. QED
      BY <2>b, <3>5, <3>6
  <2>7. ASSUME NEW u \in Users, NEW s \in Tokens, Import(u, s) PROVE FALSE
    <3>1. PICK j \in Serving(s) : /\ book[j].text \in 0..MaxBooks
                                  /\ Insert(u, "shared", book[j].text)
      BY <2>7, ImportInserts
    <3>2. "shared" \in Sources
      BY DEF Sources
    <3>3. QED
      BY <2>a, <2>c, <3>1, <3>2, InsertEffect
  <2>8. ASSUME NEW g \in Guests, NEW m \in Members, Merge(g, m) PROVE Ended(t, i)
    <3>1. book'[i] = NoBook
      BY <2>8, <2>a, <2>b, MergeEffect
    <3>2. user' # user
      BY <2>8, MergeEffect, SharingAssumption DEF IInv, TypeOK, Users
    <3>3. QED
      BY <2>8, <2>a, <3>1, <3>2, DoublesStay
  <2>9. QED
    BY <2>1, <2>2, <2>3, <2>4, <2>5, <2>6, <2>7, <2>8 DEF Next
<1>2. QED
  BY <1>1, Invariance, PTL DEF Spec, LinksEndByTheOwner
=============================================================================

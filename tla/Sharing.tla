------------------------------- MODULE Sharing -------------------------------
(***************************************************************************)
(* Public share links (books.rs share_book, unshare_book, shared_info,     *)
(* shared_timeline, shared_import; db.rs ensure_share_token,               *)
(* clear_share_token, book_by_share_token) across everything that happens  *)
(* to the book behind one: the trash, the merge of a guest, the erasure of *)
(* an account, and copies of copies.                                       *)
(*                                                                         *)
(* Every handler is one Db::call closure after the extractor has resolved  *)
(* its user.  The user may be gone by then, so a step is any present or    *)
(* former user's.  The anonymous readers of a link change nothing: what    *)
(* they are served is Serving.                                             *)
(***************************************************************************)
EXTENDS Naturals, Sequences

CONSTANTS
    Guests,     \* the users that come as guests
    Members,    \* the users that register
    Works,      \* catalog slugs
    MaxBooks,   \* bound: books ever added; their ids are random in the code
    MaxTokens,  \* bound: tokens ever minted, random in the code
    NoBook

Users == Guests \union Members
Ids == 1..MaxBooks
Tokens == 1..MaxTokens

\* share_token IS NULL.
NoToken == 0

\* source and catalog_slug in one.
Sources == {"own", "intro", "shared"} \union Works

Modes == {"import", "read"}

\* The columns of a books row that links have to do with.
Book == [user : Users, source : Sources, text : 0..MaxBooks, live : BOOLEAN,
         position : 0..1, token : Tokens \union {NoToken}, mode : Modes]

ASSUME SharingAssumption ==
    /\ Guests \intersect Members = {}
    /\ Users \intersect {"none", "here", "erased"} = {}
    /\ MaxBooks \in Nat /\ MaxTokens \in Nat
    /\ Works \intersect {"own", "intro", "shared"} = {}
    /\ NoBook \notin Book

VARIABLES
    user,      \* users rows: none, here, erased, or the account merged into
    book,      \* books rows by id
    added,     \* how many ids were used
    minted,    \* history: of each token in turn, the book, who issued it and the mode
               \* that was asked for last
    revoked    \* history: tokens whose revocation was answered 204

vars == <<user, book, added, minted, revoked>>

Init ==
    /\ user = [u \in Users |-> "none"]
    /\ book = [i \in Ids |-> NoBook]
    /\ added = 0
    /\ minted = <<>>
    /\ revoked = {}

Here(u) == user[u] = "here"

Exists(i) == book[i] # NoBook

\* Mutant: WHERE id = ? alone.
Yours_Anyone(u, i) == Exists(i)

\* WHERE id = ? AND user_id = ?.
Yours(u, i) == Exists(i) /\ book[i].user = u

\* get_book and what updates one: the trash is out of sight.
Open(u, i) == Yours(u, i) /\ book[i].live

\* book_by_share_token: live books only.
Serving(t) == {i \in Ids : Exists(i) /\ book[i].token = t /\ book[i].live}

History == <<minted, revoked>>

-----------------------------------------------------------------------------
(* The users and their books.                                              *)

\* A row comes into being; it is seeded by Add.
Come(u) ==
    /\ user[u] = "none"
    /\ user' = [user EXCEPT ![u] = "here"]
    /\ UNCHANGED <<book, added, History>>

\* A new row: no link, and the mode the column defaults to.
Insert(u, source, text) ==
    /\ Here(u) /\ added < MaxBooks
    /\ added' = added + 1
    /\ book' = [book EXCEPT ![added'] =
                  [user |-> u, source |-> source, text |-> text, live |-> TRUE,
                   position |-> 0, token |-> NoToken, mode |-> "import"]]

\* An upload, or a row of the starter library: its copies are bounded by one of
\* each for a user.  An upload's text is its own.
Add(u, source) ==
    /\ source # "shared"
    /\ source # "own" => \A i \in Ids : Yours(u, i) => book[i].source # source
    /\ Insert(u, source, IF source = "own" THEN added + 1 ELSE 0)
    /\ UNCHANGED <<user, History>>

\* How far a book was read is asked of catalog works only.
Read(u, i) ==
    /\ Open(u, i) /\ book[i].source \in Works
    /\ \E p \in 0..1 : book' = [book EXCEPT ![i].position = p]
    /\ UNCHANGED <<user, added, History>>

\* DELETE, restore and purge of a book.  Deletion and the trash's list sweep
\* what is overdue, which may be any of what is in the trash.
Trashed(u) == {i \in Ids : Yours(u, i) /\ ~book[i].live}

Without(S) == [i \in Ids |-> IF i \in S THEN NoBook ELSE book[i]]

Trash(u, i) ==
    /\ Open(u, i)
    /\ \E S \in SUBSET Trashed(u) : book' = [Without(S) EXCEPT ![i].live = FALSE]
    /\ UNCHANGED <<user, added, History>>

Restore(u, i) ==
    /\ i \in Trashed(u)
    /\ book' = [book EXCEPT ![i].live = TRUE]
    /\ UNCHANGED <<user, added, History>>

\* Purging one, or listing the trash.
Purge(u, S) ==
    /\ S # {} /\ S \subseteq Trashed(u)
    /\ book' = Without(S)
    /\ UNCHANGED <<user, added, History>>

-----------------------------------------------------------------------------
(* Links.                                                                  *)

\* Mutant: a token made from the book's id.
Fresh_PerBook(i) == i

\* random_token(12).
Fresh(i) == Len(minted) + 1

\* ensure_share_token: a book keeps the token it has.
TokenFor(i) == IF book[i].token = NoToken THEN Fresh(i) ELSE book[i].token

\* Mutant: only a new link takes the mode.
Mode_Kept(i, m) == IF book[i].token = NoToken THEN m ELSE book[i].mode

\* "Re-sharing keeps the same token but always refreshes the mode."
Mode(i, m) == m

\* POST share.  No body, a blank one and one that does not parse mean "import".
Share(u, i, m) ==
    LET t == TokenFor(i)
    IN  /\ Open(u, i)
        /\ t \in Tokens
        /\ book' = [book EXCEPT ![i].token = t, ![i].mode = Mode(i, m)]
        /\ minted' = IF book[i].token = NoToken
                     THEN Append(minted, [book |-> i, by |-> u, mode |-> m])
                     ELSE [minted EXCEPT ![t].mode = m]
        /\ UNCHANGED <<user, added, revoked>>

\* DELETE share, of a book in the trash, too; otherwise a 404.
Unshare(u, i) ==
    /\ Yours(u, i) /\ book[i].token # NoToken
    /\ book' = [book EXCEPT ![i].token = NoToken]
    /\ revoked' = revoked \union {book[i].token}
    /\ UNCHANGED <<user, added, minted>>

\* POST /api/shared/{token}/import: a copy, every time it is called.
Import(u, t) ==
    /\ \E i \in Serving(t) : book[i].mode # "read" /\ Insert(u, "shared", book[i].text)
    /\ UNCHANGED <<user, History>>

-----------------------------------------------------------------------------
(* merge_guest_into and delete_user.                                       *)

Shelf(u) == {i \in Ids : Yours(u, i)}

\* The guest's intro yields to the account's.
Intros(g, m) == {i \in Shelf(g) : /\ book[i].source = "intro"
                                  /\ \E j \in Shelf(m) : book[j].source = "intro"}

SameWork(i, j) == book[i].source \in Works /\ book[j].source = book[i].source

\* The account's copies of a work yield to the guest's that are read further,
\* then the guest's to those the account has left.
Outread(g, m) == {j \in Shelf(m) : \E i \in Shelf(g) :
                    SameWork(i, j) /\ book[i].position > book[j].position}

Doubles(g, m) == {i \in Shelf(g) : \E j \in Shelf(m) \ Outread(g, m) : SameWork(i, j)}

\* Mutant: what moves is made anew, without its link.
Moved_Unlinked(i, m) == [book[i] EXCEPT !.user = m, !.token = NoToken]

\* UPDATE books SET user_id.
Moved(i, m) == [book[i] EXCEPT !.user = m]

Merge(g, m) ==
    LET dropped == Intros(g, m) \union Outread(g, m) \union Doubles(g, m)
    IN  /\ g \in Guests /\ m \in Members /\ Here(g) /\ Here(m)
        /\ book' = [i \in Ids |-> IF i \in dropped THEN NoBook
                                  ELSE IF i \in Shelf(g) THEN Moved(i, m) ELSE book[i]]
        /\ user' = [user EXCEPT ![g] = m]
        /\ UNCHANGED <<added, History>>

\* The rows of an erased account go with it.
Erase(u) ==
    /\ Here(u)
    /\ user' = [user EXCEPT ![u] = "erased"]
    /\ book' = Without(Shelf(u))
    /\ UNCHANGED <<added, History>>

Next ==
    \/ \E u \in Users :
          \/ Come(u) \/ Erase(u)
          \/ \E s \in Sources : Add(u, s)
          \/ \E i \in Ids :
                \/ Read(u, i) \/ Trash(u, i) \/ Restore(u, i) \/ Unshare(u, i)
                \/ \E m \in Modes : Share(u, i, m)
          \/ \E S \in SUBSET Ids : Purge(u, S)
          \/ \E t \in Tokens : Import(u, t)
    \/ \E g \in Guests, m \in Members : Merge(g, m)

Spec == Init /\ [][Next]_vars

-----------------------------------------------------------------------------
(* Properties.                                                             *)

\* Rows have their columns' types, belong to users that exist (ON DELETE
\* CASCADE), and a token is on one row at most (the unique index books_share).
TypeOK ==
    /\ user \in [Users -> {"none", "here", "erased"} \union Members]
    /\ book \in [Ids -> Book \union {NoBook}]
    /\ added \in 0..MaxBooks
    /\ minted \in Seq([book : Ids, by : Users, mode : Modes]) /\ Len(minted) <= MaxTokens
    /\ revoked \subseteq DOMAIN minted
    /\ \A i \in Ids : Exists(i) => Here(book[i].user)
    /\ \A i, j \in Ids : Exists(i) /\ Exists(j) /\ book[i].token = book[j].token /\ i # j
                         => book[i].token = NoToken

\* A link serves the book it was issued for or nothing, never another, and it
\* was issued by the book's owner or by the guest that became the owner.
LinksServeTheirBook ==
    \A t \in Tokens : Serving(t) # {} =>
        /\ t \in DOMAIN minted /\ Serving(t) = {minted[t].book}
        /\ LET by == minted[t].by
           IN  book[minted[t].book].user \in {by, user[by]}

\* Once unshare_book has answered 204, the link is dead for good: no restore,
\* merge or new share of the same book brings it back.
RevokedStaysRevoked == \A t \in revoked : Serving(t) = {}

\* A link dies only by what its owner does (revoking, trashing, erasing the
\* account) or with a duplicate of the starter library in a merge: signing in
\* never breaks the link of a book of one's own.
LinksEndByTheOwner ==
    [][\A t \in Tokens : \A i \in Serving(t) : Serving(t)' = {} =>
          \/ t \in revoked'
          \/ book'[i] # NoBook /\ ~book'[i].live
          \/ user'[book[i].user] = "erased"
          \/ /\ user' # user
             /\ \E j \in Ids : book'[j] # NoBook /\ book'[j].source = book[i].source
             /\ book[i].source \in Works \union {"intro"}]_vars

\* A copy is taken only of a live book that its owner last shared to be
\* imported, however often the mode was flipped.
ReadOnlyIsNotCopied ==
    [][\A i \in Ids : ~Exists(i) /\ book'[i] # NoBook =>
          \/ book'[i].source # "shared"
          \/ \E t \in Tokens : \E j \in Serving(t) :
                minted[t].mode = "import" /\ book[j].text = book'[i].text]_vars
=============================================================================

------------------------------- MODULE Library -------------------------------
(***************************************************************************)
(* The books table (server/src/books.rs, catalog.rs and the book and merge *)
(* parts of db.rs): the starter library every user is seeded with, adding, *)
(* reading, the trash bin, and what merge_guest_into does to two libraries *)
(* that were both seeded.                                                  *)
(*                                                                         *)
(* One action is one Db::call closure.  A row's deleted_at is one of three *)
(* stages: "live" (NULL), "trashed" (within the retention of 30 days) or   *)
(* "overdue" (older, and not swept yet).  Uploads and imports from a share *)
(* link are both "own" books: neither has a slug.                          *)
(***************************************************************************)
EXTENDS Naturals, FiniteSets, Sequences

CONSTANTS
    Guests,      \* the users that come as guests
    Members,     \* the users that register
    Manifest,    \* the catalog's slugs, in manifest order
    WordCount,   \* the length of every book
    MaxCopies,   \* bound: rows of one catalog work or of the intro at a time
    MaxOwn,      \* bound: own books at a time
    MaxRows,     \* bound: rows altogether
    MaxOverdue,  \* bound: overdue rows at a time
    NoBook

ASSUME LibraryAssumption ==
    /\ WordCount \in Nat
    /\ MaxCopies \in Nat /\ MaxOwn \in Nat
    /\ Guests \intersect Members = {}
    /\ Manifest \in Seq(STRING)
    /\ \A k \in DOMAIN Manifest : Manifest[k] \notin {"intro", "own"}

Users == Guests \union Members

Slugs == {Manifest[k] : k \in DOMAIN Manifest}

\* What a row is of: source and catalog_slug in one.
Works == {"intro", "own"} \union Slugs

Ids == (({"intro"} \union Slugs) \X (1..MaxCopies)) \union ({"own"} \X (1..MaxOwn))

VARIABLES
    kind,      \* users rows: none, guest, member, or gone once merged
    books      \* books rows by id, NoBook where there is none

vars == <<kind, books>>

Book == [user: Users, position: 0..WordCount, bin: {"live", "trashed", "overdue"}]

ASSUME NoBookAssumption == NoBook \notin Book

TypeOK ==
    /\ kind \in [Users -> {"none", "guest", "member", "gone"}]
    /\ books \in [Ids -> Book \union {NoBook}]

Init ==
    /\ kind = [u \in Users |-> "none"]
    /\ books = [id \in Ids |-> NoBook]

-----------------------------------------------------------------------------
(* Reading the table.                                                      *)

Rows == {id \in Ids : books[id] # NoBook}

Of(u) == {id \in Rows : books[id].user = u}

\* list_books, get_book: deleted_at IS NULL.
Live(u) == {id \in Of(u) : books[id].bin = "live"}

\* book_count is zero.
Bare(u) == Live(u) = {}

Copies(u, work) == {id \in Of(u) : id[1] = work}

\* book_id_by_catalog_slug finds a live copy.
HasLiveCopy(u, work) == Copies(u, work) \intersect Live(u) # {}

Here(u) == kind[u] \in {"guest", "member"}

-----------------------------------------------------------------------------
(* Adding books.  What a closure inserts is a count for each work.         *)

Nothing == [w \in Works |-> 0]

Plus(new, work) == [new EXCEPT ![work] = @ + 1]

\* Inserts the counted rows for u under the lowest free ids, unread and live.
Insert(u, new) ==
    LET free(w) == {id \in Ids \ Rows : id[1] = w}
        taken == {id \in Ids \ Rows :
                     Cardinality({x \in free(id[1]) : x[2] <= id[2]}) <= new[id[1]]}
    IN  /\ \A w \in Works : Cardinality(free(w)) >= new[w]
        /\ Cardinality(Rows \union taken) <= MaxRows
        /\ books' = [id \in Ids |->
                        IF id \in taken THEN [user |-> u, position |-> 0, bin |-> "live"]
                        ELSE books[id]]

\* seed_default_library: the intro, then every catalog work without a live copy.
Seeds(u) ==
    [w \in Works |-> IF w = "intro" \/ (w \in Slugs /\ ~HasLiveCopy(u, w)) THEN 1 ELSE 0]

\* Mutant: whoever adds something is seeded, guest or not.
GuestSeeds_Anyone(u) == Seeds(u)

\* maybe_seed_guest_defaults: a guest whose library shows no book is seeded again.
GuestSeeds(u) == IF kind[u] = "guest" /\ Bare(u) THEN Seeds(u) ELSE Nothing

\* The insert closures of guest, register and a first OAuth sign-in.
SignUp(u) ==
    /\ kind[u] = "none"
    /\ kind' = [kind EXCEPT ![u] = IF u \in Guests THEN "guest" ELSE "member"]
    /\ Insert(u, Seeds(u))

\* The statements of that closure commit one by one: a crash keeps the first k
\* seeds.  The email is taken, so the account is entered by login later.
SignUpCut(u, k) ==
    LET kept == {"intro"} \union {Manifest[j] : j \in 1..(k - 1)}
    IN  /\ u \in Members
        /\ kind[u] = "none"
        /\ kind' = [kind EXCEPT ![u] = "member"]
        /\ Insert(u, [w \in Works |-> IF k > 0 /\ w \in kept THEN 1 ELSE 0])

\* catalog::add.
CatalogAdd(u, slug) ==
    /\ Here(u)
    /\ ~HasLiveCopy(u, slug)
    /\ Insert(u, Plus(GuestSeeds(u), slug))
    /\ UNCHANGED kind

\* insert_prepared, below the weekly limit.
Upload(u) ==
    /\ Here(u)
    /\ Insert(u, Plus(GuestSeeds(u), "own"))
    /\ UNCHANGED kind

\* shared_import: no seeding.
SharedImport(u) ==
    /\ Here(u)
    /\ Insert(u, Plus(Nothing, "own"))
    /\ UNCHANGED kind

-----------------------------------------------------------------------------
(* Reading, and the trash bin.                                             *)

InBook(p) == p <= WordCount

\* set_position on a live book; a position past the end is refused.
SetPosition(u, id, p) ==
    /\ id \in Live(u)
    /\ InBook(p)
    /\ books' = [books EXCEPT ![id].position = p]
    /\ UNCHANGED kind

\* purge_expired: deleted_at < cutoff.
Swept(u) == {id \in Of(u) : books[id].bin = "overdue"}

Without(gone) == [id \in Ids |-> IF id \in gone THEN NoBook ELSE books[id]]

\* delete_book: the sweep, then the live book goes to the trash.
Trash(u, id) ==
    /\ id \in Live(u)
    /\ books' = [Without(Swept(u)) EXCEPT ![id].bin = "trashed"]
    /\ UNCHANGED kind

\* list_trash (and delete_book on a book that is not there): the sweep alone.
ListTrash(u) ==
    /\ Swept(u) # {}
    /\ books' = Without(Swept(u))
    /\ UNCHANGED kind

\* restore_book: anything still in the trash, swept or not.
Restore(u, id) ==
    /\ id \in Of(u) \ Live(u)
    /\ books' = [books EXCEPT ![id].bin = "live"]
    /\ UNCHANGED kind

Purgeable(u) == Of(u) \ Live(u)

\* purge_book.
Purge(u, id) ==
    /\ id \in Purgeable(u)
    /\ books' = Without({id})
    /\ UNCHANGED kind

\* Thirty days pass over a trashed book.
Age(id) ==
    /\ id \in Rows
    /\ books[id].bin = "trashed"
    /\ Cardinality({x \in Rows : books[x].bin = "overdue"}) < MaxOverdue
    /\ books' = [books EXCEPT ![id].bin = "overdue"]
    /\ UNCHANGED kind

-----------------------------------------------------------------------------
(* merge_guest_into, statement by statement.                               *)

\* Mutant: the intro moves like any other book.
DroppedIntros_None(g, m) == {}

\* The guest's intros go when the target has any, trashed ones included.
DroppedIntros(g, m) == IF Copies(m, "intro") # {} THEN Copies(g, "intro") ELSE {}

\* Mutant: the target's copies always win.
Outread_Never(g, m) == {}

\* The target's copies of a catalog work that some guest copy is ahead of.
Outread(g, m) ==
    {t \in Of(m) : t[1] \in Slugs /\
        \E id \in Copies(g, t[1]) : books[id].position > books[t].position}

\* The guest's copies of a catalog work that the target still has a copy of.
Superseded(g, m, outread) ==
    {id \in Of(g) : id[1] \in Slugs /\ Copies(m, id[1]) \ outread # {}}

Moved(book, m) == [book EXCEPT !.user = m]

\* One transaction.
Merge(g, m) ==
    LET outread == Outread(g, m)
        dropped == DroppedIntros(g, m) \union outread \union Superseded(g, m, outread)
    IN  /\ kind[g] = "guest"
        /\ kind[m] = "member"
        /\ kind' = [kind EXCEPT ![g] = "gone"]
        /\ books' = [id \in Ids |->
                        IF id \in dropped THEN NoBook
                        ELSE IF id \in Of(g) THEN Moved(books[id], m)
                        ELSE books[id]]

-----------------------------------------------------------------------------

Add(u) ==
    \/ SignUp(u)
    \/ \E k \in 0..Len(Manifest) : SignUpCut(u, k)
    \/ \E slug \in Slugs : CatalogAdd(u, slug)
    \/ Upload(u)
    \/ SharedImport(u)

Keep(u) ==
    \/ \E id \in Ids, p \in 0..(WordCount + 1) : SetPosition(u, id, p)
    \/ \E id \in Ids : Trash(u, id)
    \/ ListTrash(u)
    \/ \E id \in Ids : Restore(u, id)
    \/ \E id \in Ids : Purge(u, id)

Next ==
    \/ \E u \in Users : Add(u) \/ Keep(u)
    \/ \E g, m \in Users : Merge(g, m)
    \/ \E id \in Ids : Age(id)

Spec == Init /\ [][Next]_vars

-----------------------------------------------------------------------------
(* Properties of a merge.                                                  *)

Positions(u, slug) == {books[id].position : id \in Copies(u, slug)}

\* "For a work present on both sides the copy with the further reading position
\* survives" (assets/agents/auth.md): after a merge the account has no less
\* progress in any work than either library had, however many copies of it
\* were live or in the trash.
FurthestCopySurvives ==
    [][\A g, m \in Users : Merge(g, m) =>
         \A slug \in Slugs : \A p \in Positions(g, slug) \union Positions(m, slug) :
            \E q \in Positions(m, slug)' : q >= p]_vars

\* A merge never adds copies: of each work, and of the intro, the account holds
\* no more copies than the larger of the two libraries did.
MergeDeduplicates ==
    [][\A g, m \in Users : Merge(g, m) =>
         \A work \in Works \ {"own"} :
              \/ Cardinality(Copies(m, work)') <= Cardinality(Copies(m, work))
              \/ Cardinality(Copies(m, work)') <= Cardinality(Copies(g, work))]_vars

-----------------------------------------------------------------------------
(* A property of adding.                                                   *)

Made(u, slug) == {id \in Copies(u, slug)' : books[id] = NoBook}

\* No step makes a copy of a work that is on the shelf.  Of any other it makes at most
\* one, except for a guest whose every book is in the trash, who is given the starter
\* library together with what was added, and so two copies of that: whoever is no
\* guest, or kept a book, gets one, whatever was trashed, restored or merged before.
OneCopyPerAdd ==
    [][\A u \in Users, slug \in Slugs :
         Cardinality(Made(u, slug)) <=
             IF HasLiveCopy(u, slug) THEN 0
             ELSE IF kind[u] = "guest" /\ Bare(u) THEN 2 ELSE 1]_vars

\* "Idempotent per user: a second add is a 409 carrying the existing book id"
\* (catalog.rs): adding makes one copy of a work that is not on the shelf, and none of
\* one that is.
AddIsIdempotent ==
    [][\A u \in Users, slug \in Slugs :
         Cardinality(Made(u, slug)) <= IF HasLiveCopy(u, slug) THEN 0 ELSE 1]_vars
=============================================================================

------------------------------ MODULE Storage ------------------------------
(***************************************************************************)
(* The database file across starts of the server (Db::open and init, the   *)
(* schemas and the triggers of db.rs, the catalog cache of catalog.rs).    *)
(*                                                                         *)
(* A start runs the migrations the file has not seen.  A batch of schema   *)
(* statements and the user_version that says it ran are separate commits;  *)
(* batches 1 and 2 commit statement by statement, the later ones at once.  *)
(* The process may stop before any commit, and a statement whose object    *)
(* exists already fails and with it the start.                             *)
(*                                                                         *)
(* Init is any file that a release of any version left behind; "older" is  *)
(* its engine.  Of a row only what the migrations, the index and the cache *)
(* look at is kept.                                                        *)
(***************************************************************************)
EXTENDS Naturals

CONSTANTS Users, Rowids, Texts, Works, Last, NoText, NoEntry, NoBook, NoWork

ASSUME LastAssumption == Last \in Nat /\ Last >= 4
ASSUME TextAssumption ==
    /\ NoText \notin Texts \union Works
    /\ NoEntry \notin Texts \union Works \union {NoText}
ASSUME WorkAssumption == NoWork \notin Works

VARIABLES
    pc,          \* of the server process: down, starting, failed (exited), up
    keys,        \* PRAGMA foreign_keys of the connection
    stmt,        \* statements of the next batch that this start has run
    version,     \* PRAGMA user_version
    applied,     \* committed statements of each batch
    users,       \* users rows
    sso,         \* users with the legacy users.oidc_sub
    identities,  \* users with a row in identities for it
    sessions,    \* users with a row in sessions
    books,       \* books rows by rowid: owner, work (catalog_slug), text, engine
    fts,         \* the full-text index: what it holds of each rowid
    cache,       \* catalog_cache: the engine whose timeline is kept of each work
    cut          \* history: a start stopped between a batch's first commit and
                 \* the commit of its version

schema == <<version, applied, cut>>
rows == <<users, sso, identities, sessions, books, fts, cache>>
vars == <<pc, keys, stmt, schema, rows>>

Versions == 1..Last

\* A batch that is one transaction counts as one statement.
Statements(v) == IF v <= 2 THEN 4 ELSE 1

Engines == {"older", "this"}
AnyText == Texts \union Works \union {NoText}
Book == [owner : Users, work : Works \union {NoWork}, text : AnyText, engine : Engines]

ASSUME BookAssumption == NoBook \notin Book

Present(r) == books[r] # NoBook

\* The rows of books that have a text column, as the index should hold them.
Indexed(b) == IF b = NoBook THEN NoEntry ELSE b.text

\* What a release of version v left: no books before batch 1, no catalog works
\* before 3, no texts before 4 (books of that time keep NULL).
Left(v, b) ==
    \/ b = NoBook
    \/ /\ v >= 1
       /\ b \in [owner : users, work : IF v >= 3 THEN Works \union {NoWork} ELSE {NoWork},
                 text : IF v >= 4 THEN AnyText ELSE {NoText}, engine : {"older"}]
       /\ b.work \in Works => b.text \in {NoText, b.work} /\ cache[b.work] = "older"
       /\ b.work = NoWork => b.text \notin Works

Init ==
    /\ pc = "down" /\ keys = TRUE /\ stmt = 0 /\ cut = FALSE
    /\ version \in 0..Last
    /\ applied = [v \in Versions |-> IF v <= version THEN Statements(v) ELSE 0]
    /\ users \in SUBSET (IF version >= 1 THEN Users ELSE {})
    /\ sso \in SUBSET users
    /\ sessions \in SUBSET users
    /\ identities = IF version >= 3 THEN sso ELSE {}
    /\ cache \in [Works -> IF version >= 3 THEN {"older", "none"} ELSE {"none"}]
    /\ books \in [Rowids -> [owner : users, work : Works \union {NoWork},
                             text : AnyText, engine : {"older"}] \union {NoBook}]
    /\ \A r \in Rowids : Left(version, books[r])
    /\ fts = [r \in Rowids |-> IF version >= 4 THEN Indexed(books[r]) ELSE NoEntry]

-----------------------------------------------------------------------------
(* Starting.                                                               *)

Start ==
    /\ pc \in {"down", "failed"}
    /\ pc' = "starting"
    /\ keys' = TRUE
    /\ stmt' = 0
    /\ UNCHANGED <<schema, rows>>

\* Mutant: the switch inside the batch, where SQLite ignores it.
KeysDuring_On(v) == TRUE

\* "The users-table rebuild needs FK enforcement off": while batch v runs ...
KeysDuring(v) == v # 3

\* Mutant: no switch back.
KeysAfter_Off(v) == keys /\ v # 3

\* ... and after it.
KeysAfter(v) == keys \/ v = 3

\* Mutant: the legacy subjects are left in their column.
RebuildUsers_Unlinked == UNCHANGED rows

\* Batch 3: users is copied into a table without NOT NULL, dropped, and the copy takes
\* its name.  A table that is dropped with keys enforced has its rows deleted first, and
\* what refers to them goes along, unseen by triggers (of which there are none yet).
\* Then the legacy subjects become identities.
RebuildUsers ==
    LET copy == users
        left(referring) == IF KeysDuring(3) THEN {} ELSE referring
    IN  /\ users' = copy
        /\ sessions' = left(sessions)
        /\ books' = [r \in Rowids |-> IF r \in left({q \in Rowids : Present(q)}) THEN books[r]
                                     ELSE NoBook]
        /\ identities' = sso
        /\ UNCHANGED <<sso, fts, cache>>

\* Batch 4: the index is filled from the rows before the triggers take over.
BackfillIndex ==
    /\ fts' = [r \in Rowids |-> Indexed(books[r])]
    /\ UNCHANGED <<users, sso, identities, sessions, books, cache>>

\* The next statement of batch version + 1 runs, and fails if it ran before.
RunStatement ==
    LET v == version + 1
    IN  /\ pc = "starting" /\ version < Last /\ stmt < Statements(v)
        /\ UNCHANGED <<version, cut>>
        /\ \/ /\ applied[v] > stmt
              /\ pc' = "failed"
              /\ UNCHANGED <<keys, stmt, applied, rows>>
           \/ /\ applied[v] = stmt
              /\ applied' = [applied EXCEPT ![v] = stmt + 1]
              /\ stmt' = stmt + 1
              /\ keys' = KeysAfter(v)
              /\ UNCHANGED pc
              /\ CASE v = 3 -> RebuildUsers
                   [] v = 4 -> BackfillIndex
                   [] OTHER -> UNCHANGED rows

\* Mutant: the last batch pasted from the one before, number and all.
VersionAfter_Pasted(v) == IF v = Last THEN Last - 1 ELSE v

\* PRAGMA user_version, once the batch is through.
VersionAfter(v) == v

SetVersion ==
    /\ pc = "starting" /\ version < Last /\ stmt = Statements(version + 1)
    /\ version' = VersionAfter(version + 1)
    /\ stmt' = 0
    /\ UNCHANGED <<pc, keys, applied, cut, rows>>

\* No migration is left: the listener is bound and requests are served.
Serve ==
    /\ pc = "starting" /\ version = Last
    /\ pc' = "up"
    /\ UNCHANGED <<keys, stmt, schema, rows>>

\* A crash, a shutdown, or an error of a statement for a reason of its own (a full
\* disk): what is committed stays.
Stop ==
    /\ pc \in {"starting", "up"}
    /\ pc' = "down"
    /\ stmt' = 0
    /\ cut' = (cut \/ stmt > 0)
    /\ UNCHANGED <<keys, version, applied, rows>>

-----------------------------------------------------------------------------
(* Serving.  Each is one statement, whose triggers commit with it.         *)

SignUp(u) ==
    /\ pc = "up" /\ u \notin users
    /\ users' = users \union {u}
    /\ sessions' = sessions \union {u}
    /\ UNCHANGED <<pc, keys, stmt, schema, sso, identities, books, fts, cache>>

\* books_fts_ai: SQLite picks a rowid that no row has, but that one may have had.
Insert(r, b) ==
    /\ ~Present(r)
    /\ books' = [books EXCEPT ![r] = b]
    /\ fts' = [fts EXCEPT ![r] = Indexed(b)]

\* insert_prepared: the timeline is this release's.
Upload(u, r, t) ==
    /\ pc = "up" /\ u \in users
    /\ Insert(r, [owner |-> u, work |-> NoWork, text |-> t, engine |-> "this"])
    /\ UNCHANGED <<pc, keys, stmt, schema, users, sso, identities, sessions, cache>>

\* Mutant: a timeline of another engine is made anew.
Cached_Fresh(w) == "this"

\* ensure_cached: what the cache holds, whichever engine made it.
Cached(w) == IF cache[w] = "none" THEN "this" ELSE cache[w]

\* Adding a catalog work, or seeding it; its text is the one compiled in.
AddWork(u, r, w) ==
    /\ pc = "up" /\ u \in users
    /\ cache' = [cache EXCEPT ![w] = Cached(w)]
    /\ Insert(r, [owner |-> u, work |-> w, text |-> w, engine |-> Cached(w)])
    /\ UNCHANGED <<pc, keys, stmt, schema, users, sso, identities, sessions>>

\* Listing the catalog fills the cache.
ListCatalog ==
    /\ pc = "up"
    /\ cache' = [w \in Works |-> Cached(w)]
    /\ UNCHANGED <<pc, keys, stmt, schema, users, sso, identities, sessions, books, fts>>

\* Whatever else updates a row (position, trash, tags, link, a merge's new owner)
\* leaves title, author and text; books_fts_au takes the row out and in again.
Update(r, u) ==
    /\ pc = "up" /\ Present(r) /\ u \in users
    /\ books' = [books EXCEPT ![r].owner = u]
    /\ fts' = [fts EXCEPT ![r] = Indexed(books[r])]
    /\ UNCHANGED <<pc, keys, stmt, schema, users, sso, identities, sessions, cache>>

\* Mutant: no trigger after DELETE.
Unindexed_Kept(R) == fts

\* books_fts_ad, for deletes by a cascade, too.
Unindexed(R) == [r \in Rowids |-> IF r \in R THEN NoEntry ELSE fts[r]]

DeleteRows(R) ==
    /\ books' = [r \in Rowids |-> IF r \in R THEN NoBook ELSE books[r]]
    /\ fts' = Unindexed(R)

Purge(r) ==
    /\ pc = "up" /\ Present(r)
    /\ DeleteRows({r})
    /\ UNCHANGED <<pc, keys, stmt, schema, users, sso, identities, sessions, cache>>

\* delete_user: what refers to the row goes by ON DELETE CASCADE, if keys are enforced.
Erase(u) ==
    LET referring(S) == IF keys THEN S \ {u} ELSE S
    IN  /\ pc = "up" /\ u \in users
        /\ users' = users \ {u} /\ sso' = sso \ {u}
        /\ sessions' = referring(sessions) /\ identities' = referring(identities)
        /\ DeleteRows({r \in Rowids : keys /\ Present(r) /\ books[r].owner = u})
        /\ UNCHANGED <<pc, keys, stmt, schema, cache>>

Starting == RunStatement \/ SetVersion \/ Serve

Serving ==
    \/ \E u \in Users :
          \/ SignUp(u) \/ Erase(u)
          \/ \E r \in Rowids :
                \/ Update(r, u)
                \/ \E t \in Texts : Upload(u, r, t)
                \/ \E w \in Works : AddWork(u, r, w)
    \/ \E r \in Rowids : Purge(r)
    \/ ListCatalog

Next == Start \/ Starting \/ Stop \/ Serving

Spec == Init /\ [][Next]_vars /\ WF_vars(Starting)

-----------------------------------------------------------------------------
(* Properties.                                                             *)

TypeOK ==
    /\ pc \in {"down", "starting", "failed", "up"}
    /\ keys \in BOOLEAN
    /\ stmt \in 0..4
    /\ version \in 0..Last
    /\ applied \in [Versions -> 0..4]
    /\ cut \in BOOLEAN
    /\ users \subseteq Users /\ sso \subseteq users
    /\ identities \subseteq Users /\ sessions \subseteq Users
    /\ books \in [Rowids -> Book \union {NoBook}]
    /\ fts \in [Rowids -> AnyText \union {NoEntry}]
    /\ cache \in [Works -> Engines \union {"none"}]

\* However often starts were cut short, a server that serves has every statement
\* of every batch behind it, and whoever could sign in through the single issuer of
\* the first releases still can.
ServesWhole ==
    pc = "up" => /\ \A v \in Versions : applied[v] = Statements(v)
                 /\ sso \subseteq identities

\* A start changes no user, session or book: when batch 3 drops the table of users to
\* rebuild it, whatever refers to them is still there afterwards.
UpgradeKeepsRows ==
    [][pc = "starting" => UNCHANGED <<users, sso, sessions, books>>]_vars

\* No session, identity or book is left with a user who is gone, by an erasure on a
\* server that has just been through the rebuild without keys, either.
NothingDangles ==
    /\ sessions \subseteq users
    /\ identities \subseteq users
    /\ \A r \in Rowids : Present(r) => books[r].owner \in users

\* A start comes up, or is stopped from outside, unless an earlier one was cut
\* between a batch's first commit and its version: any other crash is harmless.
StartComesUp == (pc = "starting" /\ ~cut) ~> pc \in {"up", "down"}

\* The index holds what the rows say, nothing of a row that is gone, and of a row
\* that took over its rowid what that row says: a search finds the books it should.
IndexAgrees ==
    applied[4] > 0 => \A r \in Rowids : fts[r] = Indexed(books[r])

\* All copies of a catalog work have one timeline, whichever releases made them:
\* a merge compares positions on the same scale.
CopiesAlign ==
    \A r, s \in Rowids :
        Present(r) /\ Present(s) /\ books[r].work \in Works /\ books[r].work = books[s].work
        => books[r].engine = books[s].engine
=============================================================================

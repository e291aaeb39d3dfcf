---------------------------- MODULE StorageProofs ----------------------------
(***************************************************************************)
(* Machine-checked proofs about Storage: for any number of users, rows,    *)
(* texts, works and batches, and starts cut short any number of times.     *)
(***************************************************************************)
EXTENDS Storage, TLAPS

\* The batches up to the version are complete, and of the next one this start has
\* run what is committed.
BatchesInOrder ==
    /\ \A v \in Versions : v <= version => applied[v] = Statements(v)
    /\ pc = "starting" /\ stmt > 0 => version < Last /\ applied[version + 1] = stmt
    /\ pc = "up" => version = Last

\* From batch 3 on, the legacy subjects are identities.
SubjectsLinked == applied[3] > 0 => sso \subseteq identities

\* Every copy of a work has the timeline that the cache has of it.
CacheAgrees ==
    \A r \in Rowids : Present(r) /\ books[r].work \in Works => cache[books[r].work] = books[r].engine

\* Foreign keys are enforced but during batch 3, in whatever state a start is stopped.
Enforced == keys = TRUE

IInv ==
    /\ TypeOK /\ Enforced /\ NothingDangles
    /\ BatchesInOrder /\ SubjectsLinked /\ IndexAgrees /\ CacheAgrees

-----------------------------------------------------------------------------

\* The batches that the invariant names exist.
LEMMA NamedBatches == 3 \in Versions /\ 4 \in Versions
BY LastAssumption DEF Versions

\* A file that a release of any version left satisfies the invariant.
LEMMA InitIInv == Init => IInv
<1> SUFFICES ASSUME Init PROVE IInv
  OBVIOUS
<1> USE LastAssumption DEF Init
<1>l. \A r \in Rowids : Left(version, books[r])
  OBVIOUS
<1>1. TypeOK
  <2>1. applied \in [Versions -> 0..4]
    BY DEF Statements
  <2>2. books \in [Rowids -> Book \union {NoBook}]
    <3>1. \A r \in Rowids : books[r] \in Book \union {NoBook}
      BY DEF Book, Engines
    <3>2. QED
      BY <3>1
  <2>3. fts \in [Rowids -> AnyText \union {NoEntry}]
    <3>1. \A r \in Rowids : Indexed(books[r]) \in AnyText \union {NoEntry}
      BY <2>2 DEF Indexed, Book
    <3>2. QED
      BY <3>1
  <2>4. cache \in [Works -> Engines \union {"none"}]
    BY DEF Engines
  <2>5. pc \in {"down", "starting", "failed", "up"} /\ stmt \in 0..4
    OBVIOUS
  <2>6. users \subseteq Users
    <3>1. CASE version >= 1
      BY <3>1
    <3>2. CASE ~(version >= 1)
      BY <3>2
    <3>3. QED
      BY <3>1, <3>2
  <2>7. /\ sso \subseteq users
        /\ identities \subseteq users /\ sessions \subseteq users
    OBVIOUS
  <2>8. version \in 0..Last /\ cut \in BOOLEAN
    <3>1. cut = FALSE /\ version \in 0..Last
      OBVIOUS
    <3>2. QED
      BY <3>1
  <2>9. identities \subseteq Users /\ sessions \subseteq Users /\ keys \in BOOLEAN
    <3>1. keys = TRUE
      OBVIOUS
    <3>2. QED
      BY <2>6, <2>7, <3>1
  <2>10. QED
    BY <2>1, <2>2, <2>3, <2>4, <2>5, <2>6, <2>7, <2>8, <2>9 DEF TypeOK
<1>d. NothingDangles
  <2>1. ASSUME NEW r \in Rowids, Present(r) PROVE books[r].owner \in users
    BY <2>1, <1>l DEF Left, Present
  <2>2. identities \subseteq users /\ sessions \subseteq users
    OBVIOUS
  <2>3. QED
    BY <2>1, <2>2 DEF NothingDangles
<1>k. Enforced
  BY DEF Enforced
<1>2. BatchesInOrder
  BY DEF BatchesInOrder, Versions
<1>3. SubjectsLinked
  BY NamedBatches DEF SubjectsLinked
<1>4. IndexAgrees
  BY NamedBatches DEF IndexAgrees
<1>5. CacheAgrees
  <2> SUFFICES ASSUME NEW r \in Rowids, Present(r), books[r].work \in Works
               PROVE  cache[books[r].work] = books[r].engine
    BY DEF CacheAgrees
  <2>1. Left(version, books[r]) /\ books[r] # NoBook
    BY DEF Present
  <2>2. books[r].engine \in {"older"}
    BY <2>1 DEF Left
  <2>3. QED
    BY <2>1, <2>2 DEF Left
<1>6. QED
  BY <1>1, <1>2, <1>3, <1>4, <1>5, <1>d, <1>k DEF IInv

-----------------------------------------------------------------------------
(* Starting.                                                               *)

\* The table that is dropped is not the last of its rows: they are in the copy, and
\* nothing that refers to them goes along.
LEMMA RebuildRows ==
    ASSUME TypeOK, RebuildUsers
    PROVE  UNCHANGED <<users, sso, sessions, books, fts, cache>> /\ identities' = sso
<1>1. KeysDuring(3) = FALSE
  BY DEF KeysDuring
<1>2. \A r \in Rowids : books'[r] = books[r]
  BY <1>1 DEF RebuildUsers, Present
<1>3. books' = books
  <2>1. books' = [r \in Rowids |-> books'[r]]
    BY DEF RebuildUsers
  <2>2. books = [r \in Rowids |-> books[r]]
    BY DEF TypeOK
  <2>3. QED
    BY <1>2, <2>1, <2>2
<1>4. QED
  BY <1>1, <1>3 DEF RebuildUsers

\* A statement moves no row but into identities and the index.
LEMMA StatementRows ==
    ASSUME TypeOK, RunStatement
    PROVE  /\ UNCHANGED <<users, sso, sessions, books, cache>>
           /\ identities' \in {identities, sso}
           /\ fts' = fts \/ fts' = [r \in Rowids |-> Indexed(books[r])]
<1>1. \/ UNCHANGED rows
      \/ RebuildUsers
      \/ BackfillIndex
  BY DEF RunStatement
<1>2. CASE UNCHANGED rows
  BY <1>2 DEF rows
<1>3. CASE RebuildUsers
  BY <1>3, RebuildRows
<1>4. CASE BackfillIndex
  BY <1>4 DEF BackfillIndex
<1>5. QED
  BY <1>1, <1>2, <1>3, <1>4

\* A start keeps the invariant, whichever of its steps is taken.
LEMMA StartingStep == IInv /\ Starting => IInv'
<1> SUFFICES ASSUME IInv, Starting PROVE IInv'
  OBVIOUS
<1> USE LastAssumption
<1>t. /\ TypeOK /\ Enforced /\ NothingDangles
      /\ BatchesInOrder /\ SubjectsLinked /\ IndexAgrees /\ CacheAgrees
  BY DEF IInv
<1>v. version \in 0..Last /\ stmt \in 0..4
  BY <1>t DEF TypeOK
<1>1. CASE RunStatement
  <2> DEFINE v == version + 1
  <2>a. /\ pc = "starting" /\ version < Last /\ stmt < Statements(v)
        /\ version' = version /\ cut' = cut
    BY <1>1 DEF RunStatement
  <2>b. v \in Versions /\ Statements(v) \in {1, 4}
    BY <2>a, <1>v DEF Versions, Statements
  <2>c. \/ applied[v] > stmt /\ pc' = "failed" /\ UNCHANGED <<keys, stmt, applied, rows>>
        \/ /\ applied[v] = stmt
           /\ applied' = [applied EXCEPT ![v] = stmt + 1] /\ stmt' = stmt + 1 /\ pc' = pc
           /\ keys' = KeysAfter(v)
           /\ v = 3 => RebuildUsers
           /\ v = 4 => BackfillIndex
           /\ v \notin {3, 4} => UNCHANGED rows
    BY <1>1 DEF RunStatement
  <2>d. /\ UNCHANGED <<users, sso, sessions, books, cache>>
        /\ identities' \in {identities, sso}
        /\ fts' = fts \/ fts' = [r \in Rowids |-> Indexed(books[r])]
    BY <1>1, <1>t, StatementRows
  <2>k. Enforced'
    BY <2>c, <1>t DEF Enforced, KeysAfter
  <2>n. NothingDangles'
    BY <2>d, <1>t DEF NothingDangles, TypeOK, Present
  <2>1. TypeOK'
    <3>1. fts' \in [Rowids -> AnyText \union {NoEntry}]
      <4>1. \A r \in Rowids : Indexed(books[r]) \in AnyText \union {NoEntry}
        BY <1>t DEF TypeOK, Indexed, Book
      <4>2. QED
        BY <4>1, <2>d, <1>t DEF TypeOK
    <3>2. stmt' \in 0..4 /\ applied' \in [Versions -> 0..4]
      BY <2>a, <2>b, <2>c, <1>v, <1>t DEF TypeOK
    <3>3. identities' \subseteq Users
      BY <2>d, <1>t DEF TypeOK
    <3>4. pc' \in {"down", "starting", "failed", "up"}
      BY <2>a, <2>c
    <3>5. QED
      BY <3>1, <3>2, <3>3, <3>4, <2>a, <2>d, <2>k, <1>t DEF TypeOK, Enforced
  <2>2. BatchesInOrder'
    BY <2>a, <2>b, <2>c, <1>v, <1>t DEF BatchesInOrder, TypeOK, Versions
  <2>3. SubjectsLinked'
    BY <2>c, <2>d, <1>t, <1>v, NamedBatches, RebuildRows DEF SubjectsLinked, TypeOK, rows
  <2>4. IndexAgrees'
    <3>1. CASE v = 4 /\ BackfillIndex
      BY <3>1, <2>d DEF IndexAgrees, BackfillIndex
    <3>2. CASE ~(v = 4 /\ BackfillIndex)
      <4>1. applied'[4] = applied[4] /\ fts' = fts
        BY <3>2, <2>c, <1>t, <1>v, NamedBatches, RebuildRows DEF TypeOK, rows
      <4>2. QED
        BY <4>1, <2>d, <1>t DEF IndexAgrees
    <3>3. QED
      BY <3>1, <3>2
  <2>5. CacheAgrees'
    BY <2>d, <1>t DEF CacheAgrees, Present
  <2>6. QED
    BY <2>1, <2>2, <2>3, <2>4, <2>5, <2>k, <2>n DEF IInv
<1>2. CASE SetVersion
  <2>a. /\ pc = "starting" /\ version < Last /\ stmt = Statements(version + 1)
        /\ version' = version + 1 /\ stmt' = 0 /\ UNCHANGED <<pc, keys, applied, cut>>
    BY <1>2 DEF SetVersion, VersionAfter
  <2>b. UNCHANGED rows
    BY <1>2 DEF SetVersion
  <2>1. applied[version + 1] = Statements(version + 1)
    BY <2>a, <1>t DEF BatchesInOrder, Statements
  <2>2. TypeOK'
    BY <2>a, <2>b, <1>t DEF TypeOK, rows
  <2>3. BatchesInOrder'
    BY <2>a, <2>1, <1>v, <1>t DEF BatchesInOrder, Versions, Statements
  <2>4. SubjectsLinked' /\ IndexAgrees' /\ CacheAgrees' /\ Enforced' /\ NothingDangles'
    BY <2>a, <2>b, <1>t
    DEF SubjectsLinked, IndexAgrees, CacheAgrees, Enforced, NothingDangles, Present, rows
  <2>5. QED
    BY <2>2, <2>3, <2>4 DEF IInv
<1>3. CASE Serve
  <2>1. TypeOK' /\ BatchesInOrder'
    BY <1>3, <1>t DEF Serve, TypeOK, BatchesInOrder, schema, rows, Statements
  <2>2. SubjectsLinked' /\ IndexAgrees' /\ CacheAgrees' /\ Enforced' /\ NothingDangles'
    BY <1>3, <1>t
    DEF Serve, SubjectsLinked, IndexAgrees, CacheAgrees, Enforced, NothingDangles, Present,
        schema, rows
  <2>3. QED
    BY <2>1, <2>2 DEF IInv
<1>4. QED
  BY <1>1, <1>2, <1>3 DEF Starting

\* So do the beginning and the end of a process.
LEMMA ProcessStep == IInv /\ (Start \/ Stop) => IInv'
<1> SUFFICES ASSUME IInv, Start \/ Stop PROVE IInv'
  OBVIOUS
<1>t. /\ TypeOK /\ Enforced /\ NothingDangles
      /\ BatchesInOrder /\ SubjectsLinked /\ IndexAgrees /\ CacheAgrees
  BY DEF IInv
<1>u. /\ UNCHANGED <<version, applied, rows>> /\ stmt' = 0 /\ pc' \in {"starting", "down"}
      /\ cut' = cut \/ (cut' = (cut \/ stmt > 0))
      /\ keys' = keys \/ keys' = TRUE
  BY DEF Start, Stop, schema
<1>1. cut' \in BOOLEAN
  BY <1>u, <1>t DEF TypeOK
<1>k. Enforced'
  BY <1>u, <1>t DEF Enforced
<1>2. TypeOK'
  BY <1>1, <1>u, <1>k, <1>t DEF TypeOK, Enforced, rows
<1>3. BatchesInOrder'
  BY <1>u, <1>t DEF BatchesInOrder, Statements
<1>4. SubjectsLinked' /\ IndexAgrees' /\ CacheAgrees' /\ NothingDangles'
  BY <1>u, <1>t DEF SubjectsLinked, IndexAgrees, CacheAgrees, NothingDangles, Present, rows
<1>5. QED
  BY <1>2, <1>3, <1>4, <1>k DEF IInv

-----------------------------------------------------------------------------
(* Serving.                                                                *)

\* A row that is inserted is indexed as it is, and leaves the others alone.
LEMMA InsertKeeps ==
    ASSUME TypeOK, IndexAgrees, NEW r \in Rowids, NEW b \in Book, Insert(r, b)
    PROVE  /\ books' \in [Rowids -> Book \union {NoBook}]
           /\ fts' \in [Rowids -> AnyText \union {NoEntry}]
           /\ applied[4] > 0 => \A s \in Rowids : fts'[s] = Indexed(books'[s])
           /\ books[r] = NoBook
           /\ \A s \in Rowids : books'[s] = IF s = r THEN b ELSE books[s]
<1>1. Indexed(b) \in AnyText \union {NoEntry}
  BY DEF Indexed, Book
<1>2. QED
  BY <1>1 DEF TypeOK, IndexAgrees, Insert, Present

\* Rows that are deleted leave the index.
LEMMA DeleteKeeps ==
    ASSUME TypeOK, IndexAgrees, CacheAgrees, NEW R, DeleteRows(R)
    PROVE  /\ books' \in [Rowids -> Book \union {NoBook}]
           /\ fts' \in [Rowids -> AnyText \union {NoEntry}]
           /\ applied[4] > 0 => \A s \in Rowids : fts'[s] = Indexed(books'[s])
           /\ \A s \in Rowids : books'[s] # NoBook => books'[s] = books[s]
BY DEF TypeOK, IndexAgrees, DeleteRows, Unindexed, Indexed

\* Serving keeps the invariant.
LEMMA ServingStep == IInv /\ Serving => IInv'
<1> SUFFICES ASSUME IInv, Serving PROVE IInv'
  OBVIOUS
<1>t. /\ TypeOK /\ Enforced /\ NothingDangles
      /\ BatchesInOrder /\ SubjectsLinked /\ IndexAgrees /\ CacheAgrees
  BY DEF IInv
<1>none. "none" \notin Engines
  BY DEF Engines
<1>c. \A r \in Rowids : Present(r) /\ books[r].work \in Works =>
          Cached(books[r].work) = cache[books[r].work]
  <2> SUFFICES ASSUME NEW r \in Rowids, Present(r), books[r].work \in Works
               PROVE  Cached(books[r].work) = cache[books[r].work]
    OBVIOUS
  <2>1. books[r] \in Book
    BY <1>t DEF TypeOK, Present
  <2>2. cache[books[r].work] \in Engines
    BY <2>1, <1>t DEF CacheAgrees, Book
  <2>3. QED
    BY <2>2, <1>none DEF Cached
<1>e. \A w \in Works : Cached(w) \in Engines
  BY <1>t DEF TypeOK, Cached, Engines
<1>1. ASSUME NEW u \in Users, SignUp(u) PROVE IInv'
  BY <1>1, <1>t DEF SignUp, IInv, TypeOK, BatchesInOrder, SubjectsLinked, IndexAgrees,
                    CacheAgrees, Enforced, NothingDangles, Present, Statements, schema
<1>2. ASSUME NEW u \in Users, NEW r \in Rowids, NEW t \in Texts, Upload(u, r, t) PROVE IInv'
  <2> DEFINE b == [owner |-> u, work |-> NoWork, text |-> t, engine |-> "this"]
  <2>1. b \in Book
    BY DEF Book, AnyText, Engines
  <2>2. Insert(r, b) /\ UNCHANGED <<pc, keys, stmt, schema, users, sso, identities, sessions, cache>>
    BY <1>2 DEF Upload
  <2> HIDE DEF b
  <2>3. /\ books' \in [Rowids -> Book \union {NoBook}]
        /\ fts' \in [Rowids -> AnyText \union {NoEntry}]
        /\ applied[4] > 0 => \A s \in Rowids : fts'[s] = Indexed(books'[s])
        /\ \A s \in Rowids : books'[s] = IF s = r THEN b ELSE books[s]
    BY <2>1, <2>2, <1>t, InsertKeeps
  <2>4. TypeOK' /\ BatchesInOrder' /\ SubjectsLinked' /\ IndexAgrees'
    BY <2>2, <2>3, <1>t DEF TypeOK, BatchesInOrder, SubjectsLinked, IndexAgrees, Statements, schema
  <2>5. b.work \notin Works
    BY WorkAssumption DEF b
  <2>6. CacheAgrees'
    BY <2>2, <2>3, <2>5, <1>t DEF CacheAgrees, Present
  <2>7. b.owner \in users
    BY <1>2 DEF b, Upload
  <2>8. Enforced' /\ NothingDangles'
    BY <2>2, <2>3, <2>7, <1>t DEF Enforced, NothingDangles, Present
  <2>9. QED
    BY <2>4, <2>6, <2>8 DEF IInv
<1>3. ASSUME NEW u \in Users, NEW r \in Rowids, NEW w \in Works, AddWork(u, r, w) PROVE IInv'
  <2> DEFINE b == [owner |-> u, work |-> w, text |-> w, engine |-> Cached(w)]
  <2>1. b \in Book /\ b.work = w /\ b.engine = Cached(w) /\ b.owner = u /\ u \in users
    BY <1>3, <1>e DEF Book, AnyText, AddWork
  <2>2. /\ Insert(r, b) /\ UNCHANGED <<pc, keys, stmt, schema, users, sso, identities, sessions>>
        /\ cache' = [cache EXCEPT ![w] = Cached(w)]
    BY <1>3 DEF AddWork
  <2> HIDE DEF b
  <2>3. /\ books' \in [Rowids -> Book \union {NoBook}]
        /\ fts' \in [Rowids -> AnyText \union {NoEntry}]
        /\ applied[4] > 0 => \A s \in Rowids : fts'[s] = Indexed(books'[s])
        /\ \A s \in Rowids : books'[s] = IF s = r THEN b ELSE books[s]
    BY <2>1, <2>2, <1>t, InsertKeeps
  <2>4. cache' \in [Works -> Engines \union {"none"}]
    BY <2>2, <1>e, <1>t DEF TypeOK
  <2>5. TypeOK' /\ BatchesInOrder' /\ SubjectsLinked' /\ IndexAgrees'
    BY <2>2, <2>3, <2>4, <1>t DEF TypeOK, BatchesInOrder, SubjectsLinked, IndexAgrees,
                                  Statements, schema
  <2>6. CacheAgrees'
    <3> SUFFICES ASSUME NEW s \in Rowids, Present(s)', books'[s].work \in Works
                 PROVE  cache'[books'[s].work] = books'[s].engine
      BY DEF CacheAgrees
    <3>1. CASE s = r
      BY <3>1, <2>1, <2>2, <2>3, <1>t DEF TypeOK
    <3>2. CASE s # r
      <4>1. books'[s] = books[s] /\ Present(s)
        BY <3>2, <2>3 DEF Present
      <4>2. cache[books[s].work] = books[s].engine /\ Cached(books[s].work) = cache[books[s].work]
        BY <4>1, <1>c, <1>t DEF CacheAgrees
      <4>3. QED
        BY <4>1, <4>2, <2>2, <1>t DEF TypeOK
    <3>3. QED
      BY <3>1, <3>2
  <2>7. Enforced' /\ NothingDangles'
    BY <2>1, <2>2, <2>3, <1>t DEF Enforced, NothingDangles, Present
  <2>8. QED
    BY <2>5, <2>6, <2>7 DEF IInv
<1>4. ASSUME ListCatalog PROVE IInv'
  <2>1. /\ cache' = [w \in Works |-> Cached(w)]
        /\ UNCHANGED <<pc, keys, stmt, schema, users, sso, identities, sessions, books, fts>>
    BY <1>4 DEF ListCatalog
  <2>2. cache' \in [Works -> Engines \union {"none"}]
    BY <2>1, <1>e
  <2>3. TypeOK' /\ BatchesInOrder' /\ SubjectsLinked' /\ IndexAgrees'
    BY <2>1, <2>2, <1>t DEF TypeOK, BatchesInOrder, SubjectsLinked, IndexAgrees, Statements, schema
  <2>4. CacheAgrees' /\ Enforced' /\ NothingDangles'
    BY <2>1, <1>c, <1>t DEF CacheAgrees, Enforced, NothingDangles, Present
  <2>5. QED
    BY <2>3, <2>4 DEF IInv
<1>5. ASSUME NEW r \in Rowids, NEW u \in Users, Update(r, u) PROVE IInv'
  <2>1. /\ books' = [books EXCEPT ![r] = [books[r] EXCEPT !.owner = u]]
        /\ fts' = [fts EXCEPT ![r] = Indexed(books[r])]
        /\ Present(r)
        /\ UNCHANGED <<pc, keys, stmt, schema, users, sso, identities, sessions, cache>>
    BY <1>5 DEF Update
  <2>2. books[r] \in Book /\ books[r] # NoBook
    BY <2>1, <1>t DEF TypeOK, Present
  <2> DEFINE b == [books[r] EXCEPT !.owner = u]
  <2>3. b \in Book /\ b.work = books[r].work /\ b.engine = books[r].engine /\ b.text = books[r].text
        /\ b.owner = u /\ u \in users
    BY <1>5, <2>2 DEF Book, Update
  <2>4. \A s \in Rowids : books'[s] = IF s = r THEN b ELSE books[s]
    BY <2>1, <1>t DEF TypeOK
  <2> HIDE DEF b
  <2>5. /\ books' \in [Rowids -> Book \union {NoBook}]
        /\ fts' \in [Rowids -> AnyText \union {NoEntry}]
    <3>1. Indexed(books[r]) \in AnyText \union {NoEntry}
      BY <2>2 DEF Indexed, Book
    <3>2. books' = [books EXCEPT ![r] = b]
      BY <2>1 DEF b
    <3>3. QED
      BY <3>1, <3>2, <2>1, <2>3, <1>t DEF TypeOK
  <2>6. TypeOK' /\ BatchesInOrder' /\ SubjectsLinked'
    BY <2>1, <2>5, <1>t DEF TypeOK, BatchesInOrder, SubjectsLinked, Statements, schema
  <2>7. CacheAgrees'
    BY <2>1, <2>2, <2>3, <2>4, <1>t DEF CacheAgrees, Present
  <2>8. Indexed(books[r]) = books[r].text
    BY <2>2 DEF Indexed
  <2>9. Indexed(b) = books[r].text
    BY <2>3, BookAssumption DEF Indexed
  <2>10. IndexAgrees'
    BY <2>1, <2>4, <2>8, <2>9, <1>t DEF IndexAgrees, TypeOK, schema
  <2>11. Enforced' /\ NothingDangles'
    BY <2>1, <2>3, <2>4, <1>t DEF Enforced, NothingDangles, Present
  <2>12. QED
    BY <2>6, <2>7, <2>10, <2>11 DEF IInv
<1>6. ASSUME NEW r \in Rowids, Purge(r) PROVE IInv'
  <2>1. DeleteRows({r}) /\ UNCHANGED <<pc, keys, stmt, schema, users, sso, identities, sessions, cache>>
    BY <1>6 DEF Purge
  <2>2. /\ books' \in [Rowids -> Book \union {NoBook}]
        /\ fts' \in [Rowids -> AnyText \union {NoEntry}]
        /\ applied[4] > 0 => \A s \in Rowids : fts'[s] = Indexed(books'[s])
        /\ \A s \in Rowids : books'[s] # NoBook => books'[s] = books[s]
    BY <2>1, <1>t, DeleteKeeps
  <2>3. QED
    BY <2>1, <2>2, <1>t DEF IInv, TypeOK, BatchesInOrder, SubjectsLinked, IndexAgrees,
                            CacheAgrees, Enforced, NothingDangles, Present, Statements, schema
<1>7. ASSUME NEW u \in Users, Erase(u) PROVE IInv'
  <2>1. /\ DeleteRows({r \in Rowids : Present(r) /\ books[r].owner = u})
        /\ users' = users \ {u} /\ sso' = sso \ {u}
        /\ identities' = identities \ {u} /\ sessions' = sessions \ {u}
        /\ UNCHANGED <<pc, keys, stmt, schema, cache>>
    BY <1>7, <1>t DEF Erase, Enforced
  <2>2. /\ books' \in [Rowids -> Book \union {NoBook}]
        /\ fts' \in [Rowids -> AnyText \union {NoEntry}]
        /\ applied[4] > 0 => \A s \in Rowids : fts'[s] = Indexed(books'[s])
        /\ \A s \in Rowids : books'[s] # NoBook => books'[s] = books[s]
    BY <2>1, <1>t, DeleteKeeps
  <2>d. Enforced' /\ NothingDangles'
    <3>1. \A s \in Rowids : books'[s] # NoBook => books[s].owner # u
      BY <2>1, <2>2, BookAssumption DEF DeleteRows, Present
    <3>2. \A s \in Rowids : books'[s] # NoBook => books'[s].owner \in users'
      BY <2>1, <2>2, <3>1, <1>t DEF NothingDangles, Present
    <3>3. QED
      BY <2>1, <3>2, <1>t DEF Enforced, NothingDangles, Present
  <2>3. TypeOK' /\ BatchesInOrder' /\ SubjectsLinked'
    BY <2>1, <2>2, <1>t DEF TypeOK, BatchesInOrder, SubjectsLinked, Statements, schema
  <2>4. IndexAgrees' /\ CacheAgrees'
    BY <2>1, <2>2, <1>t DEF IndexAgrees, CacheAgrees, Present, schema
  <2>5. QED
    BY <2>3, <2>4, <2>d DEF IInv
<1>8. QED
  BY <1>1, <1>2, <1>3, <1>4, <1>5, <1>6, <1>7 DEF Serving

-----------------------------------------------------------------------------
(* The theorems.                                                           *)

\* The invariant holds throughout.
LEMMA Invariance == Spec => []IInv
<1>1. IInv /\ [Next]_vars => IInv'
  <2> SUFFICES ASSUME IInv, [Next]_vars PROVE IInv'
    OBVIOUS
  <2>1. CASE UNCHANGED vars
    BY <2>1 DEF IInv, vars, schema, rows, TypeOK, BatchesInOrder, SubjectsLinked, IndexAgrees,
                CacheAgrees, Enforced, NothingDangles, Present, Statements
  <2>2. CASE Next
    BY <2>2, StartingStep, ProcessStep, ServingStep DEF Next
  <2>3. QED
    BY <2>1, <2>2
<1>2. QED
  BY <1>1, InitIInv, PTL DEF Spec

\* The process, the schema and the rows keep their types.
THEOREM TypeCorrect == Spec => []TypeOK
<1>1. IInv => TypeOK
  BY DEF IInv
<1>2. QED
  BY <1>1, Invariance, PTL

\* ServesWhole: a server that serves has every statement of every batch behind it,
\* and every subject of the single issuer is an identity.
THEOREM ServersAreWhole == Spec => []ServesWhole
<1>1. IInv => ServesWhole
  <2> SUFFICES ASSUME IInv, pc = "up"
               PROVE  (\A v \in Versions : applied[v] = Statements(v)) /\ sso \subseteq identities
    BY DEF ServesWhole
  <2>1. \A v \in Versions : applied[v] = Statements(v)
    BY LastAssumption DEF IInv, BatchesInOrder, Versions
  <2>2. applied[3] > 0
    BY <2>1, NamedBatches DEF Statements
  <2>3. QED
    BY <2>1, <2>2 DEF IInv, SubjectsLinked
<1>2. QED
  BY <1>1, Invariance, PTL

\* UpgradeKeepsRows: a start takes no user, session or book along, the one that drops
\* and rebuilds the table of users while keys are off included.
THEOREM UpgradesKeepRows == Spec => UpgradeKeepsRows
<1>1. IInv /\ [Next]_vars => [pc = "starting" => UNCHANGED <<users, sso, sessions, books>>]_vars
  <2> SUFFICES ASSUME IInv, [Next]_vars, pc = "starting"
               PROVE  UNCHANGED <<users, sso, sessions, books>>
    OBVIOUS
  <2>1. CASE UNCHANGED vars
    BY <2>1 DEF vars, rows
  <2>2. CASE RunStatement
    BY <2>2, StatementRows DEF IInv
  <2>3. CASE SetVersion \/ Serve \/ Stop
    BY <2>3 DEF SetVersion, Serve, Stop, rows
  <2>4. ~Start /\ ~Serving
    BY DEF Start, Serving, SignUp, Erase, Update, Upload, AddWork, Purge, ListCatalog
  <2>5. QED
    BY <2>1, <2>2, <2>3, <2>4 DEF Next, Starting
<1>2. QED
  BY <1>1, Invariance, PTL DEF Spec, UpgradeKeepsRows

\* NothingDangles: no session, identity or book is left with a user who is gone, by the
\* rebuild of the table of users or by an erasure after it.
THEOREM ReferencesHold == Spec => []NothingDangles
<1>1. IInv => NothingDangles
  BY DEF IInv
<1>2. QED
  BY <1>1, Invariance, PTL

\* IndexAgrees: the full-text index holds what the rows say, whatever rows are
\* inserted, updated, deleted by hand or by a cascade, and whatever rowids are reused.
THEOREM IndexIsTrue == Spec => []IndexAgrees
<1>1. IInv => IndexAgrees
  BY DEF IInv
<1>2. QED
  BY <1>1, Invariance, PTL

\* CopiesAlign: all copies of a work have the timeline that the cache has of it.
THEOREM CopiesAreAligned == Spec => []CopiesAlign
<1>1. IInv => CopiesAlign
  BY DEF IInv, CacheAgrees, CopiesAlign
<1>2. QED
  BY <1>1, Invariance, PTL
=============================================================================

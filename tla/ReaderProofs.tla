----------------------------- MODULE ReaderProofs ----------------------------
(***************************************************************************)
(* Machine-checked proofs about what a reader keeps.                       *)
(*                                                                         *)
(* Library, for any guests, accounts, files and ids: a merge that is       *)
(* committed leaves one live copy of each work it touched, at the furthest *)
(* position any copy had, whichever of them survives; and an upload or an  *)
(* import makes one copy.  The argument: a row belongs to a user who is    *)
(* still here, so what a merge moves or trashes is what the two owned; the *)
(* copies of a work are finitely many, so one of them is furthest, and the *)
(* pass of a merge keeps that one.                                         *)
(*                                                                         *)
(* Reading, for any days, goals, caps and clients: the lifetime pace stays *)
(* under its cap; midnight turns to the next date of the Gregorian         *)
(* calendar and carries a streak over or ends it; and what the scan and    *)
(* the walk back find are the longest runs of days.  The argument:         *)
(* DaysFromCivil and CivilFromDays are inverse to each other on the dates  *)
(* of the calendar and keep their order, so the sorted rows are a rising   *)
(* sequence of days, on which a run is what its last gap says it is.       *)
(*                                                                         *)
(* Timeline, for any tokens, caps, page sizes and precision of an f32:     *)
(* splitting a token loses no character and leaves no stub; a normalized   *)
(* document keeps the pace it was given, up to what its sum rounds away    *)
(* and half a unit for each token; and the timeline, GET /text and the     *)
(* pages of get_book_text show the same words.  The argument: each view is *)
(* a flattening, and two of them after each other flatten both; the loops  *)
(* over tokens, paragraphs and pages are inductions along their sequences, *)
(* the one over the chunks of a token runs from its last character to its  *)
(* first; and a sum that is rounded after each term is off by a share of   *)
(* it for each.                                                            *)
(***************************************************************************)
EXTENDS Library, Reading, Timeline, Integers, FiniteSetTheorems, SequenceTheorems,
        WellFoundedInduction, TLAPS

-----------------------------------------------------------------------------
\* A set of naturals that has a member has a least one.
LEMMA LeastNatural ==
    ASSUME NEW T \in SUBSET Nat, T # {}
    PROVE  \E x \in T : \A y \in T : x <= y
<1>1. \E x \in T : \A y \in T : ~(<<y, x>> \in OpToRel(<, Nat))
  BY NatLessThanWellFounded, WFMin, Zenon
<1>2. PICK x \in T : \A y \in T : ~(<<y, x>> \in OpToRel(<, Nat))
  BY <1>1, Zenon
<1>3. \A y \in T : x \in Nat /\ y \in Nat /\ ~(y < x)
  BY <1>2 DEF OpToRel
<1>4. \A y \in T : x <= y
  BY <1>3
<1> QED
  BY <1>4

\* A bounded one has a greatest.
LEMMA GreatestNatural ==
    ASSUME NEW T \in SUBSET Nat, T # {}, NEW n \in Nat, \A x \in T : x <= n
    PROVE  \E x \in T : \A y \in T : y <= x
<1> DEFINE U == {n - x : x \in T}
<1>1. \A x \in T : x \in Nat /\ n - x \in Nat
  OBVIOUS
<1>2. U \in SUBSET Nat
  BY <1>1
<1>3. PICK u \in U : \A v \in U : u <= v
  <2> HIDE DEF U
  <2>1. U # {}
    BY DEF U
  <2> QED
    BY <1>2, <2>1, LeastNatural
<1>4. PICK x \in T : u = n - x
  BY <1>3
<1>5. \A y \in T : n - x <= n - y
  BY <1>3, <1>4
<1>6. \A y \in T : y <= x
  BY <1>1, <1>5
<1> QED
  BY <1>6

-----------------------------------------------------------------------------

\* Whoever has a row is there to have it: it goes with a merged guest, and who
\* has not signed up has none.
OwnersAreHere == \A id \in Rows : Here(books[id].user)

IInv == TypeOK /\ OwnersAreHere

\* The kinds of the works are apart.
LEMMA WorkNames ==
    /\ Slugs \subseteq Works
    /\ "intro" \notin Slugs /\ "own" \notin Slugs
BY LibraryAssumption DEF Slugs, Works

\* What the table holds of a row.
LEMMA RowType ==
    ASSUME TypeOK, NEW id \in Rows
    PROVE  /\ id \in Ids /\ books[id] \in Book /\ books[id] # NoBook
           /\ books[id].user \in Users /\ books[id].position \in 0..WordCount
BY DEF TypeOK, Rows, Book

\* The rows of one catalog work or of the intro are finitely many.
LEMMA CopiesFinite ==
    ASSUME NEW work \in Works \ {"own"}
    PROVE  IsFiniteSet({id \in Ids : id[1] = work})
<1> DEFINE all == {id \in Ids : id[1] = work}
<1>1. all \subseteq {work} \X (1..MaxCopies)
  BY WorkNames DEF Ids
<1>2. IsFiniteSet(1..MaxCopies)
  <2>1. 1 \in Int /\ MaxCopies \in Int
    BY LibraryAssumption
  <2> QED
    BY <2>1, FS_Interval
<1>3. IsFiniteSet({work} \X (1..MaxCopies))
  BY <1>2, FS_Singleton, FS_Product
<1> QED
  BY <1>1, <1>3, FS_Subset

\* Copies are among them, before and after a step.
LEMMA CopiesCount ==
    ASSUME NEW work \in Works \ {"own"}, NEW S, NEW T,
           S \subseteq T, T \subseteq {id \in Ids : id[1] = work}
    PROVE  /\ IsFiniteSet(S) /\ IsFiniteSet(T)
           /\ Cardinality(S) \in Nat /\ Cardinality(T) \in Nat
           /\ Cardinality(S) <= Cardinality(T)
<1>1. IsFiniteSet(T)
  BY CopiesFinite, FS_Subset
<1> QED
  BY <1>1, FS_Subset, FS_CardinalityType

-----------------------------------------------------------------------------
(* What a step does to the rows.                                           *)

\* A merge gives the target what either had and was not dropped.
LEMMA MergedRows ==
    ASSUME TypeOK, NEW g \in Users, NEW m \in Users, Merge(g, m)
    PROVE  LET outread == Outread(g, m)
               dropped == DroppedIntros(g, m) \union outread \union Superseded(g, m, outread)
           IN  /\ g # m
               /\ Rows' = Rows \ dropped
               /\ \A id \in Rows' : books'[id] = IF id \in Of(g) THEN Moved(books[id], m)
                                                 ELSE books[id]
               /\ Of(m)' = (Of(m) \union Of(g)) \ dropped
<1> DEFINE outread == Outread(g, m)
           dropped == DroppedIntros(g, m) \union outread \union Superseded(g, m, outread)
<1>1. /\ g # m
      /\ books' = [id \in Ids |->
                        IF id \in dropped THEN NoBook
                        ELSE IF id \in Of(g) THEN Moved(books[id], m)
                        ELSE books[id]]
  BY DEF Merge
<1> HIDE DEF dropped
<1>2. \A id \in Of(g) : Moved(books[id], m) \in Book /\ Moved(books[id], m).user = m
  BY RowType DEF Moved, Of, Book
<1>3. Rows' = Rows \ dropped
  BY <1>1, <1>2, NoBookAssumption DEF Rows, Of
<1>4. \A id \in Rows' : books'[id] = IF id \in Of(g) THEN Moved(books[id], m) ELSE books[id]
  BY <1>1, <1>3 DEF Rows
<1>5. Of(m)' = (Of(m) \union Of(g)) \ dropped
  BY <1>2, <1>3, <1>4 DEF Of
<1> QED
  BY <1>1, <1>3, <1>4, <1>5 DEF dropped

\* ... work by work: of the intro, what is not in its way; of a catalog work,
\* what is neither outread nor superseded.
LEMMA MergedCopies ==
    ASSUME TypeOK, NEW g \in Users, NEW m \in Users, Merge(g, m)
    PROVE  /\ Copies(m, "intro")' = (Copies(m, "intro") \union Copies(g, "intro"))
                                        \ DroppedIntros(g, m)
           /\ \A slug \in Slugs :
                Copies(m, slug)' = (Copies(m, slug) \ Outread(g, m)) \union
                    IF Copies(m, slug) \ Outread(g, m) = {} THEN Copies(g, slug) ELSE {}
<1> DEFINE outread == Outread(g, m)
<1>1. Of(m)' = (Of(m) \union Of(g))
                  \ (DroppedIntros(g, m) \union outread \union Superseded(g, m, outread))
  BY MergedRows
<1>2. DroppedIntros(g, m) \subseteq Copies(g, "intro")
  BY DEF DroppedIntros
<1>3. \A id \in outread : id \in Of(m) /\ id[1] \in Slugs
  BY DEF Outread
<1>4. \A id : id \in Superseded(g, m, outread) <=>
                id \in Of(g) /\ id[1] \in Slugs /\ Copies(m, id[1]) \ outread # {}
  BY DEF Superseded
<1>5. Of(g) \intersect Of(m) = {}
  BY MergedRows DEF Of
<1>6. Copies(m, "intro")' = (Copies(m, "intro") \union Copies(g, "intro")) \ DroppedIntros(g, m)
  BY <1>1, <1>2, <1>3, <1>4, WorkNames DEF Copies
<1>7. ASSUME NEW slug \in Slugs
      PROVE  Copies(m, slug)' = (Copies(m, slug) \ outread) \union
                    IF Copies(m, slug) \ outread = {} THEN Copies(g, slug) ELSE {}
  <2>1. \A id \in DroppedIntros(g, m) : id[1] # slug
    BY <1>2, WorkNames DEF Copies
  <2>2. \A id \in Of(m) : id[1] = slug => (id \in Of(m)' <=> id \notin outread)
    BY <1>1, <1>4, <1>5, <2>1
  <2>3. \A id \in Of(g) : id[1] = slug => (id \in Of(m)' <=> Copies(m, slug) \ outread = {})
    BY <1>1, <1>3, <1>4, <1>5, <2>1
  <2>4. Of(m)' \subseteq Of(m) \union Of(g)
    BY <1>1
  <2> QED
    BY <2>2, <2>3, <2>4 DEF Copies
<1> QED
  BY <1>6, <1>7

\* Only Insert makes rows, unread and live, for its user, as many as it counts.
LEMMA InsertedRows ==
    ASSUME TypeOK, NEW u \in Users, NEW new \in [Works -> Nat], Insert(u, new)
    PROVE  /\ \A id \in Rows' : IF id \in Rows THEN books'[id] = books[id]
                                ELSE books'[id] = [user |-> u, position |-> 0, bin |-> "live"]
           /\ \A slug \in Slugs :
                Cardinality({id \in Ids : id[1] = slug /\ id \in Rows' \ Rows}) <= new[slug]
<1> DEFINE free(w) == {id \in Ids \ Rows : id[1] = w}
           taken == {id \in Ids \ Rows :
                         Cardinality({x \in free(id[1]) : x[2] <= id[2]}) <= new[id[1]]}
<1>1. books' = [id \in Ids |->
                    IF id \in taken THEN [user |-> u, position |-> 0, bin |-> "live"]
                    ELSE books[id]]
  BY DEF Insert
<1>2. \A id \in Rows' : IF id \in Rows THEN books'[id] = books[id]
                        ELSE /\ id \in taken
                             /\ books'[id] = [user |-> u, position |-> 0, bin |-> "live"]
  <2> HIDE DEF taken
  <2>1. taken \intersect Rows = {}
    BY DEF taken
  <2> QED
    BY <1>1, <2>1 DEF Rows
<1>3. ASSUME NEW slug \in Slugs
      PROVE  Cardinality({id \in Ids : id[1] = slug /\ id \in Rows' \ Rows}) <= new[slug]
  <2> DEFINE made == {id \in Ids : id[1] = slug /\ id \in Rows' \ Rows}
             places == {id[2] : id \in made}
  <2>1. slug \in Works \ {"own"} /\ new[slug] \in Nat
    BY WorkNames
  <2>2. made \subseteq taken /\ made \subseteq free(slug)
    BY <1>2 DEF Rows
  <2>3. \A id \in made : id[2] \in 1..MaxCopies
    BY WorkNames DEF Ids
  <2>4. CASE made = {}
    BY <2>1, <2>4, FS_EmptySet
  <2>5. CASE made # {}
    <3>1. places \in SUBSET Nat /\ places # {} /\ \A x \in places : x <= MaxCopies
      BY <2>3, <2>5, LibraryAssumption
    <3>2. PICK last \in made : \A id \in made : id[2] <= last[2]
      <4> HIDE DEF made
      <4>1. \E x \in places : \A y \in places : y <= x
        BY <3>1, GreatestNatural, LibraryAssumption
      <4> QED
        BY <4>1
    <3>3. made \subseteq {x \in free(slug) : x[2] <= last[2]}
      BY <2>2, <3>2
    <3>4. last[1] = slug /\ last \in taken
      BY <2>2, <3>2
    <3>5. Cardinality({x \in free(slug) : x[2] <= last[2]}) <= new[slug]
      BY <3>4
    <3>6. /\ Cardinality(made) <= Cardinality({x \in free(slug) : x[2] <= last[2]})
          /\ Cardinality(made) \in Nat
          /\ Cardinality({x \in free(slug) : x[2] <= last[2]}) \in Nat
      <4>1. {x \in free(slug) : x[2] <= last[2]} \subseteq {id \in Ids : id[1] = slug}
        OBVIOUS
      <4> HIDE DEF made, free
      <4> QED
        BY <2>1, <3>3, <4>1, CopiesCount
    <3> QED
      BY <2>1, <3>5, <3>6
  <2> QED
    BY <2>4, <2>5
<1> QED
  BY <1>2, <1>3

\* Reading, the trash bin and time make no row and change no row's owner.
LEMMA KeptRows ==
    ASSUME TypeOK,
           (\E u \in Users : Keep(u)) \/ (\E id \in Ids : Age(id))
    PROVE  /\ kind' = kind
           /\ books' \in [Ids -> Book \union {NoBook}]
           /\ Rows' \subseteq Rows
           /\ \A id \in Rows' : books'[id].user = books[id].user
<1> DEFINE Kept == /\ kind' = kind
                   /\ books' \in [Ids -> Book \union {NoBook}]
                   /\ Rows' \subseteq Rows
                   /\ \A id \in Rows' : books'[id].user = books[id].user
<1>1. ASSUME NEW id \in Rows, NEW b \in Book, b.user = books[id].user,
             books' = [books EXCEPT ![id] = b], kind' = kind
      PROVE  Kept
  <2>1. \A x \in Ids : books'[x] = IF x = id THEN b ELSE books[x]
    BY <1>1 DEF TypeOK
  <2>2. books' \in [Ids -> Book \union {NoBook}]
    BY <1>1 DEF TypeOK
  <2> QED
    BY <1>1, <2>1, <2>2 DEF Rows
<1>2. ASSUME NEW gone, books' = Without(gone), kind' = kind
      PROVE  Kept
  BY <1>2 DEF Without, TypeOK, Rows
<1>3. ASSUME NEW u \in Users, NEW id \in Ids, NEW p \in 0..(WordCount + 1), SetPosition(u, id, p)
      PROVE  Kept
  <2>1. id \in Rows /\ books' = [books EXCEPT ![id] = [books[id] EXCEPT !.position = p]]
    BY <1>3 DEF SetPosition, Live, Of
  <2>2. p \in 0..WordCount
    BY <1>3, LibraryAssumption DEF SetPosition, InBook
  <2>3. /\ [books[id] EXCEPT !.position = p] \in Book
        /\ [books[id] EXCEPT !.position = p].user = books[id].user
    BY <2>1, <2>2, RowType DEF Book
  <2> QED
    BY <1>1, <1>3, <2>1, <2>3 DEF SetPosition
<1>4. ASSUME NEW id \in Rows, NEW stage \in {"live", "trashed", "overdue"},
             books' = [books EXCEPT ![id].bin = stage], kind' = kind
      PROVE  Kept
  <2>1. /\ [books[id] EXCEPT !.bin = stage] \in Book
        /\ [books[id] EXCEPT !.bin = stage].user = books[id].user
    BY RowType DEF Book
  <2>2. books' = [books EXCEPT ![id] = [books[id] EXCEPT !.bin = stage]]
    BY <1>4
  <2> QED
    BY <1>1, <1>4, <2>1, <2>2
<1>5. ASSUME NEW u \in Users, NEW id \in Ids, Trash(u, id)
      PROVE  Kept
  <2>1. id \in Rows /\ books[id].bin = "live" /\ id \notin Swept(u)
    BY <1>5 DEF Trash, Live, Of, Swept
  <2> DEFINE b == [books[id] EXCEPT !.bin = "trashed"]
  <2>2. b \in Book /\ b.user = books[id].user
    BY <2>1, RowType DEF Book
  <2>3. Without(Swept(u))[id] = books[id]
    BY <2>1 DEF Without, Rows
  <2>4. books' = [Without(Swept(u)) EXCEPT ![id] = b]
    BY <1>5, <2>3 DEF Trash
  <2>5. \A x \in Ids : books'[x] = IF x = id THEN b
                                   ELSE IF x \in Swept(u) THEN NoBook ELSE books[x]
    <3> HIDE DEF b
    <3> QED
      BY <2>1, <2>4 DEF Without
  <2>6. books' \in [Ids -> Book \union {NoBook}]
    <3>1. Without(Swept(u)) \in [Ids -> Book \union {NoBook}]
      BY DEF Without, TypeOK
    <3> HIDE DEF b
    <3> QED
      BY <2>2, <2>4, <3>1
  <2>7. Rows' \subseteq Rows
    BY <2>1, <2>5 DEF Rows
  <2>8. \A x \in Rows' : books'[x].user = books[x].user
    <3> HIDE DEF b
    <3> QED
      BY <2>1, <2>2, <2>5 DEF Rows
  <2> QED
    BY <1>5, <2>6, <2>7, <2>8 DEF Trash
<1>6. ASSUME NEW u \in Users, ListTrash(u)
      PROVE  Kept
  BY <1>2, <1>6 DEF ListTrash
<1>7. ASSUME NEW u \in Users, NEW id \in Ids, Restore(u, id)
      PROVE  Kept
  BY <1>4, <1>7 DEF Restore, Of
<1>8. ASSUME NEW u \in Users, NEW id \in Ids, Purge(u, id)
      PROVE  Kept
  BY <1>2, <1>8 DEF Purge
<1>9. ASSUME NEW id \in Ids, Age(id)
      PROVE  Kept
  BY <1>4, <1>9 DEF Age
<1> QED
  BY <1>3, <1>5, <1>6, <1>7, <1>8, <1>9 DEF Keep

\* What an adding step inserts, and for whom.
LEMMA AddInserts ==
    ASSUME TypeOK, NEW u \in Users, Add(u)
    PROVE  \E new \in [Works -> Nat] :
              /\ Insert(u, new)
              /\ \/ /\ kind[u] = "none"
                    /\ kind' \in {[kind EXCEPT ![u] = "guest"], [kind EXCEPT ![u] = "member"]}
                    /\ \A slug \in Slugs : new[slug] <= 1
                 \/ /\ Here(u) /\ kind' = kind
                    /\ \A slug \in Slugs :
                          /\ HasLiveCopy(u, slug) => new[slug] = 0
                          /\ new[slug] <= IF kind[u] = "guest" /\ Bare(u) THEN 2 ELSE 1
<1>1. /\ Seeds(u) \in [Works -> Nat]
      /\ \A slug \in Slugs : Seeds(u)[slug] = IF HasLiveCopy(u, slug) THEN 0 ELSE 1
  BY WorkNames DEF Seeds
<1>2. Nothing \in [Works -> Nat] /\ \A w \in Works : Nothing[w] = 0
  BY DEF Nothing
<1>3. /\ GuestSeeds(u) \in [Works -> Nat]
      /\ \A slug \in Slugs :
            /\ HasLiveCopy(u, slug) => GuestSeeds(u)[slug] = 0
            /\ GuestSeeds(u)[slug] <= IF kind[u] = "guest" /\ Bare(u) THEN 1 ELSE 0
  BY <1>1, <1>2, WorkNames DEF GuestSeeds
<1>4. ASSUME NEW new \in [Works -> Nat], NEW work \in Works
      PROVE  /\ Plus(new, work) \in [Works -> Nat]
             /\ \A w \in Works : Plus(new, work)[w] = IF w = work THEN new[w] + 1 ELSE new[w]
  BY DEF Plus
<1>5. "own" \in Works /\ \A slug \in Slugs : slug \in Works /\ slug # "own"
  BY WorkNames DEF Works
<1>6. CASE SignUp(u)
  <2>1. /\ Insert(u, Seeds(u)) /\ kind[u] = "none"
        /\ kind' \in {[kind EXCEPT ![u] = "guest"], [kind EXCEPT ![u] = "member"]}
    BY <1>6 DEF SignUp
  <2>2. \A slug \in Slugs : Seeds(u)[slug] <= 1
    BY <1>1
  <2> QED
    BY <1>1, <2>1, <2>2
<1>7. ASSUME NEW k \in 0..Len(Manifest), SignUpCut(u, k)
      PROVE  \E new \in [Works -> Nat] :
                /\ Insert(u, new)
                /\ kind[u] = "none"
                /\ kind' = [kind EXCEPT ![u] = "member"]
                /\ \A slug \in Slugs : new[slug] <= 1
  <2> DEFINE kept == {"intro"} \union {Manifest[j] : j \in 1..(k - 1)}
             new == [w \in Works |-> IF k > 0 /\ w \in kept THEN 1 ELSE 0]
  <2>1. new \in [Works -> Nat] /\ \A slug \in Slugs : new[slug] <= 1
    BY <1>5
  <2>2. Insert(u, new)
    BY <1>7 DEF SignUpCut
  <2>3. kind[u] = "none" /\ kind' = [kind EXCEPT ![u] = "member"]
    BY <1>7 DEF SignUpCut
  <2> HIDE DEF new
  <2> QED
    BY <2>1, <2>2, <2>3
<1>8. ASSUME NEW slug \in Slugs, CatalogAdd(u, slug)
      PROVE  \E new \in [Works -> Nat] :
                /\ Insert(u, new)
                /\ Here(u) /\ kind' = kind
                /\ \A s \in Slugs :
                      /\ HasLiveCopy(u, s) => new[s] = 0
                      /\ new[s] <= IF kind[u] = "guest" /\ Bare(u) THEN 2 ELSE 1
  <2> DEFINE new == Plus(GuestSeeds(u), slug)
  <2>1. new \in [Works -> Nat]
    BY <1>3, <1>4, <1>5
  <2>2. Insert(u, new) /\ Here(u) /\ kind' = kind /\ ~HasLiveCopy(u, slug)
    BY <1>8 DEF CatalogAdd
  <2>3. \A s \in Slugs : new[s] = IF s = slug THEN GuestSeeds(u)[s] + 1 ELSE GuestSeeds(u)[s]
    BY <1>3, <1>4, <1>5
  <2>4. \A s \in Slugs : GuestSeeds(u)[s] \in Nat
    BY <1>3, <1>5
  <2> HIDE DEF new
  <2>5. \A s \in Slugs :
            /\ HasLiveCopy(u, s) => new[s] = 0
            /\ new[s] <= IF kind[u] = "guest" /\ Bare(u) THEN 2 ELSE 1
    BY <1>3, <2>2, <2>3, <2>4
  <2> QED
    BY <2>1, <2>2, <2>5
<1>9. ASSUME NEW new0 \in {GuestSeeds(u), Nothing}, Insert(u, Plus(new0, "own")),
             Here(u), kind' = kind
      PROVE  \E new \in [Works -> Nat] :
                /\ Insert(u, new)
                /\ \A s \in Slugs :
                      /\ HasLiveCopy(u, s) => new[s] = 0
                      /\ new[s] <= IF kind[u] = "guest" /\ Bare(u) THEN 2 ELSE 1
  <2> DEFINE new == Plus(new0, "own")
  <2>1. new0 \in [Works -> Nat]
    BY <1>2, <1>3
  <2>2. new \in [Works -> Nat] /\ \A s \in Slugs : new[s] = new0[s] /\ new0[s] \in Nat
    BY <1>4, <1>5, <2>1
  <2>3. \A s \in Slugs :
            /\ HasLiveCopy(u, s) => new0[s] = 0
            /\ new0[s] <= IF kind[u] = "guest" /\ Bare(u) THEN 1 ELSE 0
    BY <1>2, <1>3, <1>5
  <2>4. Insert(u, new)
    BY <1>9
  <2> HIDE DEF new
  <2>5. \A s \in Slugs :
            /\ HasLiveCopy(u, s) => new[s] = 0
            /\ new[s] <= IF kind[u] = "guest" /\ Bare(u) THEN 2 ELSE 1
    BY <2>2, <2>3
  <2> QED
    BY <2>2, <2>4, <2>5
<1>10. CASE Upload(u)
  BY <1>9, <1>10 DEF Upload
<1>11. CASE SharedImport(u)
  BY <1>9, <1>11 DEF SharedImport
<1> QED
  BY <1>6, <1>7, <1>8, <1>10, <1>11 DEF Add

-----------------------------------------------------------------------------
(* The invariant.                                                          *)

\* Nobody is there at first, and nothing is owned.
LEMMA LibraryInit == Init => IInv
BY DEF Init, IInv, TypeOK, OwnersAreHere, Rows

\* An insert keeps the types and puts its rows to one who is there.
LEMMA InsertKeeps ==
    ASSUME IInv, NEW u \in Users, NEW new \in [Works -> Nat], Insert(u, new),
           kind' \in [Users -> {"none", "guest", "member", "gone"}],
           Here(u)', \A v \in Users : Here(v) => Here(v)'
    PROVE  IInv'
<1>1. books' \in [Ids -> Book \union {NoBook}]
  <2>1. [user |-> u, position |-> 0, bin |-> "live"] \in Book
    BY LibraryAssumption DEF Book
  <2> QED
    BY <2>1 DEF Insert, IInv, TypeOK
<1>2. ASSUME NEW id \in Rows'
      PROVE  Here(books[id].user)'
  <2>1. IF id \in Rows THEN books'[id] = books[id]
        ELSE books'[id] = [user |-> u, position |-> 0, bin |-> "live"]
    BY InsertedRows DEF IInv
  <2>2. CASE id \in Rows
    <3>1. books[id].user \in Users /\ Here(books[id].user)
      BY <2>2, RowType DEF IInv, OwnersAreHere
    <3> QED
      BY <2>1, <2>2, <3>1
  <2>3. CASE id \notin Rows
    BY <2>1, <2>3
  <2> QED
    BY <2>2, <2>3
<1> QED
  BY <1>1, <1>2 DEF IInv, TypeOK, OwnersAreHere

\* A merge leaves the target with the rows of the one who goes.
LEMMA MergeKeeps ==
    ASSUME IInv, NEW g \in Users, NEW m \in Users, Merge(g, m)
    PROVE  IInv'
<1> DEFINE dropped == DroppedIntros(g, m) \union Outread(g, m)
                          \union Superseded(g, m, Outread(g, m))
<1>1. /\ g # m
      /\ Rows' = Rows \ dropped
      /\ \A id \in Rows' : books'[id] = IF id \in Of(g) THEN Moved(books[id], m)
                                        ELSE books[id]
  BY MergedRows DEF IInv
<1>2. \A id \in Rows : Moved(books[id], m) \in Book /\ Moved(books[id], m).user = m
  BY RowType DEF Moved, Book, IInv
<1>3. books' \in [Ids -> Book \union {NoBook}]
  BY <1>2 DEF Merge, IInv, TypeOK, Of
<1>4. kind' = [kind EXCEPT ![g] = "gone"] /\ kind[m] = "member"
  BY DEF Merge
<1>5. kind' \in [Users -> {"none", "guest", "member", "gone"}]
  BY <1>4 DEF IInv, TypeOK
<1>6. Here(m)' /\ \A v \in Users \ {g} : Here(v) => Here(v)'
  BY <1>1, <1>4 DEF IInv, TypeOK, Here
<1>7. ASSUME NEW id \in Rows'
      PROVE  Here(books[id].user)'
  <2>1. id \in Rows /\ Here(books[id].user) /\ books[id].user \in Users
    BY <1>1, RowType DEF IInv, OwnersAreHere
  <2>2. CASE id \in Of(g)
    BY <1>1, <1>2, <1>6, <2>1, <2>2
  <2>3. CASE id \notin Of(g)
    BY <1>1, <1>6, <2>1, <2>3 DEF Of
  <2> QED
    BY <2>2, <2>3
<1> QED
  BY <1>3, <1>5, <1>7 DEF IInv, TypeOK, OwnersAreHere

\* Every step keeps the invariant.
LEMMA LibraryNext == IInv /\ [Next]_vars => IInv'
<1> SUFFICES ASSUME IInv, [Next]_vars
             PROVE  IInv'
  OBVIOUS
<1>1. ASSUME NEW u \in Users, Add(u)
      PROVE  IInv'
  <2>1. PICK new \in [Works -> Nat] :
              /\ Insert(u, new)
              /\ \/ /\ kind[u] = "none"
                    /\ kind' \in {[kind EXCEPT ![u] = "guest"], [kind EXCEPT ![u] = "member"]}
                 \/ Here(u) /\ kind' = kind
    BY <1>1, AddInserts DEF IInv
  <2>2. /\ kind' \in [Users -> {"none", "guest", "member", "gone"}]
        /\ Here(u)' /\ \A v \in Users : Here(v) => Here(v)'
    BY <2>1 DEF IInv, TypeOK, Here
  <2> QED
    BY <2>1, <2>2, InsertKeeps
<1>2. CASE (\E u \in Users : Keep(u)) \/ (\E id \in Ids : Age(id))
  <2>1. /\ kind' = kind
        /\ books' \in [Ids -> Book \union {NoBook}]
        /\ Rows' \subseteq Rows
        /\ \A id \in Rows' : books'[id].user = books[id].user
    BY <1>2, KeptRows DEF IInv
  <2> QED
    BY <2>1 DEF IInv, TypeOK, OwnersAreHere, Here
<1>3. CASE UNCHANGED vars
  BY <1>3 DEF vars, IInv, TypeOK, OwnersAreHere, Rows, Here
<1> QED
  BY <1>1, <1>2, <1>3, MergeKeeps DEF Next

\* The invariant holds.
LEMMA LibraryInvariance == Spec => []IInv
BY LibraryInit, LibraryNext, PTL DEF Spec

\* Every row is a book of a user, or no row.
THEOREM LibraryTypeCorrect == Spec => []TypeOK
<1>1. IInv => TypeOK
  BY DEF IInv
<1> QED
  BY <1>1, LibraryInvariance, PTL

\* A merged guest owns nothing, so no later step can lose or revive a book of it.
THEOREM OwnersStay == Spec => []OwnersAreHere
<1>1. IInv => OwnersAreHere
  BY DEF IInv
<1> QED
  BY <1>1, LibraryInvariance, PTL

-----------------------------------------------------------------------------
(* What a merge does.                                                      *)

\* A merge loses no progress in a catalog work, of either side.
THEOREM FurthestStays == Spec => FurthestCopySurvives
<1>1. ASSUME TypeOK, NEW g \in Users, NEW m \in Users, Merge(g, m),
             NEW slug \in Slugs, NEW p \in Positions(g, slug) \union Positions(m, slug)
      PROVE  \E q \in Positions(m, slug)' : q >= p
  <2> DEFINE left == Copies(m, slug) \ Outread(g, m)
  <2>1. Copies(m, slug)' = left \union IF left = {} THEN Copies(g, slug) ELSE {}
    BY <1>1, MergedCopies
  <2>2. /\ g # m
        /\ \A id \in Rows' : books'[id] = IF id \in Of(g) THEN Moved(books[id], m)
                                          ELSE books[id]
    BY <1>1, MergedRows
  <2>3. \A id \in Copies(g, slug) \union Copies(m, slug) :
            id \in Rows /\ books[id].position \in Nat
    BY <1>1, RowType DEF Copies, Of
  <2>4. \A id \in Copies(m, slug)' : id \in Rows /\ books'[id].position = books[id].position
    <3>1. ASSUME NEW id \in Copies(m, slug)'
          PROVE  id \in Rows /\ books'[id].position = books[id].position
      <4>1. id \in Rows' /\ id \in Rows
        BY <2>1, <2>3 DEF Copies, Of
      <4>2. books[id] \in Book
        BY <1>1, <4>1, RowType
      <4>3. Moved(books[id], m).position = books[id].position
        BY <4>2 DEF Moved, Book
      <4> QED
        BY <2>2, <4>1, <4>3
    <3> QED
      BY <3>1
  <2>5. \A id \in Copies(m, slug)' : books[id].position \in Positions(m, slug)'
    BY <2>4 DEF Positions
  <2>6. \A t \in left : \A id \in Copies(g, slug) : books[t].position >= books[id].position
    <3>1. ASSUME NEW t \in left, NEW id \in Copies(g, slug)
          PROVE  ~(books[id].position > books[t].position)
      BY <3>1 DEF Outread, Copies
    <3> QED
      BY <2>3, <3>1
  <2>7. \A t \in Copies(m, slug) \ left :
            \E id \in Copies(g, slug) : books[id].position > books[t].position
    BY DEF Outread, Copies
  <2>8. PICK id \in Copies(g, slug) \union Copies(m, slug) : p = books[id].position
    BY DEF Positions
  <2>9. \E q \in Copies(m, slug)' : books[q].position >= p
    <3> HIDE DEF left
    <3>1. ASSUME NEW x \in Copies(g, slug), books[x].position >= p
          PROVE  \E q \in Copies(m, slug)' : books[q].position >= p
      <4>1. CASE left = {}
        BY <2>1, <3>1, <4>1
      <4>2. CASE left # {}
        <5>1. PICK t \in left : TRUE
          BY <4>2
        <5>2. t \in Copies(m, slug)' /\ books[t].position \in Nat /\ books[x].position \in Nat
          BY <2>1, <2>3, <5>1 DEF left
        <5>3. books[t].position >= books[x].position
          BY <2>6, <5>1
        <5>4. p \in Nat
          BY <2>3, <2>8
        <5>5. books[t].position >= p
          BY <3>1, <5>2, <5>3, <5>4
        <5> QED
          BY <5>2, <5>5
      <4> QED
        BY <4>1, <4>2
    <3>2. p \in Nat
      BY <2>3, <2>8
    <3>3. CASE id \in Copies(g, slug)
      BY <2>8, <3>1, <3>2, <3>3
    <3>4. CASE id \in left
      BY <2>1, <2>8, <3>2, <3>4
    <3>5. CASE id \in Copies(m, slug) \ left
      <4>1. PICK x \in Copies(g, slug) : books[x].position > books[id].position
        BY <2>7, <3>5
      <4>2. books[x].position \in Nat
        BY <2>3
      <4> QED
        BY <2>8, <3>1, <3>2, <4>1, <4>2
    <3> QED
      BY <2>8, <3>3, <3>4, <3>5
  <2> QED
    BY <2>5, <2>9
<1>2. IInv /\ [Next]_vars =>
        [\A g, m \in Users : Merge(g, m) =>
           \A slug \in Slugs : \A p \in Positions(g, slug) \union Positions(m, slug) :
              \E q \in Positions(m, slug)' : q >= p]_vars
  BY <1>1 DEF IInv
<1> QED
  BY <1>2, LibraryInvariance, PTL DEF Spec, FurthestCopySurvives

\* A merge adds no copies of a work that could be counted twice.
THEOREM MergesDeduplicate == Spec => MergeDeduplicates
<1>1. ASSUME TypeOK, NEW g \in Users, NEW m \in Users, Merge(g, m), NEW work \in Works \ {"own"}
      PROVE  \/ Cardinality(Copies(m, work)') <= Cardinality(Copies(m, work))
             \/ Cardinality(Copies(m, work)') <= Cardinality(Copies(g, work))
  <2>1. Copies(m, work)' \subseteq Copies(m, work) \/ Copies(m, work)' \subseteq Copies(g, work)
    <3>1. CASE work = "intro"
      BY <1>1, <3>1, MergedCopies DEF DroppedIntros
    <3>2. CASE work \in Slugs
      BY <1>1, <3>2, MergedCopies
    <3> QED
      BY <3>1, <3>2 DEF Works
  <2>2. \A u \in Users : Copies(u, work) \subseteq {id \in Ids : id[1] = work}
    BY DEF Copies, Of, Rows
  <2> QED
    BY <2>1, <2>2, CopiesCount
<1>2. IInv /\ [Next]_vars =>
        [\A g, m \in Users : Merge(g, m) =>
           \A work \in Works \ {"own"} :
                \/ Cardinality(Copies(m, work)') <= Cardinality(Copies(m, work))
                \/ Cardinality(Copies(m, work)') <= Cardinality(Copies(g, work))]_vars
  BY <1>1 DEF IInv
<1> QED
  BY <1>2, LibraryInvariance, PTL DEF Spec, MergeDeduplicates

-----------------------------------------------------------------------------
(* What adding does.                                                       *)

\* No step makes a second copy of what is on the shelf, nor two of anything else but for
\* a guest whose every book is in the trash.
THEOREM OneCopyIsMade == Spec => OneCopyPerAdd
<1> DEFINE Allowed(u, slug) == IF HasLiveCopy(u, slug) THEN 0
                               ELSE IF kind[u] = "guest" /\ Bare(u) THEN 2 ELSE 1
<1>1. ASSUME NEW u \in Users, NEW slug \in Slugs, Made(u, slug) = {}
      PROVE  Cardinality(Made(u, slug)) <= Allowed(u, slug)
  <2>1. Cardinality(Made(u, slug)) = 0
    BY <1>1, FS_EmptySet
  <2>2. Allowed(u, slug) \in {0, 1, 2}
    OBVIOUS
  <2> QED
    BY <2>1, <2>2
<1>2. \A u \in Users, slug \in Slugs :
         Made(u, slug) = {id \in Copies(u, slug)' : id \in Rows' \ Rows}
  BY DEF Made, Copies, Of, Rows
<1>3. ASSUME Rows' \subseteq Rows, NEW u \in Users, NEW slug \in Slugs
      PROVE  Cardinality(Made(u, slug)) <= Allowed(u, slug)
  <2>1. Made(u, slug) = {}
    BY <1>2, <1>3
  <2> QED
    BY <1>1, <2>1
<1>4. ASSUME IInv, NEW v \in Users, Add(v), NEW u \in Users, NEW slug \in Slugs
      PROVE  Cardinality(Made(u, slug)) <= Allowed(u, slug)
  <2>1. PICK new \in [Works -> Nat] :
              /\ Insert(v, new)
              /\ \/ kind[v] = "none" /\ \A s \in Slugs : new[s] <= 1
                 \/ \A s \in Slugs :
                          /\ HasLiveCopy(v, s) => new[s] = 0
                          /\ new[s] <= IF kind[v] = "guest" /\ Bare(v) THEN 2 ELSE 1
    BY <1>4, AddInserts DEF IInv
  <2> DEFINE fresh == {id \in Ids : id[1] = slug /\ id \in Rows' \ Rows}
  <2>2. /\ \A id \in Rows' \ Rows : books'[id] = [user |-> v, position |-> 0, bin |-> "live"]
        /\ Cardinality(fresh) <= new[slug]
    BY <1>4, <2>1, InsertedRows DEF IInv
  <2>3. CASE u # v
    <3>1. Made(u, slug) = {}
      BY <1>2, <2>2, <2>3 DEF Copies, Of
    <3> QED
      BY <1>1, <3>1
  <2>4. CASE u = v
    <3>1. Made(u, slug) \subseteq fresh
      BY <1>2 DEF Copies, Of, Rows
    <3>2. /\ Cardinality(Made(u, slug)) \in Nat /\ Cardinality(fresh) \in Nat
          /\ Cardinality(Made(u, slug)) <= Cardinality(fresh)
      <4>1. fresh \subseteq {id \in Ids : id[1] = slug} /\ slug \in Works \ {"own"}
        BY WorkNames
      <4> HIDE DEF fresh
      <4> QED
        BY <3>1, <4>1, CopiesCount
    <3>3. new[slug] \in Nat
      BY WorkNames
    <3>4. new[slug] <= Allowed(u, slug)
      <4>1. CASE kind[v] = "none" /\ \A s \in Slugs : new[s] <= 1
        <5>1. ~HasLiveCopy(v, slug)
          BY <1>4, <4>1 DEF IInv, OwnersAreHere, Here, HasLiveCopy, Live, Of
        <5> QED
          BY <2>4, <3>3, <4>1, <5>1
      <4>2. CASE \A s \in Slugs :
                    /\ HasLiveCopy(v, s) => new[s] = 0
                    /\ new[s] <= IF kind[v] = "guest" /\ Bare(v) THEN 2 ELSE 1
        BY <2>4, <3>3, <4>2
      <4> QED
        BY <2>1, <4>1, <4>2
    <3>5. Allowed(u, slug) \in Nat
      OBVIOUS
    <3> HIDE DEF fresh, Allowed
    <3> QED
      BY <2>2, <3>2, <3>3, <3>4, <3>5
  <2> QED
    BY <2>3, <2>4
<1>5. ASSUME IInv, Next, NEW u \in Users, NEW slug \in Slugs
      PROVE  Cardinality(Made(u, slug)) <= Allowed(u, slug)
  <2>1. ASSUME NEW g \in Users, NEW m \in Users, Merge(g, m)
        PROVE  Rows' \subseteq Rows
    BY <1>5, <2>1, MergedRows DEF IInv
  <2>2. CASE (\E v \in Users : Keep(v)) \/ (\E id \in Ids : Age(id))
    <3>1. Rows' \subseteq Rows
      BY <1>5, <2>2, KeptRows DEF IInv
    <3> QED
      BY <1>3, <3>1
  <2> QED
    BY <1>3, <1>4, <1>5, <2>1, <2>2 DEF Next
<1>6. IInv /\ [Next]_vars =>
        [\A u \in Users, slug \in Slugs :
           Cardinality(Made(u, slug)) <=
               IF HasLiveCopy(u, slug) THEN 0
               ELSE IF kind[u] = "guest" /\ Bare(u) THEN 2 ELSE 1]_vars
  BY <1>5
<1> QED
  BY <1>6, LibraryInvariance, PTL DEF Spec, OneCopyPerAdd

-----------------------------------------------------------------------------
(* The calendar.  Days are counted from the first of March of the year 0.  *)

\* The days before the first of March of the year y.
Since(y) == 365 * y + y \div 4 - y \div 100 + y \div 400

\* What a quotient is.
LEMMA Quotient ==
    ASSUME NEW a \in Int, NEW b \in Nat \ {0}
    PROVE  /\ a \div b \in Int
           /\ b * (a \div b) <= a
           /\ a < b * (a \div b) + b
OBVIOUS

\* It is the only such number.
LEMMA QuotientIs ==
    ASSUME NEW a \in Int, NEW b \in Nat \ {0}, NEW q \in Int, b * q <= a, a < b * q + b
    PROVE  a \div b = q
OBVIOUS

\* The remainder is the rest.
LEMMA Remainder ==
    ASSUME NEW a \in Int, NEW b \in Nat \ {0}
    PROVE  a % b \in Int /\ a % b = a - b * (a \div b)
OBVIOUS

\* The quotients in Since.
Parts(y, e, f, g) ==
    /\ 4 * e <= y /\ y < 4 * e + 4
    /\ 100 * f <= y /\ y < 100 * f + 100
    /\ 400 * g <= y /\ y < 400 * g + 400
    /\ Since(y) = 365 * y + e - f + g

\* There are such.
LEMMA SinceIs ==
    ASSUME NEW y \in Int
    PROVE  \E e, f, g \in Int : Parts(y, e, f, g)
<1>1. /\ y \div 4 \in Int /\ 4 * (y \div 4) <= y /\ y < 4 * (y \div 4) + 4
      /\ y \div 100 \in Int /\ 100 * (y \div 100) <= y /\ y < 100 * (y \div 100) + 100
      /\ y \div 400 \in Int /\ 400 * (y \div 400) <= y /\ y < 400 * (y \div 400) + 400
  BY Quotient
<1> QED
  BY <1>1 DEF Since, Parts

\* A year is long when its last February has a 29th.
LEMMA YearLength ==
    ASSUME NEW y \in Int
    PROVE  /\ Since(y) \in Int /\ Since(y + 1) \in Int
           /\ Since(y + 1) = Since(y) + (IF IsLeap(y + 1) THEN 366 ELSE 365)
<1>1. PICK e, f, g \in Int : Parts(y, e, f, g)
  BY SinceIs
<1>2. y + 1 \in Int
  OBVIOUS
<1>3. PICK i, j, k \in Int : Parts(y + 1, i, j, k)
  BY <1>2, SinceIs
<1>4. /\ 4 * i <= y + 1 /\ y + 1 < 4 * i + 4
      /\ 100 * j <= y + 1 /\ y + 1 < 100 * j + 100
      /\ 400 * k <= y + 1 /\ y + 1 < 400 * k + 400
  BY <1>3 DEF Parts
<1>5. /\ (y + 1) % 4 = 0 <=> 4 * i = y + 1
      /\ (y + 1) % 100 = 0 <=> 100 * j = y + 1
      /\ (y + 1) % 400 = 0 <=> 400 * k = y + 1
  <2>1. (y + 1) \div 4 = i
    BY <1>2, <1>4, QuotientIs
  <2>2. (y + 1) \div 100 = j
    BY <1>2, <1>4, QuotientIs
  <2>3. (y + 1) \div 400 = k
    BY <1>2, <1>4, QuotientIs
  <2>4. (y + 1) % 4 = y + 1 - 4 * ((y + 1) \div 4)
    BY <1>2, Remainder
  <2>5. (y + 1) % 100 = y + 1 - 100 * ((y + 1) \div 100)
    BY <1>2, Remainder
  <2>6. (y + 1) % 400 = y + 1 - 400 * ((y + 1) \div 400)
    BY <1>2, Remainder
  <2> QED
    BY <2>1, <2>2, <2>3, <2>4, <2>5, <2>6
<1>6. IsLeap(y + 1) <=> 4 * i = y + 1 /\ (100 * j # y + 1 \/ 400 * k = y + 1)
  BY <1>5 DEF IsLeap
<1>7. /\ Since(y) \in Int /\ Since(y + 1) \in Int
  BY <1>1, <1>3 DEF Parts
<1>8. IF 4 * i = y + 1 THEN i = e + 1 ELSE i = e
  BY <1>1, <1>3 DEF Parts
<1>9. IF 100 * j = y + 1 THEN j = f + 1 /\ 4 * i = y + 1 ELSE j = f
  BY <1>1, <1>3 DEF Parts
<1>10. IF 400 * k = y + 1 THEN k = g + 1 /\ 100 * j = y + 1 ELSE k = g
  BY <1>1, <1>3 DEF Parts
<1>11. Since(y + 1) = Since(y) + 365 + (i - e) - (j - f) + (k - g)
  BY <1>1, <1>3 DEF Parts
<1> QED
  BY <1>6, <1>7, <1>8, <1>9, <1>10, <1>11

\* Later years begin later.
LEMMA SinceGrows ==
    ASSUME NEW y \in Int, NEW z \in Int, y < z
    PROVE  Since(y + 1) <= Since(z)
<1>1. PICK e, f, g \in Int : Parts(z, e, f, g)
  BY SinceIs
<1>2. y + 1 \in Int /\ y + 1 <= z
  OBVIOUS
<1>3. PICK i, j, k \in Int : Parts(y + 1, i, j, k)
  BY <1>2, SinceIs
<1>4. i <= e /\ k <= g
  BY <1>1, <1>2, <1>3 DEF Parts
<1>5. f - j <= z - (y + 1)
  BY <1>1, <1>2, <1>3 DEF Parts
<1> QED
  BY <1>1, <1>2, <1>3, <1>4, <1>5 DEF Parts

\* A day is in one year only.
LEMMA OneYear ==
    ASSUME NEW n \in Int, NEW y \in Int, NEW z \in Int,
           Since(y) <= n, n < Since(y + 1), Since(z) <= n, n < Since(z + 1)
    PROVE  y = z
<1>1. Since(y) \in Int /\ Since(y + 1) \in Int /\ Since(z) \in Int /\ Since(z + 1) \in Int
  BY YearLength
<1>2. ~(y < z)
  <2>1. y < z => Since(y + 1) <= Since(z)
    BY SinceGrows
  <2> QED
    BY <1>1, <2>1
<1>3. ~(z < y)
  <2>1. z < y => Since(z + 1) <= Since(y)
    BY SinceGrows
  <2> QED
    BY <1>1, <2>1
<1> QED
  BY <1>2, <1>3

\* The year that the code finds by dividing, in an era of 400 years.
LEMMA YearOfEraIs ==
    ASSUME NEW d \in Nat, d <= 146096
    PROVE  \E y \in Int : /\ y = YearOfEra(d)
                          /\ Since(y) <= d /\ d < Since(y + 1)
                          /\ Since(y) = 365 * y + y \div 4 - y \div 100
<1>1. PICK a : a = d \div 1460
  OBVIOUS
<1>2. PICK b : b = d \div 36524
  OBVIOUS
<1>3. PICK c : c = d \div 146096
  OBVIOUS
<1>4. PICK y : y = (d - a + b - c) \div 365
  OBVIOUS
<1>5. y = YearOfEra(d)
  BY <1>1, <1>2, <1>3, <1>4 DEF YearOfEra
<1>6. a \in Int /\ 1460 * a <= d /\ d < 1460 * a + 1460
  BY <1>1, Quotient
<1>7. b \in Int /\ 36524 * b <= d /\ d < 36524 * b + 36524
  BY <1>2, Quotient
<1>8. c \in Int /\ 146096 * c <= d /\ d < 146096 * c + 146096
  BY <1>3, Quotient
<1>9. y \in Int /\ 365 * y <= d - a + b - c /\ d - a + b - c < 365 * y + 365
  <2>1. d - a + b - c \in Int
    BY <1>6, <1>7, <1>8
  <2> QED
    BY <1>4, <2>1, Quotient
<1>10. y + 1 \in Int
  BY <1>9
<1>11. PICK e, f, g \in Int : Parts(y, e, f, g)
  BY <1>9, SinceIs
<1>12. PICK i, j, k \in Int : Parts(y + 1, i, j, k)
  BY <1>10, SinceIs
<1>13. /\ 4 * e <= y /\ y < 4 * e + 4
       /\ 100 * f <= y /\ y < 100 * f + 100
       /\ 400 * g <= y /\ y < 400 * g + 400
       /\ Since(y) = 365 * y + e - f + g
  BY <1>11 DEF Parts
<1>14. 0 <= y /\ y <= 399 /\ 365 * y + e - f + g <= d
  BY <1>6, <1>7, <1>8, <1>9, <1>13
<1>15. /\ 4 * i <= y + 1 /\ y + 1 < 4 * i + 4
       /\ 100 * j <= y + 1 /\ y + 1 < 100 * j + 100
       /\ 400 * k <= y + 1 /\ y + 1 < 400 * k + 400
       /\ Since(y + 1) = 365 * (y + 1) + i - j + k
  BY <1>12 DEF Parts
<1>16. d < 365 * (y + 1) + i - j + k
  <2>1. b = 0 \/ b = 1 \/ b = 2 \/ b = 3 \/ b = 4
    BY <1>7
  <2>2. (j = 0 \/ j = 1 \/ j = 2 \/ j = 3 \/ j = 4) /\ (k = 0 \/ k = 1) /\ (c = 0 \/ c = 1)
    BY <1>8, <1>9, <1>14, <1>15
  <2>3. /\ 4 * i <= y + 1 /\ y + 1 < 4 * i + 4
        /\ 100 * j <= y + 1 /\ y + 1 < 100 * j + 100
        /\ 400 * k <= y + 1 /\ y + 1 < 400 * k + 400
    BY <1>15
  <2>4. CASE b = 0
    BY <1>6, <1>7, <1>8, <1>9, <2>2, <2>3, <2>4
  <2>5. CASE b = 1
    BY <1>6, <1>7, <1>8, <1>9, <2>2, <2>3, <2>5
  <2>6. CASE b = 2
    BY <1>6, <1>7, <1>8, <1>9, <2>2, <2>3, <2>6
  <2>7. CASE b = 3
    BY <1>6, <1>7, <1>8, <1>9, <2>2, <2>3, <2>7
  <2>8. CASE b = 4
    BY <1>6, <1>7, <1>8, <1>9, <2>2, <2>3, <2>8
  <2> QED
    BY <2>1, <2>4, <2>5, <2>6, <2>7, <2>8
<1>17. g = 0
  BY <1>9, <1>13, <1>14
<1>18. y \div 4 = e
  BY <1>9, <1>13, QuotientIs
<1>19. y \div 100 = f
  BY <1>9, <1>13, QuotientIs
<1>20. Since(y) <= d
  BY <1>13, <1>14
<1>21. d < Since(y + 1)
  BY <1>15, <1>16
<1>22. Since(y) = 365 * y + y \div 4 - y \div 100
  <2>1. Since(y) = 365 * y + e - f
    BY <1>9, <1>13, <1>17
  <2> QED
    BY <2>1, <1>18, <1>19
<1> QED
  BY <1>5, <1>9, <1>20, <1>21, <1>22

\* An era has 146097 days.
LEMMA EraLength ==
    ASSUME NEW y \in Int, NEW era \in Int
    PROVE  Since(y + 400 * era) = Since(y) + 146097 * era
<1>1. PICK e, f, g \in Int : Parts(y, e, f, g)
  BY SinceIs
<1>2. PICK z \in Int : z = y + 400 * era
  OBVIOUS
<1>3. PICK i, j, k \in Int : Parts(z, i, j, k)
  BY SinceIs
<1>4. i = e + 100 * era /\ j = f + 4 * era /\ k = g + era
  BY <1>1, <1>2, <1>3 DEF Parts
<1>5. Since(z) = Since(y) + 146097 * era
  BY <1>1, <1>2, <1>3, <1>4 DEF Parts
<1> QED
  BY <1>2, <1>5

\* The day n is the day z since the first of March of the year 0, in the year y.
Placed(n, z, y) ==
    /\ z = n + 719468
    /\ Since(y) <= z /\ z < Since(y + 1)
    /\ CivilFromDays(n) = OfMarch(y, z - Since(y))

\* What CivilFromDays computes.
LEMMA CivilIs ==
    ASSUME NEW n \in Int
    PROVE  \E z, y \in Int : Placed(n, z, y)
<1>1. PICK z : z = n + 719468
  OBVIOUS
<1>2. PICK era : era = z \div 146097
  OBVIOUS
<1>3. PICK doe : doe = z - era * 146097
  OBVIOUS
<1>4. PICK yoe : yoe = YearOfEra(doe)
  OBVIOUS
<1>5. PICK doy : doy = doe - (365 * yoe + yoe \div 4 - yoe \div 100)
  OBVIOUS
<1>6. PICK y : y = yoe + era * 400
  OBVIOUS
<1>7. CivilFromDays(n) = OfMarch(y, doy)
  BY <1>1, <1>2, <1>3, <1>4, <1>5, <1>6 DEF CivilFromDays
<1>8. z \in Int /\ era \in Int /\ 146097 * era <= z /\ z < 146097 * era + 146097
  BY <1>1, <1>2, Quotient
<1>9. doe \in Nat /\ doe <= 146096
  BY <1>3, <1>8
<1>10. /\ yoe \in Int /\ Since(yoe) <= doe /\ doe < Since(yoe + 1)
       /\ Since(yoe) = 365 * yoe + yoe \div 4 - yoe \div 100
  BY <1>4, <1>9, YearOfEraIs
<1>11. Since(yoe) \in Int /\ Since(yoe + 1) \in Int
  BY <1>10, YearLength
<1>12. doy = doe - Since(yoe)
  BY <1>5, <1>10
<1>13. y \in Int /\ y = yoe + 400 * era /\ y + 1 = (yoe + 1) + 400 * era /\ yoe + 1 \in Int
  BY <1>6, <1>8, <1>10
<1>14. Since(y) = Since(yoe) + 146097 * era
  BY <1>8, <1>10, <1>13, EraLength
<1>15. Since(y + 1) = Since(yoe + 1) + 146097 * era
  BY <1>8, <1>13, EraLength
<1>16. doy = z - Since(y) /\ Since(y) <= z /\ z < Since(y + 1)
  <2>1. doe = z - 146097 * era /\ Since(y) \in Int /\ Since(y + 1) \in Int
    BY <1>3, <1>8, <1>13, YearLength
  <2> QED
    BY <1>8, <1>10, <1>11, <1>12, <1>14, <1>15, <2>1
<1>17. CivilFromDays(n) = OfMarch(y, z - Since(y))
  BY <1>7, <1>16
<1>18. Placed(n, z, y)
  BY <1>1, <1>16, <1>17 DEF Placed
<1> QED
  BY <1>8, <1>13, <1>18

\* The days of a March-based year before a month.
Before(m) ==
    IF m = 1 THEN 306 ELSE IF m = 2 THEN 337 ELSE IF m = 3 THEN 0 ELSE IF m = 4 THEN 31
    ELSE IF m = 5 THEN 61 ELSE IF m = 6 THEN 92 ELSE IF m = 7 THEN 122 ELSE IF m = 8 THEN 153
    ELSE IF m = 9 THEN 184 ELSE IF m = 10 THEN 214 ELSE IF m = 11 THEN 245 ELSE 275

\* The code's division finds the month.
LEMMA MonthIs ==
    ASSUME NEW doy \in Nat, doy <= 365
    PROVE  \E m \in 1..12, mp \in 0..11 :
              /\ mp = (5 * doy + 2) \div 153
              /\ m = (IF mp < 10 THEN mp + 3 ELSE mp - 9)
              /\ Before(m) = (153 * mp + 2) \div 5
              /\ Before(m) <= doy
              /\ m # 2 => \A y : doy - Before(m) < MonthLength(y, m)
<1>1. PICK mp : mp = (5 * doy + 2) \div 153
  OBVIOUS
<1>2. PICK s : s = (153 * mp + 2) \div 5
  OBVIOUS
<1>3. PICK m : m = (IF mp < 10 THEN mp + 3 ELSE mp - 9)
  OBVIOUS
<1>4. mp \in Int /\ 153 * mp <= 5 * doy + 2 /\ 5 * doy + 2 < 153 * mp + 153
  <2>1. 5 * doy + 2 \in Int
    OBVIOUS
  <2> QED
    BY <1>1, <2>1, Quotient
<1>5. s \in Int /\ 5 * s <= 153 * mp + 2 /\ 153 * mp + 2 < 5 * s + 5
  <2>1. 153 * mp + 2 \in Int
    BY <1>4
  <2> QED
    BY <1>2, <2>1, Quotient
<1>6. \/ mp = 0 \/ mp = 1 \/ mp = 2 \/ mp = 3 \/ mp = 4 \/ mp = 5
      \/ mp = 6 \/ mp = 7 \/ mp = 8 \/ mp = 9 \/ mp = 10 \/ mp = 11
  BY <1>4
<1>7. Before(m) = s /\ m \in 1..12 /\ mp \in 0..11
  BY <1>3, <1>5, <1>6 DEF Before
<1>8. s <= doy
  BY <1>4, <1>5
<1>9. ASSUME m # 2, NEW y
      PROVE  doy - s < MonthLength(y, m)
  BY <1>3, <1>4, <1>5, <1>6, <1>9 DEF MonthLength
<1> QED
  BY <1>1, <1>2, <1>3, <1>7, <1>8, <1>9

\* The date of a day of a March-based year.
LEMMA OfMarchIs ==
    ASSUME NEW y \in Int, NEW doy \in Nat, doy <= 365
    PROVE  \E m \in 1..12 :
              /\ OfMarch(y, doy) = <<IF m <= 2 THEN y + 1 ELSE y, m, doy - Before(m) + 1>>
              /\ Before(m) \in Int /\ Before(m) <= doy
              /\ m # 2 => \A u : doy - Before(m) < MonthLength(u, m)
<1>1. PICK m \in 1..12, mp \in 0..11 :
         /\ mp = (5 * doy + 2) \div 153
         /\ m = (IF mp < 10 THEN mp + 3 ELSE mp - 9)
         /\ Before(m) = (153 * mp + 2) \div 5
         /\ Before(m) <= doy
         /\ m # 2 => \A u : doy - Before(m) < MonthLength(u, m)
  BY MonthIs
<1>2. OfMarch(y, doy) = <<IF m <= 2 THEN y + 1 ELSE y, m, doy - (153 * mp + 2) \div 5 + 1>>
  BY <1>1 DEF OfMarch
<1>3. Before(m) \in Int
  BY DEF Before
<1> QED
  BY <1>1, <1>2, <1>3

\* What DaysFromCivil computes, for any day of the month.
LEMMA DaysIs ==
    ASSUME NEW y \in Int, NEW m \in 1..12, NEW d \in Int
    PROVE  DaysFromCivil(<<y, m, d>>)
             = Since(IF m <= 2 THEN y - 1 ELSE y) + (Before(m) + d - 719469)
<1>1. PICK z : z = IF m <= 2 THEN y - 1 ELSE y
  OBVIOUS
<1>2. PICK era : era = z \div 400
  OBVIOUS
<1>3. PICK yoe : yoe = z - era * 400
  OBVIOUS
<1>4. PICK mp : mp = (m + 9) % 12
  OBVIOUS
<1>5. PICK s : s = (153 * mp + 2) \div 5
  OBVIOUS
<1>6. DaysFromCivil(<<y, m, d>>)
        = era * 146097 + (yoe * 365 + yoe \div 4 - yoe \div 100 + (s + d - 1)) - 719468
  BY <1>1, <1>2, <1>3, <1>4, <1>5 DEF DaysFromCivil
<1>7. z \in Int /\ era \in Int /\ yoe \in Int /\ 0 <= yoe /\ yoe < 400
  <2>1. z \in Int
    BY <1>1
  <2>2. era \in Int /\ 400 * era <= z /\ z < 400 * era + 400
    BY <1>2, <2>1, Quotient
  <2> QED
    BY <1>3, <2>1, <2>2
<1>8. s = Before(m)
  <2>1. mp \in Int /\ mp = (m + 9) - 12 * ((m + 9) \div 12)
    BY <1>4, Remainder
  <2>2. PICK q : q = (m + 9) \div 12
    OBVIOUS
  <2>3. q \in Int /\ 12 * q <= m + 9 /\ m + 9 < 12 * q + 12
    BY <2>2, Quotient
  <2>4. mp = IF m <= 2 THEN m + 9 ELSE m - 3
    BY <2>1, <2>2, <2>3
  <2>5. s \in Int /\ 5 * s <= 153 * mp + 2 /\ 153 * mp + 2 < 5 * s + 5
    <3>1. 153 * mp + 2 \in Int
      BY <2>1
    <3> QED
      BY <1>5, <3>1, Quotient
  <2>6. \/ m = 1 \/ m = 2 \/ m = 3 \/ m = 4 \/ m = 5 \/ m = 6
        \/ m = 7 \/ m = 8 \/ m = 9 \/ m = 10 \/ m = 11 \/ m = 12
    OBVIOUS
  <2> QED
    BY <2>4, <2>5, <2>6 DEF Before
<1>9. Since(z) = 146097 * era + (365 * yoe + yoe \div 4 - yoe \div 100)
  <2>1. Since(yoe + 400 * era) = Since(yoe) + 146097 * era
    BY <1>7, EraLength
  <2>2. yoe + 400 * era = z
    BY <1>3, <1>7
  <2>3. yoe \div 400 = 0
    BY <1>7, QuotientIs
  <2>4. /\ yoe \div 4 \in Int /\ yoe \div 100 \in Int
        /\ Since(yoe) = 365 * yoe + yoe \div 4 - yoe \div 100
    <3>1. yoe \div 4 \in Int /\ yoe \div 100 \in Int
      BY <1>7, Quotient
    <3> QED
      BY <1>7, <2>3, <3>1 DEF Since
  <2> QED
    BY <1>7, <2>1, <2>2, <2>4
<1>10. DaysFromCivil(<<y, m, d>>) = Since(z) + (Before(m) + d - 719469)
  <2>1. yoe \div 4 \in Int /\ yoe \div 100 \in Int /\ Before(m) \in Int
    BY <1>7, Quotient DEF Before
  <2> QED
    BY <1>6, <1>7, <1>8, <1>9, <2>1
<1> QED
  BY <1>1, <1>10

\* A year has at most 366 days, and February what the others leave.
LEMMA DayOfYear ==
    ASSUME NEW z \in Int, NEW y \in Int, Since(y) <= z, z < Since(y + 1)
    PROVE  LET doy == z - Since(y)
           IN  /\ doy \in Nat /\ doy <= 365
               /\ doy - 336 <= MonthLength(y + 1, 2)
               /\ z + 1 < Since(y + 1) \/ doy - 336 = MonthLength(y + 1, 2)
<1>1. /\ Since(y) \in Int /\ Since(y + 1) \in Int
      /\ Since(y + 1) = Since(y) + (IF IsLeap(y + 1) THEN 366 ELSE 365)
  BY YearLength
<1>2. MonthLength(y + 1, 2) = IF IsLeap(y + 1) THEN 29 ELSE 28
  BY DEF MonthLength
<1> QED
  BY <1>1, <1>2

\* Every day has a date, the date is of the calendar, and leads back to the day.
LEMMA RoundTrip ==
    ASSUME NEW n \in Int
    PROVE  /\ DaysFromCivil(CivilFromDays(n)) = n
           /\ \E y \in Int, m \in 1..12, d \in 1..31 :
                 CivilFromDays(n) = <<y, m, d>> /\ d <= MonthLength(y, m)
<1>1. PICK z, y \in Int : Placed(n, z, y)
  BY CivilIs
<1>2. /\ z = n + 719468
      /\ Since(y) <= z /\ z < Since(y + 1)
      /\ CivilFromDays(n) = OfMarch(y, z - Since(y))
  BY <1>1 DEF Placed
<1>3. PICK doy : doy = z - Since(y)
  OBVIOUS
<1>4. z \in Int /\ Since(y) \in Int
  BY <1>1, YearLength
<1>5. doy \in Nat /\ doy <= 365 /\ doy - 336 <= MonthLength(y + 1, 2)
  BY <1>2, <1>3, <1>4, DayOfYear
<1>6. PICK m \in 1..12 :
         /\ OfMarch(y, doy) = <<IF m <= 2 THEN y + 1 ELSE y, m, doy - Before(m) + 1>>
         /\ Before(m) \in Int /\ Before(m) <= doy
         /\ m # 2 => \A u : doy - Before(m) < MonthLength(u, m)
  BY <1>5, OfMarchIs
<1>7. PICK w : w = IF m <= 2 THEN y + 1 ELSE y
  OBVIOUS
<1>8. PICK d : d = doy - Before(m) + 1
  OBVIOUS
<1>9. CivilFromDays(n) = <<w, m, d>> /\ w \in Int /\ d \in Int /\ d >= 1
  BY <1>2, <1>3, <1>5, <1>6, <1>7, <1>8
<1>10. d <= MonthLength(w, m)
  <2>1. CASE m = 2
    <3>1. Before(2) = 337
      BY DEF Before
    <3>2. d = doy - 336
      BY <1>5, <1>8, <2>1, <3>1
    <3> QED
      BY <1>5, <1>7, <2>1, <3>2
  <2>2. CASE m # 2
    <3>1. doy - Before(m) < MonthLength(w, m) /\ MonthLength(w, m) \in Int
      BY <1>6, <2>2 DEF MonthLength
    <3> QED
      BY <1>5, <1>6, <1>8, <3>1
  <2> QED
    BY <2>1, <2>2
<1>11. d \in 1..31
  <2>1. MonthLength(w, m) \in Int /\ MonthLength(w, m) <= 31
    BY DEF MonthLength
  <2> QED
    BY <1>9, <1>10, <2>1
<1>12. DaysFromCivil(<<w, m, d>>) = Since(IF m <= 2 THEN w - 1 ELSE w) + (Before(m) + d - 719469)
  BY <1>9, DaysIs
<1>13. (IF m <= 2 THEN w - 1 ELSE w) = y
  BY <1>7
<1>14. Since(y) + (Before(m) + d - 719469) = n
  BY <1>2, <1>3, <1>4, <1>5, <1>6, <1>8
<1>15. DaysFromCivil(<<w, m, d>>) = n
  BY <1>12, <1>13, <1>14
<1> HIDE DEF CivilFromDays, DaysFromCivil
<1> QED
  BY <1>9, <1>10, <1>11, <1>15

\* The dates follow one another as the calendar has them.
LEMMA NextDate ==
    ASSUME NEW n \in Int
    PROVE  CivilFromDays(n + 1) = DayAfter(CivilFromDays(n))
<1>1. PICK z, y \in Int : Placed(n, z, y)
  BY CivilIs
<1>2. /\ z = n + 719468
      /\ Since(y) <= z /\ z < Since(y + 1)
      /\ CivilFromDays(n) = OfMarch(y, z - Since(y))
  BY <1>1 DEF Placed
<1>3. PICK doy : doy = z - Since(y)
  OBVIOUS
<1>4. /\ z \in Int /\ Since(y) \in Int /\ Since(y + 1) \in Int /\ Since(y + 1 + 1) \in Int
      /\ y + 1 \in Int /\ n + 1 \in Int
  <2>1. y + 1 \in Int
    OBVIOUS
  <2>2. Since(y + 1 + 1) \in Int
    BY <2>1, YearLength
  <2> QED
    BY <1>2, <2>1, <2>2, YearLength
<1>5. /\ doy \in Nat /\ doy <= 365 /\ doy - 336 <= MonthLength(y + 1, 2)
      /\ z + 1 < Since(y + 1) \/ doy - 336 = MonthLength(y + 1, 2)
  BY <1>2, <1>3, <1>4, DayOfYear
<1>6. PICK m \in 1..12 :
         /\ OfMarch(y, doy) = <<IF m <= 2 THEN y + 1 ELSE y, m, doy - Before(m) + 1>>
         /\ Before(m) \in Int /\ Before(m) <= doy
         /\ m # 2 => \A u : doy - Before(m) < MonthLength(u, m)
  BY <1>5, OfMarchIs
<1>7. PICK w : w = IF m <= 2 THEN y + 1 ELSE y
  OBVIOUS
<1>8. PICK d : d = doy - Before(m) + 1
  OBVIOUS
<1>9. PICK x, v \in Int : Placed(n + 1, x, v)
  BY <1>4, CivilIs
<1>19. /\ x = z + 1
       /\ Since(v) <= x /\ x < Since(v + 1)
       /\ CivilFromDays(n + 1) = OfMarch(v, x - Since(v))
  BY <1>2, <1>4, <1>9 DEF Placed
<1>20. PICK next : next = doy + 1
  OBVIOUS
<1>10. CivilFromDays(n) = <<w, m, d>> /\ w \in Int /\ d \in Int
  BY <1>2, <1>3, <1>5, <1>6, <1>7, <1>8
<1>11. CASE z + 1 < Since(y + 1)
  <2>1. v = y
    <3>1. x \in Int /\ Since(y) <= x /\ x < Since(y + 1)
      BY <1>2, <1>4, <1>11, <1>19
    <3> QED
      BY <1>9, <1>19, <3>1, OneYear
  <2>2. next = x - Since(y)
    BY <1>3, <1>4, <1>19, <1>20
  <2>7. CivilFromDays(n + 1) = OfMarch(y, next)
    BY <1>19, <2>1, <2>2
  <2>3. next \in Nat /\ next <= 365 /\ next - 336 <= MonthLength(y + 1, 2)
    BY <1>9, <1>19, <2>1, <2>2, DayOfYear
  <2>4. PICK k \in 1..12 :
           /\ OfMarch(y, next) = <<IF k <= 2 THEN y + 1 ELSE y, k, next - Before(k) + 1>>
           /\ Before(k) \in Int /\ Before(k) <= next
           /\ k # 2 => \A u : next - Before(k) < MonthLength(u, k)
    BY <2>3, OfMarchIs
  <2>5. CASE k = m
    <3>1. next - Before(m) + 1 = d + 1 /\ d < MonthLength(w, m)
      <4>1. CASE m = 2
        <5>1. Before(2) = 337
          BY DEF Before
        <5> QED
          BY <1>5, <1>7, <1>8, <1>20, <2>3, <4>1, <5>1 DEF MonthLength
      <4>2. CASE m # 2
        <5>1. next - Before(m) < MonthLength(w, m) /\ MonthLength(w, m) \in Int
          BY <2>4, <2>5, <4>2 DEF MonthLength
        <5> QED
          BY <1>5, <1>6, <1>8, <1>20, <5>1
      <4> QED
        BY <4>1, <4>2
    <3>2. CivilFromDays(n + 1) = <<w, m, d + 1>>
      BY <1>7, <2>7, <2>4, <2>5, <3>1
    <3> HIDE DEF CivilFromDays
    <3> QED
      BY <1>10, <3>1, <3>2 DEF DayAfter
  <2>6. CASE k # m
    <3>1. ~(d < MonthLength(w, m)) /\ next - Before(k) + 1 = 1
          /\ IF m < 12 THEN k = m + 1 /\ (k <= 2 <=> m <= 2) ELSE k = 1
      BY <1>5, <1>6, <1>7, <1>8, <1>20, <2>3, <2>4, <2>6 DEF Before, MonthLength
    <3>2. CivilFromDays(n + 1)
            = IF m < 12 THEN <<w, m + 1, 1>> ELSE <<w + 1, 1, 1>>
      BY <1>7, <2>7, <2>4, <3>1
    <3> HIDE DEF CivilFromDays
    <3> QED
      BY <1>10, <3>1, <3>2 DEF DayAfter
  <2> QED
    BY <2>5, <2>6
<1>12. CASE ~(z + 1 < Since(y + 1))
  <2>1. v = y + 1 /\ x = Since(y + 1)
    <3>1. x = Since(y + 1)
      BY <1>2, <1>4, <1>12, <1>19
    <3>2. Since(y + 1) <= x /\ x < Since(y + 1 + 1)
      <4>1. Since(y + 1 + 1) = Since(y + 1) + (IF IsLeap(y + 1 + 1) THEN 366 ELSE 365)
        BY <1>4, YearLength
      <4> QED
        BY <1>4, <3>1, <4>1
    <3> QED
      BY <1>4, <1>9, <1>19, <3>1, <3>2, OneYear
  <2>2. CivilFromDays(n + 1) = OfMarch(y + 1, 0)
    BY <1>4, <1>19, <2>1
  <2>3. OfMarch(y + 1, 0) = <<y + 1, 3, 1>>
    <3>1. PICK k \in 1..12 :
             /\ OfMarch(y + 1, 0) = <<IF k <= 2 THEN y + 1 + 1 ELSE y + 1, k, 0 - Before(k) + 1>>
             /\ Before(k) \in Int /\ Before(k) <= 0
      BY <1>4, OfMarchIs
    <3>2. k = 3 /\ Before(k) = 0
      BY <3>1 DEF Before
    <3> QED
      BY <3>1, <3>2
  <2>4. m = 2 /\ doy - 336 = MonthLength(y + 1, 2)
    <3>1. doy - 336 = MonthLength(y + 1, 2)
      BY <1>5, <1>12
    <3>2. doy >= 364
      BY <1>5, <3>1 DEF MonthLength
    <3> QED
      BY <1>5, <1>6, <3>1, <3>2 DEF Before, MonthLength
  <2>5. w = y + 1 /\ d = MonthLength(w, m)
    <3>1. Before(2) = 337
      BY DEF Before
    <3> QED
      BY <1>5, <1>7, <1>8, <2>4, <3>1
  <2> HIDE DEF CivilFromDays, OfMarch
  <2>6. CivilFromDays(n + 1) = <<w, m + 1, 1>> /\ m < 12 /\ ~(d < MonthLength(w, m))
    BY <1>10, <2>2, <2>3, <2>4, <2>5
  <2> QED
    BY <1>10, <2>6 DEF DayAfter
<1> QED
  BY <1>11, <1>12

-----------------------------------------------------------------------------
(* Sums over finite sets.                                                  *)

\* Induction over the subsets of a finite set, P being those for which it holds.
LEMMA SubsetInduction ==
    ASSUME NEW S, IsFiniteSet(S), NEW P,
           \A T \in SUBSET S : (\A U \in SUBSET T : U # T => U \in P) => T \in P
    PROVE  \A T \in SUBSET S : T \in P
<1> DEFINE Bad == {T \in SUBSET S : T \notin P}
           sizes == {Cardinality(T) : T \in Bad}
<1> SUFFICES ASSUME Bad # {}
             PROVE  FALSE
  OBVIOUS
<1>1. \A T \in SUBSET S : IsFiniteSet(T) /\ Cardinality(T) \in Nat
  BY FS_Subset, FS_CardinalityType
<1>2. PICK n \in sizes : \A m \in sizes : n <= m
  <2>1. sizes \in SUBSET Nat /\ sizes # {}
    BY <1>1
  <2> HIDE DEF sizes
  <2> QED
    BY <2>1, LeastNatural
<1>3. PICK T \in Bad : Cardinality(T) = n
  OBVIOUS
<1>4. ASSUME NEW U \in SUBSET T, U # T
      PROVE  U \in P
  <2>1. IsFiniteSet(T) /\ Cardinality(T) \in Nat /\ U \in SUBSET S
    BY <1>1
  <2>2. Cardinality(U) <= Cardinality(T) /\ Cardinality(U) # Cardinality(T)
    BY <1>4, <2>1, FS_Subset
  <2>3. Cardinality(U) \in Nat
    BY <1>1, <2>1
  <2>4. ~(n <= Cardinality(U))
    BY <1>3, <2>1, <2>2, <2>3
  <2>5. Cardinality(U) \notin sizes
    BY <1>2, <2>4
  <2> QED
    BY <2>1, <2>5
<1> QED
  BY <1>3, <1>4

\* The element that a sum takes next.
NextOf(T) == CHOOSE x \in T : TRUE

\* What the recursion of FoldFunction says of the sums over the subsets of S.
AreSums(sums, f, S) ==
    sums = [T \in SUBSET S |-> IF T = {} THEN 0 ELSE f[NextOf(T)] + sums[T \ {NextOf(T)}]]

\* Two recursions agree on the sets they share, as far as the functions do.
LEMMA SumsAgree ==
    ASSUME NEW f, NEW g, NEW S, NEW T, T \subseteq S, IsFiniteSet(T),
           NEW s, AreSums(s, f, S), NEW t, AreSums(t, g, T), \A x \in T : f[x] = g[x]
    PROVE  s[T] = t[T]
<1> DEFINE P == {V \in SUBSET T : s[V] = t[V]}
<1>1. ASSUME NEW V \in SUBSET T, \A W \in SUBSET V : W # V => W \in P
      PROVE  V \in P
  <2>1. s[V] = IF V = {} THEN 0 ELSE f[NextOf(V)] + s[V \ {NextOf(V)}]
    BY DEF AreSums
  <2>2. t[V] = IF V = {} THEN 0 ELSE g[NextOf(V)] + t[V \ {NextOf(V)}]
    BY DEF AreSums
  <2>3. CASE V = {}
    BY <2>1, <2>2, <2>3
  <2>4. CASE V # {}
    <3>1. NextOf(V) \in V
      BY <2>4 DEF NextOf
    <3>2. V \ {NextOf(V)} \in P
      BY <1>1, <3>1
    <3> QED
      BY <2>1, <2>2, <2>4, <3>1, <3>2
  <2> QED
    BY <2>3, <2>4
<1>2. \A V \in SUBSET T : V \in P
  <2> HIDE DEF P
  <2> QED
    BY <1>1, SubsetInduction
<1> QED
  BY <1>2

\* As sums of one function do.
LEMMA SumsNest ==
    ASSUME NEW f, NEW S, NEW T, T \subseteq S, IsFiniteSet(T),
           NEW s, AreSums(s, f, S), NEW t, AreSums(t, f, T)
    PROVE  s[T] = t[T]
<1>1. \A x \in T : f[x] = f[x]
  OBVIOUS
<1> QED
  BY <1>1, SumsAgree

\* There are such sums.
LEMMA SumsExist ==
    ASSUME NEW f, NEW S, IsFiniteSet(S)
    PROVE  \E sums : AreSums(sums, f, S)
<1> DEFINE P == {T \in SUBSET S : \E sums : AreSums(sums, f, T)}
<1>1. ASSUME NEW T \in SUBSET S, \A U \in SUBSET T : U # T => U \in P
      PROVE  T \in P
  <2> DEFINE of(U) == CHOOSE sums : AreSums(sums, f, U)
             all == [U \in SUBSET T |->
                       IF U = {} THEN 0
                       ELSE f[NextOf(U)] + of(U \ {NextOf(U)})[U \ {NextOf(U)}]]
  <2>1. \A U \in SUBSET T : U # T => AreSums(of(U), f, U)
    BY <1>1
  <2> HIDE DEF of
  <2>2. ASSUME NEW U \in SUBSET T, U # {}
        PROVE  all[U \ {NextOf(U)}] = of(U \ {NextOf(U)})[U \ {NextOf(U)}]
    <3> DEFINE V == U \ {NextOf(U)}
               x == NextOf(V)
    <3>1. V \in SUBSET T /\ V # T
      BY <2>2 DEF NextOf
    <3>2. AreSums(of(V), f, V)
      BY <2>1, <3>1
    <3>3. of(V)[V] = IF V = {} THEN 0 ELSE f[x] + of(V)[V \ {x}]
      BY <3>2 DEF AreSums
    <3>4. ASSUME V # {}
          PROVE  of(V)[V \ {x}] = of(V \ {x})[V \ {x}]
      <4>1. V \ {x} \in SUBSET T /\ V \ {x} # T
        BY <3>1, <3>4 DEF NextOf
      <4>2. AreSums(of(V \ {x}), f, V \ {x})
        BY <2>1, <4>1
      <4>3. IsFiniteSet(V \ {x})
        BY <4>1, FS_Subset
      <4> QED
        BY <3>2, <4>2, <4>3, SumsNest
    <3> QED
      BY <3>1, <3>3, <3>4
  <2>3. AreSums(all, f, T)
    BY <2>2 DEF AreSums
  <2> QED
    BY <2>3
<1>2. \A T \in SUBSET S : T \in P
  <2> HIDE DEF P
  <2> QED
    BY <1>1, SubsetInduction
<1> QED
  BY <1>2

\* The sum of f over S.
SumOver(f, S) == (CHOOSE sums : AreSums(sums, f, S))[S]

\* Total is the sum over all that a column has.
LEMMA TotalIs == ASSUME NEW f PROVE Total(f) = SumOver(f, DOMAIN f)
BY DEF Total, FoldFunction, FoldFunctionOnSet, MapThenFoldSet, SumOver, AreSums, NextOf

\* The recursion, of sums themselves.
LEMMA SumStep ==
    ASSUME NEW f, NEW S, IsFiniteSet(S)
    PROVE  /\ SumOver(f, {}) = 0
           /\ S # {} => SumOver(f, S) = f[NextOf(S)] + SumOver(f, S \ {NextOf(S)})
<1> DEFINE of(U) == CHOOSE sums : AreSums(sums, f, U)
<1>1. \A U \in SUBSET S : AreSums(of(U), f, U)
  BY FS_Subset, SumsExist
<1>2. \A U : SumOver(f, U) = of(U)[U]
  BY DEF SumOver
<1> HIDE DEF of
<1>3. of({})[{}] = 0
  BY <1>1 DEF AreSums
<1>4. ASSUME S # {}
      PROVE  of(S)[S] = f[NextOf(S)] + of(S \ {NextOf(S)})[S \ {NextOf(S)}]
  <2> DEFINE T == S \ {NextOf(S)}
  <2>1. of(S)[S] = f[NextOf(S)] + of(S)[T]
    BY <1>1, <1>4 DEF AreSums
  <2>2. of(S)[T] = of(T)[T]
    <3>1. T \in SUBSET S /\ IsFiniteSet(T)
      BY FS_Subset
    <3> QED
      BY <1>1, <3>1, SumsNest
  <2> QED
    BY <2>1, <2>2
<1> QED
  BY <1>2, <1>3, <1>4

\* Equal columns have equal sums.
LEMMA SumSame ==
    ASSUME NEW f, NEW g, NEW S, IsFiniteSet(S), \A x \in S : f[x] = g[x]
    PROVE  SumOver(f, S) = SumOver(g, S)
<1>1. PICK s : AreSums(s, f, S) /\ SumOver(f, S) = s[S]
  BY SumsExist DEF SumOver
<1>2. PICK t : AreSums(t, g, S) /\ SumOver(g, S) = t[S]
  BY SumsExist DEF SumOver
<1> QED
  BY <1>1, <1>2, SumsAgree

\* The sum of naturals is a natural, whichever is taken first.
LEMMA SumAny ==
    ASSUME NEW f, NEW S, IsFiniteSet(S), \A x \in S : f[x] \in Nat
    PROVE  /\ SumOver(f, S) \in Nat
           /\ \A x \in S : SumOver(f, S) = f[x] + SumOver(f, S \ {x})
<1> DEFINE P == {T \in SUBSET S : /\ SumOver(f, T) \in Nat
                                 /\ \A x \in T : SumOver(f, T) = f[x] + SumOver(f, T \ {x})}
<1>1. ASSUME NEW T \in SUBSET S, \A U \in SUBSET T : U # T => U \in P
      PROVE  T \in P
  <2>1. IsFiniteSet(T)
    BY FS_Subset
  <2>2. CASE T = {}
    <3>1. SumOver(f, T) = 0
      BY <2>2, FS_EmptySet, SumStep
    <3> QED
      BY <2>2, <3>1
  <2>3. CASE T # {}
    <3> DEFINE c == NextOf(T)
    <3>1. c \in T
      BY <2>3 DEF NextOf
    <3> HIDE DEF c
    <3>2. SumOver(f, T) = f[c] + SumOver(f, T \ {c})
      BY <2>1, <2>3, SumStep DEF c
    <3>3. \A x \in T : T \ {x} \in P
      BY <1>1
    <3>4. SumOver(f, T \ {c}) \in Nat /\ f[c] \in Nat
      BY <3>1, <3>3
    <3>5. ASSUME NEW x \in T
          PROVE  SumOver(f, T) = f[x] + SumOver(f, T \ {x})
      <4>1. CASE x = c
        BY <3>2, <4>1
      <4>2. CASE x # c
        <5>1. x \in T \ {c} /\ c \in T \ {x}
          BY <3>1, <4>2
        <5>2. SumOver(f, T \ {c}) = f[x] + SumOver(f, (T \ {c}) \ {x})
          BY <3>1, <3>3, <5>1
        <5>3. SumOver(f, T \ {x}) = f[c] + SumOver(f, (T \ {x}) \ {c})
          BY <3>3, <5>1
        <5>4. (T \ {c}) \ {x} = (T \ {x}) \ {c}
          OBVIOUS
        <5>5. PICK r : r = SumOver(f, (T \ {x}) \ {c})
          OBVIOUS
        <5>6. r \in Nat
          <6>1. (T \ {x}) \ {c} # T
            BY <5>1
          <6> QED
            BY <1>1, <5>5, <6>1
        <5>7. SumOver(f, T \ {c}) = f[x] + r /\ SumOver(f, T \ {x}) = f[c] + r
          BY <5>2, <5>3, <5>4, <5>5
        <5>8. f[x] \in Nat /\ f[c] \in Nat
          BY <3>4
        <5> QED
          BY <3>2, <5>6, <5>7, <5>8
      <4> QED
        BY <4>1, <4>2
    <3>6. SumOver(f, T) \in Nat
      BY <3>2, <3>4
    <3> QED
      BY <3>5, <3>6
  <2> QED
    BY <2>2, <2>3
<1>2. \A T \in SUBSET S : T \in P
  <2> HIDE DEF P
  <2> QED
    BY <1>1, SubsetInduction
<1> QED
  BY <1>2

\* One more element.
LEMMA SumAdd ==
    ASSUME NEW f, NEW S, IsFiniteSet(S), NEW x, x \notin S, \A y \in S \union {x} : f[y] \in Nat
    PROVE  SumOver(f, S \union {x}) = f[x] + SumOver(f, S)
<1>1. IsFiniteSet(S \union {x}) /\ (S \union {x}) \ {x} = S /\ x \in S \union {x}
  BY FS_AddElement
<1> DEFINE T == S \union {x}
<1>2. \A y \in T : SumOver(f, T) = f[y] + SumOver(f, T \ {y})
  <2>1. IsFiniteSet(T) /\ \A y \in T : f[y] \in Nat
    BY <1>1
  <2> HIDE DEF T
  <2> QED
    BY <2>1, SumAny
<1> QED
  BY <1>1, <1>2

\* Induction over the subsets of a finite set, an element at a time.
LEMMA ElementInduction ==
    ASSUME NEW S, IsFiniteSet(S), NEW P, {} \in P,
           \A T \in SUBSET S : \A x \in S : x \notin T /\ T \in P => T \union {x} \in P
    PROVE  S \in P
<1>1. ASSUME NEW T \in SUBSET S, \A U \in SUBSET T : U # T => U \in P
      PROVE  T \in P
  <2>1. CASE T = {}
    BY <2>1
  <2>2. CASE T # {}
    <3>1. PICK x \in T : TRUE
      BY <2>2
    <3>2. T \ {x} \in P /\ T \ {x} \in SUBSET S /\ x \notin T \ {x} /\ x \in S
      BY <1>1, <3>1
    <3>3. (T \ {x}) \union {x} = T
      BY <3>1
    <3> QED
      BY <3>2, <3>3
  <2> QED
    BY <2>1, <2>2
<1>2. \A T \in SUBSET S : T \in P
  BY <1>1, SubsetInduction
<1> QED
  BY <1>2

\* Nothing has no sum.
LEMMA SumNone == ASSUME NEW f PROVE SumOver(f, {}) = 0
BY FS_EmptySet, SumStep

\* What exceeds it everywhere has the larger sum.
LEMMA SumOrder ==
    ASSUME NEW f, NEW g, NEW S, IsFiniteSet(S),
           \A x \in S : f[x] \in Nat /\ g[x] \in Nat /\ f[x] <= g[x]
    PROVE  SumOver(f, S) <= SumOver(g, S)
<1> DEFINE P == {T \in SUBSET S : SumOver(f, T) <= SumOver(g, T)}
<1>1. {} \in P
  BY SumNone
<1>2. ASSUME NEW T \in SUBSET S, NEW x \in S, x \notin T, T \in P
      PROVE  T \union {x} \in P
  <2>1. IsFiniteSet(T)
    BY FS_Subset
  <2>2. SumOver(f, T) \in Nat /\ SumOver(g, T) \in Nat
    <3>1. \A y \in T : f[y] \in Nat /\ g[y] \in Nat
      OBVIOUS
    <3> QED
      BY <2>1, <3>1, SumAny
  <2>3. SumOver(f, T \union {x}) = f[x] + SumOver(f, T)
    BY <1>2, <2>1, SumAdd
  <2>4. SumOver(g, T \union {x}) = g[x] + SumOver(g, T)
    BY <1>2, <2>1, SumAdd
  <2> QED
    BY <1>2, <2>2, <2>3, <2>4
<1>3. S \in P
  <2> HIDE DEF P
  <2> QED
    BY <1>1, <1>2, ElementInduction
<1> QED
  BY <1>3

\* A set has as many elements as ones.
LEMMA SumOfOnes ==
    ASSUME NEW S, IsFiniteSet(S), NEW f, \A x \in S : f[x] = 1
    PROVE  SumOver(f, S) = Cardinality(S)
<1> DEFINE P == {T \in SUBSET S : SumOver(f, T) = Cardinality(T)}
<1>1. {} \in P
  BY SumNone, FS_EmptySet
<1>2. ASSUME NEW T \in SUBSET S, NEW x \in S, x \notin T, T \in P
      PROVE  T \union {x} \in P
  <2>1. IsFiniteSet(T) /\ Cardinality(T) \in Nat
    BY FS_Subset, FS_CardinalityType
  <2>2. SumOver(f, T \union {x}) = f[x] + SumOver(f, T)
    BY <1>2, <2>1, SumAdd
  <2>3. Cardinality(T \union {x}) = Cardinality(T) + 1
    BY <1>2, <2>1, FS_AddElement
  <2> QED
    BY <1>2, <2>1, <2>2, <2>3
<1>3. S \in P
  <2> HIDE DEF P
  <2> QED
    BY <1>1, <1>2, ElementInduction
<1> QED
  BY <1>3

\* The sum over two parts.
LEMMA SumUnion ==
    ASSUME NEW f, NEW S, IsFiniteSet(S), NEW U, IsFiniteSet(U), S \intersect U = {},
           \A x \in S \union U : f[x] \in Nat
    PROVE  SumOver(f, S \union U) = SumOver(f, S) + SumOver(f, U)
<1> DEFINE P == {T \in SUBSET S : SumOver(f, T \union U) = SumOver(f, T) + SumOver(f, U)}
<1>0. SumOver(f, U) \in Nat
  BY SumAny
<1>1. {} \in P
  <2>1. {} \union U = U
    OBVIOUS
  <2> QED
    BY <1>0, <2>1, SumNone
<1>2. ASSUME NEW T \in SUBSET S, NEW x \in S, x \notin T, T \in P
      PROVE  T \union {x} \in P
  <2>1. IsFiniteSet(T) /\ IsFiniteSet(T \union U)
    BY FS_Subset, FS_Union
  <2>2. SumOver(f, T) \in Nat
    BY <2>1, SumAny
  <2>3. SumOver(f, T \union {x}) = f[x] + SumOver(f, T)
    BY <1>2, <2>1, SumAdd
  <2>4. SumOver(f, (T \union U) \union {x}) = f[x] + SumOver(f, T \union U)
    BY <1>2, <2>1, SumAdd
  <2>5. (T \union U) \union {x} = (T \union {x}) \union U
    OBVIOUS
  <2>6. f[x] \in Nat
    OBVIOUS
  <2>7. SumOver(f, T \union U) = SumOver(f, T) + SumOver(f, U)
    BY <1>2
  <2>8. SumOver(f, (T \union {x}) \union U) = SumOver(f, T \union {x}) + SumOver(f, U)
    BY <1>0, <2>2, <2>3, <2>4, <2>5, <2>6, <2>7
  <2> QED
    BY <2>8
<1>3. S \in P
  <2> HIDE DEF P
  <2> QED
    BY <1>1, <1>2, ElementInduction
<1> QED
  BY <1>3

\* The elements of a part.
InPart(S, part, y) == {x \in S : part[x] = y}

\* The parts of a set, by what the function part has for its elements, add up.
LEMMA SumByParts ==
    ASSUME NEW f, NEW S, IsFiniteSet(S), \A x \in S : f[x] \in Nat,
           NEW Y, IsFiniteSet(Y), NEW part \in [S -> Y],
           NEW g, \A y \in Y : g[y] = SumOver(f, InPart(S, part, y))
    PROVE  SumOver(f, S) = SumOver(g, Y)
<1> DEFINE in(Z) == {x \in S : part[x] \in Z}
           P == {Z \in SUBSET Y : SumOver(f, in(Z)) = SumOver(g, Z)}
<1>1. {} \in P
  <2>1. in({}) = {}
    OBVIOUS
  <2> QED
    BY <2>1, SumNone
<1>2. ASSUME NEW Z \in SUBSET Y, NEW y \in Y, y \notin Z, Z \in P
      PROVE  Z \union {y} \in P
  <2> DEFINE here == InPart(S, part, y)
  <2>1. in(Z) \in SUBSET S /\ here \in SUBSET S
    BY DEF InPart
  <2>2. IsFiniteSet(in(Z)) /\ IsFiniteSet(here) /\ in(Z) \intersect here = {}
    BY <1>2, <2>1, FS_Subset DEF InPart
  <2>3. in(Z \union {y}) = in(Z) \union here
    BY DEF InPart
  <2>4. SumOver(f, in(Z) \union here) = SumOver(f, in(Z)) + SumOver(f, here)
    <3>1. \A x \in in(Z) \union here : f[x] \in Nat
      BY DEF InPart
    <3> HIDE DEF in, here
    <3> QED
      BY <2>2, <3>1, SumUnion
  <2>5. \A z \in Y : g[z] \in Nat
    <3>1. ASSUME NEW z \in Y
          PROVE  g[z] \in Nat
      <4> DEFINE there == InPart(S, part, z)
      <4>1. there \in SUBSET S
        BY DEF InPart
      <4>2. IsFiniteSet(there) /\ \A x \in there : f[x] \in Nat
        BY <4>1, FS_Subset DEF InPart
      <4>3. g[z] = SumOver(f, there)
        OBVIOUS
      <4> HIDE DEF there
      <4> QED
        BY <4>2, <4>3, SumAny
    <3> QED
      BY <3>1
  <2>6. SumOver(g, Z \union {y}) = g[y] + SumOver(g, Z)
    <3>1. IsFiniteSet(Z) /\ \A z \in Z \union {y} : g[z] \in Nat
      BY <2>5, FS_Subset
    <3> QED
      BY <1>2, <3>1, SumAdd
  <2>7. SumOver(g, Z) \in Nat /\ g[y] \in Nat
    <3>1. IsFiniteSet(Z) /\ \A z \in Z : g[z] \in Nat
      BY <2>5, FS_Subset
    <3> QED
      BY <2>5, <3>1, SumAny
  <2>8. SumOver(f, in(Z)) = SumOver(g, Z) /\ SumOver(f, here) = g[y]
    BY <1>2
  <2> HIDE DEF in, here
  <2>9. SumOver(f, in(Z \union {y})) = SumOver(g, Z \union {y})
    <3>1. SumOver(f, in(Z \union {y})) = SumOver(f, in(Z) \union here)
      BY <2>3, Zenon
    <3> QED
      BY <2>4, <2>6, <2>7, <2>8, <3>1
  <2> QED
    BY <2>9
<1>3. Y \in P
  <2> HIDE DEF P
  <2> QED
    BY <1>1, <1>2, ElementInduction
<1>4. in(Y) = S
  OBVIOUS
<1> QED
  BY <1>3, <1>4

-----------------------------------------------------------------------------
(* The session log.                                                        *)

\* A row of the log.
Row == [day: Int, time: 1..MaxTime, wpm: 0..MaxWpm, words: Nat]

\* What a row adds to the sums does not break the cap.
Capped(s) == 2 * Minute * s.words <= 3 * MaxWpm * s.time + Minute

PaceIInv ==
    /\ today \in Int
    /\ sessions \in Seq(Row)
    /\ PaceIsCapped

\* A column of the log.
Column(ss, column) == [k \in DOMAIN ss |-> ss[k][column]]

\* One more session adds its own.
LEMMA ColumnGrows ==
    ASSUME NEW S, NEW ss \in Seq(S), NEW s \in S, NEW column, \A x \in S : x[column] \in Nat
    PROVE  /\ Total(Column(ss, column)) \in Nat
           /\ Total(Column(Append(ss, s), column)) = s[column] + Total(Column(ss, column))
<1> DEFINE more == Append(ss, s)
           n == Len(ss)
           old == Column(ss, column)
           new == Column(more, column)
<1>1. /\ n \in Nat /\ Len(more) = n + 1 /\ more[n + 1] = s /\ more \in Seq(S)
      /\ \A k \in 1..n : more[k] = ss[k] /\ ss[k] \in S
  BY AppendProperties, LenProperties
<1>2. DOMAIN old = 1..n /\ DOMAIN new = (1..n) \union {n + 1}
  <2>1. DOMAIN ss = 1..n /\ DOMAIN more = 1..(n + 1)
    BY <1>1, LenProperties
  <2>2. 1..(n + 1) = (1..n) \union {n + 1}
    BY <1>1
  <2> HIDE DEF n, more
  <2> QED
    BY <2>1, <2>2 DEF Column
<1>3. /\ \A k \in 1..n : old[k] \in Nat /\ new[k] = old[k]
      /\ new[n + 1] = s[column] /\ s[column] \in Nat
  <2> HIDE DEF n, more
  <2> QED
    BY <1>1, <1>2 DEF Column
<1>4. IsFiniteSet(1..n) /\ n + 1 \notin 1..n
  BY <1>1, FS_Interval
<1> HIDE DEF n, more, old, new
<1>5. SumOver(new, (1..n) \union {n + 1}) = new[n + 1] + SumOver(new, 1..n)
  BY <1>3, <1>4, SumAdd
<1>6. SumOver(new, 1..n) = SumOver(old, 1..n)
  BY <1>3, <1>4, SumSame
<1>7. SumOver(old, 1..n) \in Nat
  BY <1>3, <1>4, SumAny
<1>8. Total(old) = SumOver(old, 1..n) /\ Total(new) = SumOver(new, (1..n) \union {n + 1})
  BY <1>2, TotalIs
<1> QED
  BY <1>3, <1>5, <1>6, <1>7, <1>8 DEF old, new, more

\* The numbers involved.
LEMMA ReadingNumbers ==
    /\ Minute \in Nat /\ Minute > 0 /\ MaxTime \in Nat /\ MaxTime > 0 /\ MaxWpm \in Nat
    /\ \A body \in Bodies : body.time \in Int /\ body.words \in Int /\ body.wpm \in Int
    /\ \A d \in Starts : d \in Int
BY ReadingAssumption

\* What rounding to the nearest is.
LEMMA RoundedIs ==
    ASSUME NEW x \in Nat, NEW y \in Nat, y > 0
    PROVE  Rounded(x, y) \in Nat /\ 2 * y * Rounded(x, y) <= 2 * x + y
<1> DEFINE q == (2 * x + y) \div (2 * y)
<1>1. 2 * x + y \in Nat /\ 2 * y \in Nat \ {0}
  OBVIOUS
<1>2. /\ q \in Int /\ (2 * y) * q <= 2 * x + y /\ 2 * x + y < (2 * y) * q + 2 * y
  BY <1>1
<1>3. q >= 0
  BY <1>1
<1> QED
  BY <1>2, <1>3 DEF Rounded

\* The order of products.
LEMMA Products ==
    ASSUME NEW a \in Nat, NEW b \in Nat, NEW c \in Nat, b <= c
    PROVE  a * b \in Nat /\ a * c \in Nat /\ a * b <= a * c
OBVIOUS

\* However a client exaggerates, a row stays within the cap and its rounding.
LEMMA RowsAreCapped ==
    ASSUME NEW body \in Bodies, body.time > 0, body.words >= 0, body.wpm >= 0,
           NEW day \in Int
    PROVE  LET time == AtMost(body.time, MaxTime)
               wpm == AtMost(body.wpm, MaxWpm)
               s == [day |-> day, time |-> time, wpm |-> wpm,
                     words |-> ClampedWords(body.words, time, wpm)]
           IN  s \in Row /\ Capped(s)
<1> DEFINE time == AtMost(body.time, MaxTime)
           wpm == AtMost(body.wpm, MaxWpm)
           w == ClampedWords(body.words, time, wpm)
           s == [day |-> day, time |-> time, wpm |-> wpm, words |-> w]
<1>1. /\ time \in 1..MaxTime /\ wpm \in 0..MaxWpm /\ time \in Nat /\ wpm \in Nat
      /\ wpm <= MaxWpm /\ body.words \in Nat
      /\ Minute \in Nat /\ Minute > 0 /\ MaxWpm \in Nat
  BY ReadingNumbers DEF AtMost
<1> HIDE DEF time, wpm
<1> DEFINE pace == time * wpm
<1>2. pace \in Nat /\ pace <= time * MaxWpm
  BY <1>1, Products
<1>3. w \in Nat /\ 2 * Minute * w <= 3 * pace + Minute
  <2>1. 2 * Minute \in Nat /\ 2 * Minute > 0 /\ 3 * pace \in Nat
    BY <1>1, <1>2
  <2>2. CASE 2 * body.words * Minute < pace
    <3>1. w = Rounded(pace, 2 * Minute)
      BY <2>2 DEF ClampedWords
    <3>2. w \in Nat /\ 2 * (2 * Minute) * w <= 2 * pace + 2 * Minute
      BY <1>2, <2>1, <3>1, RoundedIs
    <3> HIDE DEF w, pace
    <3>3. 2 * (2 * Minute) * w = 2 * (2 * Minute * w)
      BY <1>1, <3>2
    <3>4. 2 * Minute * w \in Nat
      BY <1>1, <3>2
    <3> QED
      BY <1>1, <1>2, <3>2, <3>3, <3>4
  <2>3. CASE ~(2 * body.words * Minute < pace) /\ 2 * body.words * Minute > 3 * pace
    <3>1. w = Rounded(3 * pace, 2 * Minute)
      <4>1. 3 * pace = 3 * time * wpm
        BY <1>1
      <4> QED
        BY <2>3, <4>1 DEF ClampedWords
    <3>2. w \in Nat /\ 2 * (2 * Minute) * w <= 2 * (3 * pace) + 2 * Minute
      BY <2>1, <3>1, RoundedIs
    <3> HIDE DEF w, pace
    <3>3. 2 * (2 * Minute) * w = 2 * (2 * Minute * w)
      BY <1>1, <3>2
    <3>4. 2 * Minute * w \in Nat
      BY <1>1, <3>2
    <3> QED
      BY <1>1, <1>2, <3>2, <3>3, <3>4
  <2>4. CASE ~(2 * body.words * Minute < pace) /\ ~(2 * body.words * Minute > 3 * pace)
    <3>1. w = body.words
      <4>1. 3 * pace = 3 * time * wpm
        BY <1>1
      <4> QED
        BY <2>4, <4>1 DEF ClampedWords
    <3>2. 2 * body.words * Minute <= 3 * pace /\ 2 * body.words * Minute = 2 * Minute * w
      BY <1>1, <1>2, <2>4, <3>1
    <3> QED
      BY <1>1, <1>2, <3>1, <3>2
  <2> QED
    BY <2>2, <2>3, <2>4
<1>4. s \in Row
  BY <1>1, <1>3 DEF Row
<1>5. Capped(s)
  <2>1. 3 * MaxWpm * time = 3 * (time * MaxWpm) /\ time * MaxWpm \in Nat
    BY <1>1
  <2>2. s.words = w /\ s.time = time
    OBVIOUS
  <2> HIDE DEF w, pace, s
  <2>3. 2 * Minute * w \in Nat
    BY <1>1, <1>3
  <2>4. 2 * Minute * w <= 3 * MaxWpm * time + Minute
    BY <1>1, <1>2, <1>3, <2>1, <2>3
  <2> QED
    BY <2>2, <2>4 DEF Capped
<1> QED
  BY <1>4, <1>5 DEF time, wpm

\* The sessions are as many as the log is long.
LEMMA SessionCount ==
    ASSUME NEW S, NEW ss \in Seq(S)
    PROVE  Cardinality(DOMAIN ss) = Len(ss)
<1>1. Len(ss) \in Nat /\ DOMAIN ss = 1..Len(ss)
  BY LenProperties
<1>2. Cardinality(1..Len(ss)) = IF 1 > Len(ss) THEN 0 ELSE Len(ss) - 1 + 1
  BY <1>1, FS_Interval
<1> QED
  BY <1>1, <1>2

\* A session changes the sums by its row.
LEMMA SessionKeepsPace ==
    ASSUME PaceIInv, NEW body \in Bodies, NEW day \in Begun \union {today},
           CreateSession(body, day)
    PROVE  PaceIInv'
<1> DEFINE time == AtMost(body.time, MaxTime)
           wpm == AtMost(body.wpm, MaxWpm)
           s == [day |-> day, time |-> time, wpm |-> wpm,
                 words |-> ClampedWords(body.words, time, wpm)]
<1>1. /\ body.time > 0 /\ body.words >= 0 /\ body.wpm >= 0
      /\ sessions' = Append(sessions, s) /\ today' = today
  BY DEF CreateSession
<1>2. day \in Int
  BY ReadingAssumption DEF PaceIInv
<1>3. s \in Row /\ Capped(s)
  BY <1>1, <1>2, RowsAreCapped
<1> HIDE DEF s
<1>4. /\ sessions \in Seq(Row) /\ Len(sessions) \in Nat
      /\ sessions' \in Seq(Row) /\ Len(sessions') = Len(sessions) + 1
  BY <1>1, <1>3, AppendProperties, LenProperties DEF PaceIInv
<1>5. /\ s.time \in Nat /\ s.words \in Nat
      /\ \A x \in Row : x.time \in Nat /\ x.words \in Nat
  BY <1>3, ReadingNumbers DEF Row
<1>6. PICK T \in Nat : T = Total(Column(sessions, "time"))
  BY <1>3, <1>4, <1>5, ColumnGrows
<1>7. PICK W \in Nat : W = Total(Column(sessions, "words"))
  BY <1>3, <1>4, <1>5, ColumnGrows
<1>8. PICK n \in Nat : n = Len(sessions)
  BY <1>4
<1>9. Stats.sessionWords = W /\ Stats.time = T /\ Stats.sessions = n
  BY <1>4, <1>6, <1>7, <1>8, SessionCount DEF Stats, Summary, Column
<1>10. /\ Stats'.sessionWords = s.words + W /\ Stats'.time = s.time + T
       /\ Stats'.sessions = n + 1
  <2>1. Total(Column(sessions', "time")) = s.time + T
    BY <1>1, <1>3, <1>4, <1>5, <1>6, ColumnGrows
  <2>2. Total(Column(sessions', "words")) = s.words + W
    BY <1>1, <1>3, <1>4, <1>5, <1>7, ColumnGrows
  <2>3. Cardinality(DOMAIN sessions') = n + 1
    BY <1>4, <1>8, SessionCount
  <2> QED
    BY <2>1, <2>2, <2>3 DEF Stats, Summary, Column
<1>11. PaceIsCapped'
  <2> DEFINE V == s.words
             U == s.time
  <2>3. /\ W \in Nat /\ V \in Nat /\ T \in Nat /\ U \in Nat /\ n \in Nat
        /\ Minute \in Nat /\ MaxWpm \in Nat
        /\ 2 * Minute * W <= 3 * MaxWpm * T + Minute * n
        /\ 2 * Minute * V <= 3 * MaxWpm * U + Minute
    BY <1>3, <1>5, <1>9, ReadingNumbers DEF PaceIInv, PaceIsCapped, Capped
  <2>4. Stats'.sessionWords = V + W /\ Stats'.time = U + T /\ Stats'.sessions = n + 1
    BY <1>10
  <2> HIDE DEF V, U
  <2>5. 2 * Minute * (V + W) <= 3 * MaxWpm * (U + T) + Minute * (n + 1)
    <3>1. /\ 2 * Minute * (V + W) = 2 * Minute * V + 2 * Minute * W
          /\ 3 * MaxWpm * (U + T) = 3 * MaxWpm * U + 3 * MaxWpm * T
          /\ Minute * (n + 1) = Minute * n + Minute
      BY <2>3
    <3>2. /\ 2 * Minute * W \in Nat /\ 2 * Minute * V \in Nat /\ 3 * MaxWpm * T \in Nat
          /\ 3 * MaxWpm * U \in Nat /\ Minute * n \in Nat
      BY <2>3
    <3> QED
      BY <2>3, <3>1, <3>2
  <2> QED
    BY <2>4, <2>5 DEF PaceIsCapped
<1> QED
  BY <1>1, <1>4, <1>11 DEF PaceIInv

\* The pace of a life of sessions.
LEMMA PaceInvariance == ReadingSpec => []PaceIInv
<1>1. ReadingInit => PaceIInv
  <2> SUFFICES ASSUME ReadingInit
               PROVE  PaceIInv
    OBVIOUS
  <2>1. sessions = <<>> /\ today \in Int
    BY ReadingNumbers DEF ReadingInit
  <2>2. DOMAIN sessions = {} /\ Cardinality(DOMAIN sessions) = 0
    BY <2>1, FS_EmptySet
  <2>5. ASSUME NEW f, DOMAIN f = {}
        PROVE  Total(f) = 0
    BY <2>5, TotalIs, SumNone
  <2>3. Stats.sessionWords = 0 /\ Stats.time = 0 /\ Stats.sessions = 0
    BY <2>2, <2>5 DEF Stats, Summary
  <2>4. 2 * Minute * 0 = 0 /\ 3 * MaxWpm * 0 = 0 /\ Minute * 0 = 0
    BY ReadingNumbers
  <2> QED
    BY <2>1, <2>2, <2>3, <2>4 DEF PaceIInv, PaceIsCapped
<1>2. PaceIInv /\ [ReadingNext]_readingVars => PaceIInv'
  <2> SUFFICES ASSUME PaceIInv, [ReadingNext]_readingVars
               PROVE  PaceIInv'
    OBVIOUS
  <2>1. ASSUME sessions' = sessions, today' \in Int
        PROVE  PaceIInv'
    <3>1. /\ Stats'.sessionWords = Stats.sessionWords /\ Stats'.time = Stats.time
          /\ Stats'.sessions = Stats.sessions
      BY <2>1 DEF Stats, Summary
    <3> QED
      BY <2>1, <3>1 DEF PaceIInv, PaceIsCapped
  <2>2. CASE UNCHANGED readingVars
    BY <2>1, <2>2 DEF readingVars, PaceIInv
  <2>3. ASSUME NEW date \in Dates, NEW read \in Reads, Accept(date, read)
        PROVE  PaceIInv'
    BY <2>1, <2>3 DEF Accept, PaceIInv
  <2>4. CASE Record
    BY <2>1, <2>4 DEF Record, PaceIInv
  <2>5. CASE Tick
    BY <2>1, <2>5 DEF Tick, PaceIInv
  <2> QED
    BY <2>2, <2>3, <2>4, <2>5, SessionKeepsPace DEF ReadingNext
<1> QED
  BY <1>1, <1>2, PTL DEF ReadingSpec

\* The lifetime pace stays within the cap and half a word for each session, for any
\* summaries, cap, number and length of sessions.
THEOREM PaceStaysCapped == ReadingSpec => []PaceIsCapped
<1>1. PaceIInv => PaceIsCapped
  BY DEF PaceIInv
<1> QED
  BY <1>1, PaceInvariance, PTL

-----------------------------------------------------------------------------
(* The order of dates, and the years.                                      *)

\* The dates of the calendar.
RealDates == {CivilFromDays(n) : n \in Int}

\* A date of the calendar, and its day.
LEMMA RealDate ==
    ASSUME NEW d \in RealDates
    PROVE  /\ DaysFromCivil(d) \in Int /\ CivilFromDays(DaysFromCivil(d)) = d
           /\ \E y \in Int, m \in 1..12, k \in 1..31 : d = <<y, m, k>> /\ k <= MonthLength(y, m)
<1>1. PICK n \in Int : d = CivilFromDays(n)
  BY DEF RealDates
<1>2. /\ DaysFromCivil(d) = n
      /\ \E y \in Int, m \in 1..12, k \in 1..31 :
            CivilFromDays(n) = <<y, m, k>> /\ k <= MonthLength(y, m)
  BY <1>1, RoundTrip
<1> QED
  BY <1>1, <1>2

\* The order of the table, spelled out.
LEMMA EarlierIs ==
    ASSUME NEW y \in Int, NEW m \in Int, NEW k \in Int, NEW z \in Int, NEW l \in Int, NEW j \in Int
    PROVE  Earlier(<<y, m, k>>, <<z, l, j>>)
             <=> y < z \/ (y = z /\ (m < l \/ (m = l /\ k < j)))
<1> DEFINE a == <<y, m, k>>
           b == <<z, l, j>>
<1>1. a[1] = y /\ a[2] = m /\ a[3] = k /\ b[1] = z /\ b[2] = l /\ b[3] = j
  OBVIOUS
<1> HIDE DEF a, b
<1>2. \A i \in 1..3 : i = 1 \/ i = 2 \/ i = 3
  OBVIOUS
<1>3. /\ \A i \in 1..(1 - 1) : FALSE
      /\ \A i \in 1..(2 - 1) : i = 1
      /\ \A i \in 1..(3 - 1) : i = 1 \/ i = 2
      /\ 1 \in 1..3 /\ 2 \in 1..3 /\ 3 \in 1..3
      /\ 1 \in 1..(2 - 1) /\ 1 \in 1..(3 - 1) /\ 2 \in 1..(3 - 1)
  OBVIOUS
<1>4. ASSUME Earlier(a, b)
      PROVE  y < z \/ (y = z /\ (m < l \/ (m = l /\ k < j)))
  <2>1. PICK i \in 1..3 : a[i] < b[i] /\ \A h \in 1..(i - 1) : a[h] = b[h]
    BY <1>4 DEF Earlier
  <2> QED
    BY <1>1, <1>2, <1>3, <2>1
<1>5. ASSUME y < z \/ (y = z /\ (m < l \/ (m = l /\ k < j)))
      PROVE  Earlier(a, b)
  <2>1. CASE y < z
    <3>1. a[1] < b[1] /\ \A h \in 1..(1 - 1) : a[h] = b[h]
      BY <1>1, <1>3, <2>1
    <3> QED
      BY <1>3, <3>1 DEF Earlier
  <2>2. CASE y = z /\ m < l
    <3>1. a[2] < b[2] /\ \A h \in 1..(2 - 1) : a[h] = b[h]
      BY <1>1, <1>3, <2>2
    <3> QED
      BY <1>3, <3>1 DEF Earlier
  <2>3. CASE y = z /\ m = l /\ k < j
    <3>1. a[3] < b[3] /\ \A h \in 1..(3 - 1) : a[h] = b[h]
      BY <1>1, <1>3, <2>3
    <3> QED
      BY <1>3, <3>1 DEF Earlier
  <2> QED
    BY <1>5, <2>1, <2>2, <2>3
<1> QED
  BY <1>4, <1>5 DEF a, b

\* The year x begins as far from the epoch as the year before is long, counted from March.
BeginsAt(x) == NewYear(x) = Since(x - 1) - 719162 /\ Since(x - 1) \in Int

\* What a new year is.
LEMMA NewYearIs == ASSUME NEW x \in Int PROVE BeginsAt(x)
<1>1. PICK m : m = 1
  OBVIOUS
<1>2. m \in 1..12 /\ m \in Int /\ Before(m) = 306 /\ x - 1 \in Int
  BY <1>1 DEF Before
<1>3. DaysFromCivil(<<x, m, m>>) = Since(IF m <= 2 THEN x - 1 ELSE x) + (Before(m) + m - 719469)
  BY <1>2, DaysIs
<1>4. (IF m <= 2 THEN x - 1 ELSE x) = x - 1
  BY <1>1
<1>5. Before(m) + m - 719469 = -719162
  BY <1>1, <1>2
<1>6. Since(x - 1) \in Int
  BY <1>2, YearLength
<1>7. DaysFromCivil(<<x, m, m>>) = Since(x - 1) + (-719162)
  BY <1>3, <1>4, <1>5
<1>8. NewYear(x) = Since(x - 1) + (-719162)
  BY <1>1, <1>7 DEF NewYear
<1> QED
  BY <1>6, <1>8 DEF BeginsAt

\* A date lies in its year.
LEMMA InYear ==
    ASSUME NEW y \in Int, NEW m \in 1..12, NEW k \in 1..31, k <= MonthLength(y, m)
    PROVE  /\ DaysFromCivil(<<y, m, k>>) \in Int
           /\ NewYear(y) \in Int /\ NewYear(y + 1) \in Int
           /\ NewYear(y) <= DaysFromCivil(<<y, m, k>>)
           /\ DaysFromCivil(<<y, m, k>>) < NewYear(y + 1)
<1>1. /\ Since(y - 1) \in Int /\ Since(y) \in Int
      /\ Since(y) = Since(y - 1) + (IF IsLeap(y) THEN 366 ELSE 365)
  <2>1. y - 1 \in Int /\ y - 1 + 1 = y
    OBVIOUS
  <2> QED
    BY <2>1, YearLength
<1>2. Before(m) \in Int
  BY DEF Before
<1>3. DaysFromCivil(<<y, m, k>>) = Since(IF m <= 2 THEN y - 1 ELSE y) + (Before(m) + k - 719469)
  BY DaysIs
<1>4. NewYear(y) = Since(y - 1) - 719162
  <2>1. BeginsAt(y)
    BY NewYearIs
  <2> QED
    BY <2>1 DEF BeginsAt
<1>5. NewYear(y + 1) = Since(y) - 719162
  <2>1. y + 1 \in Int /\ (y + 1) - 1 = y
    OBVIOUS
  <2>2. BeginsAt(y + 1)
    BY <2>1, NewYearIs
  <2> QED
    BY <2>1, <2>2 DEF BeginsAt
<1>6. CASE m <= 2
  <2>1. DaysFromCivil(<<y, m, k>>) = Since(y - 1) + (Before(m) + k - 719469)
    BY <1>3, <1>6
  <2>2. 306 <= Before(m) /\ Before(m) + k <= IF IsLeap(y) THEN 366 ELSE 365
    <3>1. m = 1 \/ m = 2
      BY <1>6
    <3> QED
      BY <3>1 DEF Before, MonthLength
  <2> QED
    BY <1>1, <1>2, <1>4, <1>5, <2>1, <2>2
<1>7. CASE ~(m <= 2)
  <2>1. DaysFromCivil(<<y, m, k>>) = Since(y) + (Before(m) + k - 719469)
    BY <1>3, <1>7
  <2>2. 0 <= Before(m) /\ Before(m) + k <= 306
    <3>1. m = 3 \/ m = 4 \/ m = 5 \/ m = 6 \/ m = 7 \/ m = 8 \/ m = 9 \/ m = 10 \/ m = 11 \/ m = 12
      BY <1>7
    <3>3. CASE m = 3
      BY <3>3 DEF Before, MonthLength
    <3>4. CASE m = 4
      BY <3>4 DEF Before, MonthLength
    <3>5. CASE m = 5
      BY <3>5 DEF Before, MonthLength
    <3>6. CASE m = 6
      BY <3>6 DEF Before, MonthLength
    <3>7. CASE m = 7
      BY <3>7 DEF Before, MonthLength
    <3>8. CASE m = 8
      BY <3>8 DEF Before, MonthLength
    <3>9. CASE m = 9
      BY <3>9 DEF Before, MonthLength
    <3>10. CASE m = 10
      BY <3>10 DEF Before, MonthLength
    <3>11. CASE m = 11
      BY <3>11 DEF Before, MonthLength
    <3>12. CASE m = 12
      BY <3>12 DEF Before, MonthLength
    <3> QED
      BY <3>1, <3>3, <3>4, <3>5, <3>6, <3>7, <3>8, <3>9, <3>10, <3>11, <3>12
  <2>3. Since(y - 1) + 365 <= Since(y) /\ 1 <= k
    BY <1>1
  <2>4. DaysFromCivil(<<y, m, k>>) < NewYear(y + 1)
    BY <1>1, <1>2, <1>5, <2>1, <2>2
  <2>5. NewYear(y) <= DaysFromCivil(<<y, m, k>>)
    BY <1>1, <1>2, <1>4, <2>1, <2>2, <2>3
  <2>6. DaysFromCivil(<<y, m, k>>) \in Int
    BY <1>1, <1>2, <2>1
  <2> QED
    BY <1>1, <1>4, <1>5, <2>4, <2>5, <2>6
<1> QED
  BY <1>6, <1>7

\* New years follow one another.
LEMMA NewYears ==
    ASSUME NEW y \in Int, NEW z \in Int, y < z
    PROVE  NewYear(y + 1) <= NewYear(z)
<1>1. NewYear(z) = Since(z - 1) - 719162 /\ Since(z - 1) \in Int
  <2>1. BeginsAt(z)
    BY NewYearIs
  <2> QED
    BY <2>1 DEF BeginsAt
<1>2. y + 1 \in Int /\ z - 1 \in Int /\ (y + 1) - 1 = y /\ (y < z - 1 \/ y = z - 1)
  OBVIOUS
<1>5. NewYear(y + 1) = Since(y) - 719162 /\ Since(y) \in Int
  <2>1. BeginsAt(y + 1)
    BY <1>2, NewYearIs
  <2> QED
    BY <1>2, <2>1 DEF BeginsAt
<1>3. CASE y = z - 1
  BY <1>1, <1>3, <1>5
<1>4. CASE y < z - 1
  <2>1. Since(y + 1) <= Since(z - 1)
    BY <1>2, <1>4, SinceGrows
  <2>2. Since(y + 1) = Since(y) + (IF IsLeap(y + 1) THEN 366 ELSE 365)
    BY YearLength
  <2> QED
    BY <1>1, <1>5, <2>1, <2>2
<1> QED
  BY <1>2, <1>3, <1>4

\* Within a year, later months and days come later.
LEMMA LaterInYear ==
    ASSUME NEW y \in Int, NEW m \in 1..12, NEW k \in 1..31, k <= MonthLength(y, m),
           NEW l \in 1..12, NEW j \in 1..31, m < l \/ (m = l /\ k < j)
    PROVE  DaysFromCivil(<<y, m, k>>) < DaysFromCivil(<<y, l, j>>)
<1>1. /\ Since(y - 1) \in Int /\ Since(y) \in Int
      /\ Since(y) = Since(y - 1) + (IF IsLeap(y) THEN 366 ELSE 365)
  <2>1. y - 1 \in Int /\ y - 1 + 1 = y
    OBVIOUS
  <2> QED
    BY <2>1, YearLength
<1>2. Before(m) \in Int /\ Before(l) \in Int
  BY DEF Before
<1>3. DaysFromCivil(<<y, m, k>>) = Since(IF m <= 2 THEN y - 1 ELSE y) + (Before(m) + k - 719469)
  BY DaysIs
<1>4. DaysFromCivil(<<y, l, j>>) = Since(IF l <= 2 THEN y - 1 ELSE y) + (Before(l) + j - 719469)
  BY DaysIs
<1>5. CASE m = l
  BY <1>1, <1>2, <1>3, <1>4, <1>5
<1>6. CASE m < l
  <2>1. CASE m <= 2 /\ l > 2
    <3>1. Since(y - 1) + (Before(m) + k) <= Since(y)
      <4>1. m = 1 \/ m = 2
        BY <2>1
      <4> QED
        BY <1>1, <4>1 DEF Before, MonthLength
    <3>2. Before(l) >= 0
      BY DEF Before
    <3>3. DaysFromCivil(<<y, m, k>>) = Since(y - 1) + (Before(m) + k - 719469)
      BY <1>3, <2>1
    <3>4. DaysFromCivil(<<y, l, j>>) = Since(y) + (Before(l) + j - 719469)
      BY <1>4, <2>1
    <3> QED
      BY <1>1, <1>2, <3>1, <3>2, <3>3, <3>4
  <2>2. CASE m <= 2 /\ ~(l > 2)
    <3>1. m = 1 /\ l = 2 /\ Before(m) = 306 /\ Before(l) = 337
      BY <1>6, <2>2 DEF Before
    <3>3. DaysFromCivil(<<y, m, k>>) = Since(y - 1) + (Before(m) + k - 719469)
      BY <1>3, <2>2
    <3>4. DaysFromCivil(<<y, l, j>>) = Since(y - 1) + (Before(l) + j - 719469)
      BY <1>4, <2>2
    <3> QED
      BY <1>1, <3>1, <3>3, <3>4
  <2>3. CASE ~(m <= 2)
    <3>1. Before(m) + k <= Before(l)
      <4>1. CASE m = 3
        BY <1>6, <4>1 DEF Before, MonthLength
      <4>2. CASE m = 4
        BY <1>6, <4>2 DEF Before, MonthLength
      <4>3. CASE m = 5
        BY <1>6, <4>3 DEF Before, MonthLength
      <4>4. CASE m = 6
        BY <1>6, <4>4 DEF Before, MonthLength
      <4>5. CASE m = 7
        BY <1>6, <4>5 DEF Before, MonthLength
      <4>6. CASE m = 8
        BY <1>6, <4>6 DEF Before, MonthLength
      <4>7. CASE m = 9
        BY <1>6, <4>7 DEF Before, MonthLength
      <4>8. CASE m = 10
        BY <1>6, <4>8 DEF Before, MonthLength
      <4>9. CASE m = 11
        BY <1>6, <4>9 DEF Before, MonthLength
      <4> QED
        BY <1>6, <2>3, <4>1, <4>2, <4>3, <4>4, <4>5, <4>6, <4>7, <4>8, <4>9
    <3>3. DaysFromCivil(<<y, m, k>>) = Since(y) + (Before(m) + k - 719469)
      BY <1>3, <2>3
    <3>4. DaysFromCivil(<<y, l, j>>) = Since(y) + (Before(l) + j - 719469)
      BY <1>4, <1>6, <2>3
    <3> QED
      BY <1>1, <1>2, <3>1, <3>3, <3>4
  <2> QED
    BY <2>1, <2>2, <2>3
<1> QED
  BY <1>5, <1>6

\* The order of the table is the order of the days.
LEMMA EarlierDays ==
    ASSUME NEW a \in RealDates, NEW b \in RealDates
    PROVE  Earlier(a, b) <=> DaysFromCivil(a) < DaysFromCivil(b)
<1>1. PICK y \in Int, m \in 1..12, k \in 1..31 : a = <<y, m, k>> /\ k <= MonthLength(y, m)
  BY RealDate
<1>2. PICK z \in Int, l \in 1..12, j \in 1..31 : b = <<z, l, j>> /\ j <= MonthLength(z, l)
  BY RealDate
<1>3. /\ Earlier(a, b) <=> y < z \/ (y = z /\ (m < l \/ (m = l /\ k < j)))
      /\ Earlier(b, a) <=> z < y \/ (y = z /\ (l < m \/ (m = l /\ j < k)))
  BY <1>1, <1>2, EarlierIs, SMTT(30)
<1>4. /\ DaysFromCivil(a) \in Int /\ NewYear(y) \in Int /\ NewYear(y + 1) \in Int
      /\ NewYear(y) <= DaysFromCivil(a) /\ DaysFromCivil(a) < NewYear(y + 1)
  BY <1>1, InYear, Zenon
<1>5. /\ DaysFromCivil(b) \in Int /\ NewYear(z) \in Int /\ NewYear(z + 1) \in Int
      /\ NewYear(z) <= DaysFromCivil(b) /\ DaysFromCivil(b) < NewYear(z + 1)
  BY <1>2, InYear, Zenon
<1>6. Earlier(a, b) => DaysFromCivil(a) < DaysFromCivil(b)
  <2>1. CASE y < z
    <3>1. NewYear(y + 1) <= NewYear(z)
      BY <2>1, NewYears
    <3> QED
      BY <1>4, <1>5, <3>1
  <2>2. CASE y = z /\ (m < l \/ (m = l /\ k < j))
    <3>1. DaysFromCivil(<<y, m, k>>) < DaysFromCivil(<<y, l, j>>)
      BY <1>1, <2>2, LaterInYear, Zenon
    <3> QED
      BY <1>1, <1>2, <2>2, <3>1, Zenon
  <2> QED
    BY <1>3, <2>1, <2>2
<1>7. Earlier(b, a) => DaysFromCivil(b) < DaysFromCivil(a)
  <2>1. CASE z < y
    <3>1. NewYear(z + 1) <= NewYear(y)
      BY <2>1, NewYears
    <3> QED
      BY <1>4, <1>5, <3>1
  <2>2. CASE y = z /\ (l < m \/ (m = l /\ j < k))
    <3>1. DaysFromCivil(<<z, l, j>>) < DaysFromCivil(<<z, m, k>>)
      BY <1>2, <2>2, LaterInYear, Zenon
    <3> QED
      BY <1>1, <1>2, <2>2, <3>1, Zenon
  <2> QED
    BY <1>3, <2>1, <2>2
<1>8. CASE Earlier(a, b)
  BY <1>6, <1>8
<1>9. CASE Earlier(b, a)
  BY <1>4, <1>5, <1>6, <1>7, <1>9
<1>10. CASE ~Earlier(a, b) /\ ~Earlier(b, a)
  <2>1. y = z /\ m = l /\ k = j
    BY <1>3, <1>10
  <2> QED
    BY <1>1, <1>2, <1>4, <1>10, <2>1
<1> QED
  BY <1>8, <1>9, <1>10

-----------------------------------------------------------------------------
(* The streaks.                                                            *)

\* The dates of a log that met the goal, and their days.
Met(log) == {d \in DOMAIN log : log[d] >= DailyGoal}
MetDays(log) == {DaysFromCivil(d) : d \in Met(log)}

\* The dates earlier than one of them, and their number.
Below(dates, d) == {e \in dates : Earlier(e, d)}
Rank(dates, d) == Cardinality(Below(dates, d))

\* Every place is the rank of one date.
LEMMA RanksArePlaces ==
    ASSUME NEW dates, IsFiniteSet(dates), dates \subseteq RealDates
    PROVE  /\ Cardinality(dates) \in Nat
           /\ \A d \in dates : Rank(dates, d) \in 0..(Cardinality(dates) - 1)
           /\ \A d, e \in dates : Earlier(e, d) => Rank(dates, e) < Rank(dates, d)
           /\ \A d, e \in dates : Rank(dates, e) = Rank(dates, d) => e = d
           /\ \A k \in 0..(Cardinality(dates) - 1) : \E d \in dates : Rank(dates, d) = k
<1> DEFINE n == Cardinality(dates)
<1>1. n \in Nat
  BY FS_CardinalityType
<1>2. \A d, e \in dates : Earlier(e, d) <=> DaysFromCivil(e) < DaysFromCivil(d)
  BY EarlierDays
<1>3. \A d \in dates : DaysFromCivil(d) \in Int /\ CivilFromDays(DaysFromCivil(d)) = d
  BY RealDate
<1>4. ASSUME NEW d \in dates
      PROVE  /\ IsFiniteSet(Below(dates, d)) /\ Rank(dates, d) \in 0..(n - 1)
             /\ d \notin Below(dates, d)
  <2>1. d \notin Below(dates, d)
    BY <1>2, <1>3 DEF Below
  <2>2. IsFiniteSet(dates \ {d}) /\ Cardinality(dates \ {d}) = n - 1
    BY FS_RemoveElement
  <2>3. Below(dates, d) \in SUBSET (dates \ {d})
    BY <2>1 DEF Below
  <2>4. IsFiniteSet(Below(dates, d)) /\ Rank(dates, d) <= n - 1
    BY <2>2, <2>3, FS_Subset DEF Rank
  <2>5. Rank(dates, d) \in Nat
    BY <2>4, FS_CardinalityType DEF Rank
  <2> QED
    BY <1>1, <2>1, <2>4, <2>5
<1>5. ASSUME NEW d \in dates, NEW e \in dates, Earlier(e, d)
      PROVE  Rank(dates, e) < Rank(dates, d)
  <2>1. Below(dates, e) \union {e} \in SUBSET Below(dates, d)
    <3>1. \A x \in Below(dates, e) : x \in Below(dates, d)
      BY <1>2, <1>3, <1>5 DEF Below
    <3>2. e \in Below(dates, d)
      BY <1>5 DEF Below
    <3> QED
      BY <3>1, <3>2
  <2>2. Cardinality(Below(dates, e) \union {e}) = Rank(dates, e) + 1
    BY <1>4, FS_AddElement DEF Rank
  <2>3. Cardinality(Below(dates, e) \union {e}) <= Rank(dates, d)
    BY <1>4, <2>1, FS_Subset DEF Rank
  <2>4. Rank(dates, d) \in 0..(n - 1) /\ Rank(dates, e) \in 0..(n - 1)
    BY <1>4
  <2> QED
    BY <1>1, <2>2, <2>3, <2>4
<1>6. ASSUME NEW d \in dates, NEW e \in dates, Rank(dates, e) = Rank(dates, d)
      PROVE  e = d
  <2>1. ~Earlier(e, d) /\ ~Earlier(d, e)
    BY <1>4, <1>5, <1>6
  <2>2. DaysFromCivil(e) = DaysFromCivil(d)
    BY <1>2, <1>3, <2>1
  <2> QED
    BY <1>3, <2>2
<1>7. \A k \in 0..(n - 1) : \E d \in dates : Rank(dates, d) = k
  <2> DEFINE f == [d \in dates |-> Rank(dates, d)]
             places == 0..(n - 1)
  <2>1. f \in Injection(dates, places)
    <3>1. f \in [dates -> places]
      BY <1>4
    <3>2. \A d, e \in dates : f[d] = f[e] => d = e
      BY <1>6
    <3> QED
      BY <3>1, <3>2 DEF Injection, IsInjective
  <2>2. IsFiniteSet(places) /\ Cardinality(places) = n
    <3>1. 0 \in Int /\ n - 1 \in Int
      BY <1>1
    <3>2. IsFiniteSet(0..(n - 1)) /\ Cardinality(0..(n - 1)) = IF 0 > n - 1 THEN 0 ELSE (n - 1) - 0 + 1
      BY <3>1, FS_Interval
    <3> QED
      BY <1>1, <3>2
  <2>3. f \in Surjection(dates, places)
    BY <2>1, <2>2, FS_Injection
  <2>4. \A k \in places : \E d \in dates : f[d] = k
    BY <2>3 DEF Surjection
  <2> QED
    BY <2>4
<1> QED
  BY <1>1, <1>4, <1>5, <1>6, <1>7

\* Which date has a rank.
Ranked(dates, k) == CHOOSE d \in dates : Rank(dates, d) = k - 1

\* The days are those that met the goal, in their order, each once.
LEMMA QualifyingIs ==
    ASSUME NEW log, IsFiniteSet(DOMAIN log), DOMAIN log \subseteq RealDates
    PROVE  LET days == Qualifying(log)
               n == Cardinality(MetDays(log))
           IN  /\ IsFiniteSet(MetDays(log)) /\ MetDays(log) \subseteq Int /\ n \in Nat
               /\ days \in Seq(Int) /\ Len(days) = n
               /\ ToSet(days) = MetDays(log)
               /\ \A i, j \in 1..n : i < j => days[i] < days[j]
<1> DEFINE dates == Met(log)
           days == Qualifying(log)
           m == Cardinality(dates)
<1>1. IsFiniteSet(dates) /\ dates \subseteq RealDates
  <2>1. dates \in SUBSET DOMAIN log
    BY DEF Met
  <2> QED
    BY <2>1, FS_Subset
<1>2. days = [k \in 1..m |-> DaysFromCivil(Ranked(dates, k))]
  BY DEF Qualifying, Ranked, Rank, Below, Met
<1> HIDE DEF dates, days
<1>3. m \in Nat
  BY <1>1, FS_CardinalityType
<1>4. ASSUME NEW k \in 1..m
      PROVE  Ranked(dates, k) \in dates /\ Rank(dates, Ranked(dates, k)) = k - 1
  <2>1. k - 1 \in 0..(m - 1)
    BY <1>3
  <2>2. \E d \in dates : Rank(dates, d) = k - 1
    BY <1>1, <2>1, RanksArePlaces
  <2> QED
    BY <2>2 DEF Ranked
<1>5. \A d \in dates : DaysFromCivil(d) \in Int /\ CivilFromDays(DaysFromCivil(d)) = d
  BY <1>1, RealDate
<1>6. days \in [1..m -> Int]
  BY <1>2, <1>4, <1>5
<1>7. days \in Seq(Int) /\ Len(days) = m
  BY <1>3, <1>6
<1>8. MetDays(log) = {DaysFromCivil(d) : d \in dates}
  BY DEF MetDays, dates
<1>9. \A k \in 1..m : days[k] \in MetDays(log)
  BY <1>2, <1>4, <1>8
<1>10. ASSUME NEW x \in MetDays(log)
       PROVE  \E k \in 1..m : days[k] = x
  <2>1. PICK d \in dates : x = DaysFromCivil(d)
    BY <1>8
  <2>2. Rank(dates, d) \in 0..(m - 1)
    BY <1>1, RanksArePlaces
  <2>3. PICK k : k = Rank(dates, d) + 1
    OBVIOUS
  <2>4. k \in 1..m /\ k - 1 = Rank(dates, d)
    BY <1>3, <2>2, <2>3
  <2>5. Ranked(dates, k) = d
    BY <1>1, <1>4, <2>4, RanksArePlaces
  <2> QED
    BY <1>2, <2>1, <2>4, <2>5
<1>11. ToSet(days) = MetDays(log)
  <2>1. DOMAIN days = 1..m
    BY <1>2
  <2> QED
    BY <1>9, <1>10, <2>1 DEF ToSet
<1>12. IsFiniteSet(MetDays(log)) /\ Cardinality(MetDays(log)) = m
  <2> DEFINE f == [d \in dates |-> DaysFromCivil(d)]
  <2>1. f \in [dates -> MetDays(log)]
    BY <1>8
  <2>2. f \in Injection(dates, MetDays(log))
    BY <1>5, <2>1 DEF Injection, IsInjective
  <2>3. f \in Surjection(dates, MetDays(log))
    BY <1>8, <2>1 DEF Surjection
  <2>4. ExistsBijection(dates, MetDays(log))
    BY <2>2, <2>3 DEF ExistsBijection, Bijection
  <2> QED
    BY <1>1, <2>4, FS_Bijection
<1>13. ASSUME NEW i \in 1..m, NEW j \in 1..m, i < j
       PROVE  days[i] < days[j]
  <2> DEFINE a == Ranked(dates, i)
             b == Ranked(dates, j)
  <2>1. a \in dates /\ b \in dates /\ Rank(dates, a) = i - 1 /\ Rank(dates, b) = j - 1
    BY <1>4
  <2>2. days[i] = DaysFromCivil(a) /\ days[j] = DaysFromCivil(b)
    BY <1>2
  <2> HIDE DEF a, b
  <2>3. ~Earlier(b, a)
    <3>1. Earlier(b, a) => Rank(dates, b) < Rank(dates, a)
      BY <1>1, <2>1, RanksArePlaces
    <3> QED
      BY <1>3, <1>13, <2>1, <3>1
  <2>4. a # b
    BY <1>3, <1>13, <2>1
  <2>5. ~(DaysFromCivil(b) < DaysFromCivil(a))
    BY <1>1, <2>1, <2>3, EarlierDays
  <2>6. DaysFromCivil(b) # DaysFromCivil(a)
    BY <1>5, <2>1, <2>4
  <2> QED
    BY <1>5, <2>1, <2>2, <2>5, <2>6
<1>14. MetDays(log) \subseteq Int
  BY <1>5, <1>8
<1> QED
  BY <1>3, <1>7, <1>11, <1>12, <1>13, <1>14 DEF days

\* The n days up to the day a are in M, and the one before them is not.
IsRun(M, a, n) == a - n \notin M /\ \A k \in 0..(n - 1) : a - k \in M

\* There is only one such number.
LEMMA OneRun ==
    ASSUME NEW M, NEW a \in Int, NEW n \in Nat, NEW m \in Nat, IsRun(M, a, n), IsRun(M, a, m)
    PROVE  n = m
<1>1. ~(n < m)
  <2>1. n < m => n \in 0..(m - 1)
    OBVIOUS
  <2> QED
    BY <2>1 DEF IsRun
<1>2. ~(m < n)
  <2>1. m < n => m \in 0..(n - 1)
    OBVIOUS
  <2> QED
    BY <2>1 DEF IsRun
<1> QED
  BY <1>1, <1>2

\* Every day of a finite set ends a run, no longer than the set is large.
LEMMA RunsEnd ==
    ASSUME NEW M \in SUBSET Int, IsFiniteSet(M), NEW a \in M
    PROVE  \E n \in 1..Cardinality(M) : IsRun(M, a, n)
<1> DEFINE c == Cardinality(M)
           gaps == {k \in 0..c : a - k \notin M}
<1>1. c \in Nat /\ a \in Int
  BY FS_CardinalityType
<1>2. gaps # {}
  <2> DEFINE f == [k \in 0..c |-> a - k]
  <2> SUFFICES ASSUME gaps = {}
               PROVE  FALSE
    OBVIOUS
  <2>1. f \in Injection(0..c, M)
    <3>1. f \in [0..c -> M]
      OBVIOUS
    <3>2. \A k, j \in 0..c : f[k] = f[j] => k = j
      BY <1>1
    <3> QED
      BY <3>1, <3>2 DEF Injection, IsInjective
  <2>2. Cardinality(0..c) <= c
    BY <2>1, FS_Injection
  <2>3. Cardinality(0..c) = IF 0 > c THEN 0 ELSE c - 0 + 1
    BY <1>1, FS_Interval
  <2> QED
    BY <1>1, <2>2, <2>3
<1>3. PICK n \in gaps : \A k \in gaps : n <= k
  <2>1. gaps \in SUBSET Nat
    BY <1>1
  <2> HIDE DEF gaps
  <2> QED
    BY <1>2, <2>1, LeastNatural
<1>4. n \in 0..c /\ a - n \notin M
  OBVIOUS
<1>5. ASSUME NEW k \in 0..(n - 1)
      PROVE  a - k \in M
  <2>1. k \in 0..c /\ ~(n <= k)
    BY <1>1, <1>4
  <2> QED
    BY <1>3, <2>1
<1>6. n # 0
  BY <1>1, <1>4
<1> QED
  BY <1>1, <1>4, <1>5, <1>6 DEF IsRun

\* What the walk back from today finds.
LEMMA CurrentIs ==
    ASSUME NEW log, IsFiniteSet(DOMAIN log), DOMAIN log \subseteq RealDates, NEW now \in Int
    PROVE  LET n == Current(Qualifying(log), now)
           IN  /\ n \in 0..Cardinality(MetDays(log))
               /\ now \in MetDays(log) => n > 0 /\ IsRun(MetDays(log), now, n)
               /\ now \notin MetDays(log) /\ now - 1 \in MetDays(log)
                    => n > 0 /\ IsRun(MetDays(log), now - 1, n)
               /\ now \notin MetDays(log) /\ now - 1 \notin MetDays(log) => n = 0
<1> DEFINE days == Qualifying(log)
           ends == Anchors(now) \intersect ToSet(days)
           anchor == CHOOSE a \in ends : \A b \in ends : b <= a
           walk == CHOOSE n \in 1..Len(days) :
                      /\ anchor - n \notin ToSet(days)
                      /\ \A k \in 0..(n - 1) : anchor - k \in ToSet(days)
           M == MetDays(log)
<1>1. /\ IsFiniteSet(M) /\ M \in SUBSET Int /\ Cardinality(M) \in Nat
      /\ Len(days) = Cardinality(M) /\ ToSet(days) = M
  BY QualifyingIs
<1>2. Current(days, now) = IF ends = {} THEN 0 ELSE walk
  BY DEF Current
<1> HIDE DEF days, M
<1>3. ends = {a \in {now, now - 1} : a \in M}
  BY <1>1 DEF Anchors
<1>4. ASSUME NEW a \in M, anchor = a
      PROVE  walk \in 1..Cardinality(M) /\ IsRun(M, a, walk)
  <2>1. walk = CHOOSE n \in 1..Cardinality(M) : IsRun(M, a, n)
    BY <1>1, <1>4 DEF IsRun
  <2> HIDE DEF walk
  <2>2. \E n \in 1..Cardinality(M) : IsRun(M, a, n)
    BY <1>1, RunsEnd
  <2> QED
    BY <2>1, <2>2
<1>5. CASE now \in M
  <2>1. anchor = now
    <3>1. now \in ends /\ \A b \in ends : b <= now
      BY <1>3, <1>5
    <3>2. \A a \in ends : (\A b \in ends : b <= a) => a = now
      BY <1>3, <1>5
    <3> HIDE DEF ends
    <3> QED
      BY <3>1, <3>2
  <2>2. walk \in 1..Cardinality(M) /\ IsRun(M, now, walk)
    BY <1>4, <1>5, <2>1
  <2>3. Current(days, now) = walk
    BY <1>2, <1>3, <1>5
  <2> HIDE DEF walk
  <2> QED
    BY <1>1, <1>5, <2>2, <2>3 DEF days, M
<1>6. CASE now \notin M /\ now - 1 \in M
  <2>1. anchor = now - 1
    <3>1. ends = {now - 1}
      BY <1>3, <1>6
    <3> HIDE DEF ends
    <3> QED
      BY <3>1
  <2>2. walk \in 1..Cardinality(M) /\ IsRun(M, now - 1, walk)
    BY <1>4, <1>6, <2>1
  <2>3. Current(days, now) = walk
    BY <1>2, <1>3, <1>6
  <2> HIDE DEF walk
  <2> QED
    BY <1>1, <1>6, <2>2, <2>3 DEF days, M
<1>7. CASE now \notin M /\ now - 1 \notin M
  <2>1. Current(days, now) = 0
    BY <1>2, <1>3, <1>7
  <2> QED
    BY <1>1, <1>7, <2>1 DEF days, M
<1> QED
  BY <1>5, <1>6, <1>7

-----------------------------------------------------------------------------
(* The day log.                                                            *)

\* A report under way will be kept under a real date near the day it came on, and its
\* words still fit.
HeldIsSound ==
    \/ held = NoReport
    \/ /\ held \in [date: RealDates, read: 1..MaxRead, at: first..today]
       /\ DaysFromCivil(held.date) \in (held.at - MaxSkew)..(held.at + MaxSkew)
       /\ (IF held.date \in DOMAIN words THEN words[held.date] ELSE 0) + held.read <= MaxWords

\* So the rows are of real dates, near the days of the server, and finitely many.
RowsAreSound ==
    /\ IsFiniteSet(DOMAIN words) /\ DOMAIN words \subseteq RealDates
    /\ words = [d \in DOMAIN words |-> words[d]]
    /\ \A d \in DOMAIN words :
          /\ DaysFromCivil(d) \in (first - MaxSkew)..(today + MaxSkew)
          /\ words[d] \in Nat /\ 1 <= words[d] /\ words[d] <= MaxWords

SessionsAreSound == sessions \in Seq(Row)

DaysIInv ==
    /\ first \in Starts /\ today \in first..(first + Span)
    /\ HeldIsSound /\ RowsAreSound /\ SessionsAreSound

\* More numbers.
LEMMA DayNumbers ==
    /\ Span \in Nat /\ MaxSkew \in Nat /\ MaxRead \in Nat /\ MaxRead > 0
    /\ \A d \in Starts : d \in Nat
    /\ \A r \in Reads : r \in Int
BY ReadingAssumption

\* What a client may write is a date of the calendar or the number after one's day, and
\* only the former are let in.
LEMMA DatesAreReal ==
    ASSUME DaysIInv, NEW date \in Dates, IsDate(date)
    PROVE  date \in RealDates /\ DaysFromCivil(date) \in Int
<1>1. today \in Int
  BY DayNumbers DEF DaysIInv
<1>2. \A k \in -(MaxSkew + 1)..(MaxSkew + 1) : today + k \in Int
  BY <1>1, DayNumbers
<1>3. PICK n \in Int : LET d == CivilFromDays(n) IN date = d \/ date = <<d[1], d[2], d[3] + 1>>
  BY <1>2 DEF Dates
<1>4. PICK y \in Int, m \in 1..12, k \in 1..31 : CivilFromDays(n) = <<y, m, k>>
  BY RoundTrip
<1>5. date = <<y, m, k>> \/ date = <<y, m, k + 1>>
  BY <1>3, <1>4
<1>6. PICK j \in Int : date = <<y, m, j>>
  BY <1>5
<1>7. DaysFromCivil(date) = Since(IF m <= 2 THEN y - 1 ELSE y) + (Before(m) + j - 719469)
  BY <1>6, DaysIs
<1>8. DaysFromCivil(date) \in Int
  <2>1. Since(y - 1) \in Int /\ Since(y) \in Int /\ Before(m) \in Int
    <3>1. y - 1 \in Int
      OBVIOUS
    <3> QED
      BY <3>1, YearLength DEF Before
  <2>2. CASE m <= 2
    <3>1. DaysFromCivil(date) = Since(y - 1) + (Before(m) + j - 719469)
      BY <1>7, <2>2
    <3> QED
      BY <2>1, <3>1
  <2>3. CASE ~(m <= 2)
    <3>1. DaysFromCivil(date) = Since(y) + (Before(m) + j - 719469)
      BY <1>7, <2>3
    <3> QED
      BY <2>1, <3>1
  <2> QED
    BY <2>2, <2>3
<1> QED
  BY <1>8 DEF IsDate, RealDates

\* A report that waits has passed the checks.
LEMMA AcceptKeeps ==
    ASSUME DaysIInv, NEW date \in Dates, NEW read \in Reads, Accept(date, read)
    PROVE  DaysIInv'
<1>1. date \in RealDates /\ DaysFromCivil(date) \in Int
  BY DatesAreReal DEF Accept
<1>2. today \in Int /\ first \in Int /\ first <= today
  BY DayNumbers DEF DaysIInv
<1>3. Clamped(read) \in 1..MaxRead
  BY DayNumbers DEF Clamped, Accept
<1>4. DaysFromCivil(date) \in (today - MaxSkew)..(today + MaxSkew)
  BY <1>1, <1>2, DayNumbers DEF Accept, Near
<1>5. /\ held' = [date |-> date, read |-> Clamped(read), at |-> today]
      /\ UNCHANGED <<first, today, words, sessions>>
      /\ (IF date \in DOMAIN words THEN words[date] ELSE 0) + Clamped(read) <= MaxWords
  BY DEF Accept
<1>6. HeldIsSound'
  <2>1. held' \in [date: RealDates, read: 1..MaxRead, at: first'..today']
    BY <1>1, <1>2, <1>3, <1>5
  <2>2. held'.date = date /\ held'.read = Clamped(read) /\ held'.at = today
    BY <1>5
  <2> QED
    BY <1>4, <1>5, <2>1, <2>2 DEF HeldIsSound
<1>7. RowsAreSound' /\ SessionsAreSound' /\ first' \in Starts /\ today' \in first'..(first' + Span)
  BY <1>5 DEF DaysIInv, RowsAreSound, SessionsAreSound
<1> QED
  BY <1>6, <1>7 DEF DaysIInv

\* What is recorded is what waited.
LEMMA RecordKeeps ==
    ASSUME DaysIInv, Record
    PROVE  DaysIInv'
<1>1. /\ held # NoReport /\ held' = NoReport
      /\ words' = words \/ words' = Added(held.date, held.read)
      /\ UNCHANGED <<first, today, sessions>>
  BY DEF Record
<1>2. today \in Int /\ first \in Int /\ first <= today /\ MaxSkew \in Nat
  BY DayNumbers DEF DaysIInv
<1>3. RowsAreSound'
  <2>1. CASE words' = words
    BY <1>1, <2>1 DEF DaysIInv, RowsAreSound
  <2>2. CASE words' = Added(held.date, held.read)
    <3> DEFINE date == held.date
               read == held.read
    <3>1. /\ date \in RealDates /\ read \in 1..MaxRead /\ held.at \in first..today
          /\ DaysFromCivil(date) \in (held.at - MaxSkew)..(held.at + MaxSkew)
          /\ (IF date \in DOMAIN words THEN words[date] ELSE 0) + read <= MaxWords
      BY <1>1 DEF DaysIInv, HeldIsSound
    <3> HIDE DEF date, read
    <3>2. words' = [d \in DOMAIN words \union {date} |->
              IF d # date THEN words[d] ELSE IF d \in DOMAIN words THEN words[d] + read ELSE read]
      BY <2>2 DEF Added, date, read
    <3>3. DOMAIN words' = DOMAIN words \union {date}
      BY <3>2
    <3>4. IsFiniteSet(DOMAIN words') /\ DOMAIN words' \subseteq RealDates
      BY <3>1, <3>3, FS_AddElement DEF DaysIInv, RowsAreSound
    <3>5. ASSUME NEW d \in DOMAIN words'
          PROVE  /\ DaysFromCivil(d) \in (first - MaxSkew)..(today + MaxSkew)
                 /\ words'[d] \in Nat /\ 1 <= words'[d] /\ words'[d] <= MaxWords
      <4>1. CASE d # date
        <5>1. d \in DOMAIN words /\ words'[d] = words[d]
          BY <3>2, <3>3, <4>1
        <5> QED
          BY <5>1 DEF DaysIInv, RowsAreSound
      <4>2. CASE d = date
        <5>1. DaysFromCivil(d) \in (first - MaxSkew)..(today + MaxSkew)
          BY <1>2, <3>1, <4>2
        <5>2. words'[d] = (IF d \in DOMAIN words THEN words[d] ELSE 0) + read
          BY <3>1, <3>2, <3>3, <4>2
        <5>3. d \in DOMAIN words => words[d] \in Nat
          BY DEF DaysIInv, RowsAreSound
        <5>4. read \in Nat /\ 1 <= read
          BY <3>1, DayNumbers
        <5> QED
          BY <3>1, <4>2, <5>1, <5>2, <5>3, <5>4
      <4> QED
        BY <4>1, <4>2
    <3>6. words' = [d \in DOMAIN words' |-> words'[d]]
      BY <3>2
    <3> QED
      BY <1>1, <3>4, <3>5, <3>6 DEF RowsAreSound
  <2> QED
    BY <1>1, <2>1, <2>2
<1>4. HeldIsSound' /\ SessionsAreSound' /\ first' \in Starts /\ today' \in first'..(first' + Span)
  BY <1>1 DEF DaysIInv, HeldIsSound, SessionsAreSound
<1> QED
  BY <1>3, <1>4 DEF DaysIInv

\* The rows and the sessions of a life.
LEMMA DaysInvariance == ReadingSpec => []DaysIInv
<1>1. ReadingInit => DaysIInv
  <2> SUFFICES ASSUME ReadingInit
               PROVE  DaysIInv
    OBVIOUS
  <2>1. first \in Starts /\ today = first /\ words = <<>> /\ held = NoReport /\ sessions = <<>>
    BY DEF ReadingInit
  <2>2. today \in first..(first + Span)
    BY <2>1, DayNumbers
  <2>3. DOMAIN words = {}
    BY <2>1
  <2>4. RowsAreSound
    BY <2>3, FS_EmptySet DEF RowsAreSound
  <2> QED
    BY <2>1, <2>2, <2>4 DEF DaysIInv, HeldIsSound, SessionsAreSound
<1>2. DaysIInv /\ [ReadingNext]_readingVars => DaysIInv'
  <2> SUFFICES ASSUME DaysIInv, [ReadingNext]_readingVars
               PROVE  DaysIInv'
    OBVIOUS
  <2>1. CASE UNCHANGED readingVars
    BY <2>1 DEF readingVars, DaysIInv, HeldIsSound, RowsAreSound, SessionsAreSound
  <2>2. ASSUME NEW body \in Bodies, NEW day \in Begun \union {today}, CreateSession(body, day)
        PROVE  DaysIInv'
    <3>1. day \in Int
      BY DayNumbers, ReadingAssumption DEF DaysIInv
    <3>2. SessionsAreSound'
      <4> DEFINE time == AtMost(body.time, MaxTime)
                 wpm == AtMost(body.wpm, MaxWpm)
                 s == [day |-> day, time |-> time, wpm |-> wpm,
                       words |-> ClampedWords(body.words, time, wpm)]
      <4>1. /\ body.time > 0 /\ body.words >= 0 /\ body.wpm >= 0 /\ sessions' = Append(sessions, s)
        BY <2>2 DEF CreateSession
      <4>2. s \in Row
        BY <3>1, <4>1, RowsAreCapped
      <4> HIDE DEF s
      <4> QED
        BY <4>1, <4>2, AppendProperties DEF DaysIInv, SessionsAreSound
    <3>3. UNCHANGED <<first, today, words, held>>
      BY <2>2 DEF CreateSession
    <3> QED
      BY <3>2, <3>3 DEF DaysIInv, HeldIsSound, RowsAreSound
  <2>3. CASE Tick
    <3>1. /\ today < first + Span /\ today' = today + 1 /\ UNCHANGED <<first, words, held, sessions>>
      BY <2>3 DEF Tick
    <3>2. /\ today \in Int /\ first \in Int /\ first <= today /\ Span \in Nat /\ MaxSkew \in Nat
          /\ today' \in first'..(first' + Span)
      BY <3>1, DayNumbers DEF DaysIInv
    <3>3. HeldIsSound'
      <4>1. CASE held = NoReport
        BY <3>1, <4>1 DEF HeldIsSound
      <4>2. CASE held # NoReport
        <5>1. held.at \in first..today /\ held \in [date: RealDates, read: 1..MaxRead, at: first..today]
          BY <4>2 DEF DaysIInv, HeldIsSound
        <5>2. held \in [date: RealDates, read: 1..MaxRead, at: first..(today + 1)]
          BY <3>2, <5>1
        <5> QED
          BY <3>1, <4>2, <5>2 DEF DaysIInv, HeldIsSound
      <4> QED
        BY <4>1, <4>2
    <3>4. RowsAreSound'
      <4>1. \A d \in DOMAIN words : DaysFromCivil(d) \in (first - MaxSkew)..(today + 1 + MaxSkew)
        BY <3>2 DEF DaysIInv, RowsAreSound
      <4> QED
        BY <3>1, <4>1 DEF DaysIInv, RowsAreSound
    <3> QED
      BY <3>1, <3>2, <3>3, <3>4 DEF DaysIInv, SessionsAreSound
  <2> QED
    BY <2>1, <2>2, <2>3, AcceptKeeps, RecordKeeps DEF ReadingNext
<1> QED
  BY <1>1, <1>2, PTL DEF ReadingSpec

\* The type invariant of the log.
THEOREM ReadingTypeCorrect == ReadingSpec => []ReadingTypeOK
<1>1. DaysIInv => ReadingTypeOK
  <2> SUFFICES ASSUME DaysIInv
               PROVE  ReadingTypeOK
    OBVIOUS
  <2>1. ASSUME NEW d \in DOMAIN words
        PROVE  /\ d[2] \in 1..12 /\ d[3] \in 1..MonthLength(d[1], d[2])
               /\ DaysFromCivil(d) \in (first - MaxSkew)..(today + MaxSkew)
               /\ words[d] \in 1..MaxWords
    <3>1. d \in RealDates
      BY DEF DaysIInv, RowsAreSound
    <3>2. PICK y \in Int, m \in 1..12, k \in 1..31 : d = <<y, m, k>> /\ k <= MonthLength(y, m)
      BY <3>1, RealDate
    <3>3. d[1] = y /\ d[2] = m /\ d[3] = k
      BY <3>2
    <3>4. k \in 1..MonthLength(y, m)
      <4>1. MonthLength(y, m) \in Int
        BY DEF MonthLength
      <4> QED
        BY <3>2, <4>1
    <3>5. words[d] \in 1..MaxWords
      BY ReadingAssumption DEF DaysIInv, RowsAreSound
    <3> QED
      BY <3>3, <3>4, <3>5 DEF DaysIInv, RowsAreSound
  <2>2. held # NoReport => held.read \in 1..MaxRead /\ held.at \in first..today
    BY DEF DaysIInv, HeldIsSound
  <2>3. \A k \in DOMAIN sessions : sessions[k].time \in 1..MaxTime /\ sessions[k].wpm \in 0..MaxWpm
    <3>1. \A k \in DOMAIN sessions : sessions[k] \in Row
      BY DEF DaysIInv, SessionsAreSound
    <3> QED
      BY <3>1 DEF Row
  <2> QED
    BY <2>1, <2>2, <2>3 DEF DaysIInv, ReadingTypeOK
<1> QED
  BY <1>1, DaysInvariance, PTL

\* Midnight is as it is meant to be, whatever the years, the goal and the reading.
THEOREM MidnightStaysFair == ReadingSpec => MidnightIsFair
<1>1. DaysIInv /\ [ReadingNext]_readingVars =>
        [today' # today =>
           LET now == CivilFromDays(today)
               current == Current(Qualifying(words), today)
           IN  /\ CivilFromDays(today') = DayAfter(now)
               /\ Current(Qualifying(words), today') \in
                    IF now \in DOMAIN words /\ words[now] >= DailyGoal
                    THEN {current, current + 1}
                    ELSE {0, 1}]_readingVars
  <2> SUFFICES ASSUME DaysIInv, ReadingNext, today' # today
               PROVE  LET now == CivilFromDays(today)
                          current == Current(Qualifying(words), today)
                      IN  /\ CivilFromDays(today') = DayAfter(now)
                          /\ Current(Qualifying(words), today') \in
                               IF now \in DOMAIN words /\ words[now] >= DailyGoal
                               THEN {current, current + 1}
                               ELSE {0, 1}
    BY DEF readingVars
  <2> DEFINE now == CivilFromDays(today)
             M == MetDays(words)
             n == Current(Qualifying(words), today)
             m == Current(Qualifying(words), today')
  <2>1. today' = today + 1
    BY DEF ReadingNext, Accept, Record, CreateSession, Tick
  <2>2. today \in Int /\ today + 1 \in Int /\ (today + 1) - 1 = today
    BY DayNumbers DEF DaysIInv
  <2>3. CivilFromDays(today') = DayAfter(now)
    BY <2>1, <2>2, NextDate
  <2>4. IsFiniteSet(DOMAIN words) /\ DOMAIN words \subseteq RealDates
    BY DEF DaysIInv, RowsAreSound
  <2>5. today \in M <=> now \in DOMAIN words /\ words[now] >= DailyGoal
    <3>1. ASSUME today \in M
          PROVE  now \in DOMAIN words /\ words[now] >= DailyGoal
      <4>1. PICK d \in Met(words) : today = DaysFromCivil(d)
        BY <3>1 DEF MetDays
      <4>2. d \in DOMAIN words /\ words[d] >= DailyGoal
        BY DEF Met
      <4>3. now = d
        BY <2>4, <4>1, <4>2, RealDate
      <4> QED
        BY <4>2, <4>3
    <3>2. ASSUME now \in DOMAIN words, words[now] >= DailyGoal
          PROVE  today \in M
      <4>1. DaysFromCivil(now) = today
        BY <2>2, RoundTrip
      <4>2. now \in Met(words)
        BY <3>2 DEF Met
      <4> QED
        BY <4>1, <4>2 DEF MetDays
    <3> QED
      BY <3>1, <3>2
  <2>6. /\ n \in 0..Cardinality(M)
        /\ today \in M => n > 0 /\ IsRun(M, today, n)
    BY <2>2, <2>4, CurrentIs
  <2>7. /\ m \in 0..Cardinality(M)
        /\ today + 1 \in M => m > 0 /\ IsRun(M, today + 1, m)
        /\ today + 1 \notin M /\ today \in M => m > 0 /\ IsRun(M, today, m)
        /\ today + 1 \notin M /\ today \notin M => m = 0
    BY <2>1, <2>2, <2>4, CurrentIs
  <2>8. Cardinality(M) \in Nat /\ n \in Nat /\ m \in Nat
    BY <2>4, <2>6, <2>7, QualifyingIs
  <2> HIDE DEF now, M, n, m
  <2>9. ASSUME today + 1 \in M, today \in M
        PROVE  m = n + 1
    <3>1. IsRun(M, today + 1, n + 1)
      <4>1. (today + 1) - (n + 1) = today - n
        BY <2>2, <2>8
      <4>2. ASSUME NEW k \in 0..((n + 1) - 1)
            PROVE  (today + 1) - k \in M
        <5>1. CASE k = 0
          BY <2>2, <2>9, <5>1
        <5>2. CASE k # 0
          <6>1. k - 1 \in 0..(n - 1) /\ (today + 1) - k = today - (k - 1)
            BY <2>2, <2>8, <5>2
          <6> QED
            BY <2>6, <2>9, <6>1 DEF IsRun
        <5> QED
          BY <5>1, <5>2
      <4> QED
        BY <2>6, <2>9, <4>1, <4>2 DEF IsRun
    <3>2. n + 1 \in Nat
      BY <2>8
    <3> QED
      BY <2>2, <2>7, <2>8, <2>9, <3>1, <3>2, OneRun
  <2>10. ASSUME today + 1 \notin M, today \in M
         PROVE  m = n
    BY <2>2, <2>6, <2>7, <2>8, <2>10, OneRun
  <2>11. ASSUME today + 1 \in M, today \notin M
         PROVE  m = 1
    <3>1. IsRun(M, today + 1, 1)
      <4>1. \A k \in 0..(1 - 1) : (today + 1) - k = today + 1
        BY <2>2
      <4> QED
        BY <2>2, <2>11, <4>1 DEF IsRun
    <3> QED
      BY <2>2, <2>7, <2>8, <2>11, <3>1, OneRun
  <2>12. m \in IF now \in DOMAIN words /\ words[now] >= DailyGoal THEN {n, n + 1} ELSE {0, 1}
    BY <2>5, <2>7, <2>9, <2>10, <2>11
  <2> QED
    BY <2>3, <2>12 DEF now, n, m
<1> QED
  BY <1>1, DaysInvariance, PTL DEF ReadingSpec, MidnightIsFair

-----------------------------------------------------------------------------
(* The longest streak.                                                     *)

\* The lengths of the runs of M that end on the day a.
RunsTo(M, a) == {n \in 0..Cardinality(M) : ((a - n + 1)..a) \subseteq M}

\* The largest of a set of numbers is the one that none exceeds.
LEMMA LargestIs ==
    ASSUME NEW S, NEW n \in S, \A k \in S : k \in Int, \A k \in S : k <= n
    PROVE  (CHOOSE m \in S : \A k \in S : k <= m) = n
<1>1. \A m \in S : (\A k \in S : k <= m) => m = n
  OBVIOUS
<1> QED
  BY <1>1

\* A run that cannot be longer is the longest.
LEMMA LongestRun ==
    ASSUME NEW M \in SUBSET Int, IsFiniteSet(M), NEW a \in Int,
           NEW n \in 0..Cardinality(M), IsRun(M, a, n)
    PROVE  n \in RunsTo(M, a) /\ \A k \in RunsTo(M, a) : k \in Nat /\ k <= n
<1>1. Cardinality(M) \in Nat
  BY FS_CardinalityType
<1>2. ASSUME NEW x \in (a - n + 1)..a
      PROVE  x \in M
  <2>1. a - x \in 0..(n - 1) /\ a - (a - x) = x
    BY <1>1
  <2> QED
    BY <2>1 DEF IsRun
<1>3. ASSUME NEW k \in RunsTo(M, a)
      PROVE  k \in Nat /\ k <= n
  <2>1. k \in Nat /\ ((a - k + 1)..a) \subseteq M
    BY <1>1 DEF RunsTo
  <2>2. n < k => a - n \in (a - k + 1)..a
    BY <1>1, <2>1
  <2> QED
    BY <1>1, <2>1, <2>2 DEF IsRun
<1> QED
  BY <1>2, <1>3 DEF RunsTo

\* One step of the scan, and the scan over the first days.
Scanned(last, day) ==
    [prev |-> day, run |-> Run(last.run, day - last.prev),
     best |-> IF Run(last.run, day - last.prev) > last.best
              THEN Run(last.run, day - last.prev) ELSE last.best]

NoScan == [prev |-> -2, run |-> 0, best |-> 0]

IsScan(scan, days, n) ==
    scan = [k \in 0..n |-> IF k = 0 THEN NoScan ELSE Scanned(scan[k - 1], days[k])]

\* There is such a scan, for any number of days.
LEMMA ScansExist ==
    ASSUME NEW days, NEW n \in Nat
    PROVE  \E scan : IsScan(scan, days, n)
<1> DEFINE T == {m \in Nat : ~\E scan : IsScan(scan, days, m)}
<1> SUFFICES ASSUME T # {}
             PROVE  FALSE
  OBVIOUS
<1>1. PICK m \in T : \A k \in T : m <= k
  <2>1. T \in SUBSET Nat
    OBVIOUS
  <2> HIDE DEF T
  <2> QED
    BY <2>1, LeastNatural
<1>2. CASE m = 0
  <2> DEFINE f == [k \in 0..0 |-> NoScan]
  <2>1. IsScan(f, days, 0)
    BY DEF IsScan
  <2> QED
    BY <1>1, <1>2, <2>1
<1>3. CASE m # 0
  <2>1. m \in Nat /\ m - 1 \in Nat /\ m - 1 \notin T
    BY <1>1, <1>3
  <2>2. PICK g : IsScan(g, days, m - 1)
    BY <2>1
  <2> DEFINE f == [k \in 0..m |-> IF k = m THEN Scanned(g[m - 1], days[m]) ELSE g[k]]
  <2>3. ASSUME NEW k \in 0..m
        PROVE  f[k] = IF k = 0 THEN NoScan ELSE Scanned(f[k - 1], days[k])
    <3>1. \A j \in 0..(m - 1) : g[j] = IF j = 0 THEN NoScan ELSE Scanned(g[j - 1], days[j])
      BY <2>2 DEF IsScan
    <3>2. k = m \/ k \in 0..(m - 1)
      BY <2>1
    <3>3. k # 0 => k - 1 \in 0..(m - 1) /\ k - 1 # m /\ k - 1 \in 0..m
      BY <2>1
    <3>4. CASE k = m
      BY <1>3, <3>3, <3>4
    <3>5. CASE k # m
      BY <3>1, <3>2, <3>3, <3>5
    <3> QED
      BY <3>4, <3>5
  <2>4. IsScan(f, days, m)
    BY <2>3 DEF IsScan
  <2> QED
    BY <1>1, <2>4
<1> QED
  BY <1>2, <1>3

\* Best is the scan's.
LEMMA BestIs ==
    ASSUME NEW days, Len(days) \in Nat
    PROVE  \E scan : IsScan(scan, days, Len(days)) /\ Best(days) = scan[Len(days)].best
<1> DEFINE scans == CHOOSE scan : IsScan(scan, days, Len(days))
<1>1. IsScan(scans, days, Len(days))
  BY ScansExist
<1>2. Best(days) = scans[Len(days)].best
  BY DEF Best, IsScan, Scanned, NoScan
<1> QED
  BY <1>1, <1>2

\* What the scan has found after k days.
Found(scan, days, M, k) ==
    /\ scan[k].run \in Nat /\ scan[k].best \in Nat
    /\ k # 0 => scan[k].prev = days[k] /\ IsRun(M, days[k], scan[k].run)
    /\ k = 0 => scan[k].run = 0
    /\ \A j \in 1..k : scan[j].run \in Nat /\ scan[j].run <= scan[k].best
    /\ scan[k].best = 0 \/ \E j \in 1..k : scan[k].best = scan[j].run

\* One more day.
LEMMA FoundNext ==
    ASSUME NEW n \in Nat, NEW days \in Seq(Int), Len(days) = n, NEW M, ToSet(days) = M,
           \A i, j \in 1..n : i < j => days[i] < days[j],
           NEW scan, IsScan(scan, days, n), NEW k \in 1..n, Found(scan, days, M, k - 1)
    PROVE  Found(scan, days, M, k)
<1> DEFINE last == scan[k - 1]
           run == Run(last.run, days[k] - last.prev)
<1>1. k \in 0..n /\ k # 0 /\ k - 1 \in 0..n
  OBVIOUS
<1>2. scan[k] = Scanned(last, days[k])
  BY <1>1 DEF IsScan
<1>3. /\ scan[k].prev = days[k] /\ scan[k].run = run
      /\ scan[k].best = IF run > last.best THEN run ELSE last.best
  BY <1>2 DEF Scanned
<1>4. \A i \in 1..n : days[i] \in Int /\ days[i] \in M
  BY DEF ToSet
<1>5. \A x \in M : \E i \in 1..n : x = days[i]
  BY DEF ToSet
<1>6. last.run \in Nat /\ last.best \in Nat
  BY DEF Found
<1>7. run \in Nat /\ IsRun(M, days[k], run)
  <2>1. ASSUME NEW j \in 0..(1 - 1)
        PROVE  days[k] - j \in M
    BY <1>4
  <2>2. CASE k = 1
    <3>1. run = 1
      BY <2>2 DEF Run, Found
    <3>2. days[k] - 1 \notin M
      <4>1. \A i \in 1..n : days[k] <= days[i]
        BY <1>4, <2>2
      <4> QED
        BY <1>4, <1>5, <4>1
    <3> QED
      BY <2>1, <3>1, <3>2 DEF IsRun
  <2>3. CASE k # 1
    <3>1. k - 1 \in 1..n /\ last.prev = days[k - 1] /\ IsRun(M, days[k - 1], last.run)
      BY <2>3 DEF Found
    <3>2. days[k - 1] < days[k] /\ days[k - 1] \in Int /\ days[k] \in Int
      BY <1>4, <3>1
    <3>3. CASE days[k] - days[k - 1] = 1
      <4>1. run = last.run + 1
        BY <3>1, <3>3 DEF Run
      <4>2. PICK r \in Nat : r = last.run
        BY <1>6
      <4>3. PICK d \in Int : d = days[k]
        BY <3>2
      <4>4. days[k - 1] = d - 1
        BY <3>2, <3>3, <4>3
      <4>5. d - 1 - r \notin M /\ \A j \in 0..(r - 1) : d - 1 - j \in M
        BY <3>1, <4>2, <4>4 DEF IsRun
      <4>6. d \in M
        BY <1>4, <4>3
      <4>7. IsRun(M, d, r + 1)
        <5>1. ASSUME NEW j \in 0..((r + 1) - 1)
              PROVE  d - j \in M
          <6>1. CASE j = 0
            BY <4>6, <6>1
          <6>2. CASE j # 0
            <7>1. j - 1 \in 0..(r - 1) /\ d - j = d - 1 - (j - 1)
              BY <6>2
            <7> QED
              BY <4>5, <7>1
          <6> QED
            BY <6>1, <6>2
        <5>2. d - (r + 1) = d - 1 - r
          OBVIOUS
        <5> QED
          BY <4>5, <5>1, <5>2 DEF IsRun
      <4>8. run = r + 1 /\ run \in Nat
        BY <4>1, <4>2
      <4> QED
        BY <4>3, <4>7, <4>8
    <3>4. CASE days[k] - days[k - 1] # 1
      <4>1. run = 1
        BY <3>1, <3>4 DEF Run
      <4>2. days[k] - 1 \notin M
        <5>1. ASSUME NEW i \in 1..n
              PROVE  days[i] # days[k] - 1
          <6>1. CASE i < k
            <7>1. i = k - 1 \/ days[i] < days[k - 1]
              BY <3>1, <6>1
            <7> QED
              BY <1>4, <3>2, <3>4, <7>1
          <6>2. CASE ~(i < k)
            <7>1. i = k \/ days[k] < days[i]
              BY <6>2
            <7> QED
              BY <1>4, <3>2, <7>1
          <6> QED
            BY <6>1, <6>2
        <5> QED
          BY <1>5, <5>1
      <4> QED
        BY <2>1, <4>1, <4>2 DEF IsRun
    <3> QED
      BY <3>3, <3>4
  <2> QED
    BY <2>2, <2>3
<1> HIDE DEF run
<1>8. \A j \in 1..k : j = k \/ j \in 1..(k - 1)
  OBVIOUS
<1>9. ASSUME NEW j \in 1..k
      PROVE  scan[j].run \in Nat /\ scan[j].run <= scan[k].best
  <2>1. CASE j = k
    BY <1>3, <1>6, <1>7, <2>1
  <2>2. CASE j # k
    <3>1. j \in 1..(k - 1)
      BY <2>2
    <3>2. scan[j].run \in Nat /\ scan[j].run <= last.best
      BY <3>1 DEF Found
    <3> QED
      BY <1>3, <1>6, <1>7, <3>2
  <2> QED
    BY <2>1, <2>2
<1>10. scan[k].best = 0 \/ \E j \in 1..k : scan[k].best = scan[j].run
  <2>1. CASE run > last.best
    BY <1>3, <2>1
  <2>2. CASE ~(run > last.best)
    <3>1. scan[k].best = last.best
      BY <1>3, <2>2
    <3> QED
      BY <3>1 DEF Found
  <2> QED
    BY <2>1, <2>2
<1> QED
  BY <1>1, <1>3, <1>6, <1>7, <1>9, <1>10 DEF Found

\* What the whole scan has found.
LEMMA FoundAll ==
    ASSUME NEW n \in Nat, NEW days \in Seq(Int), Len(days) = n, NEW M, ToSet(days) = M,
           \A i, j \in 1..n : i < j => days[i] < days[j],
           NEW scan, IsScan(scan, days, n)
    PROVE  \A k \in 0..n : Found(scan, days, M, k)
<1> DEFINE T == {k \in 0..n : ~Found(scan, days, M, k)}
<1> SUFFICES ASSUME T # {}
             PROVE  FALSE
  OBVIOUS
<1>1. PICK k \in T : \A j \in T : k <= j
  <2>1. T \in SUBSET Nat
    OBVIOUS
  <2> HIDE DEF T
  <2> QED
    BY <2>1, LeastNatural
<1>2. CASE k = 0
  <2>1. scan[0] = NoScan
    <3>1. 0 \in 0..n
      OBVIOUS
    <3> QED
      BY <3>1 DEF IsScan
  <2>2. scan[0].run = 0 /\ scan[0].best = 0
    BY <2>1 DEF NoScan
  <2>3. \A j \in 1..0 : FALSE
    OBVIOUS
  <2>4. Found(scan, days, M, 0)
    BY <2>2, <2>3 DEF Found
  <2> QED
    BY <1>1, <1>2, <2>4
<1>3. CASE k # 0
  <2>1. k \in 1..n /\ k - 1 \in 0..n /\ ~(k <= k - 1)
    BY <1>1, <1>3
  <2>2. Found(scan, days, M, k - 1)
    BY <1>1, <2>1
  <2>3. Found(scan, days, M, k)
    BY <2>1, <2>2, FoundNext
  <2> QED
    BY <1>1, <2>3
<1> QED
  BY <1>2, <1>3

\* The best streak is the longest run there is.
LEMMA BestIsGreatest ==
    ASSUME NEW log, IsFiniteSet(DOMAIN log), DOMAIN log \subseteq RealDates
    PROVE  LET all == (UNION {RunsTo(MetDays(log), day) : day \in MetDays(log)}) \union {0}
               best == Best(Qualifying(log))
           IN  best \in Nat /\ best \in all /\ \A k \in all : k \in Int /\ k <= best
<1> DEFINE days == Qualifying(log)
           M == MetDays(log)
           n == Cardinality(M)
           all == (UNION {RunsTo(M, day) : day \in M}) \union {0}
<1>1. /\ IsFiniteSet(M) /\ M \in SUBSET Int /\ n \in Nat
      /\ days \in Seq(Int) /\ Len(days) = n /\ ToSet(days) = M
      /\ \A i, j \in 1..n : i < j => days[i] < days[j]
  BY QualifyingIs
<1> HIDE DEF days, M, n
<1>2. PICK scan : IsScan(scan, days, n) /\ Best(days) = scan[n].best
  BY <1>1, BestIs
<1>3. \A k \in 0..n : Found(scan, days, M, k)
  BY <1>1, <1>2, FoundAll
<1>4. PICK best : best = scan[n].best
  OBVIOUS
<1>5. /\ best \in Nat /\ \A j \in 1..n : scan[j].run \in Nat /\ scan[j].run <= best
      /\ best = 0 \/ \E j \in 1..n : best = scan[j].run
  <2>1. n \in 0..n
    BY <1>1
  <2> QED
    BY <1>3, <1>4, <2>1 DEF Found
<1>6. ASSUME NEW j \in 1..n
      PROVE  /\ days[j] \in M
             /\ scan[j].run \in RunsTo(M, days[j])
             /\ \A k \in RunsTo(M, days[j]) : k \in Nat /\ k <= scan[j].run
  <2>1. days[j] \in M /\ days[j] \in Int
    BY <1>1 DEF ToSet
  <2>2. IsRun(M, days[j], scan[j].run) /\ scan[j].run \in Nat
    <3>1. j \in 0..n /\ j # 0
      BY <1>1
    <3> QED
      BY <1>3, <3>1 DEF Found
  <2>3. scan[j].run \in 0..n
    <3>1. PICK m \in 1..n : IsRun(M, days[j], m)
      BY <1>1, <2>1, RunsEnd DEF n
    <3>2. m = scan[j].run
      BY <1>1, <2>1, <2>2, <3>1, OneRun
    <3> QED
      BY <1>1, <3>1, <3>2
  <2> QED
    BY <1>1, <2>1, <2>2, <2>3, LongestRun DEF n
<1>7. best \in all
  BY <1>5, <1>6
<1>8. ASSUME NEW k \in all
      PROVE  k \in Int /\ k <= best
  <2>1. CASE k = 0
    BY <1>5, <2>1
  <2>2. ASSUME NEW day \in M, k \in RunsTo(M, day)
        PROVE  k \in Int /\ k <= best
    <3>1. PICK j \in 1..n : day = days[j]
      BY <1>1 DEF ToSet
    <3>2. k \in Nat /\ k <= scan[j].run
      BY <1>6, <2>2, <3>1
    <3> QED
      BY <1>5, <3>2
  <2> QED
    BY <2>1, <2>2
<1> QED
  BY <1>2, <1>4, <1>5, <1>7, <1>8 DEF days, M

LEMMA BestIsLongest ==
    ASSUME NEW log, IsFiniteSet(DOMAIN log), DOMAIN log \subseteq RealDates
    PROVE  LET all == (UNION {RunsTo(MetDays(log), day) : day \in MetDays(log)}) \union {0}
           IN  Best(Qualifying(log)) = CHOOSE m \in all : \A k \in all : k <= m
<1> DEFINE all == (UNION {RunsTo(MetDays(log), day) : day \in MetDays(log)}) \union {0}
           best == Best(Qualifying(log))
<1>1. best \in all /\ \A k \in all : k \in Int /\ k <= best
  BY BestIsGreatest
<1>2. \A k \in all : k \in Int
  BY <1>1
<1>3. (CHOOSE m \in all : \A k \in all : k <= m) = best
  <2> HIDE DEF all, best
  <2> QED
    BY <1>1, <1>2, LargestIs
<1> QED
  BY <1>3

\* The streaks are what streaks are, for any log of real dates.
THEOREM StreaksStayRuns == ReadingSpec => []StreaksAreRuns
<1>1. DaysIInv => StreaksAreRuns
  <2> SUFFICES ASSUME DaysIInv
               PROVE  StreaksAreRuns
    OBVIOUS
  <2> DEFINE M == MetDays(words)
             all == (UNION {RunsTo(M, day) : day \in M}) \union {0}
             last == IF today \in M THEN today ELSE today - 1
             n == Current(Qualifying(words), today)
  <2>1. IsFiniteSet(DOMAIN words) /\ DOMAIN words \subseteq RealDates /\ today \in Int
    BY DayNumbers DEF DaysIInv, RowsAreSound
  <2>2. Best(Qualifying(words)) = CHOOSE m \in all : \A k \in all : k <= m
    BY <2>1, BestIsLongest
  <2>3. IsFiniteSet(M) /\ M \in SUBSET Int /\ Cardinality(M) \in Nat
    BY <2>1, QualifyingIs
  <2>4. /\ n \in 0..Cardinality(M)
        /\ today \in M => IsRun(M, today, n)
        /\ today \notin M /\ today - 1 \in M => IsRun(M, today - 1, n)
        /\ today \notin M /\ today - 1 \notin M => n = 0
    BY <2>1, CurrentIs
  <2>5. IsRun(M, last, n) /\ last \in Int
    <3>1. CASE today \notin M /\ today - 1 \notin M
      <4>1. n = 0 /\ (today - 1) - 0 = today - 1
        BY <2>1, <2>4, <3>1
      <4>2. IsRun(M, today - 1, 0)
        BY <2>1, <3>1, <4>1 DEF IsRun
      <4> QED
        BY <2>1, <3>1, <4>1, <4>2
    <3>2. CASE ~(today \notin M /\ today - 1 \notin M)
      BY <2>1, <2>4, <3>2
    <3> QED
      BY <3>1, <3>2
  <2>6. n \in RunsTo(M, last) /\ \A k \in RunsTo(M, last) : k \in Int /\ k <= n
    BY <2>3, <2>4, <2>5, LongestRun
  <2>7. n = CHOOSE m \in RunsTo(M, last) : \A k \in RunsTo(M, last) : k <= m
    BY <2>6, LargestIs
  <2>8. M = {DaysFromCivil(d) : d \in {d \in DOMAIN words : words[d] >= DailyGoal}}
    BY DEF MetDays, Met
  <2>9. StreaksAreRuns <=>
          /\ Best(Qualifying(words)) = CHOOSE m \in all : \A k \in all : k <= m
          /\ n = CHOOSE m \in RunsTo(M, last) : \A k \in RunsTo(M, last) : k <= m
    BY <2>8, SMTT(30) DEF StreaksAreRuns, RunsTo
  <2> QED
    BY <2>2, <2>7, <2>9
<1> QED
  BY <1>1, DaysInvariance, PTL

-----------------------------------------------------------------------------
(* The years.                                                              *)

\* The year of a day.
YearOf(day) == CivilFromDays(day)[1]

\* It is the year between whose ends the day is.
LEMMA YearIs ==
    ASSUME NEW day \in Int
    PROVE  /\ YearOf(day) \in Int
           /\ NewYear(YearOf(day)) \in Int /\ NewYear(YearOf(day) + 1) \in Int
           /\ NewYear(YearOf(day)) <= day /\ day < NewYear(YearOf(day) + 1)
<1>1. PICK y \in Int, m \in 1..12, d \in 1..31 :
         CivilFromDays(day) = <<y, m, d>> /\ d <= MonthLength(y, m)
  BY RoundTrip
<1>2. YearOf(day) = y
  BY <1>1 DEF YearOf
<1>3. DaysFromCivil(<<y, m, d>>) = day
  BY <1>1, RoundTrip
<1> QED
  BY <1>1, <1>2, <1>3, InYear, Zenon

\* Later years begin later.
LEMMA YearsGrow ==
    ASSUME NEW day \in Int, NEW y \in Int, NewYear(y) \in Int
    PROVE  /\ y <= YearOf(day) <=> NewYear(y) <= day
           /\ NewYear(y + 1) \in Int /\ NewYear(y) < NewYear(y + 1)
<1>1. PICK z \in Int : z = YearOf(day)
  BY YearIs
<1>2. /\ NewYear(z) \in Int /\ NewYear(z + 1) \in Int
      /\ NewYear(z) <= day /\ day < NewYear(z + 1)
  BY <1>1, YearIs, Zenon
<1>3. NewYear(y + 1) \in Int /\ NewYear(y) < NewYear(y + 1)
  <2>1. 1 \in 1..12 /\ 1 \in 1..31 /\ 1 <= MonthLength(y, 1)
    BY SMTT(30) DEF MonthLength
  <2>2. /\ DaysFromCivil(<<y, 1, 1>>) \in Int /\ NewYear(y + 1) \in Int
        /\ NewYear(y) <= DaysFromCivil(<<y, 1, 1>>)
        /\ DaysFromCivil(<<y, 1, 1>>) < NewYear(y + 1)
    BY <2>1, InYear, Zenon
  <2> QED
    BY <2>2
<1>4. y <= z <=> NewYear(y) <= day
  <2>1. CASE y = z
    BY <1>2, <2>1
  <2>2. CASE y < z
    <3>1. NewYear(y + 1) <= NewYear(z)
      BY <2>2, NewYears
    <3> QED
      BY <1>2, <1>3, <2>2, <3>1
  <2>3. CASE z < y
    <3>1. NewYear(z + 1) <= NewYear(y)
      BY <2>3, NewYears, Zenon
    <3> QED
      BY <1>2, <2>3, <3>1
  <2> QED
    BY <2>1, <2>2, <2>3
<1> QED
  BY <1>1, <1>3, <1>4

\* A year's beginning is a number.
LEMMA NewYearNumber == ASSUME NEW y \in Int PROVE NewYear(y) \in Int
<1>1. 1 \in 1..12 /\ 1 \in 1..31 /\ 1 <= MonthLength(y, 1)
  BY DEF MonthLength
<1> QED
  BY <1>1, InYear, Zenon

\* A date is in the year it names.
LEMMA RowYear ==
    ASSUME NEW d \in RealDates
    PROVE  d[1] = YearOf(DaysFromCivil(d)) /\ d[1] \in Int
<1>1. DaysFromCivil(d) \in Int /\ CivilFromDays(DaysFromCivil(d)) = d
  BY RealDate
<1> QED
  BY <1>1, YearIs DEF YearOf

\* A year on is the next year, at most.
LEMMA NextYear ==
    ASSUME NEW day \in Int, NEW s \in Int, s <= 365
    PROVE  YearOf(day + s) <= YearOf(day) + 1
<1> DEFINE y == YearOf(day)
<1>1. y \in Int /\ NewYear(y + 1) \in Int /\ day < NewYear(y + 1)
  BY YearIs
<1> HIDE DEF y
<1>2. y + 1 \in Int /\ y + 1 + 1 \in Int /\ (y + 1 + 1) - 1 = y + 1 /\ (y + 1) - 1 = y
  BY <1>1
<1>3. /\ NewYear(y + 1) = Since(y) - 719162
      /\ NewYear(y + 1 + 1) = Since(y + 1) - 719162
  <2>1. BeginsAt(y + 1) /\ BeginsAt(y + 1 + 1)
    BY <1>2, NewYearIs
  <2> QED
    BY <1>2, <2>1 DEF BeginsAt
<1>4. Since(y) \in Int /\ Since(y + 1) \in Int /\ Since(y + 1) >= Since(y) + 365
  BY <1>1, YearLength
<1>5. NewYear(y + 1 + 1) \in Int /\ day + s < NewYear(y + 1 + 1)
  BY <1>1, <1>3, <1>4
<1>6. ~(y + 1 + 1 <= YearOf(day + s)) /\ YearOf(day + s) \in Int
  BY <1>2, <1>5, YearIs, YearsGrow
<1> QED
  BY <1>1, <1>6 DEF y

-----------------------------------------------------------------------------
(* Sums by parts.                                                          *)

\* The parts add up, one of them counted apart.
LEMMA PartsAddUp ==
    ASSUME NEW f, NEW S, IsFiniteSet(S), \A x \in S : f[x] \in Nat,
           NEW A, IsFiniteSet(A), NEW n, n \notin A, NEW part \in [S -> A \union {n}],
           NEW g, \A y \in A : g[y] = SumOver(f, InPart(S, part, y))
    PROVE  SumOver(f, S) = SumOver(g, A) + SumOver(f, InPart(S, part, n))
<1> DEFINE h == [y \in A \union {n} |-> SumOver(f, InPart(S, part, y))]
<1>1. IsFiniteSet(A \union {n})
  BY FS_AddElement
<1>2. \A y \in A \union {n} : h[y] = SumOver(f, InPart(S, part, y))
  OBVIOUS
<1>3. \A y : SumOver(f, InPart(S, part, y)) \in Nat
  <2> TAKE y
  <2> DEFINE P == InPart(S, part, y)
  <2>1. IsFiniteSet(P) /\ \A x \in P : f[x] \in Nat
    BY FS_Subset DEF InPart
  <2> HIDE DEF P
  <2>2. SumOver(f, P) \in Nat
    BY <2>1, SumAny
  <2> QED
    BY <2>2 DEF P
<1>4. \A y \in A \union {n} : h[y] \in Nat
  BY <1>2, <1>3
<1>5. \A y \in A : h[y] = g[y]
  BY <1>2
<1>6. h[n] = SumOver(f, InPart(S, part, n))
  BY <1>2
<1> HIDE DEF h
<1> DEFINE Y == A \union {n}
<1>7. SumOver(f, S) = SumOver(h, Y)
  <2>1. IsFiniteSet(Y) /\ part \in [S -> Y] /\ \A y \in Y : h[y] = SumOver(f, InPart(S, part, y))
    BY <1>1, <1>2
  <2> HIDE DEF Y
  <2> QED
    BY <2>1, SumByParts
<1>8. SumOver(h, A \union {n}) = h[n] + SumOver(h, A)
  BY <1>4, SumAdd
<1>9. SumOver(h, A) = SumOver(g, A)
  BY <1>5, SumSame
<1>10. SumOver(g, A) \in Nat
  BY <1>4, <1>5, SumAny
<1> QED
  BY <1>3, <1>6, <1>7, <1>8, <1>9, <1>10

\* So do their sizes.
LEMMA PartsCount ==
    ASSUME NEW S, IsFiniteSet(S), NEW A, IsFiniteSet(A), NEW n, n \notin A,
           NEW part \in [S -> A \union {n}],
           NEW g, \A y \in A : g[y] = Cardinality(InPart(S, part, y))
    PROVE  Cardinality(S) = SumOver(g, A) + Cardinality(InPart(S, part, n))
<1> DEFINE ones == [x \in S |-> 1]
<1>1. \A x \in S : ones[x] = 1 /\ ones[x] \in Nat
  OBVIOUS
<1> HIDE DEF ones
<1>2. \A T \in SUBSET S : SumOver(ones, T) = Cardinality(T)
  <2> TAKE T \in SUBSET S
  <2>1. IsFiniteSet(T) /\ \A x \in T : ones[x] = 1
    BY <1>1, FS_Subset
  <2> QED
    BY <2>1, SumOfOnes
<1>3. \A y : InPart(S, part, y) \in SUBSET S
  BY DEF InPart
<1>4. SumOver(ones, S) = Cardinality(S)
  BY <1>2
<1>5. \A y : SumOver(ones, InPart(S, part, y)) = Cardinality(InPart(S, part, y))
  BY <1>2, <1>3
<1>6. \A y \in A : g[y] = SumOver(ones, InPart(S, part, y))
  BY <1>5
<1>7. SumOver(ones, S) = SumOver(g, A) + SumOver(ones, InPart(S, part, n))
  BY <1>1, <1>6, PartsAddUp
<1> QED
  BY <1>4, <1>5, <1>7

\* The years that are asked about.
ThisYear == YearOf(today)
Asked ==
    {y \in {d[1] : d \in DOMAIN words} \union {YearOf(sessions[k].day) : k \in DOMAIN sessions} :
        FirstYear <= y /\ y <= ThisYear}

\* The sessions that began in none of them, by what the client said.
Astray == {k \in DOMAIN sessions : YearOf(sessions[k].day) \notin FirstYear..ThisYear}

\* They are all there are, but for those and what is dated in the year to come.
LEMMA YearsKnown ==
    ASSUME DaysIInv
    PROVE  /\ ThisYear \in Int /\ IsFiniteSet(Asked) /\ Asked \subseteq Int
           /\ ThisYear + 1 \notin Asked
           /\ \A d \in DOMAIN words : d[1] \in Asked \union {ThisYear + 1}
           /\ \A k \in DOMAIN sessions : k \notin Astray => YearOf(sessions[k].day) \in Asked
           /\ \A k \in Astray : YearOf(sessions[k].day) \notin Asked
<1>1. /\ today \in Int /\ first \in Int /\ first <= today /\ first \in Starts
      /\ MaxSkew \in Nat /\ MaxSkew <= 365 /\ FirstYear \in Int
  BY DayNumbers, ReadingAssumption, YearAssumption DEF DaysIInv
<1>2. NewYear(FirstYear) \in Int /\ NewYear(FirstYear) <= first - MaxSkew
  BY <1>1, NewYearNumber, YearAssumption
<1>3. ThisYear \in Int
  BY <1>1, YearIs DEF ThisYear
<1>4. ASSUME NEW d \in DOMAIN words
      PROVE  d[1] \in Int /\ FirstYear <= d[1] /\ d[1] <= ThisYear + 1
  <2>1. d \in RealDates /\ DaysFromCivil(d) \in (first - MaxSkew)..(today + MaxSkew)
    BY DEF DaysIInv, RowsAreSound
  <2>2. PICK day \in Int : day = DaysFromCivil(d)
    BY <2>1, RealDate
  <2>3. d[1] = YearOf(day) /\ d[1] \in Int
    BY <2>1, <2>2, RowYear
  <2>4. FirstYear <= YearOf(day)
    <3>1. NewYear(FirstYear) <= day
      BY <1>1, <1>2, <2>1, <2>2
    <3> QED
      BY <1>1, <1>2, <3>1, YearsGrow
  <2>5. YearOf(day) <= ThisYear + 1
    <3>1. PICK s \in Int : s = day - today
      BY <1>1
    <3>2. s <= 365 /\ today + s = day
      BY <1>1, <2>1, <2>2, <3>1
    <3>3. YearOf(today + s) <= YearOf(today) + 1
      BY <1>1, <3>2, NextYear
    <3> QED
      BY <3>2, <3>3 DEF ThisYear
  <2> QED
    BY <2>3, <2>4, <2>5
<1>5. ASSUME NEW k \in DOMAIN sessions
      PROVE  YearOf(sessions[k].day) \in Int
  <2>1. sessions[k] \in Row
    BY DEF DaysIInv, SessionsAreSound
  <2>2. sessions[k].day \in Int
    BY <2>1 DEF Row
  <2> QED
    BY <2>2, YearIs
<1>6. \A y \in Asked : y \in Int /\ FirstYear <= y /\ y <= ThisYear
  BY <1>4, <1>5 DEF Asked
<1>7. IsFiniteSet(Asked)
  <2>1. Asked \in SUBSET (FirstYear..ThisYear)
    BY <1>6
  <2>2. IsFiniteSet(FirstYear..ThisYear)
    BY <1>1, <1>3, FS_Interval
  <2> QED
    BY <2>1, <2>2, FS_Subset
<1>8. ThisYear + 1 \notin Asked
  BY <1>3, <1>6
<1>9. ASSUME NEW d \in DOMAIN words
      PROVE  d[1] \in Asked \union {ThisYear + 1}
  <2>1. CASE d[1] <= ThisYear
    BY <1>4, <2>1 DEF Asked
  <2>2. CASE ~(d[1] <= ThisYear)
    BY <1>3, <1>4, <2>2
  <2> QED
    BY <2>1, <2>2
<1>10. ASSUME NEW k \in DOMAIN sessions
       PROVE  k \notin Astray <=> YearOf(sessions[k].day) \in Asked
  <2>1. k \notin Astray <=> YearOf(sessions[k].day) \in FirstYear..ThisYear
    BY DEF Astray
  <2>2. YearOf(sessions[k].day) \in Asked
          <=> FirstYear <= YearOf(sessions[k].day) /\ YearOf(sessions[k].day) <= ThisYear
    BY DEF Asked
  <2> QED
    BY <1>1, <1>3, <1>5, <2>1, <2>2
<1>11. Astray \subseteq DOMAIN sessions
  BY DEF Astray
<1> QED
  BY <1>3, <1>6, <1>7, <1>8, <1>9, <1>10, <1>11

\* The rows of a year.
RowsOf(y) == {d \in DOMAIN words : d[1] = y}

\* The sessions of a year are those whose day is in it.
LEMMA SessionsOfYear ==
    ASSUME DaysIInv, NEW y \in Int
    PROVE  /\ SessionsOf(y) \subseteq DOMAIN sessions
           /\ \A k \in DOMAIN sessions : k \in SessionsOf(y) <=> YearOf(sessions[k].day) = y
<1>1. /\ NewYear(y) \in Int /\ NewYear(y + 1) \in Int /\ y + 1 \in Int
  BY NewYearNumber
<1>2. ASSUME NEW k \in DOMAIN sessions
      PROVE  k \in SessionsOf(y) <=> YearOf(sessions[k].day) = y
  <2>1. PICK day \in Int : day = sessions[k].day
    <3>1. sessions[k] \in Row
      BY DEF DaysIInv, SessionsAreSound
    <3> QED
      BY <3>1 DEF Row
  <2>2. PICK z \in Int : z = YearOf(day)
    BY YearIs
  <2>3. y <= z <=> NewYear(y) <= day
    BY <1>1, <2>2, YearsGrow
  <2>4. y + 1 <= z <=> NewYear(y + 1) <= day
    BY <1>1, <2>2, YearsGrow
  <2>5. NewYear(y) <= day /\ day < NewYear(y + 1) <=> z = y
    BY <1>1, <2>3, <2>4
  <2> QED
    BY <2>1, <2>2, <2>5 DEF SessionsOf
<1> QED
  BY <1>2 DEF SessionsOf

\* The words, active days, sessions and time of a life are the sums of the years'.
LEMMA WordsAddUp ==
    ASSUME DaysIInv
    PROVE  LET next == ThisYear + 1
           IN  /\ Total(words)
                    = Total([y \in Asked |-> Total(DaysOf(y))]) + Total(DaysOf(next))
               /\ Active(words)
                    = Total([y \in Asked |-> Active(DaysOf(y))]) + Active(DaysOf(next))
<1> DEFINE next == ThisYear + 1
           part == [d \in DOMAIN words |-> d[1]]
           read == {d \in DOMAIN words : words[d] > 0}
           partRead == [d \in read |-> d[1]]
<1>1. /\ IsFiniteSet(DOMAIN words) /\ \A d \in DOMAIN words : words[d] \in Nat
      /\ IsFiniteSet(read)
  BY FS_Subset DEF DaysIInv, RowsAreSound
<1>2. /\ IsFiniteSet(Asked) /\ next \notin Asked
      /\ part \in [DOMAIN words -> Asked \union {next}]
      /\ partRead \in [read -> Asked \union {next}]
  BY YearsKnown
<1>3. ASSUME NEW y
      PROVE  /\ Total(DaysOf(y)) = SumOver(words, InPart(DOMAIN words, part, y))
             /\ Active(DaysOf(y)) = Cardinality(InPart(read, partRead, y))
  <2> DEFINE P == InPart(DOMAIN words, part, y)
  <2>1. DaysOf(y) = [d \in P |-> words[d]]
    BY DEF DaysOf, Restrict, InPart
  <2>2. IsFiniteSet(P)
    BY <1>1, FS_Subset DEF InPart
  <2>3. {d \in DOMAIN DaysOf(y) : DaysOf(y)[d] > 0} = InPart(read, partRead, y)
    BY <2>1 DEF InPart
  <2> HIDE DEF P
  <2>4. DOMAIN DaysOf(y) = P /\ \A d \in P : DaysOf(y)[d] = words[d]
    BY <2>1
  <2>5. SumOver(DaysOf(y), P) = SumOver(words, P)
    BY <2>2, <2>4, SumSame
  <2>6. Total(DaysOf(y)) = SumOver(DaysOf(y), P)
    BY <2>4, TotalIs
  <2> QED
    BY <2>3, <2>5, <2>6 DEF P, Active
<1> HIDE DEF part, partRead, read, next
<1> DEFINE g == [y \in Asked |-> Total(DaysOf(y))]
           h == [y \in Asked |-> Active(DaysOf(y))]
<1>4. /\ \A y \in Asked : g[y] = SumOver(words, InPart(DOMAIN words, part, y))
      /\ \A y \in Asked : h[y] = Cardinality(InPart(read, partRead, y))
      /\ DOMAIN g = Asked /\ DOMAIN h = Asked
  BY <1>3
<1> HIDE DEF g, h
<1>5. Total(words) = SumOver(words, DOMAIN words)
  BY TotalIs
<1>6. Total(g) = SumOver(g, Asked) /\ Total(h) = SumOver(h, Asked)
  BY <1>4, TotalIs
<1>7. SumOver(words, DOMAIN words)
        = SumOver(g, Asked) + SumOver(words, InPart(DOMAIN words, part, next))
  BY <1>1, <1>2, <1>4, PartsAddUp
<1>8. Cardinality(read) = SumOver(h, Asked) + Cardinality(InPart(read, partRead, next))
  BY <1>1, <1>2, <1>4, PartsCount
<1>9. Active(words) = Cardinality(read)
  BY DEF Active, read
<1> QED
  BY <1>3, <1>5, <1>6, <1>7, <1>8, <1>9 DEF g, h, next

\* So are the number of sessions and the time in them, but for those astray.
LEMMA SessionsAddUp ==
    ASSUME DaysIInv
    PROVE  LET time(rows) == [k \in rows |-> sessions[k].time]
               all == DOMAIN sessions
           IN  /\ Cardinality(all)
                    = Total([y \in Asked |-> Cardinality(SessionsOf(y))]) + Cardinality(Astray)
               /\ Total(time(all))
                    = Total([y \in Asked |-> Total(time(SessionsOf(y)))]) + Total(time(Astray))
<1> DEFINE time(rows) == [k \in rows |-> sessions[k].time]
           all == DOMAIN sessions
           next == ThisYear + 1
           part == [k \in all |-> IF k \in Astray THEN next ELSE YearOf(sessions[k].day)]
           f == time(all)
<1>1. /\ IsFiniteSet(all) /\ \A k \in all : sessions[k] \in Row
  <2>1. sessions \in Seq(Row)
    BY DEF DaysIInv, SessionsAreSound
  <2>2. all = 1..Len(sessions) /\ Len(sessions) \in Int
    BY <2>1
  <2>3. IsFiniteSet(all)
    BY <2>2, FS_Interval
  <2> QED
    BY <2>1, <2>3
<1>2. \A k \in all : f[k] \in Nat
  <2>1. \A k \in all : sessions[k].time \in 1..MaxTime
    BY <1>1 DEF Row
  <2> QED
    BY <2>1, ReadingNumbers
<1>3. /\ IsFiniteSet(Asked) /\ Asked \subseteq Int /\ next \notin Asked
      /\ part \in [all -> Asked \union {next}]
  BY YearsKnown
<1>4. ASSUME NEW y \in Asked
      PROVE  SessionsOf(y) = InPart(all, part, y)
  <2>1. y \in Int /\ y # next
    BY <1>3
  <2>2. ASSUME NEW k \in all
        PROVE  k \in SessionsOf(y) <=> part[k] = y
    <3>1. k \in SessionsOf(y) <=> YearOf(sessions[k].day) = y
      BY <2>1, SessionsOfYear
    <3>2. CASE k \in Astray
      BY <2>1, <3>1, <3>2, YearsKnown
    <3>3. CASE k \notin Astray
      BY <3>1, <3>3
    <3> QED
      BY <3>2, <3>3
  <2>3. SessionsOf(y) \subseteq all
    BY <2>1, SessionsOfYear
  <2> QED
    BY <2>2, <2>3 DEF InPart
<1>5. InPart(all, part, next) = Astray
  <2>1. \A k \in all : part[k] = next <=> k \in Astray
    BY <1>3, YearsKnown
  <2> QED
    BY <2>1 DEF InPart, Astray
<1>6. ASSUME NEW P \in SUBSET all
      PROVE  Total(time(P)) = SumOver(f, P)
  <2> DEFINE c == time(P)
  <2>1. IsFiniteSet(P)
    BY <1>1, FS_Subset
  <2>2. DOMAIN c = P /\ \A k \in P : c[k] = f[k]
    OBVIOUS
  <2> HIDE DEF c, f
  <2>3. SumOver(c, P) = SumOver(f, P)
    BY <2>1, <2>2, SumSame
  <2>4. Total(c) = SumOver(c, P)
    BY <2>2, TotalIs
  <2> QED
    BY <2>3, <2>4 DEF c
<1> DEFINE lost == Total(time(Astray))
<1>14. lost = SumOver(f, InPart(all, part, next))
  <2>1. Astray \in SUBSET all
    BY DEF Astray
  <2> QED
    BY <1>5, <1>6, <2>1
<1>7. DOMAIN f = all
  OBVIOUS
<1>8. \A y \in Asked : SessionsOf(y) \in SUBSET all
  BY <1>4 DEF InPart
<1> DEFINE g == [y \in Asked |-> Cardinality(SessionsOf(y))]
           h == [y \in Asked |-> Total(time(SessionsOf(y)))]
<1>9. /\ \A y \in Asked : g[y] = Cardinality(InPart(all, part, y))
      /\ \A y \in Asked : h[y] = SumOver(f, InPart(all, part, y))
      /\ DOMAIN g = Asked /\ DOMAIN h = Asked
  BY <1>4, <1>6, <1>8
<1>10. Cardinality(InPart(all, part, next)) = Cardinality(Astray)
  BY <1>5
<1>11. Total(f) = Total(h) + lost
  <2> HIDE DEF f, g, h, part, all, next, lost
  <2>1. Total(f) = SumOver(f, all) /\ Total(h) = SumOver(h, Asked)
    BY <1>7, <1>9, TotalIs
  <2>2. SumOver(f, all) = SumOver(h, Asked) + SumOver(f, InPart(all, part, next))
    <3>1. IsFiniteSet(all) /\ IsFiniteSet(Asked) /\ next \notin Asked
      BY <1>1, <1>3
    <3>2. part \in [all -> Asked \union {next}]
      BY <1>3
    <3>3. \A y \in Asked : h[y] = SumOver(f, InPart(all, part, y))
      BY <1>9
    <3> QED
      BY <1>2, <3>1, <3>2, <3>3, PartsAddUp
  <2> QED
    BY <1>14, <2>1, <2>2
<1>12. Cardinality(all) = Total(g) + Cardinality(Astray)
  <2> HIDE DEF f, g, h, part, all, next
  <2>1. Total(g) = SumOver(g, Asked)
    BY <1>9, TotalIs
  <2>2. Cardinality(all) = SumOver(g, Asked) + Cardinality(InPart(all, part, next))
    <3>1. IsFiniteSet(all) /\ IsFiniteSet(Asked) /\ next \notin Asked
      BY <1>1, <1>3
    <3>2. part \in [all -> Asked \union {next}]
      BY <1>3
    <3>3. \A y \in Asked : g[y] = Cardinality(InPart(all, part, y))
      BY <1>9
    <3> QED
      BY <3>1, <3>2, <3>3, PartsCount
  <2> QED
    BY <1>10, <2>1, <2>2
<1> QED
  BY <1>11, <1>12

\* The best streak bounds every run of days, and is one.
LEMMA BestOf ==
    ASSUME NEW log, IsFiniteSet(DOMAIN log), DOMAIN log \subseteq RealDates
    PROVE  LET best == Best(Qualifying(log))
               M == MetDays(log)
           IN  /\ best \in Nat
               /\ \A a \in Int, n \in Nat : ((a - n + 1)..a) \subseteq M => n <= best
               /\ \E a \in Int : ((a - best + 1)..a) \subseteq M
<1> DEFINE M == MetDays(log)
           all == (UNION {RunsTo(M, day) : day \in M}) \union {0}
<1>1. PICK best : best = Best(Qualifying(log))
  OBVIOUS
<1>2. best \in Nat /\ best \in all /\ \A k \in all : k \in Int /\ k <= best
  BY <1>1, BestIsGreatest
<1>3. IsFiniteSet(M) /\ M \subseteq Int /\ Cardinality(M) \in Nat
  BY QualifyingIs
<1> HIDE DEF M
<1>4. ASSUME NEW a \in Int, NEW n \in Nat, ((a - n + 1)..a) \subseteq M
      PROVE  n <= best
  <2>1. CASE n = 0
    BY <1>2, <2>1
  <2>2. CASE n # 0
    <3>1. a \in (a - n + 1)..a /\ a - n + 1 \in Int /\ a - (a - n + 1) + 1 = n /\ ~(a - n + 1 > a)
      BY <2>2
    <3>2. Cardinality((a - n + 1)..a) = n
      BY <3>1, FS_Interval
    <3>3. Cardinality((a - n + 1)..a) <= Cardinality(M)
      BY <1>3, <1>4, FS_Subset
    <3>4. n \in 0..Cardinality(M)
      BY <1>3, <3>2, <3>3
    <3>5. n \in RunsTo(M, a) /\ a \in M
      BY <1>4, <3>1, <3>4 DEF RunsTo
    <3>6. n \in all
      BY <3>5
    <3> QED
      BY <1>2, <3>6
  <2> QED
    BY <2>1, <2>2
<1>5. \E a \in Int : ((a - best + 1)..a) \subseteq M
  <2>1. CASE best = 0
    <3>1. (0 - best + 1)..0 = {}
      BY <2>1
    <3> QED
      BY <3>1
  <2>2. CASE best # 0
    <3>1. PICK day \in M : best \in RunsTo(M, day)
      BY <1>2, <2>2
    <3> QED
      BY <1>3, <3>1 DEF RunsTo
  <2> QED
    BY <2>1, <2>2
<1> QED
  BY <1>1, <1>2, <1>4, <1>5 DEF M

\* The days from l to h are those from a to b that are in the year y.
IsPiece(l, h, a, b, y) ==
    \A x \in Int : a <= x /\ x <= b /\ YearOf(x) = y <=> l <= x /\ x <= h

\* The part of a stretch of days that is in a year is a stretch.
LEMMA PieceIs ==
    ASSUME NEW a \in Int, NEW b \in Int, NEW y \in Int
    PROVE  \E l, h \in Int : IsPiece(l, h, a, b, y)
<1>1. PICK from \in Int, to \in Int : from = NewYear(y) /\ to = NewYear(y + 1)
  BY NewYearNumber
<1>2. ASSUME NEW x \in Int
      PROVE  YearOf(x) = y <=> from <= x /\ x < to
  <2>1. PICK z \in Int : z = YearOf(x)
    BY YearIs
  <2>2. y <= z <=> from <= x
    BY <1>1, <2>1, YearsGrow
  <2>3. y + 1 <= z <=> to <= x
    BY <1>1, <2>1, YearsGrow
  <2> QED
    BY <2>1, <2>2, <2>3
<1>3. PICK l \in Int : l = IF a < from THEN from ELSE a
  OBVIOUS
<1>4. PICK h \in Int : h = IF b < to THEN b ELSE to - 1
  OBVIOUS
<1>5. ASSUME NEW x \in Int
      PROVE  a <= x /\ x <= b /\ YearOf(x) = y <=> l <= x /\ x <= h
  <2>1. l <= x <=> a <= x /\ from <= x
    BY <1>3
  <2>2. x <= h <=> x <= b /\ x < to
    BY <1>4
  <2> QED
    BY <1>2, <2>1, <2>2
<1> QED
  BY <1>5 DEF IsPiece

\* The days of a year that met the goal.
LEMMA YearMet ==
    ASSUME DaysIInv, NEW y
    PROVE  /\ IsFiniteSet(DOMAIN DaysOf(y)) /\ DOMAIN DaysOf(y) \subseteq RealDates
           /\ MetDays(DaysOf(y)) \subseteq MetDays(words)
           /\ \A day \in MetDays(words) : YearOf(day) = y => day \in MetDays(DaysOf(y))
<1>1. IsFiniteSet(DOMAIN words) /\ DOMAIN words \subseteq RealDates
  BY DEF DaysIInv, RowsAreSound
<1>2. DaysOf(y) = [d \in RowsOf(y) |-> words[d]]
  BY DEF DaysOf, Restrict, RowsOf
<1>3. RowsOf(y) \in SUBSET DOMAIN words
  BY DEF RowsOf
<1>4. \A d \in RowsOf(y) : DaysOf(y)[d] = words[d]
  BY <1>2
<1>5. IsFiniteSet(RowsOf(y)) /\ DOMAIN DaysOf(y) = RowsOf(y)
  BY <1>1, <1>2, <1>3, FS_Subset
<1>6. Met(DaysOf(y)) \subseteq Met(words)
  BY <1>3, <1>4, <1>5 DEF Met
<1>7. ASSUME NEW day \in MetDays(words), YearOf(day) = y
      PROVE  day \in MetDays(DaysOf(y))
  <2>1. PICK d \in Met(words) : day = DaysFromCivil(d)
    BY DEF MetDays
  <2>2. d \in DOMAIN words /\ d \in RealDates
    BY <1>1, <2>1 DEF Met
  <2>3. d[1] = y
    BY <1>7, <2>1, <2>2, RowYear
  <2>4. d \in RowsOf(y)
    BY <2>2, <2>3 DEF RowsOf
  <2>5. d \in Met(DaysOf(y))
    BY <1>4, <1>5, <2>1, <2>4 DEF Met
  <2> QED
    BY <2>1, <2>5 DEF MetDays
<1> QED
  BY <1>1, <1>3, <1>5, <1>6, <1>7 DEF MetDays

\* The best streak is made of streaks of the years.
LEMMA BestsAddUp ==
    ASSUME DaysIInv
    PROVE  LET best(y) == Best(Qualifying(DaysOf(y)))
               life == Best(Qualifying(words))
           IN  /\ life \in Nat /\ \A y : best(y) \in Nat /\ best(y) <= life
               /\ life <= Total([y \in Asked |-> best(y)]) + best(ThisYear + 1)
<1> DEFINE best(y) == Best(Qualifying(DaysOf(y)))
           M == MetDays(words)
<1>1. PICK life \in Nat :
         /\ life = Best(Qualifying(words))
         /\ \A a \in Int, n \in Nat : ((a - n + 1)..a) \subseteq M => n <= life
         /\ \E a \in Int : ((a - life + 1)..a) \subseteq M
  <2>1. IsFiniteSet(DOMAIN words) /\ DOMAIN words \subseteq RealDates
    BY DEF DaysIInv, RowsAreSound
  <2> QED
    BY <2>1, BestOf
<1>2. ASSUME NEW y
      PROVE  /\ best(y) \in Nat
             /\ \A a \in Int, n \in Nat :
                   ((a - n + 1)..a) \subseteq MetDays(DaysOf(y)) => n <= best(y)
             /\ \E a \in Int : ((a - best(y) + 1)..a) \subseteq MetDays(DaysOf(y))
  <2>1. IsFiniteSet(DOMAIN DaysOf(y)) /\ DOMAIN DaysOf(y) \subseteq RealDates
    BY YearMet
  <2> QED
    BY <2>1, BestOf
<1>3. ASSUME NEW y
      PROVE  best(y) \in Nat /\ best(y) <= life
  <2>1. PICK n \in Nat : n = best(y)
    BY <1>2
  <2>2. PICK a \in Int : ((a - n + 1)..a) \subseteq MetDays(DaysOf(y))
    BY <1>2, <2>1
  <2>3. ((a - n + 1)..a) \subseteq M
    BY <2>2, YearMet
  <2> QED
    BY <1>1, <2>1, <2>3
<1>4. PICK a \in Int : ((a - life + 1)..a) \subseteq M
  BY <1>1
<1> DEFINE days == (a - life + 1)..a
           part == [x \in days |-> YearOf(x)]
           next == ThisYear + 1
           size == [y \in Asked |-> Cardinality(InPart(days, part, y))]
           bests == [y \in Asked |-> best(y)]
<1>5. days \subseteq Int /\ IsFiniteSet(days) /\ Cardinality(days) = life
  <2>1. a - life + 1 \in Int /\ a - (a - life + 1) + 1 = life /\ (a - life + 1 > a => life = 0)
    BY <1>1
  <2> QED
    BY <2>1, FS_Interval
<1>6. /\ IsFiniteSet(Asked) /\ next \notin Asked
      /\ next \in Int /\ Asked \subseteq Int
  BY YearsKnown
<1>7. part \in [days -> Asked \union {next}]
  <2>1. ASSUME NEW x \in days
        PROVE  YearOf(x) \in Asked \union {next}
    <3>1. PICK d \in DOMAIN words : x = DaysFromCivil(d)
      BY <1>4 DEF MetDays, Met
    <3>2. d \in RealDates
      BY DEF DaysIInv, RowsAreSound
    <3>3. d[1] = YearOf(x)
      BY <3>1, <3>2, RowYear
    <3> QED
      BY <3>3, YearsKnown
  <2> QED
    BY <2>1
<1>8. ASSUME NEW y \in Int
      PROVE  Cardinality(InPart(days, part, y)) \in Nat /\ Cardinality(InPart(days, part, y)) <= best(y)
  <2> DEFINE P == InPart(days, part, y)
  <2>1. PICK l, h \in Int :
           \A x \in Int : a - life + 1 <= x /\ x <= a /\ YearOf(x) = y <=> l <= x /\ x <= h
    <3>1. PICK b \in Int : b = a - life + 1
      BY <1>1
    <3>2. \E l, h \in Int : IsPiece(l, h, b, a, y)
      BY PieceIs
    <3> QED
      BY <3>1, <3>2 DEF IsPiece
  <2>2. P = l..h
    <3>1. \A x : x \in P <=> x \in Int /\ a - life + 1 <= x /\ x <= a /\ YearOf(x) = y
      BY <1>1 DEF InPart
    <3>2. \A x : x \in l..h <=> x \in Int /\ l <= x /\ x <= h
      OBVIOUS
    <3> QED
      BY <2>1, <3>1, <3>2
  <2>3. P \subseteq MetDays(DaysOf(y))
    BY <1>4, YearMet DEF InPart
  <2> HIDE DEF P
  <2>4. PICK n \in Nat : n = Cardinality(P) /\ ((l..h = {} /\ n = 0) \/ h - n + 1 = l)
    <3>1. Cardinality(P) = IF l > h THEN 0 ELSE h - l + 1
      BY <2>2, FS_Interval
    <3>2. CASE l > h
      <4>1. l..h = {}
        BY <3>2
      <4> QED
        BY <3>1, <3>2, <4>1
    <3>3. CASE ~(l > h)
      BY <3>1, <3>3
    <3> QED
      BY <3>2, <3>3
  <2>5. n <= best(y)
    <3>1. CASE n = 0
      BY <1>2, <3>1
    <3>2. CASE h - n + 1 = l
      <4>1. ((h - n + 1)..h) \subseteq MetDays(DaysOf(y))
        BY <2>2, <2>3, <3>2
      <4> QED
        BY <1>2, <4>1
    <3> QED
      BY <2>4, <3>1, <3>2
  <2> QED
    BY <2>4, <2>5 DEF P
<1>9. /\ \A y \in Asked : size[y] = Cardinality(InPart(days, part, y))
      /\ \A y \in Asked : size[y] \in Nat /\ bests[y] \in Nat /\ size[y] <= bests[y]
      /\ DOMAIN bests = Asked
  BY <1>3, <1>6, <1>8
<1>10. PICK rest : rest = Cardinality(InPart(days, part, next))
  OBVIOUS
<1>11. rest \in Nat /\ rest <= best(next)
  BY <1>6, <1>8, <1>10
<1>12. best(next) \in Nat
  BY <1>3
<1>13. life <= Total(bests) + best(next)
  <2> HIDE DEF days, part, size, bests, next, best
  <2>1. Cardinality(days) = SumOver(size, Asked) + rest
    <3>1. \A y \in Asked : size[y] = Cardinality(InPart(days, part, y))
      BY <1>9
    <3>2. IsFiniteSet(days) /\ IsFiniteSet(Asked) /\ next \notin Asked
      BY <1>5, <1>6
    <3> QED
      BY <1>7, <1>10, <3>1, <3>2, PartsCount
  <2>2. SumOver(size, Asked) <= SumOver(bests, Asked)
    BY <1>6, <1>9, SumOrder
  <2>3. SumOver(size, Asked) \in Nat /\ SumOver(bests, Asked) \in Nat
    BY <1>6, <1>9, SumAny
  <2>4. Total(bests) = SumOver(bests, Asked)
    BY <1>9, TotalIs
  <2> QED
    BY <1>1, <1>5, <1>11, <1>12, <2>1, <2>2, <2>3, <2>4
<1> QED
  BY <1>1, <1>3, <1>13

\* A day no other is better than.
IsBestDay(log, d) ==
    /\ d \in DOMAIN log
    /\ \A e \in DOMAIN log : log[e] < log[d] \/ (log[e] = log[d] /\ ~Earlier(d, e))

\* There is one, if there is any, and it is the day the code picks.
LEMMA BestDayIs ==
    ASSUME NEW log, IsFiniteSet(DOMAIN log), DOMAIN log \subseteq RealDates,
           \A d \in DOMAIN log : log[d] \in Nat
    PROVE  /\ DOMAIN log # {} => \E d : IsBestDay(log, d)
           /\ \A d : IsBestDay(log, d) => BestDay(log) = d
<1> DEFINE S == DOMAIN log
           Beats(d, e) == \/ log[e] < log[d]
                          \/ log[e] = log[d] /\ DaysFromCivil(e) <= DaysFromCivil(d)
           P == {T \in SUBSET S : T = {} \/ \E d \in T : \A e \in T : Beats(d, e)}
<1>1. \A d \in S : log[d] \in Nat /\ d \in RealDates /\ DaysFromCivil(d) \in Int
  BY RealDate
<1>2. {} \in P
  OBVIOUS
<1>3. ASSUME NEW T \in SUBSET S, NEW x \in S, x \notin T, T \in P
      PROVE  T \union {x} \in P
  <2>1. CASE T = {}
    <3>1. Beats(x, x)
      BY <1>1
    <3> QED
      BY <2>1, <3>1
  <2>2. CASE T # {}
    <3>1. PICK d \in T : \A e \in T : Beats(d, e)
      BY <1>3, <2>2
    <3>2. CASE Beats(d, x)
      <4>1. \A e \in T \union {x} : Beats(d, e)
        BY <3>1, <3>2
      <4> QED
        BY <4>1
    <3>3. CASE ~Beats(d, x)
      <4>1. \A e \in T : Beats(x, e)
        <5> TAKE e \in T
        <5>1. /\ log[d] \in Nat /\ log[e] \in Nat /\ log[x] \in Nat
              /\ DaysFromCivil(d) \in Int /\ DaysFromCivil(e) \in Int /\ DaysFromCivil(x) \in Int
          BY <1>1
        <5>2. Beats(d, e)
          BY <3>1
        <5> QED
          BY <3>3, <5>1, <5>2
      <4>2. Beats(x, x)
        BY <1>1
      <4>3. \A e \in T \union {x} : Beats(x, e)
        BY <4>1, <4>2
      <4> QED
        BY <4>3
    <3> QED
      BY <3>2, <3>3
  <2> QED
    BY <2>1, <2>2
<1>4. S \in P
  <2> HIDE DEF P, S
  <2> QED
    BY <1>2, <1>3, ElementInduction DEF S
<1>5. ASSUME DOMAIN log # {}
      PROVE  \E d : IsBestDay(log, d)
  <2>1. PICK d \in S : \A e \in S : Beats(d, e)
    BY <1>4, <1>5
  <2>2. \A e \in S : Earlier(d, e) <=> DaysFromCivil(d) < DaysFromCivil(e)
    BY <1>1, EarlierDays
  <2>3. \A e \in S : log[e] < log[d] \/ (log[e] = log[d] /\ ~Earlier(d, e))
    BY <1>1, <2>1, <2>2
  <2> QED
    BY <2>3 DEF IsBestDay
<1>6. ASSUME NEW d, IsBestDay(log, d)
      PROVE  BestDay(log) = d
  <2>1. ASSUME NEW e, IsBestDay(log, e)
        PROVE  e = d
    <3>1. d \in S /\ e \in S
      BY <1>6, <2>1 DEF IsBestDay
    <3>2. ~Earlier(d, e) /\ ~Earlier(e, d)
      <4>1. log[d] \in Nat /\ log[e] \in Nat
        BY <3>1
      <4> QED
        BY <1>6, <2>1, <3>1, <4>1 DEF IsBestDay
    <3>3. DaysFromCivil(d) = DaysFromCivil(e)
      BY <1>1, <3>1, <3>2, EarlierDays
    <3>4. CivilFromDays(DaysFromCivil(d)) = d /\ CivilFromDays(DaysFromCivil(e)) = e
      BY <1>1, <3>1, RealDate
    <3> QED
      BY <3>3, <3>4
  <2>2. BestDay(log) = CHOOSE e \in DOMAIN log : IsBestDay(log, e)
    BY DEF BestDay, IsBestDay
  <2>3. d \in DOMAIN log
    BY <1>6 DEF IsBestDay
  <2> QED
    BY <1>6, <2>1, <2>2, <2>3
<1> QED
  BY <1>5, <1>6

\* The best day is the best day of its year.
LEMMA BestDayOfYear ==
    ASSUME DaysIInv, words # <<>>
    PROVE  LET d == BestDay(words)
           IN  d \in DOMAIN words /\ DaysOf(d[1]) # <<>> /\ BestDay(DaysOf(d[1])) = d
<1>1. /\ IsFiniteSet(DOMAIN words) /\ DOMAIN words \subseteq RealDates
      /\ \A d \in DOMAIN words : words[d] \in Nat
  BY DEF DaysIInv, RowsAreSound
<1>2. DOMAIN words # {}
  BY DEF DaysIInv, RowsAreSound
<1>3. PICK d : IsBestDay(words, d)
  BY <1>1, <1>2, BestDayIs
<1>4. BestDay(words) = d
  BY <1>1, <1>3, BestDayIs
<1> DEFINE y == d[1]
           log == DaysOf(y)
<1>5. log = [e \in RowsOf(y) |-> words[e]]
  BY DEF DaysOf, Restrict, RowsOf
<1>6. d \in DOMAIN words /\ d \in RowsOf(y)
  BY <1>3 DEF IsBestDay, RowsOf
<1>7. DOMAIN log = RowsOf(y) /\ \A e \in RowsOf(y) : log[e] = words[e] /\ e \in DOMAIN words
  BY <1>5 DEF RowsOf
<1>8. IsBestDay(log, d)
  BY <1>3, <1>6, <1>7 DEF IsBestDay
<1>9. BestDay(log) = d
  <2>1. \A e \in DOMAIN log : log[e] \in Nat
    BY <1>1, <1>7
  <2>2. IsFiniteSet(DOMAIN log) /\ DOMAIN log \subseteq RealDates
    BY YearMet
  <2> QED
    BY <1>8, <2>1, <2>2, BestDayIs
<1>10. log # <<>>
  BY <1>6, <1>7
<1> QED
  BY <1>4, <1>6, <1>9, <1>10

\* The years divide a life, for any log and clients.
THEOREM YearsStayApart == ReadingSpec => []YearsAddUp
<1>1. DaysIInv => YearsAddUp
  <2> SUFFICES ASSUME DaysIInv
               PROVE  YearsAddUp
    OBVIOUS
  <2> DEFINE of == [y \in Asked |-> Wrapped(y)]
             next == Summary(DaysOf(ThisYear + 1), {})
             time(rows) == [k \in rows |-> sessions[k].time]
  <2>1. /\ CivilFromDays(today)[1] = ThisYear
        /\ {y \in {d[1] : d \in DOMAIN words}
                      \union {CivilFromDays(sessions[k].day)[1] : k \in DOMAIN sessions} :
               FirstYear <= y /\ y <= CivilFromDays(today)[1]} = Asked
    BY DEF ThisYear, Asked, YearOf
  <2>2. ASSUME NEW y \in Asked
        PROVE  /\ of[y].words = Total(DaysOf(y)) /\ of[y].active = Active(DaysOf(y))
               /\ of[y].best = Best(Qualifying(DaysOf(y)))
               /\ of[y].day = (IF DaysOf(y) = <<>> THEN <<>> ELSE BestDay(DaysOf(y)))
               /\ of[y].sessions = Cardinality(SessionsOf(y))
               /\ of[y].time = Total(time(SessionsOf(y)))
    BY DEF Wrapped, Summary
  <2>3. /\ next.words = Total(DaysOf(ThisYear + 1)) /\ next.active = Active(DaysOf(ThisYear + 1))
        /\ next.best = Best(Qualifying(DaysOf(ThisYear + 1)))
        /\ next.day = (IF DaysOf(ThisYear + 1) = <<>> THEN <<>>
                       ELSE BestDay(DaysOf(ThisYear + 1)))
    BY DEF Summary
  <2>4. /\ Stats.words = Total(words) /\ Stats.active = Active(words)
        /\ Stats.best = Best(Qualifying(words))
        /\ Stats.day = (IF words = <<>> THEN <<>> ELSE BestDay(words))
        /\ Stats.sessions = Cardinality(DOMAIN sessions)
        /\ Stats.time = Total(time(DOMAIN sessions))
    BY DEF Stats, Summary
  <2>5. DOMAIN of = Asked
    OBVIOUS
  <2> HIDE DEF of, next, time
  <2>6. /\ [y \in Asked |-> of[y].words] = [y \in Asked |-> Total(DaysOf(y))]
        /\ [y \in Asked |-> of[y].active] = [y \in Asked |-> Active(DaysOf(y))]
        /\ [y \in Asked |-> of[y].best] = [y \in Asked |-> Best(Qualifying(DaysOf(y)))]
        /\ [y \in Asked |-> of[y].sessions] = [y \in Asked |-> Cardinality(SessionsOf(y))]
        /\ [y \in Asked |-> of[y].time] = [y \in Asked |-> Total(time(SessionsOf(y)))]
    BY <2>2
  <2>7. /\ Stats.words = Total([y \in Asked |-> of[y].words]) + next.words
        /\ Stats.active = Total([y \in Asked |-> of[y].active]) + next.active
    BY <2>3, <2>4, <2>6, WordsAddUp
  <2>8. /\ Stats.sessions = Total([y \in Asked |-> of[y].sessions]) + Cardinality(Astray)
        /\ Stats.time = Total([y \in Asked |-> of[y].time]) + Total(time(Astray))
    BY <2>4, <2>6, SessionsAddUp DEF time
  <2>9. ASSUME NEW y \in Asked, NEW k \in SessionsOf(y)
        PROVE  CivilFromDays(sessions[k].day)[1] = y
    BY YearsKnown, SessionsOfYear DEF YearOf
  <2>10. \A y \in Asked : of[y].best <= Stats.best
    BY <2>2, <2>4, BestsAddUp
  <2>11. Stats.best <= Total([y \in Asked |-> of[y].best]) + next.best
    BY <2>3, <2>4, <2>6, BestsAddUp
  <2>12. ASSUME words # <<>>
         PROVE  Stats.day \in {of[y].day : y \in Asked} \union {next.day}
    <3> DEFINE d == BestDay(words)
    <3>1. d \in DOMAIN words /\ DaysOf(d[1]) # <<>> /\ BestDay(DaysOf(d[1])) = d
      BY <2>12, BestDayOfYear
    <3>2. d[1] \in Asked \union {ThisYear + 1}
      BY <3>1, YearsKnown
    <3>3. Stats.day = d
      BY <2>4, <2>12
    <3> HIDE DEF d
    <3>4. CASE d[1] \in Asked
      <4>1. of[d[1]].day = d
        BY <2>2, <3>1, <3>4
      <4> QED
        BY <3>3, <3>4, <4>1
    <3>5. CASE d[1] = ThisYear + 1
      <4>1. next.day = d
        BY <2>3, <3>1, <3>5
      <4> QED
        BY <3>3, <4>1
    <3> QED
      BY <3>2, <3>4, <3>5
  <2> QED
    BY <2>1, <2>7, <2>8, <2>9, <2>10, <2>11, <2>12 DEF YearsAddUp, Astray, YearOf, of, next, time
<1> QED
  BY <1>1, DaysInvariance, PTL

-----------------------------------------------------------------------------
(* Induction along a sequence, upwards and downwards, and flattening.      *)

\* Upwards from 0 to n, P being the numbers reached.
LEMMA CountUp ==
    ASSUME NEW n \in Nat, NEW P, 0 \in P, \A k \in 0..(n - 1) : k \in P => k + 1 \in P
    PROVE  \A k \in 0..n : k \in P
<1> DEFINE Missed == {k \in 0..n : k \notin P}
<1> SUFFICES ASSUME Missed # {}
             PROVE  FALSE
  OBVIOUS
<1>1. PICK m \in Missed : \A k \in Missed : m <= k
  <2>1. Missed \in SUBSET Nat
    OBVIOUS
  <2> HIDE DEF Missed
  <2> QED
    BY <2>1, LeastNatural
<1>2. m # 0 /\ m - 1 \in 0..(n - 1) /\ (m - 1) + 1 = m
  OBVIOUS
<1>3. m - 1 \in 0..n /\ ~(m <= m - 1)
  BY <1>2
<1>4. m - 1 \in P
  BY <1>1, <1>3
<1> QED
  BY <1>1, <1>2, <1>4

\* Downwards from n to m.
LEMMA CountDown ==
    ASSUME NEW m \in Int, NEW n \in Int, NEW P,
           \A k \in m..n : (\A j \in (k + 1)..n : j \in P) => k \in P
    PROVE  \A k \in m..n : k \in P
<1> DEFINE Missed == {d \in Nat : d <= n - m /\ n - d \notin P}
<1> SUFFICES ASSUME NEW k \in m..n, k \notin P
             PROVE  FALSE
  OBVIOUS
<1>1. n - k \in Missed
  <2>1. n - (n - k) = k
    OBVIOUS
  <2> QED
    BY <2>1
<1>2. PICK d \in Missed : \A e \in Missed : d <= e
  <2>1. Missed \in SUBSET Nat /\ Missed # {}
    BY <1>1
  <2> HIDE DEF Missed
  <2> QED
    BY <2>1, LeastNatural
<1>3. ASSUME NEW j \in (n - d + 1)..n
      PROVE  j \in P
  <2>1. n - (n - j) = j /\ n - j \in Nat /\ n - j <= n - m /\ ~(d <= n - j)
    BY <1>2
  <2> QED
    BY <1>2, <2>1
<1> QED
  BY <1>2, <1>3

\* A function on 1 to n is a sequence.
LEMMA IsSequence ==
    ASSUME NEW S, NEW n \in Nat, NEW f, f = [i \in 1..n |-> f[i]], \A i \in 1..n : f[i] \in S
    PROVE  f \in Seq(S) /\ Len(f) = n
OBVIOUS

\* flat[k] is what the first k sequences of ss flatten to.
Flattens(flat, ss, S) ==
    /\ flat \in [0..Len(ss) -> Seq(S)]
    /\ flat[0] = <<>>
    /\ \A k \in 1..Len(ss) : flat[k] = flat[k - 1] \o ss[k]

IsFlat(flat, ss, n) ==
    flat = [i \in 1..n |-> IF i = 1 THEN ss[i] ELSE flat[i - 1] \o ss[i]]

\* The recursion of FlattenSeq has a solution.
LEMMA FlatsExist ==
    ASSUME NEW ss, NEW n \in Nat
    PROVE  \E flat : IsFlat(flat, ss, n)
<1> DEFINE P == {m \in 0..n : \E flat : IsFlat(flat, ss, m)}
<1>1. 0 \in P
  <2> DEFINE f == [i \in 1..0 |-> ss[i]]
  <2>1. IsFlat(f, ss, 0)
    BY DEF IsFlat
  <2> QED
    BY <2>1
<1>2. ASSUME NEW k \in 0..(n - 1), k \in P
      PROVE  k + 1 \in P
  <2>1. PICK g : IsFlat(g, ss, k)
    BY <1>2
  <2> DEFINE m == k + 1
             f == [i \in 1..m |-> IF i # m THEN g[i] ELSE IF i = 1 THEN ss[i] ELSE g[i - 1] \o ss[i]]
  <2>2. ASSUME NEW i \in 1..m
        PROVE  f[i] = IF i = 1 THEN ss[i] ELSE f[i - 1] \o ss[i]
    <3>1. \A j \in 1..k : g[j] = IF j = 1 THEN ss[j] ELSE g[j - 1] \o ss[j]
      BY <2>1 DEF IsFlat
    <3>2. i # 1 => i - 1 \in 1..m /\ i - 1 # m
      OBVIOUS
    <3>3. i = m \/ i \in 1..k
      OBVIOUS
    <3>4. i # 1 => f[i - 1] = g[i - 1]
      BY <3>2
    <3>5. CASE i = m
      BY <3>4, <3>5
    <3>6. CASE i # m
      BY <3>1, <3>3, <3>4, <3>6
    <3> QED
      BY <3>5, <3>6
  <2>3. IsFlat(f, ss, m)
    BY <2>2 DEF IsFlat
  <2> QED
    BY <1>2, <2>3
<1>3. n \in P
  <2> HIDE DEF P
  <2> QED
    BY <1>1, <1>2, CountUp
<1> QED
  BY <1>3

\* FlattenSeq appends sequence after sequence.
LEMMA Flattened ==
    ASSUME NEW S, NEW ss \in Seq(Seq(S))
    PROVE  \E flat : Flattens(flat, ss, S) /\ flat[Len(ss)] = FlattenSeq(ss)
<1> DEFINE n == Len(ss)
           g == CHOOSE flat : IsFlat(flat, ss, n)
           f == [k \in 0..n |-> IF k = 0 THEN <<>> ELSE g[k]]
<1> n \in Nat
  OBVIOUS
<1>1. IsFlat(g, ss, n)
  <2> HIDE DEF n
  <2> QED
    BY FlatsExist
<1>2. FlattenSeq(ss) = IF n = 0 THEN ss ELSE g[n]
  BY DEF FlattenSeq, IsFlat
<1> HIDE DEF g
<1>3. \A k \in 1..n : g[k] = IF k = 1 THEN ss[k] ELSE g[k - 1] \o ss[k]
  BY <1>1 DEF IsFlat
<1>4. \A k \in 1..n : ss[k] \in Seq(S)
  OBVIOUS
<1>5. <<>> \in Seq(S) /\ \A s \in Seq(S) : <<>> \o s = s
  OBVIOUS
<1>6. ASSUME NEW k \in 1..n
      PROVE  f[k] = f[k - 1] \o ss[k]
  <2>1. CASE k = 1
    <3>1. f[1] = g[1] /\ g[1] = ss[1] /\ f[0] = <<>>
      BY <1>3, <2>1
    <3>2. PICK s \in Seq(S) : s = ss[1]
      BY <1>4, <2>1
    <3>3. <<>> \o s = s
      OBVIOUS
    <3>4. k - 1 = 0
      BY <2>1
    <3> HIDE DEF f
    <3> QED
      BY <2>1, <3>1, <3>2, <3>3, <3>4
  <2>2. CASE k # 1
    <3>1. k - 1 \in 0..n /\ k - 1 # 0 /\ k # 0 /\ k \in 0..n
      BY <2>2
    <3>2. f[k] = g[k] /\ f[k - 1] = g[k - 1]
      BY <3>1
    <3> QED
      BY <1>3, <2>2, <3>2
  <2> QED
    BY <2>1, <2>2
<1> DEFINE P == {k \in 0..n : f[k] \in Seq(S)}
<1>7. 0 \in P
  BY <1>5
<1>8. ASSUME NEW k \in 0..(n - 1), k \in P
      PROVE  k + 1 \in P
  <2>1. k + 1 \in 1..n /\ k + 1 \in 0..n /\ (k + 1) - 1 = k
    OBVIOUS
  <2>2. f[k] \in Seq(S) /\ ss[k + 1] \in Seq(S)
    BY <1>4, <1>8, <2>1
  <2> HIDE DEF f
  <2>3. f[k + 1] = f[k] \o ss[k + 1]
    BY <1>6, <2>1
  <2>4. f[k] \o ss[k + 1] \in Seq(S)
    BY <2>2, ConcatProperties
  <2>5. f[k + 1] \in Seq(S)
    BY <2>3, <2>4
  <2> QED
    BY <2>1, <2>5
<1>9. \A k \in 0..n : k \in P
  <2> HIDE DEF P
  <2> QED
    BY <1>7, <1>8, CountUp
<1>10. f \in [0..n -> Seq(S)]
  BY <1>9
<1>11. f[0] = <<>>
  OBVIOUS
<1>12. f[n] = FlattenSeq(ss)
  <2>1. n = 0 => ss = <<>>
    OBVIOUS
  <2> QED
    BY <1>2, <2>1
<1> QED
  <2> HIDE DEF f
  <2> QED
    BY <1>6, <1>10, <1>11, <1>12 DEF Flattens

\* So it yields a sequence of what they hold.
LEMMA FlatType ==
    ASSUME NEW S, NEW ss \in Seq(Seq(S))
    PROVE  FlattenSeq(ss) \in Seq(S)
<1>1. PICK flat : Flattens(flat, ss, S) /\ flat[Len(ss)] = FlattenSeq(ss)
  BY Flattened
<1>2. Len(ss) \in 0..Len(ss)
  OBVIOUS
<1> QED
  BY <1>1, <1>2 DEF Flattens

\* What a text is made of.
TextOK == text \in Seq(Seq(Tokens))

\* Every step of a writer leaves a text of paragraphs of tokens.
LEMMA TextStays == TimelineSpec => []TextOK
<1>1. TimelineInit => TextOK
  BY DEF TimelineInit, TextOK
<1>2. TextOK /\ [TimelineNext]_timelineVars => TextOK'
  <2> SUFFICES ASSUME TextOK, [TimelineNext]_timelineVars
               PROVE  TextOK'
    OBVIOUS
  <2>1. ASSUME NEW t \in Tokens, Write(t)
        PROVE  TextOK'
    <3>1. Len(text) \in DOMAIN text /\ text[Len(text)] \in Seq(Tokens)
      BY <2>1 DEF TextOK, Write
    <3>2. Append(text[Len(text)], t) \in Seq(Tokens)
      BY <3>1
    <3> QED
      BY <2>1, <3>1, <3>2 DEF TextOK, Write
  <2>2. ASSUME Break
        PROVE  TextOK'
    <3>1. <<>> \in Seq(Tokens)
      OBVIOUS
    <3> QED
      BY <2>2, <3>1, AppendProperties DEF TextOK, Break
  <2>3. CASE UNCHANGED timelineVars
    BY <2>3 DEF TextOK, timelineVars
  <2> QED
    BY <2>1, <2>2, <2>3 DEF TimelineNext
<1> QED
  BY <1>1, <1>2, PTL DEF TimelineSpec

\* Leaving the empty paragraphs out leaves paragraphs of tokens.
LEMMA ParagraphsOfText ==
    ASSUME TextOK
    PROVE  SplitParagraphs \in Seq(Seq(Tokens))
<1> DEFINE kept == [p \in DOMAIN text |-> IF text[p] = <<>> THEN <<>> ELSE <<text[p]>>]
<1>1. \A p \in DOMAIN text : text[p] \in Seq(Tokens)
  BY DEF TextOK
<1>2. \A p \in DOMAIN text : kept[p] \in Seq(Seq(Tokens))
  BY <1>1
<1>3. kept \in Seq(Seq(Seq(Tokens)))
  <2>1. DOMAIN text = 1..Len(text) /\ Len(text) \in Nat
    BY DEF TextOK
  <2>2. DOMAIN kept = 1..Len(text)
    BY <2>1
  <2> HIDE DEF kept
  <2>3. kept = [p \in 1..Len(text) |-> kept[p]]
    BY <2>2 DEF kept
  <2> QED
    BY <1>2, <2>1, <2>3
<1>4. FlattenSeq(kept) \in Seq(Seq(Tokens))
  <2> HIDE DEF kept
  <2> QED
    BY <1>3, FlatType
<1> QED
  BY <1>4 DEF SplitParagraphs

-----------------------------------------------------------------------------
(* The chunks of a token.                                                  *)

\* What the engine shows of a text, one at a time.
Piece == [of : Tokens, from : Nat, to : Nat, lead : Nat, trail : Nat]

\* A chunk takes a letter and never more than there are. A whole rest is no
\* longer than a word may be; a cut leaves half a chunk or more on each side.
TakesOf(k, rest) ==
    /\ k \in 1..rest
    /\ rest <= SplitAbove => k = rest
    /\ rest > SplitAbove =>
           k <= ChunkLen /\ 2 * k >= ChunkLen /\ 2 * (rest - k) >= ChunkLen

\* Take is such a cut, whatever the vowels.
LEMMA TakeIs ==
    ASSUME NEW t \in Tokens, NEW pos \in 1..t.len
    PROVE  TakesOf(Take(t, pos), t.len - pos + 1)
<1> DEFINE k == Take(t, pos)
           rest == t.len - pos + 1
           cuts == {c \in (ChunkLen - 3)..ChunkLen : c >= 4 /\ pos + c - 1 \in t.vowels}
<1>1. rest \in Nat /\ rest >= 1 /\ t.len \in Nat
  BY TimelineAssumption
<1>2. ChunkLen \in Nat /\ ChunkLen # 0 /\ SplitAbove \in Nat /\ ChunkLen <= SplitAbove
      /\ 2 * (SplitAbove + 1 - ChunkLen) >= ChunkLen
  BY TimelineAssumption
<1>3. k = IF rest <= SplitAbove THEN rest
          ELSE IF cuts = {} THEN ChunkLen
          ELSE CHOOSE c \in cuts : \A d \in cuts : d <= c
  BY DEF Take
<1>4. cuts # {} => \E c \in cuts : \A d \in cuts : d <= c
  <2>1. cuts \in SUBSET Nat /\ \A c \in cuts : c <= ChunkLen
    BY <1>2
  <2> HIDE DEF cuts
  <2> QED
    BY <1>2, <2>1, GreatestNatural
<1>5. \A c \in cuts : c \in Nat /\ c >= ChunkLen - 3 /\ c <= ChunkLen /\ c >= 4
  BY <1>2
<1> HIDE DEF k, cuts, rest
<1>6. TakesOf(k, rest)
  <2>1. CASE rest <= SplitAbove
    BY <1>1, <1>2, <1>3, <2>1 DEF TakesOf
  <2>2. CASE ~(rest <= SplitAbove) /\ cuts = {}
    <3>1. k = ChunkLen
      BY <1>3, <2>2
    <3> QED
      BY <1>1, <1>2, <2>2, <3>1 DEF TakesOf
  <2>3. CASE ~(rest <= SplitAbove) /\ cuts # {}
    <3>1. k \in cuts
      BY <1>3, <1>4, <2>3
    <3>2. k \in Nat /\ k >= ChunkLen - 3 /\ k <= ChunkLen /\ k >= 4
      BY <1>5, <3>1
    <3> QED
      BY <1>1, <1>2, <2>3, <3>2 DEF TakesOf
  <2> QED
    BY <2>1, <2>2, <2>3
<1> QED
  BY <1>6 DEF k, rest

\* The recursion of DisplayTokens from pos on.
Cuts(cut, t, low) ==
    cut = [pos \in low..(t.len + 1) |->
              IF pos > t.len THEN <<>>
              ELSE <<Chunk(t, pos, pos + Take(t, pos) - 1)>> \o cut[pos + Take(t, pos)]]

\* It has a solution: a chunk takes a letter.
LEMMA CutsExist ==
    ASSUME NEW t \in Tokens
    PROVE  \A low \in 1..(t.len + 1) : \E cut : Cuts(cut, t, low)
<1> DEFINE n == t.len + 1
           P == {low \in 1..n : \E cut : Cuts(cut, t, low)}
<1>1. t.len \in Nat /\ n \in Nat
  BY TimelineAssumption
<1>2. ASSUME NEW low \in 1..n, \A j \in (low + 1)..n : j \in P
      PROVE  low \in P
  <2>1. CASE low = n
    <3> DEFINE f == [pos \in low..n |-> <<>>]
    <3>1. \A pos \in low..n : pos > t.len
      BY <1>1, <2>1
    <3>2. Cuts(f, t, low)
      BY <3>1 DEF Cuts
    <3> QED
      BY <3>2
  <2>2. CASE low # n
    <3>1. low + 1 \in (low + 1)..n
      BY <1>1, <2>2
    <3>2. PICK g : Cuts(g, t, low + 1)
      BY <1>2, <3>1
    <3> DEFINE f == [pos \in low..n |->
                       IF pos # low THEN g[pos]
                       ELSE <<Chunk(t, pos, pos + Take(t, pos) - 1)>> \o g[pos + Take(t, pos)]]
    <3>3. ASSUME NEW pos \in low..n
          PROVE  f[pos] = IF pos > t.len THEN <<>>
                          ELSE <<Chunk(t, pos, pos + Take(t, pos) - 1)>> \o f[pos + Take(t, pos)]
      <4>1. \A p \in (low + 1)..n :
               g[p] = IF p > t.len THEN <<>>
                      ELSE <<Chunk(t, p, p + Take(t, p) - 1)>> \o g[p + Take(t, p)]
        BY <3>2 DEF Cuts
      <4>2. pos \in 1..n /\ pos \in Nat
        BY <1>1
      <4>3. CASE pos > t.len
        <5>1. pos \in (low + 1)..n /\ pos # low
          BY <1>1, <2>2, <4>2, <4>3
        <5> QED
          BY <4>1, <4>3, <5>1
      <4>4. CASE pos <= t.len
        <5>1. pos \in 1..t.len
          BY <1>1, <4>2, <4>4
        <5>2. PICK k \in 1..(t.len - pos + 1) : k = Take(t, pos)
          BY <5>1, TakeIs DEF TakesOf
        <5>3. pos + k \in (low + 1)..n /\ pos + k # low
          BY <1>1, <5>1, <5>2
        <5>4. f[pos + k] = g[pos + k]
          BY <5>3
        <5>5. CASE pos = low
          BY <1>1, <4>2, <4>4, <5>2, <5>4, <5>5
        <5>6. CASE pos # low
          <6>1. pos \in (low + 1)..n
            BY <1>1, <5>1, <5>6
          <6> QED
            BY <1>1, <4>1, <4>2, <4>4, <5>2, <5>4, <5>6, <6>1
        <5> QED
          BY <5>5, <5>6
      <4> QED
        BY <1>1, <4>2, <4>3, <4>4
    <3>4. Cuts(f, t, low)
      <4> HIDE DEF f
      <4>1. f = [pos \in low..n |-> f[pos]]
        BY DEF f
      <4> QED
        BY <3>3, <4>1 DEF Cuts
    <3> QED
      BY <3>4
  <2> QED
    BY <2>1, <2>2
<1>3. \A low \in 1..n : low \in P
  <2> HIDE DEF P
  <2>1. 1 \in Int /\ n \in Int
    BY <1>1
  <2> HIDE DEF n
  <2> QED
    BY <1>2, <2>1, CountDown
<1> QED
  BY <1>3


\* cs are the chunks of the letters of t from pos on.
Chunks(cs, t, pos) ==
    /\ cs \in Seq(Piece)
    /\ Len(cs) >= 1
    /\ cs[1].from = pos
    /\ cs[Len(cs)].to = t.len
    /\ \A k \in 1..Len(cs) :
          /\ cs[k] = Chunk(t, cs[k].from, cs[k].to)
          /\ pos <= cs[k].from /\ cs[k].from <= cs[k].to /\ cs[k].to <= t.len
          /\ 2 * (t.len - pos + 1) >= ChunkLen => 2 * (cs[k].to - cs[k].from + 1) >= ChunkLen
          /\ cs[k].to - cs[k].from + 1 <= SplitAbove
          /\ k < Len(cs) =>
                /\ cs[k].to - cs[k].from + 1 <= ChunkLen
                /\ cs[k + 1].from = cs[k].to + 1
    /\ Len(cs) > 1 => t.len - pos + 1 > SplitAbove

\* Every chunk cut of a token is a piece, of what it was cut.
LEMMA ChunkIs ==
    ASSUME NEW t \in Tokens, NEW from \in Nat, NEW to \in Nat
    PROVE  /\ Chunk(t, from, to) \in Piece
           /\ Chunk(t, from, to).from = from
           /\ Chunk(t, from, to).to = to
           /\ Chunk(t, from, to).of = t
BY TimelineAssumption DEF Chunk, Piece

\* One chunk before the others.
LEMMA ChunksPrepend ==
    ASSUME NEW t \in Tokens, NEW pos \in 1..t.len, NEW next, next = pos + Take(t, pos),
           NEW rest, Chunks(rest, t, next) \/ (next = t.len + 1 /\ rest = <<>>)
    PROVE  Chunks(<<Chunk(t, pos, next - 1)>> \o rest, t, pos)
<1> DEFINE c == Chunk(t, pos, next - 1)
           cs == <<c>> \o rest
<1>1. t.len \in Nat /\ ChunkLen \in Nat /\ SplitAbove \in Nat /\ pos \in Nat
  BY TimelineAssumption
<1>2. PICK k : k = Take(t, pos) /\ TakesOf(k, t.len - pos + 1)
  BY TakeIs
<1>3. next = pos + k /\ next \in Nat /\ next - 1 \in Nat /\ pos <= next - 1 /\ next - 1 <= t.len
  <2>1. next = pos + k
    BY <1>2
  <2>2. k \in 1..(t.len - pos + 1)
    BY <1>2 DEF TakesOf
  <2> QED
    BY <1>1, <2>1, <2>2
<1>4. /\ k \in Nat
      /\ t.len - pos + 1 <= SplitAbove => k = t.len - pos + 1
      /\ t.len - pos + 1 > SplitAbove =>
            k <= ChunkLen /\ 2 * k >= ChunkLen /\ 2 * (t.len - pos + 1 - k) >= ChunkLen
  BY <1>1, <1>2, SMTT(40) DEF TakesOf
<1> ChunkLen <= SplitAbove /\ k <= SplitAbove
  BY <1>1, <1>4, TimelineAssumption
<1>5. c \in Piece /\ c.from = pos /\ c.to = next - 1 /\ c.of = t
  BY <1>1, <1>3, ChunkIs
<1>6. c = Chunk(t, c.from, c.to)
  BY <1>5
<1> HIDE DEF c
<1>7. CASE next = t.len + 1 /\ rest = <<>>
  <2>1. <<c>> \in Seq(Piece) /\ <<c>> \o <<>> = <<c>>
    BY <1>5
  <2>2. cs \in Seq(Piece) /\ Len(cs) = 1 /\ cs[1] = c
    BY <1>7, <2>1
  <2>3. /\ 2 * (t.len - pos + 1) >= ChunkLen => 2 * (c.to - c.from + 1) >= ChunkLen
        /\ c.to - c.from + 1 <= SplitAbove
    <3>1. c.to - c.from + 1 = k /\ t.len - pos + 1 = k
      BY <1>1, <1>3, <1>4, <1>5, <1>7
    <3> QED
      BY <1>4, <3>1
  <2> HIDE DEF cs
  <2>4. \A i \in 1..Len(cs) : i = 1 /\ ~(i < Len(cs))
    BY <2>2
  <2>5. Chunks(cs, t, pos)
    <3>1. \A i \in 1..Len(cs) : cs[i] = c
      BY <2>2, <2>4
    <3>2. ~(Len(cs) > 1) /\ Len(cs) >= 1 /\ cs[Len(cs)] = c
      BY <2>2
    <3>3. pos <= c.from /\ c.from <= c.to /\ c.to <= t.len /\ c.to = t.len
      BY <1>1, <1>3, <1>5, <1>7
    <3> QED
      BY <1>5, <1>6, <2>2, <2>3, <2>4, <3>1, <3>2, <3>3 DEF Chunks
  <2> QED
    BY <2>5 DEF cs, c
<1>8. CASE Chunks(rest, t, next)
  <2>1. rest \in Seq(Piece) /\ Len(rest) \in Nat /\ Len(rest) >= 1
    BY <1>8 DEF Chunks
  <2>2. cs \in Seq(Piece) /\ Len(cs) = Len(rest) + 1 /\ cs[1] = c
    BY <1>5, <2>1
  <2>3. \A i \in 1..Len(rest) : cs[i + 1] = rest[i]
    BY <1>5, <2>1
  <2> HIDE DEF cs
  <2>4. \A i \in 1..Len(rest) :
          /\ rest[i] = Chunk(t, rest[i].from, rest[i].to)
          /\ rest[i] \in Piece
          /\ next <= rest[i].from /\ rest[i].from <= rest[i].to /\ rest[i].to <= t.len
          /\ 2 * (t.len - next + 1) >= ChunkLen => 2 * (rest[i].to - rest[i].from + 1) >= ChunkLen
          /\ rest[i].to - rest[i].from + 1 <= SplitAbove
          /\ i < Len(rest) =>
                /\ rest[i].to - rest[i].from + 1 <= ChunkLen
                /\ rest[i + 1].from = rest[i].to + 1
    BY <1>8, <2>1 DEF Chunks
  <2>5. rest[1].from = next /\ rest[Len(rest)].to = t.len
    BY <1>8 DEF Chunks
  <2>6. t.len - pos + 1 > SplitAbove
    <3>1. next <= t.len
      <4>1. next <= rest[1].from /\ rest[1].from <= rest[1].to /\ rest[1].to <= t.len
            /\ rest[1] \in Piece
        BY <2>1, <2>4
      <4> QED
        BY <1>1, <1>3, <2>5, <4>1 DEF Piece
    <3> QED
      BY <1>1, <1>3, <1>4, <3>1
  <2>7. 2 * (t.len - next + 1) >= ChunkLen
    BY <1>1, <1>3, <1>4, <2>6
  <2>8. ASSUME NEW i \in 1..Len(cs)
        PROVE  /\ cs[i] = Chunk(t, cs[i].from, cs[i].to)
               /\ pos <= cs[i].from /\ cs[i].from <= cs[i].to /\ cs[i].to <= t.len
               /\ 2 * (cs[i].to - cs[i].from + 1) >= ChunkLen
               /\ cs[i].to - cs[i].from + 1 <= SplitAbove
               /\ i < Len(cs) =>
                     /\ cs[i].to - cs[i].from + 1 <= ChunkLen
                     /\ cs[i + 1].from = cs[i].to + 1
    <3>1. CASE i = 1
      <4>1. cs[2] = rest[1] /\ 1 < Len(cs)
        <5>1. 1 \in 1..Len(rest) /\ 1 + 1 = 2
          BY <2>1
        <5> QED
          BY <2>1, <2>2, <2>3, <5>1
      <4>2. c.to - c.from + 1 = k
        BY <1>1, <1>3, <1>4, <1>5
      <4>3. 2 * k >= ChunkLen /\ k <= ChunkLen
        BY <1>4, <2>6
      <4>4. rest[1].from = c.to + 1
        BY <1>3, <1>5, <2>5
      <4> QED
        BY <1>3, <1>5, <1>6, <2>2, <3>1, <4>1, <4>2, <4>3, <4>4
    <3>2. CASE i # 1
      <4> DEFINE j == i - 1
      <4>1. j \in 1..Len(rest) /\ i = j + 1 /\ (i < Len(cs) => j < Len(rest) /\ j + 1 \in 1..Len(rest))
        BY <2>1, <2>2, <3>2
      <4>2. cs[i] = rest[j] /\ (i < Len(cs) => cs[i + 1] = rest[j + 1])
        BY <2>3, <4>1
      <4> HIDE DEF j
      <4>3. rest[j].from \in Nat
        BY <2>4, <4>1 DEF Piece
      <4>4. pos <= rest[j].from
        BY <1>1, <1>3, <2>4, <4>1, <4>3
      <4> QED
        BY <2>4, <2>7, <4>1, <4>2, <4>4
    <3> QED
      BY <3>1, <3>2
  <2>9. cs[Len(cs)].to = t.len
    BY <2>1, <2>2, <2>3, <2>5
  <2>10. Len(cs) >= 1 /\ cs[1].from = pos
    BY <1>5, <2>1, <2>2
  <2>11. Chunks(cs, t, pos)
    BY <2>2, <2>6, <2>8, <2>9, <2>10 DEF Chunks
  <2> QED
    BY <2>11 DEF cs, c
<1> QED
  BY <1>7, <1>8

\* DisplayTokens yields the chunks of a token.
LEMMA ChunksAre ==
    ASSUME NEW t \in Tokens
    PROVE  Chunks(DisplayTokens(t), t, 1)
<1> DEFINE n == t.len + 1
           cut == CHOOSE c : Cuts(c, t, 1)
<1>1. t.len \in Nat /\ t.len >= 1 /\ n \in Nat /\ 1 \in 1..n
  BY TimelineAssumption
<1>2. Cuts(cut, t, 1)
  BY <1>1, CutsExist
<1>3. DisplayTokens(t) = cut[1]
  BY DEF DisplayTokens, Cuts
<1> HIDE DEF cut
<1>4. \A pos \in 1..n : cut[pos] = IF pos > t.len THEN <<>>
                                   ELSE <<Chunk(t, pos, pos + Take(t, pos) - 1)>> \o cut[pos + Take(t, pos)]
  BY <1>2 DEF Cuts
<1> HIDE DEF n
<1>5. n = t.len + 1
  BY DEF n
<1> DEFINE P == {pos \in 1..t.len : Chunks(cut[pos], t, pos)}
<1>6. ASSUME NEW pos \in 1..t.len, \A j \in (pos + 1)..t.len : j \in P
      PROVE  pos \in P
  <2>1. PICK k \in 1..(t.len - pos + 1) : k = Take(t, pos)
    BY TakeIs DEF TakesOf
  <2> DEFINE next == pos + k
  <2>2. next \in (pos + 1)..n /\ next \in 1..n /\ pos \in 1..n /\ ~(pos > t.len)
    BY <1>1, <1>5, <2>1
  <2>3. Chunks(cut[next], t, next) \/ (next = t.len + 1 /\ cut[next] = <<>>)
    <3>1. CASE next = n
      <4>1. n \in 1..n /\ n > t.len
        BY <1>1, <1>5
      <4>2. cut[n] = <<>>
        BY <1>4, <4>1
      <4> QED
        BY <1>5, <3>1, <4>2
    <3>2. CASE next # n
      <4>1. next \in (pos + 1)..t.len
        BY <1>1, <1>5, <2>2, <3>2
      <4> QED
        BY <1>6, <4>1
    <3> QED
      BY <3>1, <3>2
  <2>4. cut[pos] = <<Chunk(t, pos, next - 1)>> \o cut[next]
    <3>1. cut[pos] = <<Chunk(t, pos, pos + Take(t, pos) - 1)>> \o cut[pos + Take(t, pos)]
      BY <1>4, <2>2
    <3> QED
      BY <2>1, <3>1
  <2> HIDE DEF next
  <2>5. next = pos + Take(t, pos)
    BY <2>1 DEF next
  <2>6. Chunks(<<Chunk(t, pos, next - 1)>> \o cut[next], t, pos)
    BY <2>3, <2>5, ChunksPrepend
  <2> QED
    BY <2>4, <2>6
<1>7. \A pos \in 1..t.len : pos \in P
  <2> HIDE DEF P
  <2>1. 1 \in Int /\ t.len \in Int
    BY <1>1
  <2> QED
    BY <1>6, <2>1, CountDown
<1> QED
  BY <1>1, <1>3, <1>7

\* The letters of a chunk, the first and the last of them.
LEMMA CoreIs ==
    ASSUME NEW c \in Piece, c.from >= 1, c.from <= c.to, Letters(c) # {}
    PROVE  /\ Min(Letters(c)) \in Letters(c) /\ Max(Letters(c)) \in Letters(c)
           /\ Min(Letters(c)) \in c.from..c.to /\ Max(Letters(c)) \in c.from..c.to
           /\ Min(Letters(c)) <= Max(Letters(c))
<1> DEFINE L == Letters(c)
<1>1. c.from \in Nat /\ c.to \in Nat
  BY DEF Piece
<1>2. L \subseteq c.from..c.to
  BY DEF Letters
<1>3. L \in SUBSET Nat /\ \A x \in L : x <= c.to
  BY <1>1, <1>2
<1> HIDE DEF L
<1>4. L # {}
  BY DEF L
<1>5. \E x \in L : \A y \in L : x <= y
  BY <1>3, <1>4, LeastNatural
<1>6. \E x \in L : \A y \in L : y <= x
  BY <1>1, <1>3, <1>4, GreatestNatural
<1>7. Min(L) \in L /\ \A y \in L : Min(L) <= y
  BY <1>5 DEF Min
<1>8. Max(L) \in L /\ \A y \in L : y <= Max(L)
  BY <1>6 DEF Max
<1>9. Min(L) \in c.from..c.to /\ Max(L) \in c.from..c.to /\ Min(L) <= Max(L)
  BY <1>2, <1>7, <1>8
<1> QED
  BY <1>7, <1>8, <1>9 DEF L

\* The pivot of a chunk is a character it shows, and between two of its letters.
LEMMA PivotIs ==
    ASSUME NEW c \in Piece, c.from >= 1, c.from <= c.to
    PROVE  /\ CoreLen(c) \in Nat /\ CoreLen(c) >= 1
           /\ OrpIndex(c) \in Nat /\ OrpIndex(c) \in 0..(Width(c) - 1)
           /\ Letters(c) # {} =>
                 \E i, j \in Letters(c) : c.from + OrpIndex(c) - c.lead \in i..j
<1> DEFINE n == CoreLen(c)
           offset == CASE n <= 1 -> 0
                       [] n \in 2..5 -> 1
                       [] n \in 6..9 -> 2
                       [] n \in 10..13 -> 3
                       [] OTHER -> 4
<1>1. c.lead \in Nat /\ c.trail \in Nat /\ c.from \in Nat /\ c.to \in Nat
  BY DEF Piece
<1>2. Width(c) = c.lead + (c.to - c.from + 1) + c.trail
  BY DEF Width, Part
<1> DEFINE lo == Min(Letters(c))
           hi == Max(Letters(c))
<1>3. Letters(c) # {} => /\ lo \in Letters(c) /\ hi \in Letters(c)
                         /\ lo \in c.from..c.to /\ hi \in c.from..c.to /\ lo <= hi
  BY CoreIs
<1>4. n = IF Letters(c) = {} THEN Width(c) ELSE hi - lo + 1
  BY DEF CoreLen
<1>5. CoreStart(c) = IF Letters(c) = {} THEN 0 ELSE c.lead + lo - c.from
  BY DEF CoreStart
<1>6. OrpIndex(c) = CoreStart(c) + offset
  BY DEF OrpIndex
<1> HIDE DEF n, lo, hi
<1>7. n \in Nat /\ n >= 1
  BY <1>1, <1>2, <1>3, <1>4
<1>8. offset \in Nat /\ offset <= n - 1
  <2>1. CASE n <= 1
    BY <1>7, <2>1
  <2>2. CASE n \in 2..5
    BY <1>7, <2>2
  <2>3. CASE n \in 6..9
    BY <1>7, <2>3
  <2>4. CASE n \in 10..13
    BY <1>7, <2>4
  <2>5. CASE n > 13
    BY <1>7, <2>5
  <2> QED
    BY <1>7, <2>1, <2>2, <2>3, <2>4, <2>5
<1> HIDE DEF offset
<1>9. CASE Letters(c) = {}
  <2>1. OrpIndex(c) = offset /\ n = Width(c)
    BY <1>4, <1>5, <1>6, <1>8, <1>9
  <2> QED
    BY <1>7, <1>8, <1>9, <2>1 DEF n
<1>10. CASE Letters(c) # {}
  <2>1. OrpIndex(c) = c.lead + lo - c.from + offset /\ n = hi - lo + 1
    BY <1>4, <1>5, <1>6, <1>10
  <2>2. lo \in Nat /\ hi \in Nat /\ c.from <= lo /\ lo <= hi /\ hi <= c.to
    BY <1>1, <1>3, <1>10
  <2>3. OrpIndex(c) \in Nat /\ OrpIndex(c) \in 0..(Width(c) - 1)
    BY <1>1, <1>2, <1>8, <2>1, <2>2
  <2>4. c.from + OrpIndex(c) - c.lead \in lo..hi
    BY <1>1, <1>8, <2>1, <2>2
  <2>5. \E i, j \in Letters(c) : c.from + OrpIndex(c) - c.lead \in i..j
    BY <1>3, <1>10, <2>4
  <2> QED
    BY <1>7, <2>3, <2>5 DEF n
<1> QED
  BY <1>9, <1>10

\* The letters up to one, and those from it on.
LEMMA LettersJoin ==
    ASSUME NEW from \in Nat, from >= 1, NEW to \in Nat, from <= to, NEW n, n = to - from + 1
    PROVE  [j \in 1..(from - 1) |-> j] \o [j \in 1..n |-> from + j - 1] = [j \in 1..to |-> j]
<1> DEFINE a == [j \in 1..(from - 1) |-> j]
           b == [j \in 1..n |-> from + j - 1]
           c == [j \in 1..to |-> j]
<1>1. from - 1 \in Nat /\ n \in Nat
  OBVIOUS
<1>2. a \in Seq(Nat) /\ Len(a) = from - 1 /\ \A j \in 1..(from - 1) : a[j] = j
  BY <1>1
<1>3. b \in Seq(Nat) /\ Len(b) = n /\ \A j \in 1..n : b[j] = from + j - 1
  <2>1. \A j \in 1..n : from + j - 1 \in Nat
    BY <1>1
  <2> QED
    BY <1>1, <2>1
<1>4. c \in Seq(Nat) /\ Len(c) = to /\ \A j \in 1..to : c[j] = j
  OBVIOUS
<1> HIDE DEF a, b, c
<1>5. /\ a \o b \in Seq(Nat) /\ Len(a \o b) = Len(a) + Len(b)
      /\ \A j \in 1..(Len(a) + Len(b)) :
            (a \o b)[j] = IF j <= Len(a) THEN a[j] ELSE b[j - Len(a)]
  BY <1>2, <1>3, ConcatProperties
<1>6. Len(a) + Len(b) = to
  BY <1>1, <1>2, <1>3
<1>7. ASSUME NEW j \in 1..to
      PROVE  (a \o b)[j] = c[j]
  <2>1. CASE j <= from - 1
    <3>1. j \in 1..(from - 1)
      BY <2>1
    <3> QED
      BY <1>2, <1>4, <1>5, <1>6, <2>1, <3>1
  <2>2. CASE ~(j <= from - 1)
    <3>1. j - (from - 1) \in 1..n /\ from + (j - (from - 1)) - 1 = j
      BY <1>1, <2>2
    <3>2. (a \o b)[j] = b[j - (from - 1)]
      BY <1>2, <1>5, <1>6, <2>2
    <3> QED
      BY <1>3, <1>4, <3>1, <3>2
  <2> QED
    BY <2>1, <2>2
<1>8. a \o b = c
  BY <1>4, <1>5, <1>6, <1>7, SeqEqual
<1> QED
  BY <1>8 DEF a, b, c

\* The letters that the chunks show, chunk by chunk.
Shown(cs) == [k \in DOMAIN cs |-> [j \in 1..Part(cs[k]) |-> cs[k].from + j - 1]]

\* Put together they are the letters of the token.
LEMMA ChunksCover ==
    ASSUME NEW t \in Tokens, NEW cs, Chunks(cs, t, 1)
    PROVE  FlattenSeq(Shown(cs)) = [j \in 1..t.len |-> j]
<1> DEFINE n == Len(cs)
<1>1. cs \in Seq(Piece) /\ n \in Nat /\ n >= 1 /\ DOMAIN cs = 1..n /\ t.len \in Nat
  BY TimelineAssumption DEF Chunks
<1>2. \A k \in 1..n : /\ cs[k] \in Piece
                      /\ 1 <= cs[k].from /\ cs[k].from <= cs[k].to /\ cs[k].to <= t.len
                      /\ k < n => cs[k + 1].from = cs[k].to + 1
  BY <1>1 DEF Chunks
<1>3. \A k \in 1..n : cs[k].from \in Nat /\ cs[k].to \in Nat /\ Part(cs[k]) \in Nat
                      /\ Part(cs[k]) = cs[k].to - cs[k].from + 1
  BY <1>2 DEF Piece, Part
<1>4. cs[1].from = 1 /\ cs[n].to = t.len
  BY DEF Chunks
<1> HIDE DEF n
<1> DEFINE shown == Shown(cs)
<1>5. \A k \in 1..n : shown[k] = [j \in 1..Part(cs[k]) |-> cs[k].from + j - 1]
  BY <1>1 DEF Shown
<1>6. \A k \in 1..n : shown[k] \in Seq(Nat)
  <2> SUFFICES ASSUME NEW k \in 1..n PROVE shown[k] \in Seq(Nat)
    OBVIOUS
  <2>1. \A j \in 1..Part(cs[k]) : cs[k].from + j - 1 \in Nat
    BY <1>2, <1>3
  <2>2. shown[k] = [j \in 1..Part(cs[k]) |-> cs[k].from + j - 1] /\ Part(cs[k]) \in Nat
    BY <1>3, <1>5
  <2> HIDE DEF shown
  <2> QED
    BY <2>1, <2>2
<1>7. shown \in Seq(Seq(Nat)) /\ Len(shown) = n
  <2>1. shown = [k \in 1..n |-> shown[k]]
    BY <1>1 DEF Shown
  <2> HIDE DEF shown
  <2> QED
    BY <1>1, <1>6, <2>1
<1> HIDE DEF shown
<1>8. PICK flat : Flattens(flat, shown, Nat) /\ flat[n] = FlattenSeq(shown)
  BY <1>7, Flattened
<1>9. flat[0] = <<>> /\ \A k \in 1..n : flat[k] = flat[k - 1] \o shown[k]
  BY <1>7, <1>8 DEF Flattens
<1> DEFINE upTo(m) == [j \in 1..m |-> j]
           P == {k \in 0..n : k >= 1 => flat[k] = upTo(cs[k].to)}
<1>10. 0 \in P
  BY <1>1
<1>11. ASSUME NEW k \in 0..(n - 1), k \in P
       PROVE  k + 1 \in P
  <2>1. k + 1 \in 1..n /\ k + 1 \in 0..n /\ (k + 1) - 1 = k
    BY <1>1
  <2>2. flat[k + 1] = flat[k] \o shown[k + 1]
    BY <1>9, <2>1
  <2> DEFINE c == cs[k + 1]
  <2>3. c.from \in Nat /\ c.to \in Nat /\ c.from <= c.to /\ c.from >= 1 /\ Part(c) = c.to - c.from + 1
    BY <1>2, <1>3, <2>1
  <2>4. shown[k + 1] = [j \in 1..Part(c) |-> c.from + j - 1]
    BY <1>5, <2>1
  <2>5. flat[k] = upTo(c.from - 1)
    <3>1. CASE k = 0
      <4>1. c.from - 1 = 0
        BY <1>4, <3>1
      <4>2. upTo(0) = <<>>
        OBVIOUS
      <4> QED
        BY <1>9, <3>1, <4>1, <4>2
    <3>2. CASE k # 0
      <4>1. k \in 1..n /\ k < n /\ k >= 1
        BY <1>1, <3>2
      <4>2. c.from - 1 = cs[k].to
        BY <1>2, <1>3, <4>1
      <4>3. flat[k] = upTo(cs[k].to)
        BY <1>11, <4>1
      <4> QED
        BY <4>2, <4>3
    <3> QED
      BY <3>1, <3>2
  <2> HIDE DEF c
  <2>6. upTo(c.from - 1) \o [j \in 1..Part(c) |-> c.from + j - 1] = upTo(c.to)
    BY <2>3, LettersJoin
  <2> HIDE DEF upTo
  <2>7. flat[k + 1] = upTo(c.to)
    BY <2>2, <2>4, <2>5, <2>6
  <2> QED
    BY <2>1, <2>7 DEF c
<1>12. \A k \in 0..n : k \in P
  <2> HIDE DEF P
  <2> QED
    BY <1>1, <1>10, <1>11, CountUp
<1>13. flat[n] = upTo(t.len)
  BY <1>1, <1>4, <1>12
<1> QED
  BY <1>8, <1>13 DEF shown

\* What SplitsWell asks of one chunk of several or of one.
SplitWell(cs, k) ==
    /\ Len(cs) > 1 => 2 * Part(cs[k]) >= ChunkLen
    /\ Part(cs[k]) <= IF k < Len(cs) THEN ChunkLen ELSE SplitAbove
    /\ OrpIndex(cs[k]) \in 0..(Width(cs[k]) - 1)
    /\ Letters(cs[k]) # {} =>
          \E i, j \in Letters(cs[k]) :
              cs[k].from + OrpIndex(cs[k]) - cs[k].lead \in i..j

\* Every token splits well.
LEMMA TokenSplits ==
    ASSUME NEW t \in Tokens, NEW cs, cs = DisplayTokens(t)
    PROVE  /\ FlattenSeq(Shown(cs)) = [j \in 1..t.len |-> j]
           /\ cs[1].lead = t.lead /\ cs[Len(cs)].trail = t.trail
           /\ \A k \in DOMAIN cs : SplitWell(cs, k)
<1> DEFINE n == Len(cs)
<1>1. Chunks(cs, t, 1)
  BY ChunksAre
<1>2. cs \in Seq(Piece) /\ n \in Nat /\ n >= 1 /\ DOMAIN cs = 1..n
  BY <1>1 DEF Chunks
<1>3. \A k \in 1..n : /\ cs[k] \in Piece
                      /\ cs[k] = Chunk(t, cs[k].from, cs[k].to)
                      /\ 1 <= cs[k].from /\ cs[k].from <= cs[k].to
                      /\ 2 * (t.len - 1 + 1) >= ChunkLen => 2 * (cs[k].to - cs[k].from + 1) >= ChunkLen
                      /\ cs[k].to - cs[k].from + 1 <= SplitAbove
                      /\ k < n => cs[k].to - cs[k].from + 1 <= ChunkLen
  BY <1>1, <1>2 DEF Chunks
<1>4. cs[1].from = 1 /\ cs[n].to = t.len /\ (n > 1 => t.len - 1 + 1 > SplitAbove)
  BY <1>1 DEF Chunks
<1> HIDE DEF n
<1>5. cs[1].lead = t.lead /\ cs[n].trail = t.trail
  <2>1. 1 \in 1..n /\ n \in 1..n
    BY <1>2
  <2>2. cs[1] = Chunk(t, 1, cs[1].to) /\ cs[n] = Chunk(t, cs[n].from, t.len)
    BY <1>3, <1>4, <2>1
  <2>3. Chunk(t, 1, cs[1].to).lead = t.lead /\ Chunk(t, cs[n].from, t.len).trail = t.trail
    BY DEF Chunk
  <2> QED
    BY <2>2, <2>3
<1>6. n > 1 => 2 * (t.len - 1 + 1) >= ChunkLen
  BY <1>4, TimelineAssumption
<1>7. ASSUME NEW k \in 1..n
      PROVE  SplitWell(cs, k)
  <2> DEFINE c == cs[k]
  <2>1. c \in Piece /\ c.from >= 1 /\ c.from <= c.to
    <3>1. c \in Piece /\ 1 <= c.from /\ c.from <= c.to
      BY <1>3
    <3> QED
      BY <3>1 DEF Piece
  <2>2. Part(c) = c.to - c.from + 1
    BY DEF Part
  <2>3. n > 1 => 2 * Part(c) >= ChunkLen
    BY <1>3, <1>6, <2>2
  <2>4. Part(c) <= IF k < n THEN ChunkLen ELSE SplitAbove
    BY <1>3, <2>2
  <2>5. /\ OrpIndex(c) \in 0..(Width(c) - 1)
        /\ Letters(c) # {} => \E i, j \in Letters(c) : c.from + OrpIndex(c) - c.lead \in i..j
    <3> HIDE DEF c
    <3> QED
      BY <2>1, PivotIs
  <2> QED
    BY <2>3, <2>4, <2>5 DEF SplitWell, n
<1>8. FlattenSeq(Shown(cs)) = [j \in 1..t.len |-> j]
  BY <1>1, ChunksCover
<1> QED
  BY <1>2, <1>5, <1>7, <1>8 DEF n

\* Splitting loses nothing and leaves no stubs, in every text, and every chunk has
\* a pivot that is not the punctuation around it.
THEOREM SplitsStayWell == TimelineSpec => []SplitsWell
<1>1. TextOK => SplitsWell
  <2> SUFFICES ASSUME TextOK, NEW t \in Range(FlattenSeq(text)), NEW cs, cs = DisplayTokens(t)
               PROVE  /\ FlattenSeq(Shown(cs)) = [j \in 1..t.len |-> j]
                      /\ cs[1].lead = t.lead /\ cs[Len(cs)].trail = t.trail
                      /\ \A k \in DOMAIN cs : SplitWell(cs, k)
    BY DEF SplitsWell, Shown, SplitWell
  <2>1. FlattenSeq(text) \in Seq(Tokens)
    BY FlatType DEF TextOK
  <2>2. t \in Tokens
    BY <2>1 DEF Range
  <2> QED
    BY <2>2, TokenSplits
<1> QED
  BY <1>1, TextStays, PTL

-----------------------------------------------------------------------------
(* Weights and pace.                                                       *)

\* A display word before its weight is normalized.
RawWeights == 450..3400
RawWord == [chunk : Piece, orp : Nat, weight : RawWeights]

\* The language is one the tables know.
LEMMA LanguageIs == DetectLang \in Langs
BY DEF DetectLang, Langs

\* Every raw weight is between the clamps.
LEMMA RawWeightIs ==
    ASSUME NEW c \in Piece, c.from >= 1, c.from <= c.to,
           NEW lang \in Langs, NEW ends, NEW len, NEW rare
    PROVE  RawWeight(c, lang, ends, len, rare) \in RawWeights
<1> DEFINE n == CoreLen(c)
           length == 1000 + 55 * (IF n > 6 THEN n - 6 ELSE 0)
           spill == IF rare THEN 106 ELSE 100
           paced == (length * FreqFactor(c.of, lang)) \div 100
           kinded == (paced * Kind(c)) \div 100
           wrapped == (kinded * WrapUp(c, ends, len)) \div 10
           weight == (wrapped * spill) \div 100
<1>1. n \in Int
  BY PivotIs
<1>2. length \in Int
  BY <1>1
<1>3. FreqFactor(c.of, lang) \in Int
  BY TimelineAssumption DEF FreqFactor, Piece, Langs
<1>4. Kind(c) \in Int
  <2>1. Counted(c) \in {100, 118, 150} /\ Hyphened(c) \in {100, 108}
    BY DEF Counted, Hyphened
  <2> HIDE DEF n
  <2>2. Counted(c) * Hyphened(c) \in Int
    BY <2>1
  <2> QED
    BY <2>2 DEF Kind
<1>5. WrapUp(c, ends, len) \in Int
  BY DEF WrapUp
<1>6. spill \in Int
  OBVIOUS
<1> HIDE DEF length, spill, n
<1>7. paced \in Int
  <2>1. length * FreqFactor(c.of, lang) \in Int
    BY <1>2, <1>3
  <2> QED
    BY <2>1
<1> HIDE DEF paced
<1>8. kinded \in Int
  <2>1. paced * Kind(c) \in Int
    BY <1>4, <1>7
  <2> QED
    BY <2>1
<1> HIDE DEF kinded
<1>9. wrapped \in Int
  <2>1. kinded * WrapUp(c, ends, len) \in Int
    BY <1>5, <1>8
  <2> QED
    BY <2>1
<1> HIDE DEF wrapped
<1>10. weight \in Int
  <2>1. wrapped * spill \in Int
    BY <1>6, <1>9
  <2> QED
    BY <2>1
<1>11. RawWeight(c, lang, ends, len, rare) = Clamp(weight, 450, 3400)
  BY DEF RawWeight, weight, wrapped, kinded, paced, spill, length, n
<1> HIDE DEF weight
<1> QED
  BY <1>10, <1>11 DEF Clamp, RawWeights

\* Marked, paragraph by paragraph.
MarksOf(paras) ==
    [p \in DOMAIN paras |->
        [k \in DOMAIN paras[p] |->
            [tok |-> paras[p][k], ends |-> k = Len(paras[p]) /\ p # Len(paras)]]]

Mark == [tok : Tokens, ends : BOOLEAN]

\* Marking a paragraph keeps its tokens, in order.
LEMMA MarksAre ==
    ASSUME NEW paras \in Seq(Seq(Tokens))
    PROVE  /\ MarksOf(paras) \in Seq(Seq(Mark))
           /\ Len(MarksOf(paras)) = Len(paras)
           /\ \A p \in 1..Len(paras) :
                 /\ Len(MarksOf(paras)[p]) = Len(paras[p])
                 /\ \A k \in 1..Len(paras[p]) : MarksOf(paras)[p][k].tok = paras[p][k]
<1> DEFINE marks == MarksOf(paras)
           mark(p) == [k \in DOMAIN paras[p] |->
                          [tok |-> paras[p][k], ends |-> k = Len(paras[p]) /\ p # Len(paras)]]
<1>1. Len(paras) \in Nat /\ DOMAIN paras = 1..Len(paras)
  OBVIOUS
<1>2. ASSUME NEW p \in 1..Len(paras)
      PROVE  /\ mark(p) \in Seq(Mark) /\ Len(mark(p)) = Len(paras[p])
             /\ \A k \in 1..Len(paras[p]) : mark(p)[k].tok = paras[p][k]
  <2>1. paras[p] \in Seq(Tokens) /\ Len(paras[p]) \in Nat /\ DOMAIN paras[p] = 1..Len(paras[p])
    BY <1>1
  <2> DEFINE m(k) == [tok |-> paras[p][k], ends |-> k = Len(paras[p]) /\ p # Len(paras)]
  <2>2. ASSUME NEW k \in 1..Len(paras[p])
        PROVE  m(k) \in Mark /\ m(k).tok = paras[p][k]
    <3>1. paras[p][k] \in Tokens
      BY <2>1
    <3>2. (k = Len(paras[p]) /\ p # Len(paras)) \in BOOLEAN
      OBVIOUS
    <3> QED
      BY <3>1, <3>2 DEF Mark
  <2>3. mark(p) = [k \in 1..Len(paras[p]) |-> m(k)]
    BY <2>1
  <2> HIDE DEF m, mark
  <2> QED
    BY <2>1, <2>2, <2>3
<1>3. marks = [p \in 1..Len(paras) |-> mark(p)]
  BY <1>1 DEF MarksOf
<1> HIDE DEF mark, marks
<1>4. marks \in Seq(Seq(Mark)) /\ Len(marks) = Len(paras) /\ \A p \in 1..Len(paras) : marks[p] = mark(p)
  <2>1. \A p \in 1..Len(paras) : mark(p) \in Seq(Mark)
    BY <1>2
  <2>2. marks \in Seq(Seq(Mark))
    <3>1. \A p \in 1..Len(paras) : marks[p] \in Seq(Mark)
      BY <1>3, <2>1
    <3>2. marks = [p \in 1..Len(paras) |-> marks[p]]
      BY <1>3
    <3> QED
      BY <1>1, <3>1, <3>2, IsSequence
  <2>3. Len(marks) = Len(paras)
    BY <1>1, <1>3
  <2> QED
    BY <1>3, <2>2, <2>3
<1> QED
  BY <1>2, <1>4 DEF marks

\* tokenize reads the marks of the paragraphs after each other.
LEMMA MarkedIs ==
    ASSUME TextOK
    PROVE  Marked = FlattenSeq(MarksOf(SplitParagraphs)) /\ Marked \in Seq(Mark)
<1>1. Marked = FlattenSeq(MarksOf(SplitParagraphs))
  BY DEF Marked, MarksOf
<1>2. MarksOf(SplitParagraphs) \in Seq(Seq(Mark))
  BY ParagraphsOfText, MarksAre
<1> QED
  BY <1>1, <1>2, FlatType

\* What one token adds to the words.
Adds(more, lang, st, m) ==
    /\ more \in Seq(RawWord)
    /\ Step(lang, st, m)[1] = st[1] \o more
    /\ Len(more) = Len(DisplayTokens(m.tok))
    /\ \A k \in 1..Len(more) : more[k].chunk = DisplayTokens(m.tok)[k]

\* A step adds a word for each chunk of its token, and no other.
LEMMA StepIs ==
    ASSUME NEW lang \in Langs, NEW st, st[1] \in Seq(RawWord), NEW m \in Mark
    PROVE  \E more : Adds(more, lang, st, m)
<1> DEFINE cs == DisplayTokens(m.tok)
           word(k) == [chunk |-> cs[k], orp |-> OrpIndex(cs[k]),
                       weight |-> RawWeight(cs[k], lang, m.ends, st[2] + 1, st[3] /\ k = 1)]
           more == [k \in DOMAIN cs |-> word(k)]
<1>1. m.tok \in Tokens
  BY DEF Mark
<1>2. Chunks(cs, m.tok, 1)
  BY <1>1, ChunksAre
<1>3. cs \in Seq(Piece) /\ Len(cs) \in Nat /\ DOMAIN cs = 1..Len(cs)
  BY <1>2 DEF Chunks
<1>4. \A k \in 1..Len(cs) : cs[k] \in Piece /\ cs[k].from >= 1 /\ cs[k].from <= cs[k].to
  <2>1. \A k \in 1..Len(cs) : cs[k] \in Piece /\ 1 <= cs[k].from /\ cs[k].from <= cs[k].to
    BY <1>2, <1>3 DEF Chunks
  <2> QED
    BY <2>1 DEF Piece
<1>5. Step(lang, st, m)[1] = st[1] \o more
  BY DEF Step
<1> HIDE DEF cs
<1>6. ASSUME NEW k \in 1..Len(cs)
      PROVE  word(k) \in RawWord /\ word(k).chunk = cs[k]
  <2>1. RawWeight(cs[k], lang, m.ends, st[2] + 1, st[3] /\ k = 1) \in RawWeights
    <3>1. cs[k] \in Piece /\ cs[k].from >= 1 /\ cs[k].from <= cs[k].to
      BY <1>4
    <3> QED
      BY <1>1, <3>1, RawWeightIs, Zenon
  <2>2. OrpIndex(cs[k]) \in Nat /\ cs[k] \in Piece
    BY <1>4, PivotIs
  <2> QED
    BY <2>1, <2>2 DEF RawWord
<1> HIDE DEF word
<1>7. more \in Seq(RawWord) /\ Len(more) = Len(cs) /\ \A k \in 1..Len(cs) : more[k] = word(k)
  BY <1>3, <1>6
<1>8. \A k \in 1..Len(more) : more[k].chunk = cs[k]
  BY <1>6, <1>7
<1> HIDE DEF more
<1>9. Adds(more, lang, st, m)
  BY <1>5, <1>7, <1>8 DEF Adds, cs
<1> QED
  BY <1>9

\* What words show.
ChunksOf(ws) == [k \in DOMAIN ws |-> ws[k].chunk]

\* Words after words show chunks after chunks.
LEMMA ChunksOfBoth ==
    ASSUME NEW a \in Seq(RawWord), NEW b \in Seq(RawWord)
    PROVE  /\ ChunksOf(a) \in Seq(Piece) /\ ChunksOf(b) \in Seq(Piece)
           /\ ChunksOf(a \o b) = ChunksOf(a) \o ChunksOf(b)
<1>1. ASSUME NEW s \in Seq(RawWord)
      PROVE  /\ ChunksOf(s) \in Seq(Piece) /\ Len(ChunksOf(s)) = Len(s)
             /\ \A k \in 1..Len(s) : ChunksOf(s)[k] = s[k].chunk
  <2>1. Len(s) \in Nat /\ DOMAIN s = 1..Len(s)
    OBVIOUS
  <2>2. \A k \in 1..Len(s) : s[k].chunk \in Piece
    <3>1. \A k \in 1..Len(s) : s[k] \in RawWord
      OBVIOUS
    <3>2. \A w \in RawWord : w.chunk \in Piece
      BY DEF RawWord
    <3> QED
      BY <3>1, <3>2
  <2>3. ChunksOf(s) = [k \in 1..Len(s) |-> s[k].chunk]
    BY <2>1 DEF ChunksOf
  <2>4. \A k \in 1..Len(s) : ChunksOf(s)[k] = s[k].chunk
    BY <2>3
  <2>5. ChunksOf(s) = [k \in 1..Len(s) |-> ChunksOf(s)[k]]
    BY <2>3
  <2>6. \A k \in 1..Len(s) : ChunksOf(s)[k] \in Piece
    BY <2>2, <2>4
  <2>7. ChunksOf(s) \in Seq(Piece) /\ Len(ChunksOf(s)) = Len(s)
    BY <2>1, <2>5, <2>6, IsSequence
  <2> QED
    BY <2>4, <2>7
<1>2. /\ a \o b \in Seq(RawWord) /\ Len(a \o b) = Len(a) + Len(b)
      /\ \A k \in 1..(Len(a) + Len(b)) : (a \o b)[k] = IF k <= Len(a) THEN a[k] ELSE b[k - Len(a)]
  BY ConcatProperties
<1> DEFINE x == ChunksOf(a)
           y == ChunksOf(b)
           z == ChunksOf(a \o b)
<1>3. x \in Seq(Piece) /\ Len(x) = Len(a) /\ \A k \in 1..Len(a) : x[k] = a[k].chunk
  BY <1>1
<1>4. y \in Seq(Piece) /\ Len(y) = Len(b) /\ \A k \in 1..Len(b) : y[k] = b[k].chunk
  BY <1>1
<1>5. z \in Seq(Piece) /\ Len(z) = Len(a \o b) /\ \A k \in 1..Len(a \o b) : z[k] = (a \o b)[k].chunk
  BY <1>1, <1>2
<1> HIDE DEF x, y, z
<1>6. /\ x \o y \in Seq(Piece) /\ Len(x \o y) = Len(x) + Len(y)
      /\ \A k \in 1..(Len(x) + Len(y)) : (x \o y)[k] = IF k <= Len(x) THEN x[k] ELSE y[k - Len(x)]
  <2>1. x \in Seq(Piece) /\ y \in Seq(Piece)
    BY <1>3, <1>4
  <2> QED
    BY <2>1, ConcatProperties
<1>7. Len(a) \in Nat /\ Len(b) \in Nat
  OBVIOUS
<1>8. ASSUME NEW k \in 1..(Len(a) + Len(b))
      PROVE  z[k] = (x \o y)[k]
  <2>1. CASE k <= Len(a)
    <3>1. k \in 1..Len(a)
      BY <1>7, <2>1
    <3> QED
      BY <1>2, <1>3, <1>4, <1>5, <1>6, <2>1, <3>1
  <2>2. CASE ~(k <= Len(a))
    <3>1. k - Len(a) \in 1..Len(b)
      BY <1>7, <2>2
    <3> QED
      BY <1>2, <1>3, <1>4, <1>5, <1>6, <2>2, <3>1
  <2> QED
    BY <2>1, <2>2
<1>9. z = x \o y
  BY <1>2, <1>3, <1>4, <1>5, <1>6, <1>8, SeqEqual
<1> QED
  BY <1>3, <1>4, <1>9 DEF x, y, z

\* The loop of tokenize over the first n tokens of read.
IsRead(after, lang, read, n) ==
    after = [k \in 0..n |-> IF k = 0 THEN <<<<>>, 0, FALSE>> ELSE Step(lang, after[k - 1], read[k])]

\* The recursion of RawWords has a solution.
LEMMA ReadsExist ==
    ASSUME NEW lang, NEW read, NEW n \in Nat
    PROVE  \E after : IsRead(after, lang, read, n)
<1> DEFINE P == {m \in 0..n : \E after : IsRead(after, lang, read, m)}
<1>1. 0 \in P
  <2> DEFINE f == [k \in 0..0 |-> <<<<>>, 0, FALSE>>]
  <2>1. IsRead(f, lang, read, 0)
    BY DEF IsRead
  <2> QED
    BY <2>1
<1>2. ASSUME NEW i \in 0..(n - 1), i \in P
      PROVE  i + 1 \in P
  <2>1. PICK g : IsRead(g, lang, read, i)
    BY <1>2
  <2> DEFINE m == i + 1
             f == [k \in 0..m |-> IF k = m THEN Step(lang, g[i], read[m]) ELSE g[k]]
  <2>2. ASSUME NEW k \in 0..m
        PROVE  f[k] = IF k = 0 THEN <<<<>>, 0, FALSE>> ELSE Step(lang, f[k - 1], read[k])
    <3>1. \A j \in 0..i : g[j] = IF j = 0 THEN <<<<>>, 0, FALSE>> ELSE Step(lang, g[j - 1], read[j])
      BY <2>1 DEF IsRead
    <3>2. k # 0 => k - 1 \in 0..m /\ k - 1 # m
      OBVIOUS
    <3>3. k # 0 => f[k - 1] = g[k - 1]
      BY <3>2
    <3>4. CASE k = m
      <4>1. k - 1 = i /\ k # 0
        BY <3>4
      <4> QED
        BY <3>3, <3>4, <4>1
    <3>5. CASE k # m
      <4>1. k \in 0..i
        BY <3>5
      <4> QED
        BY <3>1, <3>3, <3>5, <4>1
    <3> QED
      BY <3>4, <3>5
  <2>3. IsRead(f, lang, read, m)
    <3> HIDE DEF f
    <3>1. f = [k \in 0..m |-> f[k]]
      BY DEF f
    <3> QED
      BY <2>2, <3>1 DEF IsRead
  <2>4. m \in 0..n
    OBVIOUS
  <2> QED
    BY <2>3, <2>4
<1>3. n \in P
  <2> HIDE DEF P
  <2> QED
    BY <1>1, <1>2, CountUp
<1> QED
  BY <1>3

\* The chunks of the tokens that are read.
PiecesOf(read) == [k \in DOMAIN read |-> DisplayTokens(read[k].tok)]

\* They are a sequence of chunks for each token.
LEMMA PiecesAre ==
    ASSUME NEW read \in Seq(Mark)
    PROVE  /\ PiecesOf(read) \in Seq(Seq(Piece)) /\ Len(PiecesOf(read)) = Len(read)
           /\ \A k \in 1..Len(read) : PiecesOf(read)[k] = DisplayTokens(read[k].tok)
<1>1. Len(read) \in Nat /\ DOMAIN read = 1..Len(read)
  OBVIOUS
<1>2. PiecesOf(read) = [k \in 1..Len(read) |-> DisplayTokens(read[k].tok)]
  BY <1>1 DEF PiecesOf
<1>3. \A k \in 1..Len(read) : PiecesOf(read)[k] = DisplayTokens(read[k].tok)
  BY <1>2
<1>4. \A k \in 1..Len(read) : PiecesOf(read)[k] \in Seq(Piece)
  <2> SUFFICES ASSUME NEW k \in 1..Len(read) PROVE PiecesOf(read)[k] \in Seq(Piece)
    OBVIOUS
  <2>1. PICK t \in Tokens : t = read[k].tok
    <3>1. read[k] \in Mark
      BY <1>1
    <3>2. \A m \in Mark : m.tok \in Tokens
      BY DEF Mark
    <3> QED
      BY <3>1, <3>2
  <2>2. DisplayTokens(t) \in Seq(Piece)
    BY ChunksAre DEF Chunks
  <2> QED
    BY <1>3, <2>1, <2>2
<1>5. PiecesOf(read) = [k \in 1..Len(read) |-> PiecesOf(read)[k]]
  BY <1>2
<1> QED
  BY <1>1, <1>3, <1>4, <1>5, IsSequence

\* The raw words are in the clamps, and show the chunks of the tokens in order.
LEMMA RawIs ==
    ASSUME TextOK
    PROVE  /\ RawWords \in Seq(RawWord)
           /\ ChunksOf(RawWords) = FlattenSeq(PiecesOf(Marked))
<1> DEFINE n == Len(Marked)
           lang == DetectLang
           read == Marked
           pieces == PiecesOf(read)
           after == CHOOSE a : IsRead(a, lang, read, n)
<1>1. read \in Seq(Mark) /\ n \in Nat /\ lang \in Langs
  BY MarkedIs, LanguageIs
<1>2. IsRead(after, lang, read, n)
  <2> HIDE DEF n, lang, read
  <2> QED
    BY <1>1, ReadsExist
<1>3. RawWords = after[n][1]
  BY DEF RawWords, IsRead
<1> HIDE DEF after
<1>4. pieces \in Seq(Seq(Piece)) /\ Len(pieces) = n /\ \A k \in 1..n : pieces[k] = DisplayTokens(read[k].tok)
  <2> HIDE DEF read
  <2> QED
    BY <1>1, PiecesAre DEF read
<1> HIDE DEF pieces, read, lang, n
<1>5. n = Len(read)
  BY DEF n, read
<1>6. PICK flat : Flattens(flat, pieces, Piece) /\ flat[n] = FlattenSeq(pieces)
  BY <1>4, Flattened
<1>7. flat[0] = <<>> /\ \A k \in 1..n : flat[k] = flat[k - 1] \o pieces[k]
  BY <1>4, <1>6 DEF Flattens
<1>8. \A k \in 0..n : after[k] = IF k = 0 THEN <<<<>>, 0, FALSE>> ELSE Step(lang, after[k - 1], read[k])
  BY <1>2 DEF IsRead
<1> DEFINE P == {k \in 0..n : after[k][1] \in Seq(RawWord) /\ ChunksOf(after[k][1]) = flat[k]}
<1>9. 0 \in P
  <2>1. 0 \in 0..n
    BY <1>1
  <2>2. after[0][1] = <<>>
    BY <1>8, <2>1
  <2>3. <<>> \in Seq(RawWord) /\ ChunksOf(<<>>) = <<>>
    BY DEF ChunksOf
  <2> QED
    BY <1>7, <2>1, <2>2, <2>3
<1>10. ASSUME NEW k \in 0..(n - 1), k \in P
       PROVE  k + 1 \in P
  <2>1. k + 1 \in 1..n /\ k + 1 \in 0..n /\ (k + 1) - 1 = k /\ k + 1 # 0
    BY <1>1
  <2>2. PICK st : st = after[k]
    OBVIOUS
  <2>3. PICK m \in Mark : m = read[k + 1]
    BY <1>1, <1>5, <2>1
  <2>4. after[k + 1] = Step(lang, st, m)
    BY <1>8, <2>1, <2>2, <2>3
  <2>5. st[1] \in Seq(RawWord) /\ ChunksOf(st[1]) = flat[k]
    BY <1>10, <2>2
  <2>6. PICK more : Adds(more, lang, st, m)
    BY <1>1, <2>5, StepIs
  <2>7. more \in Seq(RawWord) /\ Step(lang, st, m)[1] = st[1] \o more
    BY <2>6 DEF Adds
  <2>8. ChunksOf(more) = DisplayTokens(m.tok)
    <3>1. PICK d \in Seq(Piece) : d = DisplayTokens(m.tok) /\ d = pieces[k + 1]
      BY <1>4, <2>1, <2>3
    <3>2. Len(more) = Len(d) /\ \A i \in 1..Len(more) : more[i].chunk = d[i]
      BY <2>6, <3>1 DEF Adds
    <3>3. ChunksOf(more) = [i \in 1..Len(more) |-> more[i].chunk]
      BY <2>7 DEF ChunksOf
    <3>4. d = [i \in 1..Len(d) |-> d[i]]
      OBVIOUS
    <3> QED
      BY <3>1, <3>2, <3>3, <3>4
  <2>9. after[k + 1][1] = st[1] \o more
    BY <2>4, <2>7
  <2>10. after[k + 1][1] \in Seq(RawWord)
    BY <2>5, <2>7, <2>9, ConcatProperties
  <2>11. ChunksOf(after[k + 1][1]) = flat[k] \o DisplayTokens(m.tok)
    BY <2>5, <2>7, <2>8, <2>9, ChunksOfBoth
  <2>12. flat[k + 1] = flat[k] \o pieces[k + 1]
    BY <1>7, <2>1
  <2>13. pieces[k + 1] = DisplayTokens(m.tok)
    BY <1>4, <2>1, <2>3
  <2> QED
    BY <2>1, <2>10, <2>11, <2>12, <2>13
<1>11. \A k \in 0..n : k \in P
  <2> HIDE DEF P
  <2> QED
    BY <1>1, <1>9, <1>10, CountUp
<1>12. after[n][1] \in Seq(RawWord) /\ ChunksOf(after[n][1]) = flat[n]
  BY <1>1, <1>11
<1> QED
  BY <1>3, <1>6, <1>12 DEF pieces, read

\* The sum of a column, up to each of its places.
LEMMA SumsUpTo ==
    ASSUME NEW n \in Nat, NEW w, \A k \in 1..n : w[k] \in Nat
    PROVE  /\ SumOver(w, 1..0) = 0
           /\ \A k \in 0..n : SumOver(w, 1..k) \in Nat
           /\ \A k \in 0..(n - 1) : SumOver(w, 1..(k + 1)) = w[k + 1] + SumOver(w, 1..k)
<1>1. 1..0 = {}
  OBVIOUS
<1>2. SumOver(w, 1..0) = 0
  BY <1>1, SumNone
<1>3. ASSUME NEW k \in 0..n
      PROVE  SumOver(w, 1..k) \in Nat
  <2>1. IsFiniteSet(1..k) /\ \A i \in 1..k : w[i] \in Nat
    BY FS_Interval
  <2> QED
    BY <2>1, SumAny
<1>4. ASSUME NEW k \in 0..(n - 1)
      PROVE  SumOver(w, 1..(k + 1)) = w[k + 1] + SumOver(w, 1..k)
  <2>1. IsFiniteSet(1..k) /\ k + 1 \notin 1..k
    BY FS_Interval
  <2>2. (1..k) \union {k + 1} = 1..(k + 1)
    OBVIOUS
  <2>3. \A i \in (1..k) \union {k + 1} : w[i] \in Nat
    OBVIOUS
  <2> QED
    BY <2>1, <2>2, <2>3, SumAdd
<1> QED
  BY <1>2, <1>3, <1>4

\* Weights of 450 or more add up to that.
LEMMA SumAtLeast ==
    ASSUME NEW n \in Nat, NEW w, \A k \in 1..n : w[k] \in Nat /\ w[k] >= 450
    PROVE  SumOver(w, 1..n) \in Nat /\ SumOver(w, 1..n) >= 450 * n
<1> DEFINE s(k) == SumOver(w, 1..k)
<1>1. /\ s(0) = 0
      /\ \A k \in 0..n : s(k) \in Nat
      /\ \A k \in 0..(n - 1) : s(k + 1) = w[k + 1] + s(k)
  BY SumsUpTo
<1> HIDE DEF s
<1>2. s(n) >= 450 * n
  <2> DEFINE P == {k \in 0..n : s(k) >= 450 * k}
  <2>1. 0 \in P
    BY <1>1
  <2>2. ASSUME NEW k \in 0..(n - 1), k \in P
        PROVE  k + 1 \in P
    <3>1. k + 1 \in 1..n /\ k + 1 \in 0..n /\ k \in 0..n
      OBVIOUS
    <3>2. s(k + 1) = w[k + 1] + s(k) /\ s(k) \in Nat /\ s(k) >= 450 * k
      BY <1>1, <2>2, <3>1
    <3>3. w[k + 1] \in Nat /\ w[k + 1] >= 450
      BY <3>1
    <3>4. s(k + 1) >= 450 * (k + 1)
      BY <3>2, <3>3
    <3> QED
      BY <3>1, <3>4
  <2>3. \A k \in 0..n : k \in P
    <3> HIDE DEF P
    <3> QED
      BY <2>1, <2>2, CountUp
  <2> QED
    BY <2>3
<1>3. s(n) \in Nat
  BY <1>1
<1> QED
  BY <1>2, <1>3 DEF s

\* Products distribute over sums, and keep the order.
LEMMA Distribute ==
    ASSUME NEW a \in Int, NEW b \in Int, NEW c \in Int
    PROVE  a * (b + c) = a * b + a * c /\ a * b \in Int /\ a * c \in Int
OBVIOUS

\* A larger factor gives a larger product.
LEMMA Growth ==
    ASSUME NEW a \in Nat, NEW b \in Int, NEW c \in Int, b <= c
    PROVE  a * b <= a * c
OBVIOUS

\* And a product that is no larger has a factor that is no larger.
LEMMA Factor ==
    ASSUME NEW a \in Nat, a > 0, NEW b \in Int, NEW c \in Int, a * b <= a * c
    PROVE  b <= c
OBVIOUS

-----------------------------------------------------------------------------
(* The sum of an f32 that is rounded after every word.                     *)

\* The recursion of Spacing, n times.
IsGap(gap, x, n) ==
    gap = [e \in 0..n |->
              IF e = 0 THEN 1
              ELSE IF x < Significand * gap[e - 1] THEN gap[e - 1] ELSE 2 * gap[e - 1]]

\* It has a solution.
LEMMA GapsExist ==
    ASSUME NEW x, NEW n \in Nat
    PROVE  \E gap : IsGap(gap, x, n)
<1> DEFINE P == {m \in 0..n : \E gap : IsGap(gap, x, m)}
           next(u) == IF x < Significand * u THEN u ELSE 2 * u
<1>1. 0 \in P
  <2> DEFINE f == [e \in 0..0 |-> 1]
  <2>1. IsGap(f, x, 0)
    BY DEF IsGap
  <2> QED
    BY <2>1
<1>2. ASSUME NEW i \in 0..(n - 1), i \in P
      PROVE  i + 1 \in P
  <2>1. PICK g : IsGap(g, x, i)
    BY <1>2
  <2> DEFINE m == i + 1
             f == [e \in 0..m |-> IF e = m THEN next(g[i]) ELSE g[e]]
  <2>2. ASSUME NEW e \in 0..m
        PROVE  f[e] = IF e = 0 THEN 1 ELSE next(f[e - 1])
    <3>1. \A j \in 0..i : g[j] = IF j = 0 THEN 1 ELSE next(g[j - 1])
      BY <2>1 DEF IsGap
    <3> HIDE DEF next
    <3>2. e # 0 => e - 1 \in 0..m /\ e - 1 # m
      OBVIOUS
    <3>3. e # 0 => f[e - 1] = g[e - 1]
      BY <3>2
    <3>4. CASE e = m
      <4>1. e - 1 = i /\ e # 0
        BY <3>4
      <4> QED
        BY <3>3, <3>4, <4>1
    <3>5. CASE e # m
      <4>1. e \in 0..i
        BY <3>5
      <4> QED
        BY <3>1, <3>3, <3>5, <4>1
    <3> QED
      BY <3>4, <3>5
  <2>3. IsGap(f, x, m)
    <3>1. f = [e \in 0..m |-> f[e]]
      OBVIOUS
    <3> HIDE DEF f
    <3> QED
      BY <2>2, <3>1 DEF IsGap
  <2>4. m \in 0..n
    OBVIOUS
  <2> QED
    BY <2>3, <2>4
<1>3. n \in P
  <2> HIDE DEF P
  <2> QED
    BY <1>1, <1>2, CountUp
<1> QED
  BY <1>3

\* A distance of floats: exact, or no more than two parts of x in Significand.
Fine(u, x) == u \in Nat /\ u >= 1 /\ (u = 1 \/ Significand * u <= 2 * x)

\* Spacing is one.
LEMMA SpacingIs ==
    ASSUME NEW x \in Nat
    PROVE  Fine(Spacing(x), x)
<1> DEFINE n == Exponents
           gap == CHOOSE g : IsGap(g, x, n)
           next(u) == IF x < Significand * u THEN u ELSE 2 * u
<1>1. n \in Nat /\ Significand \in Nat
  BY TimelineAssumption
<1>2. IsGap(gap, x, n)
  <2> HIDE DEF n
  <2> QED
    BY <1>1, GapsExist
<1>3. Spacing(x) = gap[n]
  BY DEF Spacing, IsGap
<1> HIDE DEF gap, n
<1>4. \A e \in 0..n : gap[e] = IF e = 0 THEN 1 ELSE next(gap[e - 1])
  BY <1>2 DEF IsGap
<1>5. ASSUME NEW u, Fine(u, x)
      PROVE  Fine(next(u), x)
  <2>1. u \in Nat /\ u >= 1
    BY <1>5 DEF Fine
  <2>2. PICK p \in Int : p = Significand * u /\ Significand * (2 * u) = 2 * p
    BY <1>1, <2>1
  <2>3. CASE x < p
    BY <1>5, <2>2, <2>3
  <2>4. CASE ~(x < p)
    <3>1. next(u) = 2 * u /\ Significand * next(u) <= 2 * x
      BY <2>2, <2>4
    <3>2. 2 * u \in Nat /\ 2 * u >= 1
      BY <2>1
    <3> QED
      BY <3>1, <3>2 DEF Fine
  <2> QED
    BY <2>3, <2>4
<1> HIDE DEF next
<1> DEFINE P == {e \in 0..n : Fine(gap[e], x)}
<1>6. 0 \in P
  <2>1. 0 \in 0..n /\ gap[0] = 1
    BY <1>1, <1>4
  <2> QED
    BY <2>1 DEF Fine
<1>7. ASSUME NEW e \in 0..(n - 1), e \in P
      PROVE  e + 1 \in P
  <2>1. e + 1 \in 0..n /\ e + 1 # 0 /\ (e + 1) - 1 = e
    BY <1>1
  <2>2. gap[e + 1] = next(gap[e])
    BY <1>4, <2>1
  <2> QED
    BY <1>5, <1>7, <2>1, <2>2
<1>8. n \in P
  <2> HIDE DEF P
  <2> QED
    BY <1>1, <1>6, <1>7, CountUp
<1> QED
  BY <1>3, <1>8

\* No more than a part of x in Significand apart.
CloseTo(y, x) == Significand * (y - x) <= x /\ Significand * (x - y) <= x

\* The float that stands for x is.
LEMMA NearestIs ==
    ASSUME NEW x \in Nat
    PROVE  Nearest(x) \in Nat /\ CloseTo(Nearest(x), x)
<1>1. PICK gap : gap = Spacing(x) /\ Fine(gap, x)
  BY SpacingIs
<1>2. Significand \in Nat /\ gap \in Nat /\ gap >= 1
  BY <1>1, TimelineAssumption DEF Fine
<1>3. PICK q \in Int : q = x \div gap /\ gap * q <= x /\ x < gap * q + gap
  BY <1>2, Quotient
<1>4. PICK p \in Int : p = gap * q /\ q * gap = p /\ (q + 1) * gap = p + gap
  BY <1>2
<1>5. p <= x /\ x < p + gap
  BY <1>3, <1>4
<1> DEFINE up == 2 * (x - p) > gap \/ (2 * (x - p) = gap /\ q % 2 = 1)
           y == IF up THEN p + gap ELSE p
<1>6. Nearest(x) = y
  BY <1>1, <1>3, <1>4 DEF Nearest
<1>7. y \in Int /\ 2 * (y - x) <= gap /\ 2 * (x - y) <= gap
  BY <1>2, <1>5
<1>8. p >= 0
  <2>1. q >= 0
    <3> SUFFICES ASSUME q <= -1 PROVE FALSE
      BY <1>3
    <3>1. gap * q <= gap * (-1)
      BY <1>2, <1>3, Growth
    <3>2. p <= -gap
      BY <1>2, <1>4, <3>1
    <3> QED
      BY <1>2, <1>5, <3>2
  <2> QED
    BY <1>2, <1>4, <2>1
<1>9. y \in Nat
  BY <1>2, <1>7, <1>8
<1>10. CASE gap = 1
  <2>1. p = x
    BY <1>5, <1>10
  <2>2. y = x
    BY <1>10, <2>1
  <2>3. Significand * (y - x) = 0 /\ Significand * (x - y) = 0
    BY <1>2, <2>2
  <2> QED
    BY <1>6, <1>9, <2>3 DEF CloseTo
<1>11. CASE gap # 1
  <2> HIDE DEF y
  <2>1. PICK a \in Int : a = Significand * gap
    BY <1>2
  <2>2. a <= 2 * x
    BY <1>1, <1>11, <2>1 DEF Fine
  <2>3. ASSUME NEW d \in Int, 2 * d <= gap
        PROVE  Significand * d <= x
    <3>1. Significand * (2 * d) <= Significand * gap
      BY <1>2, <2>3, Growth
    <3>2. PICK b \in Int : b = Significand * d /\ Significand * (2 * d) = 2 * b
      BY <1>2
    <3> QED
      BY <2>1, <2>2, <3>1, <3>2
  <2>4. y - x \in Int /\ x - y \in Int
    BY <1>7
  <2>5. Significand * (y - x) <= x /\ Significand * (x - y) <= x
    BY <1>7, <2>3, <2>4
  <2> QED
    BY <1>6, <1>9, <2>5 DEF CloseTo
<1> QED
  BY <1>10, <1>11

\* The recursion of FloatSum over the first n words.
IsFloats(sum, ws, n) ==
    sum = [k \in 0..n |-> IF k = 0 THEN 0 ELSE Nearest(sum[k - 1] + ws[k].weight)]

\* It has a solution.
LEMMA FloatsExist ==
    ASSUME NEW ws, NEW n \in Nat
    PROVE  \E sum : IsFloats(sum, ws, n)
<1> DEFINE P == {m \in 0..n : \E sum : IsFloats(sum, ws, m)}
<1>1. 0 \in P
  <2> DEFINE f == [k \in 0..0 |-> 0]
  <2>1. IsFloats(f, ws, 0)
    BY DEF IsFloats
  <2> QED
    BY <2>1
<1>2. ASSUME NEW i \in 0..(n - 1), i \in P
      PROVE  i + 1 \in P
  <2>1. PICK g : IsFloats(g, ws, i)
    BY <1>2
  <2> DEFINE m == i + 1
             f == [k \in 0..m |-> IF k = m THEN Nearest(g[i] + ws[m].weight) ELSE g[k]]
  <2>2. ASSUME NEW k \in 0..m
        PROVE  f[k] = IF k = 0 THEN 0 ELSE Nearest(f[k - 1] + ws[k].weight)
    <3>1. \A j \in 0..i : g[j] = IF j = 0 THEN 0 ELSE Nearest(g[j - 1] + ws[j].weight)
      BY <2>1 DEF IsFloats
    <3>2. k # 0 => k - 1 \in 0..m /\ k - 1 # m
      OBVIOUS
    <3>3. k # 0 => f[k - 1] = g[k - 1]
      BY <3>2
    <3>4. CASE k = m
      <4>1. k - 1 = i /\ k # 0
        BY <3>4
      <4> QED
        BY <3>3, <3>4, <4>1
    <3>5. CASE k # m
      <4>1. k \in 0..i
        BY <3>5
      <4> QED
        BY <3>1, <3>3, <3>5, <4>1
    <3> QED
      BY <3>4, <3>5
  <2>3. IsFloats(f, ws, m)
    <3>1. f = [k \in 0..m |-> f[k]]
      OBVIOUS
    <3> HIDE DEF f
    <3> QED
      BY <2>2, <3>1 DEF IsFloats
  <2>4. m \in 0..n
    OBVIOUS
  <2> QED
    BY <2>3, <2>4
<1>3. n \in P
  <2> HIDE DEF P
  <2> QED
    BY <1>1, <1>2, CountUp
<1> QED
  BY <1>3

\* f has lost no more on t than five fourths of the total in Significand a word.
Lost(f, t, k, total) ==
    /\ 4 * (Significand * (f - t)) <= 5 * (k * total)
    /\ 4 * (Significand * (t - f)) <= 5 * (k * total)

\* One more word loses one more.
LEMMA LosesOneMore ==
    ASSUME NEW n \in Nat, 8 * n <= Significand, NEW k \in 0..n, NEW total \in Nat,
           NEW f \in Nat, NEW t \in Nat, NEW u \in Nat, t + u <= total, Lost(f, t, k, total)
    PROVE  Lost(Nearest(f + u), t + u, k + 1, total)
<1> DEFINE S == Significand
           x == f + u
<1>1. S \in Nat /\ S > 0
  BY TimelineAssumption
<1>2. PICK kt \in Int : kt = k * total /\ (k + 1) * total = kt + total
  OBVIOUS
<1>3. PICK y \in Nat : y = Nearest(x) /\ CloseTo(y, x)
  BY NearestIs
<1>4. 4 * (S * (f - t)) <= 5 * kt /\ 4 * (S * (t - f)) <= 5 * kt
  BY <1>2 DEF Lost
<1>5. 8 * kt <= S * total
  <2>1. 8 * k <= S /\ 8 * k \in Int
    BY <1>1
  <2>2. total * (8 * k) <= total * S
    BY <1>1, <2>1, Growth
  <2>3. total * (8 * k) = 8 * kt /\ total * S = S * total
    BY <1>1, <1>2
  <2> QED
    BY <2>2, <2>3
<1>6. 4 * x <= 5 * total
  <2>1. PICK d \in Int : d = f - t
    OBVIOUS
  <2>2. S * (32 * d) <= S * (5 * total)
    <3>1. PICK a \in Int : a = S * d /\ S * (32 * d) = 32 * a
      BY <1>1
    <3>2. PICK b \in Int : b = S * total /\ S * (5 * total) = 5 * b
      BY <1>1
    <3> QED
      BY <1>4, <1>5, <2>1, <3>1, <3>2
  <2>3. 32 * d <= 5 * total
    BY <1>1, <2>2, Factor
  <2> QED
    BY <2>1, <2>3
<1>7. PICK a \in Int : a = S * (f - t) /\ S * (t - f) = -a
  BY <1>1
<1>8. PICK b \in Int : b = S * (y - x) /\ S * (x - y) = -b
  BY <1>1
<1>9. S * (y - (t + u)) = a + b /\ S * ((t + u) - y) = -(a + b)
  <2>1. y - (t + u) = (f - t) + (y - x) /\ (t + u) - y = (t - f) + (x - y)
    OBVIOUS
  <2>2. f - t \in Int /\ y - x \in Int /\ t - f \in Int /\ x - y \in Int
    OBVIOUS
  <2>3. S * ((f - t) + (y - x)) = S * (f - t) + S * (y - x)
    BY <1>1, <2>2, Distribute
  <2>4. S * ((t - f) + (x - y)) = S * (t - f) + S * (x - y)
    BY <1>1, <2>2, Distribute
  <2> HIDE DEF S
  <2> QED
    BY <1>7, <1>8, <2>1, <2>3, <2>4
<1>10. b <= x /\ -b <= x
  BY <1>3, <1>8 DEF CloseTo
<1>11. 4 * (a + b) <= 5 * (kt + total) /\ 4 * (-(a + b)) <= 5 * (kt + total)
  BY <1>4, <1>6, <1>7, <1>10
<1> QED
  BY <1>2, <1>3, <1>9, <1>11 DEF Lost

\* Weights of words, as a function.
Weighing(ws, w, n) == Len(ws) = n /\ \A k \in 1..n : w[k] = ws[k].weight

\* The running sum stays near the exact one.
LEMMA FloatSumIs ==
    ASSUME NEW n \in Nat, 8 * n <= Significand, NEW w, \A k \in 1..n : w[k] \in Nat,
           NEW ws, Weighing(ws, w, n)
    PROVE  FloatSum(ws) \in Nat /\ Lost(FloatSum(ws), SumOver(w, 1..n), n, SumOver(w, 1..n))
<1> DEFINE s(k) == SumOver(w, 1..k)
           sum == CHOOSE f : IsFloats(f, ws, n)
<1>1. /\ s(0) = 0
      /\ \A k \in 0..n : s(k) \in Nat
      /\ \A k \in 0..(n - 1) : s(k + 1) = w[k + 1] + s(k)
  BY SumsUpTo
<1>2. IsFloats(sum, ws, n)
  BY FloatsExist
<1>3. FloatSum(ws) = sum[n]
  BY DEF FloatSum, IsFloats, Weighing
<1> HIDE DEF s, sum
<1>4. \A k \in 1..n : sum[k] = Nearest(sum[k - 1] + w[k])
  BY <1>2 DEF IsFloats, Weighing
<1>5. sum[0] = 0
  BY <1>2 DEF IsFloats
<1>6. PICK total \in Nat : total = s(n)
  BY <1>1
<1>7. \A k \in 0..n : s(k) <= total
  <2> DEFINE P == {k \in 0..n : s(k) <= total}
  <2>1. ASSUME NEW k \in 0..n, \A j \in (k + 1)..n : j \in P
        PROVE  k \in P
    <3>1. CASE k = n
      BY <1>1, <1>6, <3>1
    <3>2. CASE k # n
      <4>1. k \in 0..(n - 1) /\ k + 1 \in (k + 1)..n /\ k + 1 \in 1..n
        BY <3>2
      <4>2. s(k + 1) <= total /\ s(k + 1) = w[k + 1] + s(k) /\ s(k) \in Nat /\ w[k + 1] \in Nat
        BY <1>1, <2>1, <4>1
      <4> QED
        BY <4>2
    <3> QED
      BY <3>1, <3>2
  <2> HIDE DEF P
  <2>2. \A k \in 0..n : k \in P
    <3>1. 0 \in Int /\ n \in Int
      OBVIOUS
    <3> QED
      BY <2>1, <3>1, CountDown
  <2> QED
    BY <2>2 DEF P
<1> DEFINE P == {k \in 0..n : sum[k] \in Nat /\ Lost(sum[k], s(k), k, total)}
<1>8. 0 \in P
  <2>1. Significand \in Nat
    BY TimelineAssumption
  <2>2. Significand * (0 - 0) = 0 /\ 0 * total = 0
    BY <2>1
  <2>3. Lost(0, 0, 0, total)
    BY <2>2 DEF Lost
  <2> QED
    BY <1>1, <1>5, <2>3
<1>9. ASSUME NEW k \in 0..(n - 1), k \in P
      PROVE  k + 1 \in P
  <2>1. k + 1 \in 1..n /\ k + 1 \in 0..n /\ (k + 1) - 1 = k /\ k \in 0..n
    OBVIOUS
  <2>2. PICK f \in Nat : f = sum[k] /\ Lost(f, s(k), k, total)
    BY <1>9
  <2>3. PICK t \in Nat : t = s(k)
    BY <1>1, <2>1
  <2>4. PICK u \in Nat : u = w[k + 1]
    BY <2>1
  <2>5. s(k + 1) = t + u /\ t + u <= total
    BY <1>1, <1>7, <2>1, <2>3, <2>4
  <2>6. sum[k + 1] = Nearest(f + u)
    BY <1>4, <2>1, <2>2, <2>4
  <2>7. Lost(Nearest(f + u), t + u, k + 1, total)
    BY <2>1, <2>2, <2>3, <2>5, LosesOneMore
  <2>8. Nearest(f + u) \in Nat
    BY NearestIs
  <2> QED
    BY <2>1, <2>5, <2>6, <2>7, <2>8
<1>10. n \in P
  <2> HIDE DEF P
  <2> QED
    BY <1>8, <1>9, CountUp
<1> QED
  BY <1>3, <1>6, <1>10 DEF s

-----------------------------------------------------------------------------
(* The words' shares of the mean.                                          *)

\* What is left of a word's share of the mean: g of w, five means off at most.
Share(w, mean) == (w * 1000) \div mean
Unclamped == 401..3599
Fair(w, g, mean) == 1000 * w - 5 * mean <= mean * g /\ mean * g <= 1000 * w + 5 * mean

\* Every weight clears the lower clamp; every share is near its weight's; the
\* shares add up to n means, ten units a word off at most and what the floats lose.
Weighs(w, n) == \A k \in 1..n : w[k] \in Nat /\ w[k] >= 450
AllFair(w, g, mean, n) == \A k \in 1..n : g[k] \in Nat /\ Fair(w[k], g[k], mean)
Slack(n) == 10 * n * Significand + 2000 * n * n
Even(sum, n) == Significand * (sum - 1000 * n) \in (-Slack(n))..Slack(n)

\* The mean of a sum f that lost little: it is near, and far from nothing.
LEMMA MeanIs ==
    ASSUME NEW n \in Nat, n >= 1, 8 * n <= Significand, NEW total \in Nat, total >= 450 * n,
           NEW f \in Nat, Lost(f, total, n, total), NEW mean, mean = f \div n
    PROVE  /\ mean \in Nat /\ mean >= 200
           /\ n * mean <= f /\ f < n * mean + n
           /\ 5 * total <= 8 * (n * mean)
<1> DEFINE S == Significand
<1>1. S \in Nat /\ S > 0
  BY TimelineAssumption
<1>2. n \in Nat \ {0} /\ f \in Int
  OBVIOUS
<1>3. PICK q \in Int : q = f \div n /\ n * q <= f /\ f < n * q + n
  BY <1>2, Quotient
<1>4. PICK a \in Int : a = n * q
  OBVIOUS
<1>5. 32 * (total - f) <= 5 * total
  <2>1. PICK d \in Int : d = total - f
    OBVIOUS
  <2>2. PICK nt \in Int : nt = n * total
    OBVIOUS
  <2>3. 4 * (S * d) <= 5 * nt
    BY <2>1, <2>2 DEF Lost
  <2>4. 8 * nt <= S * total
    <3>1. total * (8 * n) <= total * S
      BY <1>1, Growth
    <3>2. total * (8 * n) = 8 * nt /\ total * S = S * total
      BY <1>1, <2>2
    <3> QED
      BY <3>1, <3>2
  <2>5. S * (32 * d) <= S * (5 * total)
    <3>1. PICK b \in Int : b = S * d /\ S * (32 * d) = 32 * b
      BY <1>1
    <3>2. PICK c \in Int : c = S * total /\ S * (5 * total) = 5 * c
      BY <1>1
    <3> QED
      BY <2>3, <2>4, <3>1, <3>2
  <2>6. 32 * d <= 5 * total
    BY <1>1, <2>5, Factor
  <2> QED
    BY <2>1, <2>6
<1>6. a >= 200 * n /\ 5 * total <= 8 * a
  BY <1>3, <1>4, <1>5
<1>7. q >= 200
  <2>1. n * 200 <= n * q
    BY <1>4, <1>6
  <2> QED
    BY <1>2, <2>1, Factor
<1> QED
  BY <1>3, <1>4, <1>6, <1>7

\* The shares of all words, put together.
Together(w, g, mean, n) ==
    /\ SumOver(g, 1..n) \in Nat
    /\ 1000 * SumOver(w, 1..n) - 5 * (n * mean) <= mean * SumOver(g, 1..n)
    /\ mean * SumOver(g, 1..n) <= 1000 * SumOver(w, 1..n) + 5 * (n * mean)

LEMMA SharesTogether ==
    ASSUME NEW n \in Nat, NEW w, NEW g, NEW mean \in Nat,
           Weighs(w, n), AllFair(w, g, mean, n)
    PROVE  Together(w, g, mean, n)
<1> USE DEF Weighs, AllFair
<1> DEFINE s(k) == SumOver(w, 1..k)
           h(k) == SumOver(g, 1..k)
<1>1. /\ s(0) = 0
      /\ \A k \in 0..n : s(k) \in Nat
      /\ \A k \in 0..(n - 1) : s(k + 1) = w[k + 1] + s(k)
  BY SumsUpTo
<1>2. /\ h(0) = 0
      /\ \A k \in 0..n : h(k) \in Nat
      /\ \A k \in 0..(n - 1) : h(k + 1) = g[k + 1] + h(k)
  BY SumsUpTo
<1> HIDE DEF s, h
<1> DEFINE P == {k \in 0..n : /\ 1000 * s(k) - 5 * (k * mean) <= mean * h(k)
                              /\ mean * h(k) <= 1000 * s(k) + 5 * (k * mean)}
<1>3. 0 \in P
  <2>1. mean * 0 = 0 /\ 0 * mean = 0
    OBVIOUS
  <2> QED
    BY <1>1, <1>2, <2>1
<1>4. ASSUME NEW k \in 0..(n - 1), k \in P
      PROVE  k + 1 \in P
  <2>1. k + 1 \in 1..n /\ k + 1 \in 0..n /\ k \in 0..n
    OBVIOUS
  <2>2. PICK sk \in Nat : sk = s(k)
    BY <1>1, <2>1
  <2>3. PICK hk \in Nat : hk = h(k)
    BY <1>2, <2>1
  <2>4. PICK wk \in Nat : wk = w[k + 1]
    BY <2>1
  <2>5. PICK gk \in Nat : gk = g[k + 1]
    BY <2>1
  <2>6. s(k + 1) = wk + sk /\ h(k + 1) = gk + hk
    BY <1>1, <1>2, <2>2, <2>3, <2>4, <2>5
  <2>7. PICK b \in Int : b = mean * hk
    OBVIOUS
  <2>8. PICK c \in Int : c = k * mean
    OBVIOUS
  <2>9. PICK a \in Int : a = mean * gk
    OBVIOUS
  <2>10. 1000 * wk - 5 * mean <= a /\ a <= 1000 * wk + 5 * mean
    BY <2>1, <2>4, <2>5, <2>9 DEF Fair
  <2>11. 1000 * sk - 5 * c <= b /\ b <= 1000 * sk + 5 * c
    BY <1>4, <2>2, <2>3, <2>7, <2>8
  <2>12. mean * (gk + hk) = a + b
    BY <2>7, <2>9, Distribute
  <2>13. (k + 1) * mean = c + mean
    BY <2>8
  <2>14. 1000 * (wk + sk) - 5 * (c + mean) <= a + b /\ a + b <= 1000 * (wk + sk) + 5 * (c + mean)
    BY <2>10, <2>11
  <2> QED
    BY <2>1, <2>6, <2>12, <2>13, <2>14
<1>5. \A k \in 0..n : k \in P
  <2> HIDE DEF P
  <2> QED
    BY <1>3, <1>4, CountUp
<1> QED
  BY <1>2, <1>5 DEF s, h, Together

\* Weights near their share of the mean add up to their number.
LEMMA SharesAddUp ==
    ASSUME NEW n \in Nat, n >= 1, 8 * n <= Significand, NEW w, NEW g, NEW f \in Nat,
           NEW mean, mean = f \div n, Lost(f, SumOver(w, 1..n), n, SumOver(w, 1..n)),
           Weighs(w, n), AllFair(w, g, mean, n)
    PROVE  Even(SumOver(g, 1..n), n)
<1> DEFINE S == Significand
<1>1. S \in Nat /\ S > 0
  BY TimelineAssumption
<1>2. PICK total \in Nat : total = SumOver(w, 1..n) /\ total >= 450 * n
  BY SumAtLeast DEF Weighs
<1>3. Lost(f, total, n, total)
  BY <1>2
<1>4. /\ mean \in Nat /\ mean >= 200
      /\ n * mean <= f /\ f < n * mean + n
      /\ 5 * total <= 8 * (n * mean)
  BY <1>2, <1>3, MeanIs
<1>5. PICK sum \in Nat : sum = SumOver(g, 1..n) /\ Together(w, g, mean, n)
  BY <1>4, SharesTogether DEF Together
<1>6. PICK a \in Int : a = n * mean
  BY <1>4
<1>7. PICK b \in Int : b = mean * sum
  BY <1>4
<1>8. 1000 * total - 5 * a <= b /\ b <= 1000 * total + 5 * a
  <2>1. /\ 1000 * SumOver(w, 1..n) - 5 * (n * mean) <= mean * SumOver(g, 1..n)
        /\ mean * SumOver(g, 1..n) <= 1000 * SumOver(w, 1..n) + 5 * (n * mean)
    BY <1>5 DEF Together
  <2>2. n * mean = a /\ mean * SumOver(g, 1..n) = b
    BY <1>5, <1>6, <1>7
  <2>3. SumOver(w, 1..n) = total
    BY <1>2
  <2> QED
    BY <2>1, <2>2, <2>3
<1>9. a <= f /\ f < a + n /\ 5 * total <= 8 * a /\ a >= 200 * n
  <2>1. n * 200 <= n * mean
    BY <1>4, Growth
  <2> QED
    BY <1>4, <1>6, <2>1
\* The products with S that the bounds are made of.
<1>10. PICK sa \in Int : sa = S * a
  BY <1>1
<1>11. PICK sn \in Int : sn = S * n
  BY <1>1
<1>12. PICK nt \in Int : nt = n * total
  OBVIOUS
<1>13. PICK na \in Int : na = n * a
  OBVIOUS
<1>14. PICK sd \in Int : sd = S * (total - f)
  BY <1>1
<1>15. PICK se \in Int : se = S * (f - a)
  BY <1>1
<1>16. 4 * sd <= 5 * nt /\ -(4 * sd) <= 5 * nt
  <2>1. S * (f - total) = -sd
    BY <1>1, <1>14
  <2> QED
    BY <1>3, <1>12, <1>14, <2>1 DEF Lost
<1>17. 0 <= se /\ se <= sn
  <2>1. f - a \in Int /\ 0 <= f - a /\ f - a <= n
    BY <1>9
  <2>2. S * 0 <= S * (f - a) /\ S * (f - a) <= S * n
    BY <1>1, <2>1, Growth
  <2> QED
    BY <1>1, <1>11, <1>15, <2>2
<1>18. 200 * sn <= sa
  <2>1. S * (200 * n) <= S * a
    BY <1>1, <1>9, Growth
  <2>2. S * (200 * n) = 200 * sn
    BY <1>1, <1>11
  <2> QED
    BY <1>10, <2>1, <2>2
<1>19. 5 * nt <= 8 * na
  <2>1. n * (5 * total) <= n * (8 * a)
    BY <1>9, Growth
  <2>2. n * (5 * total) = 5 * nt /\ n * (8 * a) = 8 * na
    BY <1>12, <1>13
  <2> QED
    BY <2>1, <2>2
<1>20. PICK sb \in Int : sb = S * (b - 1000 * a)
  BY <1>1
<1>21. sb <= 1000 * (sd + se) + 5 * sa /\ 1000 * (sd + se) - 5 * sa <= sb
  <2> DEFINE d == (total - f) + (f - a)
  <2>1. d \in Int /\ b - 1000 * a <= 1000 * d + 5 * a /\ 1000 * d - 5 * a <= b - 1000 * a
    BY <1>8
  <2>2. S * d = sd + se
    BY <1>1, <1>14, <1>15, Distribute
  <2> HIDE DEF d
  <2>3. S * (1000 * d + 5 * a) = 1000 * (sd + se) + 5 * sa
    <3>1. S * (1000 * d + 5 * a) = 1000 * (S * d) + 5 * (S * a)
      BY <1>1, <2>1
    <3> QED
      BY <1>10, <2>2, <3>1
  <2>4. S * (1000 * d - 5 * a) = 1000 * (sd + se) - 5 * sa
    <3>1. S * (1000 * d - 5 * a) = 1000 * (S * d) - 5 * (S * a)
      BY <1>1, <2>1
    <3> QED
      BY <1>10, <2>2, <3>1
  <2>5. S * (b - 1000 * a) <= S * (1000 * d + 5 * a) /\ S * (1000 * d - 5 * a) <= S * (b - 1000 * a)
    <3>1. b - 1000 * a \in Int /\ 1000 * d + 5 * a \in Int /\ 1000 * d - 5 * a \in Int
      BY <2>1
    <3> QED
      BY <1>1, <2>1, <3>1, Growth
  <2> QED
    BY <1>20, <2>3, <2>4, <2>5
<1>22. sb <= 10 * sa + 2000 * na /\ -(10 * sa + 2000 * na) <= sb
  BY <1>16, <1>17, <1>18, <1>19, <1>21
<1>23. PICK off \in Int : off = S * (sum - 1000 * n)
  BY <1>1
<1>24. PICK nn \in Int : nn = n * n
  OBVIOUS
<1>25. PICK slack \in Int : slack = 10 * sn + 2000 * nn /\ Slack(n) = slack
  <2>1. 10 * n * Significand = 10 * sn
    BY <1>1, <1>11
  <2>2. 2000 * n * n = 2000 * nn
    BY <1>24
  <2> QED
    BY <2>1, <2>2 DEF Slack
<1>26. mean * off = sb
  <2>1. mean * (1000 * n) = 1000 * a
    BY <1>4, <1>6
  <2>2. mean * (sum - 1000 * n) = b - 1000 * a
    BY <1>4, <1>7, <2>1
  <2>3. mean * (S * (sum - 1000 * n)) = S * (mean * (sum - 1000 * n))
    <3>1. PICK z \in Int : z = sum - 1000 * n
      OBVIOUS
    <3>2. mean * (S * z) = S * (mean * z)
      BY <1>1, <1>4
    <3> QED
      BY <3>1, <3>2
  <2> QED
    BY <1>20, <1>23, <2>2, <2>3
<1>27. mean * slack = 10 * sa + 2000 * na
  <2>1. mean * sn = sa
    BY <1>1, <1>4, <1>6, <1>10, <1>11
  <2>2. mean * nn = na
    BY <1>4, <1>6, <1>13, <1>24
  <2>3. mean * (10 * sn + 2000 * nn) = 10 * (mean * sn) + 2000 * (mean * nn)
    BY <1>4
  <2> QED
    BY <1>25, <2>1, <2>2, <2>3
<1>28. off <= slack
  <2>1. mean * off <= mean * slack
    BY <1>22, <1>26, <1>27
  <2> QED
    BY <1>4, <2>1, Factor
<1>29. -slack <= off
  <2>1. mean * (-slack) = -(mean * slack)
    BY <1>4
  <2>2. mean * (-slack) <= mean * off
    BY <1>22, <1>26, <1>27, <2>1
  <2> QED
    BY <1>4, <2>2, Factor
<1> QED
  BY <1>5, <1>23, <1>25, <1>28, <1>29 DEF Even

\* A word that no clamp touches keeps its share of the mean.
LEMMA ShareIs ==
    ASSUME NEW w \in Nat, NEW mean \in Nat, mean > 0, NEW g, g = Hundredths(Share(w, mean)),
           g \in Unclamped
    PROVE  g \in Nat /\ Fair(w, g, mean)
<1>0. g \in 401..3599
  BY DEF Unclamped
<1>1. PICK v \in Int : v = (w * 1000) \div mean /\ mean * v <= w * 1000 /\ w * 1000 < mean * v + mean
  <2>1. w * 1000 \in Int /\ mean \in Nat \ {0}
    OBVIOUS
  <2> QED
    BY <2>1, Quotient
<1>2. v >= 400 /\ v <= 3600 /\ g = ((v + 5) \div 10) * 10
  <2>1. g = Hundredths(v)
    BY <1>1 DEF Share
  <2>2. PICK c \in Int : c = Clamp(v, 400, 3600)
    BY DEF Clamp
  <2>3. g = ((c + 5) \div 10) * 10
    BY <2>1, <2>2 DEF Hundredths
  <2>4. (v < 400 => c = 400) /\ (v > 3600 => c = 3600) /\ (v >= 400 /\ v <= 3600 => c = v)
    BY <2>2 DEF Clamp
  <2>5. c # 400 /\ c # 3600
    BY <1>0, <2>3
  <2> QED
    BY <2>3, <2>4, <2>5
<1>3. g - v <= 5 /\ v - g <= 4
  BY <1>2
<1>4. mean * g <= mean * (v + 5) /\ mean * (v - 4) <= mean * g
  <2>1. g \in Int /\ g <= v + 5 /\ v - 4 <= g
    BY <1>0, <1>3
  <2>2. mean \in Nat
    OBVIOUS
  <2> QED
    BY <2>1, <2>2, Growth
<1>5. PICK p \in Int : p = mean * v
  OBVIOUS
<1>6. mean * (v + 5) = p + 5 * mean /\ mean * (v - 4) = p - 4 * mean
  BY <1>5
<1>7. PICK q \in Int : q = mean * g
  <2>1. g \in Int
    BY <1>0
  <2> QED
    BY <2>1
<1>8. p <= w * 1000 /\ w * 1000 < p + mean /\ q <= p + 5 * mean /\ p - 4 * mean <= q
  BY <1>1, <1>4, <1>5, <1>6, <1>7
<1>9. 1000 * w - 5 * mean <= q /\ q <= 1000 * w + 5 * mean
  BY <1>8
<1>10. g \in Nat
  <2>1. \A y \in Unclamped : y \in Nat
    BY DEF Unclamped
  <2> QED
    BY <2>1
<1> QED
  BY <1>7, <1>9, <1>10 DEF Fair

\* The total is the sum of the weights.
LEMMA TotalOfIs ==
    ASSUME NEW ws
    PROVE  TotalOf(ws) = SumOver([k \in DOMAIN ws |-> ws[k].weight], DOMAIN ws)
BY DEF TotalOf, FoldFunction, FoldFunctionOnSet, MapThenFoldSet, SumOver, AreSums, NextOf

\* The mean pace of a document is what the reader asked for, in every text of up
\* to an eighth of Significand words, but for rounding.
THEOREM PaceStaysHonest == TimelineSpec => []HonestPace
<1>1. TextOK => HonestPace
  <2> SUFFICES ASSUME TextOK,
                      Len(Words) >= NormalizeMin,
                      8 * Len(Words) <= Significand,
                      \A k \in DOMAIN Words : Words[k].weight \in 401..3599
               PROVE  Even(TotalOf(Words), Len(Words))
    BY DEF HonestPace, Even, Slack
  <2> DEFINE raw == RawWords
             ws == Words
             n == Len(raw)
             w == [k \in DOMAIN raw |-> raw[k].weight]
             g == [k \in DOMAIN ws |-> ws[k].weight]
             mean == Mean(raw)
  <2>1. raw \in Seq(RawWord) /\ n \in Nat /\ DOMAIN raw = 1..n
    BY RawIs
  <2> HIDE DEF raw, ws, n, w, g, mean
  <2>2. DOMAIN ws = 1..n /\ Len(ws) = n
    <3>1. ws = [k \in DOMAIN Normalized(raw) |->
                  [Normalized(raw)[k] EXCEPT !.weight = Hundredths(@)]]
      BY DEF Words, ws, raw
    <3>2. DOMAIN Normalized(raw) = 1..n
      BY <2>1 DEF Normalized
    <3>3. ws = [k \in 1..n |-> ws[k]]
      BY <3>1, <3>2
    <3>4. DOMAIN ws = 1..n
      BY <3>3
    <3>5. Len(ws) = n
      BY <2>1, <3>3
    <3> QED
      BY <3>4, <3>5
  <2>3. NormalizeMin \in Nat /\ NormalizeMin # 0
    BY TimelineAssumption
  <2>4. n >= NormalizeMin /\ n >= 1 /\ 8 * n <= Significand
    BY <2>1, <2>2, <2>3 DEF ws
  <2>5. ASSUME NEW k \in 1..n
        PROVE  ws[k].weight = Hundredths(Share(raw[k].weight, mean))
    <3> DEFINE round(u) == [u EXCEPT !.weight = Hundredths(@)]
    <3>1. PICK a \in RawWord : a = raw[k]
      BY <2>1
    <3>2. PICK x : x = Share(a.weight, mean)
      OBVIOUS
    <3>3. PICK norm : norm = Normalized(raw)
      OBVIOUS
    <3>4. norm = [i \in 1..n |-> [raw[i] EXCEPT !.weight = Share(raw[i].weight, mean)]]
      BY <2>1, <2>3, <2>4, <3>3 DEF Normalized, Share, mean, n
    <3>5. norm[k] = [a EXCEPT !.weight = x] /\ DOMAIN norm = 1..n
      BY <3>1, <3>2, <3>4
    <3>6. PICK b : b = norm[k] /\ b.weight = x /\ round(b).weight = Hundredths(x)
      BY <3>5 DEF RawWord
    <3>7. ws = [i \in DOMAIN norm |-> round(norm[i])]
      BY <3>3 DEF Words, ws, raw
    <3> HIDE DEF round
    <3>8. ws[k] = round(b)
      BY <3>5, <3>6, <3>7
    <3> QED
      BY <3>1, <3>2, <3>6, <3>8
  <2>6. \A k \in 1..n : w[k] = raw[k].weight /\ w[k] \in Nat /\ w[k] >= 450
    <3> SUFFICES ASSUME NEW k \in 1..n PROVE w[k] = raw[k].weight /\ w[k] \in Nat /\ w[k] >= 450
      OBVIOUS
    <3>1. raw[k] \in RawWord /\ w[k] = raw[k].weight
      BY <2>1 DEF w
    <3>2. raw[k].weight \in RawWeights
      <4>1. \A x \in RawWord : x.weight \in RawWeights
        BY DEF RawWord
      <4> QED
        BY <3>1, <4>1
    <3>3. \A x \in RawWeights : x \in Nat /\ x >= 450
      BY DEF RawWeights
    <3> QED
      BY <3>1, <3>2, <3>3
  <2>7. PICK f \in Nat : mean = f \div n /\ Lost(f, SumOver(w, 1..n), n, SumOver(w, 1..n))
    <3>1. Weighing(raw, w, n)
      BY <2>6 DEF Weighing, n
    <3>2. \A k \in 1..n : w[k] \in Nat
      BY <2>6
    <3>3. FloatSum(raw) \in Nat /\ Lost(FloatSum(raw), SumOver(w, 1..n), n, SumOver(w, 1..n))
      BY <2>1, <2>4, <3>1, <3>2, FloatSumIs
    <3>4. mean = FloatSum(raw) \div n
      BY DEF Mean, mean, n
    <3> QED
      BY <3>3, <3>4
  <2>8. TotalOf(ws) = SumOver(g, 1..n)
    BY <2>2, TotalOfIs DEF g
  <2>9. \A k \in 1..n : g[k] \in Unclamped /\ g[k] = Hundredths(Share(w[k], mean))
    <3> SUFFICES ASSUME NEW k \in 1..n
                 PROVE  g[k] \in Unclamped /\ g[k] = Hundredths(Share(w[k], mean))
      OBVIOUS
    <3>1. g[k] = ws[k].weight /\ k \in DOMAIN ws
      BY <2>2 DEF g
    <3>2. ws[k].weight \in Unclamped
      BY <3>1 DEF Unclamped, ws
    <3>3. ws[k].weight = Hundredths(Share(w[k], mean))
      <4>1. w[k] = raw[k].weight
        BY <2>6
      <4> QED
        BY <2>5, <4>1
    <3> QED
      BY <3>1, <3>2, <3>3
  <2>10. mean \in Nat /\ mean > 0
    <3>1. \A k \in 1..n : w[k] \in Nat /\ w[k] >= 450
      BY <2>6
    <3>2. PICK total \in Nat : total = SumOver(w, 1..n) /\ total >= 450 * n
      <4>1. SumOver(w, 1..n) \in Nat /\ SumOver(w, 1..n) >= 450 * n
        BY <2>1, <3>1, SumAtLeast
      <4> QED
        BY <4>1
    <3>3. mean \in Nat /\ mean >= 200
      BY <2>1, <2>4, <2>7, <3>2, MeanIs
    <3> QED
      BY <3>3
  <2>11. \A k \in 1..n : g[k] \in Nat /\ Fair(w[k], g[k], mean)
    <3> SUFFICES ASSUME NEW k \in 1..n PROVE g[k] \in Nat /\ Fair(w[k], g[k], mean)
      OBVIOUS
    <3>1. PICK x \in Nat : x = w[k]
      BY <2>6
    <3>2. PICK y \in Nat : y = g[k] /\ y \in Unclamped
      <4>1. g[k] \in Unclamped
        BY <2>9
      <4>2. \A y \in Unclamped : y \in Nat
        BY DEF Unclamped
      <4> QED
        BY <4>1, <4>2
    <3>3. y = Hundredths(Share(x, mean))
      <4>1. g[k] = Hundredths(Share(w[k], mean))
        BY <2>9
      <4> QED
        BY <3>1, <3>2, <4>1
    <3>4. y \in Unclamped
      BY <3>2
    <3>5. mean \in Nat /\ mean > 0
      BY <2>10
    <3>6. Fair(x, y, mean)
      BY <3>3, <3>4, <3>5, ShareIs
    <3> QED
      BY <3>1, <3>2, <3>6
  <2>12. Even(SumOver(g, 1..n), n)
    <3>1. Weighs(w, n)
      BY <2>6 DEF Weighs
    <3>2. AllFair(w, g, mean, n)
      BY <2>11 DEF AllFair
    <3> QED
      BY <2>1, <2>4, <2>7, <3>1, <3>2, SharesAddUp
  <2> QED
    BY <2>2, <2>8, <2>12 DEF ws, n
<1> QED
  BY <1>1, TextStays, PTL

-----------------------------------------------------------------------------
(* The three views of a text.                                              *)

\* Flattening two after each other is flattening both.
LEMMA FlatJoin ==
    ASSUME NEW S, NEW a \in Seq(Seq(S)), NEW b \in Seq(Seq(S))
    PROVE  FlattenSeq(a \o b) = FlattenSeq(a) \o FlattenSeq(b)
<1> DEFINE m == Len(a)
           n == Len(b)
           c == a \o b
<1>1. m \in Nat /\ n \in Nat
  OBVIOUS
<1>2. c \in Seq(Seq(S)) /\ Len(c) = m + n
      /\ \A k \in 1..(m + n) : c[k] = IF k <= m THEN a[k] ELSE b[k - m]
  BY ConcatProperties
<1>3. PICK d : Flattens(d, a, S) /\ d[m] = FlattenSeq(a)
  BY Flattened
<1>4. PICK e : Flattens(e, b, S) /\ e[n] = FlattenSeq(b)
  BY Flattened
<1> HIDE DEF m, n, c
<1>5. PICK f : Flattens(f, c, S) /\ f[m + n] = FlattenSeq(c)
  BY <1>2, Flattened
<1>6. /\ d \in [0..m -> Seq(S)] /\ d[0] = <<>>
      /\ \A k \in 1..m : d[k] = d[k - 1] \o a[k]
  BY <1>3 DEF Flattens, m
<1>7. /\ e \in [0..n -> Seq(S)] /\ e[0] = <<>>
      /\ \A k \in 1..n : e[k] = e[k - 1] \o b[k]
  BY <1>4 DEF Flattens, n
<1>8. /\ f \in [0..(m + n) -> Seq(S)] /\ f[0] = <<>>
      /\ \A k \in 1..(m + n) : f[k] = f[k - 1] \o c[k]
  BY <1>2, <1>5 DEF Flattens
<1>9. f[m] = d[m]
  <2> DEFINE P == {k \in 0..m : f[k] = d[k]}
  <2>1. 0 \in P
    BY <1>1, <1>6, <1>8
  <2>2. ASSUME NEW k \in 0..(m - 1), k \in P
        PROVE  k + 1 \in P
    <3>1. k + 1 \in 1..m /\ k + 1 \in 0..m /\ k + 1 \in 1..(m + n) /\ (k + 1) - 1 = k /\ k + 1 <= m
      BY <1>1
    <3>2. f[k + 1] = f[k] \o c[k + 1]
      BY <1>8, <3>1
    <3>3. d[k + 1] = d[k] \o a[k + 1]
      BY <1>6, <3>1
    <3>4. c[k + 1] = a[k + 1]
      BY <1>2, <3>1
    <3> QED
      BY <2>2, <3>1, <3>2, <3>3, <3>4
  <2>3. \A k \in 0..m : k \in P
    <3> HIDE DEF P
    <3> QED
      BY <1>1, <2>1, <2>2, CountUp
  <2> QED
    BY <1>1, <2>3
<1>10. f[m + n] = d[m] \o e[n]
  <2> DEFINE P == {k \in 0..n : f[m + k] = d[m] \o e[k]}
  <2>1. d[m] \in Seq(S)
    BY <1>1, <1>6
  <2>2. 0 \in P
    <3>1. m + 0 = m /\ 0 \in 0..n
      BY <1>1
    <3>2. d[m] \o <<>> = d[m]
      BY <2>1
    <3> QED
      BY <1>7, <1>9, <3>1, <3>2
  <2>3. ASSUME NEW k \in 0..(n - 1), k \in P
        PROVE  k + 1 \in P
    <3>1. k + 1 \in 1..n /\ k + 1 \in 0..n /\ k \in 0..n /\ (k + 1) - 1 = k
      BY <1>1
    <3>2. m + (k + 1) \in 1..(m + n) /\ (m + (k + 1)) - 1 = m + k /\ ~(m + (k + 1) <= m)
          /\ (m + (k + 1)) - m = k + 1
      BY <1>1
    <3>3. f[m + (k + 1)] = f[m + k] \o c[m + (k + 1)]
      BY <1>8, <3>2
    <3>4. c[m + (k + 1)] = b[k + 1]
      BY <1>2, <3>2
    <3>5. e[k + 1] = e[k] \o b[k + 1]
      BY <1>7, <3>1
    <3>6. PICK u \in Seq(S) : u = d[m]
      BY <2>1
    <3>7. PICK v \in Seq(S) : v = e[k]
      BY <1>7, <3>1
    <3>8. PICK w \in Seq(S) : w = b[k + 1]
      <4>1. \A i \in 1..n : b[i] \in Seq(S)
        BY DEF n
      <4> QED
        BY <3>1, <4>1
    <3>9. (u \o v) \o w = u \o (v \o w)
      BY ConcatAssociative
    <3>10. f[m + k] = u \o v
      BY <2>3, <3>6, <3>7
    <3>11. f[m + (k + 1)] = (u \o v) \o w
      BY <3>3, <3>4, <3>8, <3>10
    <3>12. e[k + 1] = v \o w
      BY <3>5, <3>7, <3>8
    <3>13. f[m + (k + 1)] = d[m] \o e[k + 1]
      BY <3>6, <3>9, <3>11, <3>12
    <3> QED
      BY <3>1, <3>13
  <2>4. \A k \in 0..n : k \in P
    <3> HIDE DEF P
    <3> QED
      BY <1>1, <2>2, <2>3, CountUp
  <2>5. n \in 0..n
    BY <1>1
  <2>6. n \in P
    BY <2>4, <2>5
  <2> QED
    BY <2>6
<1> QED
  BY <1>3, <1>4, <1>5, <1>10 DEF c

\* The chunks of two readings after each other.
LEMMA PiecesJoin ==
    ASSUME NEW a \in Seq(Mark), NEW b \in Seq(Mark)
    PROVE  FlattenSeq(PiecesOf(a \o b)) = FlattenSeq(PiecesOf(a)) \o FlattenSeq(PiecesOf(b))
<1> DEFINE m == Len(a)
           n == Len(b)
           x == PiecesOf(a)
           y == PiecesOf(b)
           z == PiecesOf(a \o b)
<1>1. m \in Nat /\ n \in Nat
  OBVIOUS
<1>2. a \o b \in Seq(Mark) /\ Len(a \o b) = m + n
      /\ \A k \in 1..(m + n) : (a \o b)[k] = IF k <= m THEN a[k] ELSE b[k - m]
  BY ConcatProperties
<1>3. x \in Seq(Seq(Piece)) /\ Len(x) = m /\ \A k \in 1..m : x[k] = DisplayTokens(a[k].tok)
  BY PiecesAre
<1>4. y \in Seq(Seq(Piece)) /\ Len(y) = n /\ \A k \in 1..n : y[k] = DisplayTokens(b[k].tok)
  BY PiecesAre
<1>5. z \in Seq(Seq(Piece)) /\ Len(z) = m + n /\ \A k \in 1..(m + n) : z[k] = DisplayTokens((a \o b)[k].tok)
  <2>1. PICK c \in Seq(Mark) : c = a \o b /\ Len(c) = m + n
    BY <1>2
  <2>2. PiecesOf(c) \in Seq(Seq(Piece)) /\ Len(PiecesOf(c)) = Len(c)
        /\ \A k \in 1..Len(c) : PiecesOf(c)[k] = DisplayTokens(c[k].tok)
    BY PiecesAre
  <2> QED
    BY <2>1, <2>2
<1> HIDE DEF m, n, x, y, z
<1>6. x \in Seq(Seq(Piece)) /\ y \in Seq(Seq(Piece))
  BY <1>3, <1>4
<1>7. x \o y \in Seq(Seq(Piece)) /\ Len(x \o y) = Len(x) + Len(y)
      /\ \A k \in 1..(Len(x) + Len(y)) : (x \o y)[k] = IF k <= Len(x) THEN x[k] ELSE y[k - Len(x)]
  BY <1>6, ConcatProperties
<1>8. ASSUME NEW k \in 1..(m + n)
      PROVE  z[k] = (x \o y)[k]
  <2>1. CASE k <= m
    <3>1. k \in 1..m
      BY <1>1, <2>1
    <3> QED
      <4>1. PICK t : t = a[k].tok
        OBVIOUS
      <4>2. (a \o b)[k] = a[k]
        BY <1>2, <2>1
      <4>3. z[k] = DisplayTokens(t)
        BY <1>5, <4>1, <4>2
      <4>4. x[k] = DisplayTokens(t)
        BY <1>3, <3>1, <4>1
      <4>5. (x \o y)[k] = x[k]
        BY <1>3, <1>4, <1>7, <2>1
      <4> QED
        BY <4>3, <4>4, <4>5
  <2>2. CASE ~(k <= m)
    <3>1. k - m \in 1..n
      BY <1>1, <2>2
    <3> QED
      <4>1. PICK t : t = b[k - m].tok
        OBVIOUS
      <4>2. (a \o b)[k] = b[k - m]
        BY <1>2, <2>2
      <4>3. z[k] = DisplayTokens(t)
        BY <1>5, <4>1, <4>2
      <4>4. y[k - m] = DisplayTokens(t)
        BY <1>4, <3>1, <4>1
      <4>5. (x \o y)[k] = y[k - m]
        BY <1>3, <1>4, <1>7, <2>2
      <4> QED
        BY <4>3, <4>4, <4>5
  <2> QED
    BY <2>1, <2>2
<1>9. z = x \o y
  BY <1>3, <1>4, <1>5, <1>7, <1>8, SeqEqual
<1>10. FlattenSeq(x \o y) = FlattenSeq(x) \o FlattenSeq(y)
  BY <1>6, FlatJoin
<1> QED
  BY <1>9, <1>10 DEF x, y, z

\* What a paragraph shows.
LEMMA ParagraphsAre ==
    ASSUME TextOK
    PROVE  LET paras == SplitParagraphs
           IN  /\ Paragraphs \in Seq(Seq(Piece)) /\ Len(Paragraphs) = Len(paras)
               /\ \A p \in 1..Len(paras) :
                     Paragraphs[p] = FlattenSeq(PiecesOf(MarksOf(paras)[p]))
<1> DEFINE paras == SplitParagraphs
           n == Len(paras)
           marks == MarksOf(paras)
           shown(p) == FlattenSeq([k \in DOMAIN paras[p] |-> DisplayTokens(paras[p][k])])
<1>1. paras \in Seq(Seq(Tokens)) /\ n \in Nat /\ DOMAIN paras = 1..n
  BY ParagraphsOfText
<1>2. /\ marks \in Seq(Seq(Mark)) /\ Len(marks) = n
      /\ \A p \in 1..n : /\ Len(marks[p]) = Len(paras[p])
                         /\ \A k \in 1..Len(paras[p]) : marks[p][k].tok = paras[p][k]
  BY <1>1, MarksAre
<1>3. Paragraphs = [p \in 1..n |-> shown(p)]
  BY <1>1 DEF Paragraphs
<1> HIDE DEF paras, n, marks
<1>4. ASSUME NEW p \in 1..n
      PROVE  shown(p) = FlattenSeq(PiecesOf(marks[p])) /\ shown(p) \in Seq(Piece)
  <2>1. PICK para \in Seq(Tokens) : para = paras[p]
    BY <1>1
  <2>2. PICK mark \in Seq(Mark) : mark = marks[p]
    BY <1>2
  <2>3. Len(mark) = Len(para) /\ \A k \in 1..Len(para) : mark[k].tok = para[k]
    BY <1>2, <2>1, <2>2
  <2>4. [k \in DOMAIN para |-> DisplayTokens(para[k])] = PiecesOf(mark)
    <3>1. DOMAIN para = 1..Len(para) /\ DOMAIN mark = 1..Len(para)
      BY <2>3
    <3>2. PiecesOf(mark) = [k \in 1..Len(para) |-> DisplayTokens(mark[k].tok)]
      BY <3>1 DEF PiecesOf
    <3>3. \A k \in 1..Len(para) : DisplayTokens(mark[k].tok) = DisplayTokens(para[k])
      BY <2>3
    <3> QED
      BY <3>1, <3>2, <3>3
  <2>5. PiecesOf(mark) \in Seq(Seq(Piece))
    BY PiecesAre
  <2>6. FlattenSeq(PiecesOf(mark)) \in Seq(Piece)
    BY <2>5, FlatType
  <2> QED
    BY <2>1, <2>2, <2>4, <2>6
<1> HIDE DEF shown
<1>5. \A p \in 1..n : Paragraphs[p] = shown(p)
  BY <1>3
<1>6. Paragraphs = [p \in 1..n |-> Paragraphs[p]]
  BY <1>3
<1>7. \A p \in 1..n : Paragraphs[p] \in Seq(Piece)
  BY <1>4, <1>5
<1>8. n \in Nat
  BY <1>1
<1>9. Paragraphs \in Seq(Seq(Piece)) /\ Len(Paragraphs) = n
  BY <1>6, <1>7, <1>8, IsSequence
<1> QED
  BY <1>4, <1>5, <1>9 DEF paras, n, marks

\* The paragraphs flatten to the words of the timeline.
LEMMA ParagraphsAlign ==
    ASSUME TextOK
    PROVE  FlattenSeq(Paragraphs) = ChunksOf(RawWords)
<1> DEFINE marks == MarksOf(SplitParagraphs)
           shown == Paragraphs
           n == Len(SplitParagraphs)
           of(s) == FlattenSeq(PiecesOf(s))
<1>1. marks \in Seq(Seq(Mark)) /\ Len(marks) = n /\ n \in Nat
  BY ParagraphsOfText, MarksAre
<1>2. Marked = FlattenSeq(marks)
  BY MarkedIs
<1>3. ChunksOf(RawWords) = of(Marked)
  BY RawIs
<1>4. shown \in Seq(Seq(Piece)) /\ Len(shown) = n /\ \A p \in 1..n : shown[p] = of(marks[p])
  BY ParagraphsAre
<1> HIDE DEF marks, shown, n
<1>5. PICK m : Flattens(m, marks, Mark) /\ m[n] = FlattenSeq(marks)
  BY <1>1, Flattened
<1>6. PICK f : Flattens(f, shown, Piece) /\ f[n] = FlattenSeq(shown)
  BY <1>4, Flattened
<1>7. m \in [0..n -> Seq(Mark)] /\ m[0] = <<>> /\ \A p \in 1..n : m[p] = m[p - 1] \o marks[p]
  BY <1>1, <1>5 DEF Flattens
<1>8. f[0] = <<>> /\ \A p \in 1..n : f[p] = f[p - 1] \o shown[p]
  BY <1>4, <1>6 DEF Flattens
<1> DEFINE P == {p \in 0..n : of(m[p]) = f[p]}
<1>9. 0 \in P
  <2>1. PiecesOf(<<>>) = <<>> /\ FlattenSeq(<<>>) = <<>>
    BY DEF PiecesOf, FlattenSeq
  <2> QED
    BY <1>1, <1>7, <1>8, <2>1
<1>10. ASSUME NEW p \in 0..(n - 1), p \in P
       PROVE  p + 1 \in P
  <2>1. p + 1 \in 1..n /\ p + 1 \in 0..n /\ p \in 0..n /\ (p + 1) - 1 = p
    BY <1>1
  <2>2. PICK a \in Seq(Mark) : a = m[p]
    BY <1>7, <2>1
  <2>3. PICK b \in Seq(Mark) : b = marks[p + 1]
    BY <1>1, <2>1
  <2>4. m[p + 1] = a \o b
    BY <1>7, <2>1, <2>2, <2>3
  <2>5. FlattenSeq(PiecesOf(a \o b)) = FlattenSeq(PiecesOf(a)) \o FlattenSeq(PiecesOf(b))
    BY PiecesJoin
  <2>6. FlattenSeq(PiecesOf(a)) = f[p]
    BY <1>10, <2>2
  <2>7. shown[p + 1] = FlattenSeq(PiecesOf(b))
    BY <1>4, <2>1, <2>3
  <2>8. f[p + 1] = f[p] \o shown[p + 1]
    BY <1>8, <2>1
  <2> QED
    BY <2>1, <2>4, <2>5, <2>6, <2>7, <2>8
<1>11. \A p \in 0..n : p \in P
  <2> HIDE DEF P
  <2> QED
    BY <1>1, <1>9, <1>10, CountUp
<1>12. of(m[n]) = f[n]
  BY <1>1, <1>11
<1> QED
  BY <1>2, <1>3, <1>5, <1>6, <1>12 DEF shown

\* A page from a position of what f holds: what is left, up to the limit.
IsPage(got, f, from, limit) ==
    /\ got \in Seq(Piece)
    /\ Len(got) = IF Len(f) <= from THEN 0
                    ELSE IF Len(f) - from < limit THEN Len(f) - from ELSE limit
    /\ \A i \in 1..Len(got) : got[i] = f[from + i]

\* Adding a paragraph to a page makes it the page of the longer text.
LEMMA PageGrows ==
    ASSUME NEW f \in Seq(Piece), NEW para \in Seq(Piece), NEW got, NEW pg,
           NEW from \in Nat, NEW limit \in Nat,
           IsPage(got, f, from, limit), pg = <<got, Len(f)>>
    PROVE  PageStep(from, limit, pg, para)[2] = Len(f \o para)
           /\ IsPage(PageStep(from, limit, pg, para)[1], f \o para, from, limit)
<1> DEFINE n == Len(f)
           m == Len(para)
           b == Len(got)
           s == Start(from, n)
           all == f \o para
           rest == SubSeq(para, s + 1, m)
           room == limit - b
           t == IF room < Len(rest) THEN room ELSE Len(rest)
           more == SubSeq(rest, 1, t)
<1>1. n \in Nat /\ m \in Nat /\ got \in Seq(Piece) /\ b \in Nat
  BY DEF IsPage
<1>2. all \in Seq(Piece) /\ Len(all) = n + m
      /\ \A i \in 1..(n + m) : all[i] = IF i <= n THEN f[i] ELSE para[i - n]
  BY ConcatProperties
<1>3. b = (IF n <= from THEN 0 ELSE IF n - from < limit THEN n - from ELSE limit)
      /\ \A i \in 1..b : got[i] = f[from + i]
  BY DEF IsPage
<1>4. pg[1] = got /\ pg[2] = n
  OBVIOUS
<1>5. s = IF from > n THEN from - n ELSE 0
  BY DEF Start
<1>6. n + m > from => Len(rest) = m - s /\ rest \in Seq(Piece) /\ s <= m /\ s \in Nat
      /\ \A i \in 1..(m - s) : rest[i] = para[s + i]
  <2> SUFFICES ASSUME n + m > from
               PROVE  Len(rest) = m - s /\ rest \in Seq(Piece) /\ s <= m /\ s \in Nat
                      /\ \A i \in 1..(m - s) : rest[i] = para[s + i]
    OBVIOUS
  <2> HIDE DEF s, n, m
  <2>1. s \in Nat /\ s <= m
    BY <1>1, <1>5
  <2>2. m - (s + 1) + 1 = m - s /\ s + 1 \in 1..(m + 1) /\ m \in s..m
    BY <1>1, <2>1
  <2>3. rest = [i \in 1..(m - (s + 1) + 1) |-> para[i + (s + 1) - 1]]
    BY <1>1, <2>1 DEF SubSeq
  <2>4. \A i \in 1..(m - s) : i + (s + 1) - 1 = s + i /\ s + i \in 1..m
    BY <1>1, <2>1
  <2>5. \A i \in 1..(m - s) : rest[i] = para[s + i]
    BY <2>2, <2>3, <2>4
  <2>6. \A i \in 1..m : para[i] \in Piece
    BY DEF m
  <2>7. \A i \in 1..(m - s) : rest[i] \in Piece
    BY <2>4, <2>5, <2>6
  <2>8. rest = [i \in 1..(m - s) |-> rest[i]]
    BY <2>2, <2>3
  <2>9. m - s \in Nat
    BY <1>1, <2>1
  <2> HIDE DEF rest
  <2>10. rest \in Seq(Piece) /\ Len(rest) = m - s
    BY <2>7, <2>8, <2>9, IsSequence
  <2> QED
    BY <2>1, <2>5, <2>10
<1> HIDE DEF s, rest
<1>7. CASE n + m <= from
  <2>1. PageStep(from, limit, pg, para) = <<got, n + m>>
    BY <1>4, <1>7 DEF PageStep
  <2>2. b = 0 /\ Len(all) <= from
    BY <1>1, <1>2, <1>3, <1>7
  <2>3. IsPage(got, all, from, limit)
    BY <1>1, <2>2 DEF IsPage
  <2> QED
    BY <1>2, <2>1, <2>3
<1>8. CASE n + m > from
  <2>1. /\ Len(rest) = m - s /\ rest \in Seq(Piece) /\ s <= m /\ s \in Nat
        /\ \A i \in 1..(m - s) : rest[i] = para[s + i]
    BY <1>6, <1>8
  <2>2. PageStep(from, limit, pg, para) = <<got \o more, n + m>>
    <3>1. /\ SubSeq(para, Start(from, pg[2]) + 1, Len(para)) = rest
          /\ limit - Len(pg[1]) = room /\ pg[2] + Len(para) = n + m
      BY <1>4 DEF rest, s
    <3>2. ~(n + m <= from)
      BY <1>1, <1>8
    <3> HIDE DEF n, m, room
    <3> QED
      BY <1>4, <3>1, <3>2 DEF PageStep
  <2>3. b <= limit /\ room \in Nat
    <3> HIDE DEF n, m, b
    <3> QED
      BY <1>1, <1>3
  <2>4. t \in Nat /\ t <= room /\ t <= m - s
    BY <1>1, <2>1, <2>3
  <2>5. more \in Seq(Piece) /\ Len(more) = t /\ \A i \in 1..t : more[i] = para[s + i]
    <3> HIDE DEF t
    <3>1. more = [i \in 1..t |-> rest[i]]
      <4>1. more = [i \in 1..(t - 1 + 1) |-> rest[i + 1 - 1]]
        BY <2>4 DEF SubSeq
      <4>2. t - 1 + 1 = t /\ \A i \in 1..t : i + 1 - 1 = i
        BY <2>4
      <4> QED
        BY <4>1, <4>2
    <3>2. \A i \in 1..t : i \in 1..(m - s)
      BY <1>1, <2>1, <2>4
    <3>3. \A i \in 1..t : more[i] = para[s + i]
      BY <2>1, <3>1, <3>2
    <3>4. \A i \in 1..t : more[i] \in Piece
      <4>1. \A i \in 1..(m - s) : rest[i] \in Piece
        BY <2>1
      <4> QED
        BY <3>1, <3>2, <4>1
    <3>5. more = [i \in 1..t |-> more[i]]
      BY <3>1
    <3> HIDE DEF more
    <3>6. more \in Seq(Piece) /\ Len(more) = t
      BY <2>4, <3>4, <3>5, IsSequence
    <3> QED
      BY <3>3, <3>6
  <2>6. b + t = IF n + m - from < limit THEN n + m - from ELSE limit
    <3> HIDE DEF n, m, b
    <3>1. t = IF room < m - s THEN room ELSE m - s
      BY <2>1
    <3> HIDE DEF t
    <3> QED
      BY <1>1, <1>3, <1>5, <1>8, <2>1, <3>1
  <2>7. t > 0 => from + b = n + s
    <3> HIDE DEF n, m, b
    <3>1. t > 0 => b < limit
      BY <1>1, <2>3, <2>4
    <3> QED
      BY <1>1, <1>3, <1>5, <3>1
  <2>8. \A i \in 1..b : from + i \in 1..n
    <3> HIDE DEF n, m, b
    <3> QED
      BY <1>1, <1>3
  <2> HIDE DEF more, t, n, m, b, all
  <2>9. got \o more \in Seq(Piece) /\ Len(got \o more) = b + t
        /\ \A i \in 1..(b + t) : (got \o more)[i] = IF i <= b THEN got[i] ELSE more[i - b]
    BY <1>1, <2>5, ConcatProperties DEF b
  <2>10. ASSUME NEW i \in 1..(b + t)
         PROVE  (got \o more)[i] = all[from + i]
    <3>1. CASE i <= b
      <4>1. i \in 1..b
        BY <1>1, <3>1
      <4>2. from + i \in 1..n
        BY <2>8, <4>1
      <4>3. all[from + i] = f[from + i]
        BY <1>1, <1>2, <4>2
      <4>4. got[i] = f[from + i]
        BY <1>3, <4>1
      <4> QED
        BY <2>9, <3>1, <4>3, <4>4
    <3>2. CASE ~(i <= b)
      <4>1. PICK d \in 1..t : d = i - b
        BY <1>1, <2>4, <3>2
      <4>2. PICK j \in 1..m : j = s + d
        BY <1>1, <2>1, <2>4, <4>1
      <4>3. PICK a \in 1..(n + m) : a = from + i /\ ~(a <= n) /\ a - n = j
        BY <1>1, <2>1, <2>4, <2>7, <4>1, <4>2
      <4>4. all[a] = para[j]
        BY <1>2, <4>3
      <4>5. more[d] = para[j]
        BY <2>5, <4>1, <4>2
      <4>6. (got \o more)[i] = more[d]
        BY <2>9, <3>2, <4>1
      <4> QED
        BY <4>3, <4>4, <4>5, <4>6
    <3> QED
      BY <3>1, <3>2
  <2>11. ~(Len(all) <= from) /\ Len(all) - from = n + m - from
    BY <1>1, <1>2, <1>8
  <2>12. IsPage(got \o more, all, from, limit)
    BY <2>6, <2>9, <2>10, <2>11 DEF IsPage
  <2>13. PageStep(from, limit, pg, para)[1] = got \o more /\ PageStep(from, limit, pg, para)[2] = n + m
    <3>1. PICK p : p = PageStep(from, limit, pg, para)
      OBVIOUS
    <3>2. p = <<got \o more, n + m>>
      BY <2>2, <3>1
    <3>3. p[1] = got \o more /\ p[2] = n + m
      BY <3>2
    <3> QED
      BY <3>1, <3>3
  <2> QED
    BY <1>2, <2>12, <2>13 DEF all
<1> QED
  BY <1>1, <1>7, <1>8

\* The loop of get_book_text over the first n paragraphs.
IsPaged(after, paras, from, limit, n) ==
    after = [p \in 0..n |->
                IF p = 0 THEN <<<<>>, 0>> ELSE PageStep(from, limit, after[p - 1], paras[p])]

\* The recursion of Page has a solution.
LEMMA PagesExist ==
    ASSUME NEW paras, NEW from, NEW limit, NEW n \in Nat
    PROVE  \E after : IsPaged(after, paras, from, limit, n)
<1> DEFINE P == {m \in 0..n : \E after : IsPaged(after, paras, from, limit, m)}
<1>1. 0 \in P
  <2> DEFINE f == [p \in 0..0 |-> <<<<>>, 0>>]
  <2>1. IsPaged(f, paras, from, limit, 0)
    BY DEF IsPaged
  <2> QED
    BY <2>1
<1>2. ASSUME NEW i \in 0..(n - 1), i \in P
      PROVE  i + 1 \in P
  <2>1. PICK g : IsPaged(g, paras, from, limit, i)
    BY <1>2
  <2> DEFINE m == i + 1
             f == [p \in 0..m |-> IF p = m THEN PageStep(from, limit, g[i], paras[m]) ELSE g[p]]
  <2>2. ASSUME NEW p \in 0..m
        PROVE  f[p] = IF p = 0 THEN <<<<>>, 0>> ELSE PageStep(from, limit, f[p - 1], paras[p])
    <3>1. \A j \in 0..i : g[j] = IF j = 0 THEN <<<<>>, 0>>
                                 ELSE PageStep(from, limit, g[j - 1], paras[j])
      BY <2>1 DEF IsPaged
    <3>2. p # 0 => p - 1 \in 0..m /\ p - 1 # m
      OBVIOUS
    <3>3. p # 0 => f[p - 1] = g[p - 1]
      BY <3>2
    <3>4. CASE p = m
      <4>1. p - 1 = i /\ p # 0
        BY <3>4
      <4> QED
        BY <3>3, <3>4, <4>1
    <3>5. CASE p # m
      <4>1. p \in 0..i
        BY <3>5
      <4> QED
        BY <3>1, <3>3, <3>5, <4>1
    <3> QED
      BY <3>4, <3>5
  <2>3. IsPaged(f, paras, from, limit, m)
    <3> HIDE DEF f
    <3>1. f = [p \in 0..m |-> f[p]]
      BY DEF f
    <3> QED
      BY <2>2, <3>1 DEF IsPaged
  <2>4. m \in 0..n
    OBVIOUS
  <2> QED
    BY <2>3, <2>4
<1>3. n \in P
  <2> HIDE DEF P
  <2> QED
    BY <1>1, <1>2, CountUp
<1> QED
  BY <1>3

\* get_book_text answers with the page of the flattened text.
LEMMA PageIs ==
    ASSUME NEW paras \in Seq(Seq(Piece)), NEW from \in Nat, NEW limit \in Nat
    PROVE  IsPage(Page(paras, from, limit), FlattenSeq(paras), from, limit)
<1> DEFINE n == Len(paras)
           after == CHOOSE a : IsPaged(a, paras, from, limit, n)
<1>1. n \in Nat /\ \A p \in 1..n : paras[p] \in Seq(Piece)
  OBVIOUS
<1>2. IsPaged(after, paras, from, limit, n)
  <2> HIDE DEF n
  <2> QED
    BY <1>1, PagesExist
<1>3. Page(paras, from, limit) = after[n][1]
  BY DEF Page, IsPaged
<1> HIDE DEF after
<1>4. PICK f : Flattens(f, paras, Piece) /\ f[n] = FlattenSeq(paras)
  BY Flattened
<1>5. f \in [0..n -> Seq(Piece)] /\ f[0] = <<>> /\ \A p \in 1..n : f[p] = f[p - 1] \o paras[p]
  BY <1>4 DEF Flattens
<1> HIDE DEF n
<1>6. \A p \in 0..n : after[p] = IF p = 0 THEN <<<<>>, 0>>
                                 ELSE PageStep(from, limit, after[p - 1], paras[p])
  BY <1>2 DEF IsPaged
<1> DEFINE P == {p \in 0..n : /\ after[p] = <<after[p][1], Len(f[p])>>
                              /\ IsPage(after[p][1], f[p], from, limit)}
<1>7. 0 \in P
  <2>1. 0 \in 0..n
    BY <1>1
  <2>2. after[0] = <<<<>>, 0>>
    BY <1>6, <2>1
  <2>3. IsPage(<<>>, <<>>, from, limit)
    BY DEF IsPage
  <2>4. after[0][1] = <<>> /\ Len(f[0]) = 0
    BY <1>5, <2>2
  <2> QED
    BY <1>5, <2>1, <2>2, <2>3, <2>4
<1>8. ASSUME NEW p \in 0..(n - 1), p \in P
      PROVE  p + 1 \in P
  <2>1. p + 1 \in 1..n /\ p + 1 \in 0..n /\ p \in 0..n /\ (p + 1) - 1 = p /\ p + 1 # 0
    BY <1>1
  <2>2. PICK g \in Seq(Piece) : g = f[p]
    BY <1>5, <2>1
  <2>3. PICK para \in Seq(Piece) : para = paras[p + 1]
    BY <1>1, <2>1
  <2>4. PICK got : got = after[p][1]
    OBVIOUS
  <2>5. PICK pg : pg = after[p]
    OBVIOUS
  <2>6. pg = <<got, Len(g)>> /\ IsPage(got, g, from, limit)
    BY <1>8, <2>2, <2>4, <2>5
  <2>7. PICK next : next = PageStep(from, limit, pg, para)
    OBVIOUS
  <2>8. PageStep(from, limit, pg, para)[2] = Len(g \o para)
        /\ IsPage(PageStep(from, limit, pg, para)[1], g \o para, from, limit)
    BY <2>6, PageGrows
  <2>9. next[2] = Len(g \o para) /\ IsPage(next[1], g \o para, from, limit)
    BY <2>7, <2>8
  <2>10. after[p + 1] = next
    BY <1>6, <2>1, <2>3, <2>5, <2>7
  <2>11. f[p + 1] = g \o para
    BY <1>5, <2>1, <2>2, <2>3
  <2>12. next = <<next[1], next[2]>>
    BY <2>7 DEF PageStep
  <2>13. next = <<next[1], Len(f[p + 1])>>
    BY <2>9, <2>11, <2>12
  <2> QED
    BY <2>1, <2>9, <2>10, <2>11, <2>13
<1>9. \A p \in 0..n : p \in P
  <2> HIDE DEF P
  <2> QED
    BY <1>1, <1>7, <1>8, CountUp
<1>10. n \in 0..n
  BY <1>1
<1>11. IsPage(after[n][1], f[n], from, limit)
  BY <1>9, <1>10
<1> QED
  BY <1>3, <1>4, <1>11

\* What a client has read after n calls.
IsFollowed(read, paras, total, limit, n) ==
    read = [k \in 0..n |-> IF k = 0 THEN <<>> ELSE Follow(paras, total, limit, read[k - 1])]

\* The recursion of ReadByPages has a solution.
LEMMA CallsExist ==
    ASSUME NEW paras, NEW total, NEW limit, NEW n \in Nat
    PROVE  \E read : IsFollowed(read, paras, total, limit, n)
<1> DEFINE P == {m \in 0..n : \E read : IsFollowed(read, paras, total, limit, m)}
<1>1. 0 \in P
  <2> DEFINE f == [k \in 0..0 |-> <<>>]
  <2>1. IsFollowed(f, paras, total, limit, 0)
    BY DEF IsFollowed
  <2> QED
    BY <2>1
<1>2. ASSUME NEW i \in 0..(n - 1), i \in P
      PROVE  i + 1 \in P
  <2>1. PICK g : IsFollowed(g, paras, total, limit, i)
    BY <1>2
  <2> DEFINE m == i + 1
             f == [k \in 0..m |-> IF k = m THEN Follow(paras, total, limit, g[i]) ELSE g[k]]
  <2>2. ASSUME NEW k \in 0..m
        PROVE  f[k] = IF k = 0 THEN <<>> ELSE Follow(paras, total, limit, f[k - 1])
    <3>1. \A j \in 0..i : g[j] = IF j = 0 THEN <<>> ELSE Follow(paras, total, limit, g[j - 1])
      BY <2>1 DEF IsFollowed
    <3>2. k # 0 => k - 1 \in 0..m /\ k - 1 # m
      OBVIOUS
    <3>3. k # 0 => f[k - 1] = g[k - 1]
      BY <3>2
    <3>4. CASE k = m
      <4>1. k - 1 = i /\ k # 0
        BY <3>4
      <4> QED
        BY <3>3, <3>4, <4>1
    <3>5. CASE k # m
      <4>1. k \in 0..i
        BY <3>5
      <4> QED
        BY <3>1, <3>3, <3>5, <4>1
    <3> QED
      BY <3>4, <3>5
  <2>3. IsFollowed(f, paras, total, limit, m)
    <3> HIDE DEF f
    <3>1. f = [k \in 0..m |-> f[k]]
      BY DEF f
    <3> QED
      BY <2>2, <3>1 DEF IsFollowed
  <2>4. m \in 0..n
    OBVIOUS
  <2> QED
    BY <2>3, <2>4
<1>3. n \in P
  <2> HIDE DEF P
  <2> QED
    BY <1>1, <1>2, CountUp
<1> QED
  BY <1>3

\* sofar is a beginning of all, k words of it or more.
HasRead(sofar, all, k) ==
    /\ sofar \in Seq(Piece) /\ Len(sofar) <= Len(all) /\ k <= Len(sofar)
    /\ \A i \in 1..Len(sofar) : sofar[i] = all[i]

\* A call brings a client that has not read everything at least a word further.
LEMMA CallProgresses ==
    ASSUME NEW paras \in Seq(Seq(Piece)), NEW limit \in Nat, limit > 0, NEW k \in Nat, NEW sofar,
           k + 1 <= Len(FlattenSeq(paras)), HasRead(sofar, FlattenSeq(paras), k)
    PROVE  HasRead(Follow(paras, Len(FlattenSeq(paras)), limit, sofar), FlattenSeq(paras), k + 1)
<1> DEFINE all == FlattenSeq(paras)
           total == Len(all)
           from == Len(sofar)
           page == Page(paras, from, limit)
           n == Len(page)
<1>1. all \in Seq(Piece) /\ total \in Nat
  BY FlatType
<1>2. sofar \in Seq(Piece) /\ from \in Nat /\ from <= total /\ k <= from
      /\ \A i \in 1..from : sofar[i] = all[i]
  BY DEF HasRead
<1>3. IsPage(page, all, from, limit)
  BY <1>2, PageIs
<1> HIDE DEF all, from, total, page
<1>4. page \in Seq(Piece) /\ n \in Nat
      /\ n = (IF total <= from THEN 0 ELSE IF total - from < limit THEN total - from ELSE limit)
      /\ \A i \in 1..n : page[i] = all[from + i]
  BY <1>3 DEF IsPage, total
<1> HIDE DEF n
<1>5. CASE from < total
  <2>1. Follow(paras, total, limit, sofar) = sofar \o page
    BY <1>5 DEF Follow, from, page
  <2>2. n >= 1 /\ from + n <= total
    BY <1>1, <1>2, <1>4, <1>5
  <2>3. sofar \o page \in Seq(Piece) /\ Len(sofar \o page) = from + n
        /\ \A i \in 1..(from + n) : (sofar \o page)[i] = IF i <= from THEN sofar[i] ELSE page[i - from]
    BY <1>2, <1>4, ConcatProperties DEF from, n
  <2>4. ASSUME NEW i \in 1..(from + n)
        PROVE  (sofar \o page)[i] = all[i]
    <3>1. CASE i <= from
      <4>1. i \in 1..from
        BY <1>2, <3>1
      <4> QED
        BY <1>2, <2>3, <3>1, <4>1
    <3>2. CASE ~(i <= from)
      <4>1. PICK d \in 1..n : d = i - from /\ from + d = i
        BY <1>2, <1>4, <3>2
      <4>2. page[d] = all[i]
        BY <1>4, <4>1
      <4>3. (sofar \o page)[i] = page[d]
        BY <2>3, <3>2, <4>1
      <4> QED
        BY <4>2, <4>3
    <3> QED
      BY <3>1, <3>2
  <2>5. k + 1 <= from + n
    BY <1>2, <1>4, <2>2
  <2>6. HasRead(sofar \o page, all, k + 1)
    BY <2>2, <2>3, <2>4, <2>5 DEF HasRead, total
  <2> QED
    BY <2>1, <2>6 DEF all, total
<1>6. CASE ~(from < total)
  <2>1. Follow(paras, total, limit, sofar) = sofar
    BY <1>6 DEF Follow, from
  <2>2. from = total /\ k + 1 <= from
    <3>1. k + 1 <= total
      BY DEF total, all
    <3> QED
      BY <1>1, <1>2, <1>6, <3>1
  <2>3. HasRead(sofar, all, k + 1)
    BY <1>2, <2>2 DEF HasRead, from, total
  <2> QED
    BY <2>1, <2>3 DEF all, total
<1> QED
  BY <1>5, <1>6

\* Whoever follows next_position to its end has read every word, once.
LEMMA ReadsAll ==
    ASSUME NEW paras \in Seq(Seq(Piece)), paras = Paragraphs, NEW limit \in Nat, limit > 0
    PROVE  ReadByPages(limit) = FlattenSeq(paras)
<1> DEFINE all == FlattenSeq(paras)
           total == Len(all)
           read == CHOOSE r : IsFollowed(r, paras, total, limit, total)
<1>1. all \in Seq(Piece) /\ total \in Nat
  BY FlatType
<1>2. IsFollowed(read, paras, total, limit, total)
  <2> HIDE DEF total
  <2> QED
    BY <1>1, CallsExist
<1>3. ReadByPages(limit) = read[total]
  BY DEF ReadByPages, IsFollowed
<1> HIDE DEF read
<1>4. \A k \in 0..total : read[k] = IF k = 0 THEN <<>> ELSE Follow(paras, total, limit, read[k - 1])
  <2> HIDE DEF total
  <2> QED
    BY <1>2 DEF IsFollowed
<1> DEFINE P == {k \in 0..total : HasRead(read[k], all, k)}
<1>5. 0 \in P
  <2>1. 0 \in 0..total /\ read[0] = <<>>
    BY <1>1, <1>4
  <2>2. HasRead(<<>>, all, 0)
    BY <1>1 DEF HasRead
  <2> QED
    BY <2>1, <2>2
<1>6. ASSUME NEW k \in 0..(total - 1), k \in P
      PROVE  k + 1 \in P
  <2>1. k + 1 \in 0..total /\ k \in Nat /\ (k + 1) - 1 = k /\ k + 1 # 0 /\ k + 1 <= total
    BY <1>1
  <2>2. PICK sofar : sofar = read[k]
    OBVIOUS
  <2>3. HasRead(sofar, all, k)
    BY <1>6, <2>2
  <2>4. HasRead(Follow(paras, total, limit, sofar), all, k + 1)
    BY <2>1, <2>3, CallProgresses
  <2>5. read[k + 1] = Follow(paras, total, limit, sofar)
    <3> HIDE DEF total
    <3> QED
      BY <1>4, <2>1, <2>2
  <2> QED
    BY <2>1, <2>4, <2>5
<1>7. \A k \in 0..total : k \in P
  <2> HIDE DEF P, total
  <2> QED
    BY <1>1, <1>5, <1>6, CountUp
<1>8. HasRead(read[total], all, total)
  <2>1. total \in 0..total
    BY <1>1
  <2> QED
    BY <1>7, <2>1
<1>9. PICK last \in Seq(Piece) : last = read[total] /\ Len(last) <= Len(all) /\ Len(all) <= Len(last)
                                 /\ \A i \in 1..Len(last) : last[i] = all[i]
  <2> HIDE DEF all
  <2> QED
    BY <1>8 DEF HasRead
<1>10. Len(last) = Len(all)
  BY <1>1, <1>9
<1>11. last = all
  <2> HIDE DEF all
  <2> QED
    BY <1>1, <1>9, <1>10, SeqEqual
<1> QED
  BY <1>3, <1>9, <1>11

\* Normalizing and rounding leave what a word shows alone.
LEMMA WordsShow ==
    ASSUME TextOK
    PROVE  ChunksOf(Words) = ChunksOf(RawWords)
<1> DEFINE raw == RawWords
           norm == Normalized(raw)
           ws == Words
           n == Len(raw)
<1>1. raw \in Seq(RawWord) /\ n \in Nat /\ DOMAIN raw = 1..n
  BY RawIs
<1>2. \A k \in 1..n : raw[k] \in RawWord
  BY <1>1
<1>3. ws = [k \in DOMAIN norm |-> [norm[k] EXCEPT !.weight = Hundredths(@)]]
  BY DEF Words
<1> HIDE DEF raw, n, ws
<1>4. DOMAIN norm = 1..n /\ \A k \in 1..n : norm[k].chunk = raw[k].chunk
                                            /\ "weight" \in DOMAIN norm[k]
                                            /\ "chunk" \in DOMAIN norm[k]
  <2>1. CASE Len(raw) < NormalizeMin
    <3>1. norm = raw
      BY <2>1 DEF Normalized
    <3> QED
      BY <1>1, <1>2, <3>1 DEF RawWord
  <2>2. CASE ~(Len(raw) < NormalizeMin)
    <3>1. norm = [k \in 1..n |-> [raw[k] EXCEPT !.weight = (@ * 1000) \div Mean(raw)]]
      BY <1>1, <2>2 DEF Normalized
    <3>2. \A k \in 1..n : norm[k] = [raw[k] EXCEPT !.weight = (raw[k].weight * 1000) \div Mean(raw)]
      BY <3>1
    <3>3. DOMAIN norm = 1..n
      BY <3>1
    <3> HIDE DEF norm
    <3>4. ASSUME NEW k \in 1..n
          PROVE  norm[k].chunk = raw[k].chunk /\ DOMAIN norm[k] = {"chunk", "orp", "weight"}
      <4>1. PICK w \in RawWord : w = raw[k]
        BY <1>2
      <4>2. PICK x : x = (raw[k].weight * 1000) \div Mean(raw)
        OBVIOUS
      <4>3. norm[k] = [w EXCEPT !.weight = x]
        BY <3>2, <4>1, <4>2
      <4> QED
        BY <4>1, <4>3 DEF RawWord
    <3> QED
      BY <3>3, <3>4
  <2> QED
    BY <2>1, <2>2
<1> HIDE DEF norm
<1>5. DOMAIN ws = 1..n
  BY <1>3, <1>4
<1>6. ASSUME NEW k \in 1..n
      PROVE  ws[k].chunk = raw[k].chunk
  <2>1. PICK w : w = norm[k] /\ w.chunk = raw[k].chunk /\ "chunk" \in DOMAIN w
    BY <1>4
  <2>2. PICK x : x = Hundredths(norm[k].weight)
    OBVIOUS
  <2>3. ws[k] = [w EXCEPT !.weight = x]
    BY <1>3, <1>4, <2>1, <2>2
  <2>4. [w EXCEPT !.weight = x].chunk = w.chunk
    BY <2>1
  <2> QED
    BY <2>1, <2>3, <2>4
<1>7. ChunksOf(ws) = [k \in 1..n |-> ws[k].chunk] /\ ChunksOf(raw) = [k \in 1..n |-> raw[k].chunk]
  BY <1>1, <1>5 DEF ChunksOf
<1> QED
  BY <1>6, <1>7 DEF ws, raw

\* A reading position means the same word in the timeline, in GET /text and to
\* a client that pages through get_book_text, for every text, every page size
\* and wherever the words are cut (paragraphs and tokenize, core/src/lib.rs;
\* get_book_text, server/src/mcp.rs).
THEOREM ViewsStayAligned == TimelineSpec => []ViewsAlign
<1>1. TextOK => ViewsAlign
  <2> SUFFICES ASSUME TextOK
               PROVE  ViewsAlign
    OBVIOUS
  <2>1. ChunksOf(Words) = ChunksOf(RawWords)
    BY WordsShow
  <2>2. FlattenSeq(Paragraphs) = ChunksOf(Words)
    BY <2>1, ParagraphsAlign
  <2>3. PICK paras \in Seq(Seq(Piece)) : paras = Paragraphs
    BY ParagraphsAre
  <2>4. ASSUME NEW limit \in PageSizes
        PROVE  ReadByPages(limit) = ChunksOf(Words)
    <3>1. limit \in Nat /\ limit > 0
      BY TimelineAssumption
    <3>2. ReadByPages(limit) = FlattenSeq(paras)
      BY <2>3, <3>1, ReadsAll
    <3> QED
      BY <2>2, <2>3, <3>2
  <2>5. ChunksOf(Words) = [k \in DOMAIN Words |-> Words[k].chunk]
    BY DEF ChunksOf
  <2> QED
    BY <2>2, <2>4, <2>5 DEF ViewsAlign
<1> QED
  BY <1>1, TextStays, PTL
=============================================================================

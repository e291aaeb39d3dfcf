---------------------------- MODULE IngestProofs ----------------------------
(***************************************************************************)
(* Machine-checked proofs about what bounds the work of the server.        *)
(*                                                                         *)
(* Ingest, for any number of requests, slots and redirects: extraction     *)
(* children stay within the slots and work for someone who waits, no slot  *)
(* idles while an upload waits, no private address is contacted, and       *)
(* overlapping uploads keep the weekly limit.  The argument: the waiters   *)
(* are exactly the queued requests, each once, so the first of them can    *)
(* take over any slot that is released; and what the inserting closure     *)
(* counts includes the uploads of its own week.                            *)
(*                                                                         *)
(* RateLimiter, for any rule, clients, headers, threads and sweeps: no     *)
(* stretch of a window's length lets twice the maximum through a bucket,   *)
(* nor three times where threads are held up before the lock; and a client *)
(* whose CF-Connecting-IP, if any, was not passed on by a proxy is charged *)
(* to its own bucket.  The argument: the admissions of a bucket can be cut *)
(* into windows at those that opened one; a window has at most the         *)
(* maximum, and two are opened at least Apart from each other.  What is    *)
(* dropped from the map, by the sweep or by the next request, was over, so *)
(* the history keeps its cut although the map forgets it.                  *)
(***************************************************************************)
EXTENDS Ingest, RateLimiter, Integers, FiniteSetTheorems, SequenceTheorems,
        WellFoundedInduction, TLAPS

-----------------------------------------------------------------------------
(* Sequences without repetitions.                                          *)

\* The first waiter leaves, and only it.
LEMMA TailOfInjective ==
    ASSUME NEW Q, NEW s \in Seq(Q), s # <<>>, IsInjective(s)
    PROVE  /\ Tail(s) \in Seq(Q) /\ IsInjective(Tail(s)) /\ Head(s) \in Q
           /\ ToSet(Tail(s)) = ToSet(s) \ {Head(s)} /\ Head(s) \in ToSet(s)
<1>1. /\ Tail(s) \in Seq(Q) /\ Len(Tail(s)) = Len(s) - 1 /\ Len(s) \in Nat \ {0}
      /\ \A i \in 1..Len(s) - 1 : Tail(s)[i] = s[i + 1]
      /\ Head(s) = s[1] /\ DOMAIN s = 1..Len(s) /\ DOMAIN Tail(s) = 1..Len(s) - 1
  OBVIOUS
<1>2. IsInjective(Tail(s))
  BY <1>1 DEF IsInjective
<1>3. Head(s) \in ToSet(s) /\ Head(s) \in Q
  BY <1>1 DEF ToSet
<1>4. ASSUME NEW x \in ToSet(Tail(s)) PROVE x \in ToSet(s) \ {Head(s)}
  <2>1. PICK i \in 1..Len(s) - 1 : x = s[i + 1]
    BY <1>1, <1>4 DEF ToSet
  <2>2. i + 1 \in DOMAIN s /\ 1 \in DOMAIN s /\ i + 1 # 1
    BY <1>1
  <2>3. s[i + 1] # s[1]
    BY <2>2 DEF IsInjective
  <2>4. QED
    BY <1>1, <2>1, <2>2, <2>3 DEF ToSet
<1>5. ASSUME NEW x \in ToSet(s) \ {Head(s)} PROVE x \in ToSet(Tail(s))
  <2>1. PICK i \in 1..Len(s) : x = s[i] /\ i # 1
    BY <1>1, <1>5 DEF ToSet
  <2>2. i - 1 \in 1..Len(s) - 1 /\ Tail(s)[i - 1] = x
    BY <1>1, <2>1
  <2>3. QED
    BY <1>1, <2>2 DEF ToSet
<1>6. QED
  BY <1>1, <1>2, <1>3, <1>4, <1>5

\* Who leaves the line leaves the others in it.
LEMMA RemoveOfInjective ==
    ASSUME NEW Q, NEW s \in Seq(Q), IsInjective(s), NEW k \in DOMAIN s
    PROVE  /\ RemoveAt(s, k) \in Seq(Q) /\ IsInjective(RemoveAt(s, k))
           /\ ToSet(RemoveAt(s, k)) = ToSet(s) \ {s[k]}
<1> DEFINE t == RemoveAt(s, k)
<1>1. DOMAIN s = 1..Len(s) /\ Len(s) \in Nat \ {0} /\ k \in 1..Len(s)
  OBVIOUS
<1>2. /\ SubSeq(s, 1, k - 1) \in Seq(Q) /\ Len(SubSeq(s, 1, k - 1)) = k - 1
      /\ \A i \in 1..k - 1 : SubSeq(s, 1, k - 1)[i] = s[i]
  BY <1>1
<1>3. /\ SubSeq(s, k + 1, Len(s)) \in Seq(Q) /\ Len(SubSeq(s, k + 1, Len(s))) = Len(s) - k
      /\ \A i \in 1..Len(s) - k : SubSeq(s, k + 1, Len(s))[i] = s[k + i]
  <2> DEFINE v == SubSeq(s, k + 1, Len(s))
             n == IF k + 1 <= Len(s) THEN Len(s) - (k + 1) + 1 ELSE 0
  <2>1. k + 1 \in Int /\ Len(s) \in Int /\ \A i \in k + 1 .. Len(s) : s[i] \in Q
    BY <1>1
  <2>2. v \in Seq(Q) /\ Len(v) = n /\ \A i \in 1..n : v[i] = s[k + 1 + i - 1]
    BY <2>1, SubSeqProperties
  <2>3. n = Len(s) - k /\ \A i \in 1..n : k + 1 + i - 1 = k + i
    BY <1>1
  <2> HIDE DEF v, n
  <2>4. v \in Seq(Q) /\ Len(v) = Len(s) - k /\ \A i \in 1..Len(s) - k : v[i] = s[k + i]
    BY <2>2, <2>3
  <2>5. QED
    BY <2>4 DEF v
<1>4. t \in Seq(Q) /\ Len(t) = Len(s) - 1 /\ DOMAIN t = 1..Len(s) - 1
  <2>1. /\ t \in Seq(Q)
        /\ Len(t) = Len(SubSeq(s, 1, k - 1)) + Len(SubSeq(s, k + 1, Len(s)))
    BY <1>2, <1>3, ConcatProperties DEF RemoveAt
  <2>2. Len(t) = (k - 1) + (Len(s) - k)
    BY <2>1, <1>2, <1>3
  <2>3. Len(t) = Len(s) - 1
    BY <2>2, <1>1
  <2>4. QED
    BY <2>1, <2>3, LenProperties
<1>5. ASSUME NEW i \in 1..Len(s) - 1 PROVE t[i] = IF i < k THEN s[i] ELSE s[i + 1]
  <2> DEFINE u == SubSeq(s, 1, k - 1)
             v == SubSeq(s, k + 1, Len(s))
  <2>1. t = u \o v
    BY DEF RemoveAt
  <2>2. /\ u \in Seq(Q) /\ v \in Seq(Q) /\ Len(u) = k - 1 /\ Len(v) = Len(s) - k
        /\ \A j \in 1..k - 1 : u[j] = s[j]
        /\ \A j \in 1..Len(s) - k : v[j] = s[k + j]
    BY <1>2, <1>3
  <2>3. \A j \in 1..Len(u) + Len(v) : (u \o v)[j] = IF j <= Len(u) THEN u[j] ELSE v[j - Len(u)]
    BY <2>2, ConcatProperties
  <2> HIDE DEF t, u, v
  <2>4. CASE i < k
    <3>1. i \in 1..Len(u) + Len(v) /\ i <= Len(u) /\ i \in 1..k - 1
      BY <2>2, <2>4, <1>1
    <3>2. t[i] = u[i]
      BY <2>1, <2>3, <3>1
    <3>3. QED
      BY <3>1, <3>2, <2>2, <2>4
  <2>5. CASE ~(i < k)
    <3>1. /\ i \in 1..Len(u) + Len(v) /\ ~(i <= Len(u))
          /\ i - Len(u) \in 1..Len(s) - k /\ k + (i - Len(u)) = i + 1
      <4>1. Len(u) = k - 1 /\ Len(v) = Len(s) - k /\ Len(s) \in Nat /\ k \in 1..Len(s)
        BY <2>2, <1>1
      <4>2. i \in Nat /\ i <= Len(s) - 1 /\ k <= i /\ k \in Nat
        BY <4>1, <2>5
      <4>3. Len(u) + Len(v) = Len(s) - 1 /\ i - Len(u) = i - k + 1
        BY <4>1, <4>2
      <4>4. i - k + 1 \in 1..Len(s) - k /\ k + (i - k + 1) = i + 1 /\ ~(i <= k - 1)
        BY <4>1, <4>2
      <4>5. QED
        BY <4>1, <4>2, <4>3, <4>4
    <3>2. t[i] = v[i - Len(u)]
      BY <2>1, <2>3, <3>1
    <3>3. v[i - Len(u)] = s[k + (i - Len(u))]
      BY <3>1, <2>2
    <3>4. QED
      BY <3>1, <3>2, <3>3, <2>5
  <2>6. QED
    BY <2>4, <2>5
<1> HIDE DEF t
<1>6. IsInjective(t)
  <2> DEFINE from(i) == IF i < k THEN i ELSE i + 1
  <2>1. ASSUME NEW i \in 1..Len(s) - 1 PROVE from(i) \in DOMAIN s /\ t[i] = s[from(i)]
    BY <1>1, <1>5
  <2>2. ASSUME NEW i \in 1..Len(s) - 1, NEW j \in 1..Len(s) - 1, from(i) = from(j) PROVE i = j
    BY <1>1, <2>2
  <2> HIDE DEF from
  <2>3. ASSUME NEW i \in DOMAIN t, NEW j \in DOMAIN t, t[i] = t[j] PROVE i = j
    <3>1. from(i) \in DOMAIN s /\ from(j) \in DOMAIN s /\ s[from(i)] = s[from(j)]
      BY <1>4, <2>1, <2>3
    <3>2. from(i) = from(j)
      BY <3>1 DEF IsInjective
    <3>3. QED
      BY <3>2, <1>4, <2>2
  <2>4. QED
    BY <2>3 DEF IsInjective
<1>7. ASSUME NEW x \in ToSet(t) PROVE x \in ToSet(s) \ {s[k]}
  <2>1. PICK i \in 1..Len(s) - 1 : x = t[i]
    BY <1>4, <1>7 DEF ToSet
  <2>2. PICK j \in 1..Len(s) : j # k /\ x = s[j]
    BY <2>1, <1>5, <1>1
  <2>3. QED
    BY <2>2, <1>1 DEF IsInjective, ToSet
<1>8. ASSUME NEW x \in ToSet(s) \ {s[k]} PROVE x \in ToSet(t)
  <2>1. PICK i \in 1..Len(s) : x = s[i] /\ i # k
    BY <1>1, <1>8 DEF ToSet
  <2>2. CASE i < k
    BY <2>1, <2>2, <1>1, <1>4, <1>5 DEF ToSet
  <2>3. CASE i > k
    <3>1. i - 1 \in 1..Len(s) - 1 /\ t[i - 1] = s[i]
      BY <2>1, <2>3, <1>1, <1>5
    <3>2. QED
      BY <3>1, <2>1, <1>4 DEF ToSet
  <2>4. QED
    BY <2>1, <2>2, <2>3, <1>1
<1>9. QED
  BY <1>4, <1>6, <1>7, <1>8 DEF t

\* Who joins the line is the only one that does.
LEMMA AppendOfInjective ==
    ASSUME NEW Q, NEW s \in Seq(Q), IsInjective(s), NEW x \in Q, x \notin ToSet(s)
    PROVE  /\ Append(s, x) \in Seq(Q) /\ IsInjective(Append(s, x))
           /\ ToSet(Append(s, x)) = ToSet(s) \union {x}
<1> DEFINE t == Append(s, x)
<1>1. /\ t \in Seq(Q) /\ Len(t) = Len(s) + 1 /\ Len(s) \in Nat
      /\ DOMAIN s = 1..Len(s) /\ DOMAIN t = 1..Len(s) + 1
      /\ \A i \in 1..Len(s) : t[i] = s[i]
      /\ t[Len(s) + 1] = x
  OBVIOUS
<1> HIDE DEF t
<1>2. \A i \in 1..Len(s) : s[i] # x
  BY <1>1 DEF ToSet
<1>3. IsInjective(t)
  BY <1>1, <1>2 DEF IsInjective
<1>4. ToSet(t) = ToSet(s) \union {x}
  <2>1. \A y \in ToSet(t) : y \in ToSet(s) \union {x}
    BY <1>1 DEF ToSet
  <2>2. ToSet(s) \subseteq ToSet(t)
    BY <1>1 DEF ToSet
  <2>3. x \in ToSet(t)
    BY <1>1 DEF ToSet
  <2>4. QED
    BY <2>1, <2>2, <2>3
<1>5. QED
  BY <1>1, <1>3, <1>4 DEF t

-----------------------------------------------------------------------------
(* The invariant.                                                          *)

Queued == {r \in Requests : At(r, "queued")}

\* What is going to be connected to was vetted.
Pinned == \A r \in Requests : At(r, "connect") => req[r].to = "public"

\* The rows dated in a week that were counted against its limit and never left.
Counted(w) == {b \in Rows : books[b] = [week |-> w, place |-> "counted"]}

\* Handlers, waiters, slots and children fit together.
Handling ==
    /\ req \in [Requests -> Handlers \union {Idle}]
    /\ child \in [Requests -> {"none", "busy", "wrote", "killed"}]
    /\ Pinned
    /\ queue \in Seq(Requests) /\ IsInjective(queue) /\ ToSet(queue) = Queued
    /\ \A r \in Requests : child[r] \in {"busy", "wrote"} <=> At(r, "running")
    /\ IsFiniteSet(Running) /\ Cardinality(Running) <= MaxConcurrent
    /\ NoIdleSlot

IInv ==
    /\ Handling
    /\ books \in [Rows -> Books \union {NoBook}] /\ week \in Weeks
    /\ WeeklyQuota
    /\ reached \subseteq {"public"}

LEMMA InitIInv == Init => IInv
<1> SUFFICES ASSUME Init PROVE IInv
  OBVIOUS
<1> USE DEF Init
<1>1. Queued = {} /\ Running = {}
  BY DEF Queued, Running, At
<1>2. queue \in Seq(Requests) /\ IsInjective(queue) /\ ToSet(queue) = {}
  BY DEF IsInjective, ToSet
<1>3. IsFiniteSet(Running) /\ Cardinality(Running) <= MaxConcurrent
  BY <1>1, FS_EmptySet, IngestAssumption
<1>4. Pinned /\ NoIdleSlot /\ \A r \in Requests : ~At(r, "running")
  BY DEF Pinned, NoIdleSlot, At
<1>5. week \in Weeks /\ Limit \in Nat
  BY IngestAssumption DEF Weeks
<1>6. WeeklyQuota
  <2> SUFFICES ASSUME NEW w \in Weeks PROVE Cardinality(Counted(w)) <= Limit
    BY DEF WeeklyQuota, Counted
  <2>1. [week |-> w, place |-> "counted"] \in Books
    BY DEF Books
  <2>2. Counted(w) = {}
    BY <2>1, NoneAssumption DEF Counted
  <2>3. Cardinality({}) = 0
    BY FS_EmptySet
  <2>4. QED
    BY <2>2, <2>3, <1>5
<1>8. QED
  BY <1>1, <1>2, <1>3, <1>4, <1>5, <1>6 DEF IInv, Handling

\* The record of a handler tells where it is.
LEMMA Locals ==
    ASSUME Handling, NEW r \in Requests, req[r] # Idle
    PROVE  /\ req[r] \in Handlers
           /\ req[r].pc \in {"resolve", "sniff", "queued", "running", "prepared"} =>
                  req[r] \in [pc : {"resolve", "sniff", "queued", "running", "prepared"},
                              hop : 0..MaxRedirects]
           /\ req[r].pc = "connect" =>
                  req[r] \in [pc : {"connect"}, hop : 0..MaxRedirects, to : Addresses]
           /\ req[r].pc = "limits" => req[r] \in [pc : {"limits"}, week : Weeks]
           /\ req[r].pc \in {"insert", "detached"} =>
                  req[r] \in [pc : {"insert", "detached"}, limited : BOOLEAN, week : Weeks]
<1>1. req[r] \in Handlers
  BY DEF Handling
<1>2. QED
  BY <1>1 DEF Handlers

\* A step in which one request moves, neither of nor into a line or a slot.
Quiet(r, h) ==
    /\ h \in Handlers \union {Idle}
    /\ h = Idle \/ (h.pc \notin {"queued", "running"} /\ (h.pc = "connect" => h.to = "public"))
    /\ ~At(r, "queued") /\ ~At(r, "running")
    /\ req' = [req EXCEPT ![r] = h]
    /\ UNCHANGED <<queue, child>>

LEMMA QuietStep ==
    ASSUME Handling, NEW r \in Requests, NEW h, Quiet(r, h)
    PROVE  Handling'
<1>1. /\ req' \in [Requests -> Handlers \union {Idle}] /\ req'[r] = h
      /\ \A q \in Requests : q # r => req'[q] = req[q]
  BY DEF Handling, Quiet
<1>2. ~At(r, "queued")' /\ ~At(r, "running")' /\ (At(r, "connect")' => req'[r].to = "public")
  BY <1>1 DEF Quiet, At
<1>3. Queued' = Queued /\ Running' = Running
  BY <1>1, <1>2 DEF Queued, Running, At, Quiet
<1>4. Pinned'
  BY <1>1, <1>2 DEF Handling, Pinned, At
<1>5. \A q \in Requests : child'[q] \in {"busy", "wrote"} <=> At(q, "running")'
  BY <1>1, <1>2 DEF Handling, Quiet, At
<1>6. NoIdleSlot'
  BY <1>3 DEF Handling, NoIdleSlot, Quiet
<1>7. QED
  BY <1>1, <1>3, <1>4, <1>5, <1>6 DEF Handling, Quiet

\* An upload takes a free slot.
LEMMA SlotTaken ==
    ASSUME Handling, NEW r \in Requests, At(r, "sniff"), Free, Goto(r, "running"),
           child' = [child EXCEPT ![r] = "busy"], queue' = queue
    PROVE  Handling'
<1> DEFINE h == [req[r] EXCEPT !.pc = "running"]
<1>1. h \in Handlers /\ h.pc = "running" /\ h # Idle
  BY Locals, NoneAssumption DEF At, Handlers
<1>2. /\ req' \in [Requests -> Handlers \union {Idle}] /\ req'[r] = h
      /\ \A q \in Requests : q # r => req'[q] = req[q]
  BY <1>1 DEF Handling, Goto
<1> HIDE DEF h
<1>3. At(r, "running")' /\ ~At(r, "queued")' /\ ~At(r, "connect")' /\ ~At(r, "running") /\ ~At(r, "queued")
  BY <1>1, <1>2 DEF At
<1>4. Queued' = Queued /\ Running' = Running \union {r} /\ r \notin Running
  BY <1>2, <1>3 DEF Queued, Running, At
<1>5. Pinned'
  BY <1>2, <1>3 DEF Handling, Pinned, At
<1>6. /\ child' \in [Requests -> {"none", "busy", "wrote", "killed"}]
      /\ \A q \in Requests : child'[q] \in {"busy", "wrote"} <=> At(q, "running")'
  BY <1>2, <1>3 DEF Handling, At
<1>7. IsFiniteSet(Running') /\ Cardinality(Running') = Cardinality(Running) + 1
  BY <1>4, FS_AddElement DEF Handling
<1>8. Cardinality(Running) \in Nat /\ MaxConcurrent \in Nat
  BY FS_CardinalityType, IngestAssumption DEF Handling
<1>9. Cardinality(Running') <= MaxConcurrent /\ queue = <<>>
  BY <1>7, <1>8 DEF Free, Handling, NoIdleSlot
<1>10. QED
  BY <1>2, <1>4, <1>5, <1>6, <1>7, <1>9 DEF Handling, NoIdleSlot

\* An upload joins the line when all slots are taken.
LEMMA LineJoined ==
    ASSUME Handling, NEW r \in Requests, At(r, "sniff"), ~Free, Goto(r, "queued"),
           queue' = Append(queue, r), child' = child
    PROVE  Handling'
<1> DEFINE h == [req[r] EXCEPT !.pc = "queued"]
<1>1. h \in Handlers /\ h.pc = "queued" /\ h # Idle
  BY Locals, NoneAssumption DEF At, Handlers
<1>2. /\ req' \in [Requests -> Handlers \union {Idle}] /\ req'[r] = h
      /\ \A q \in Requests : q # r => req'[q] = req[q]
  BY <1>1 DEF Handling, Goto
<1> HIDE DEF h
<1>3. At(r, "queued")' /\ ~At(r, "running")' /\ ~At(r, "connect")' /\ ~At(r, "running") /\ ~At(r, "queued")
  BY <1>1, <1>2 DEF At
<1>4. Queued' = Queued \union {r} /\ r \notin Queued /\ Running' = Running
  BY <1>2, <1>3 DEF Queued, Running, At
<1>5. Pinned'
  BY <1>2, <1>3 DEF Handling, Pinned, At
<1>6. \A q \in Requests : child'[q] \in {"busy", "wrote"} <=> At(q, "running")'
  BY <1>2, <1>3 DEF Handling, At
<1>7. queue' \in Seq(Requests) /\ IsInjective(queue') /\ ToSet(queue') = Queued'
  BY <1>4, AppendOfInjective DEF Handling
<1>8. Cardinality(Running) \in Nat /\ MaxConcurrent \in Nat
  BY FS_CardinalityType, IngestAssumption DEF Handling
<1>9. Cardinality(Running) = MaxConcurrent
  BY <1>8 DEF Free, Handling
<1>10. QED
  BY <1>2, <1>4, <1>5, <1>6, <1>7, <1>9 DEF Handling, NoIdleSlot

\* A waiter gives up.
LEMMA LineLeft ==
    ASSUME Handling, NEW r \in Requests, At(r, "queued"), Answered(r), queue' = Left(r),
           child' = child
    PROVE  Handling'
<1>1. /\ req' \in [Requests -> Handlers \union {Idle}] /\ req'[r] = Idle
      /\ \A q \in Requests : q # r => req'[q] = req[q]
  BY DEF Handling, Answered
<1>2. \A pc \in {"queued", "running", "connect"} : ~At(r, pc)'
  BY <1>1 DEF At
<1>3. Queued' = Queued \ {r} /\ r \in Queued /\ Running' = Running /\ ~At(r, "running")
  BY <1>1, <1>2 DEF Queued, Running, At
<1>4. Pinned'
  BY <1>1, <1>2 DEF Handling, Pinned, At
<1>5. \A q \in Requests : child'[q] \in {"busy", "wrote"} <=> At(q, "running")'
  BY <1>1, <1>2, <1>3 DEF Handling, At
<1>6. queue' \in Seq(Requests) /\ IsInjective(queue') /\ ToSet(queue') = Queued'
  <2> DEFINE k == CHOOSE i \in DOMAIN queue : queue[i] = r
  <2>1. \E i \in DOMAIN queue : queue[i] = r
    BY <1>3 DEF Handling, ToSet
  <2>2. k \in DOMAIN queue /\ queue[k] = r
    BY <2>1
  <2>3. queue' = RemoveAt(queue, k)
    BY DEF Left
  <2> HIDE DEF k
  <2>4. QED
    BY <2>2, <2>3, <1>3, RemoveOfInjective DEF Handling
<1>7. queue # <<>>
  BY <1>3 DEF Handling, ToSet
<1>8. QED
  BY <1>1, <1>3, <1>4, <1>5, <1>6, <1>7 DEF Handling, NoIdleSlot

\* A slot and a child are let go; the first waiter takes the slot over.
LEMMA SlotReleased ==
    ASSUME Handling, NEW r \in Requests, At(r, "running"),
           NEW left \in {"none", "killed"}, Release(r, left),
           NEW pc \in {"prepared", "answered"}, req' = After(r, pc)
    PROVE  Handling'
<1> DEFINE h == IF pc = "answered" THEN Idle ELSE [req[r] EXCEPT !.pc = pc]
<1>1. /\ h \in Handlers \union {Idle}
      /\ h = Idle \/ h.pc = "prepared"
  BY Locals DEF At, Handlers
<1>2. Heir \subseteq Queued /\ r \in Running /\ r \notin Queued /\ Queued \intersect Running = {}
  <2>1. Heir \subseteq ToSet(queue)
    BY TailOfInjective DEF Heir, Handling
  <2>2. QED
    BY <2>1 DEF Handling, Queued, Running, At
<1>3. \A q \in Queued : /\ [req[q] EXCEPT !.pc = "running"] \in Handlers
                        /\ [req[q] EXCEPT !.pc = "running"].pc = "running"
                        /\ [req[q] EXCEPT !.pc = "running"] # Idle
  <2> SUFFICES ASSUME NEW q \in Queued
               PROVE  /\ [req[q] EXCEPT !.pc = "running"] \in Handlers
                      /\ [req[q] EXCEPT !.pc = "running"].pc = "running"
                      /\ [req[q] EXCEPT !.pc = "running"] # Idle
    OBVIOUS
  <2>1. q \in Requests /\ req[q] # Idle /\ req[q].pc = "queued"
    BY DEF Queued, At
  <2>2. QED
    BY <2>1, Locals, NoneAssumption DEF Handlers
<1>4. /\ req'[r] = h
      /\ \A q \in Heir : req'[q] = [req[q] EXCEPT !.pc = "running"]
      /\ \A q \in Requests : q # r /\ q \notin Heir => req'[q] = req[q]
  BY <1>2 DEF After, Queued
<1>5. req' \in [Requests -> Handlers \union {Idle}]
  <2>1. ASSUME NEW q \in Requests PROVE req'[q] \in Handlers \union {Idle}
    <3>1. CASE q = r
      BY <3>1, <1>1, <1>4
    <3>2. CASE q \in Heir
      <4>1. req'[q] = [req[q] EXCEPT !.pc = "running"]
        BY <3>2, <1>4
      <4>2. [req[q] EXCEPT !.pc = "running"] \in Handlers
        BY <3>2, <1>2, <1>3
      <4>3. QED
        BY <4>1, <4>2
    <3>3. CASE q # r /\ q \notin Heir
      BY <3>3, <1>4 DEF Handling
    <3>4. QED
      BY <3>1, <3>2, <3>3
  <2>2. req' = [q \in Requests |-> req'[q]]
    BY DEF After
  <2>3. QED
    BY <2>1, <2>2
<1> HIDE DEF h
<1>6. \A s \in {"queued", "running", "connect"} : ~At(r, s)'
  BY <1>1, <1>4 DEF At
<1>7. \A q \in Heir : At(q, "running")' /\ ~At(q, "queued")' /\ ~At(q, "connect")'
  <2> SUFFICES ASSUME NEW q \in Heir
               PROVE  At(q, "running")' /\ ~At(q, "queued")' /\ ~At(q, "connect")'
    OBVIOUS
  <2> DEFINE x == [req[q] EXCEPT !.pc = "running"]
  <2>1. x.pc = "running" /\ x # Idle
    BY <1>2, <1>3
  <2>2. req'[q] = x
    BY <1>4
  <2> HIDE DEF x
  <2>3. QED
    BY <2>1, <2>2 DEF At
<1>8. \A q \in Requests : q # r /\ q \notin Heir => \A s : At(q, s)' <=> At(q, s)
  BY <1>4 DEF At
<1>9. Queued' = Queued \ Heir
  BY <1>2, <1>6, <1>7, <1>8 DEF Queued
<1>10. Running' = (Running \ {r}) \union Heir
  <2>1. Heir \subseteq Requests
    BY <1>2 DEF Queued
  <2>2. QED
    BY <2>1, <1>2, <1>6, <1>7, <1>8 DEF Running
<1>11. Pinned'
  BY <1>4, <1>6, <1>7, <1>8 DEF Handling, Pinned
<1>12. /\ child' \in [Requests -> {"none", "busy", "wrote", "killed"}]
       /\ \A q \in Requests : child'[q] \in {"busy", "wrote"} <=> At(q, "running")'
  <2>1. child' = [q \in Requests |-> IF q = r THEN left ELSE IF q \in Heir THEN "busy" ELSE child[q]]
    BY DEF Release
  <2>2. child' \in [Requests -> {"none", "busy", "wrote", "killed"}]
    BY <2>1 DEF Handling
  <2>3. \A q \in Requests : child'[q] \in {"busy", "wrote"} <=> At(q, "running")'
    BY <2>1, <1>2, <1>6, <1>7, <1>8 DEF Handling
  <2>4. QED
    BY <2>2, <2>3
<1>13. /\ queue' \in Seq(Requests) /\ IsInjective(queue')
       /\ ToSet(queue') = Queued'
  <2>1. CASE queue = <<>>
    BY <2>1, <1>9 DEF Release, Heir, Handling
  <2>2. CASE queue # <<>>
    BY <2>2, <1>9, TailOfInjective DEF Release, Heir, Handling
  <2>3. QED
    BY <2>1, <2>2
<1>14. /\ IsFiniteSet(Running \ {r}) /\ Cardinality(Running \ {r}) = Cardinality(Running) - 1
       /\ Cardinality(Running) \in Nat /\ MaxConcurrent \in Nat
  BY <1>2, FS_RemoveElement, FS_CardinalityType, IngestAssumption DEF Handling
<1>15. CASE queue = <<>>
  <2>1. Running' = Running \ {r} /\ queue' = <<>>
    BY <1>15, <1>10 DEF Heir, Release
  <2>2. IsFiniteSet(Running') /\ Cardinality(Running') <= MaxConcurrent
    BY <2>1, <1>14 DEF Handling
  <2>3. QED
    BY <2>1, <2>2, <1>5, <1>11, <1>12, <1>13 DEF Handling, NoIdleSlot
<1>16. CASE queue # <<>>
  <2>1. Running' = (Running \ {r}) \union {Head(queue)} /\ Head(queue) \notin Running \ {r}
    BY <1>16, <1>2, <1>10 DEF Heir
  <2>2. IsFiniteSet(Running') /\ Cardinality(Running') = Cardinality(Running \ {r}) + 1
    BY <2>1, <1>14, FS_AddElement
  <2>3. Cardinality(Running') = MaxConcurrent
    BY <2>2, <1>14, <1>16 DEF Handling, NoIdleSlot
  <2>4. Cardinality(Running') <= MaxConcurrent
    BY <2>3, <1>14
  <2>5. QED
    BY <2>2, <2>3, <2>4, <1>5, <1>11, <1>12, <1>13 DEF Handling, NoIdleSlot
<1>17. QED
  BY <1>15, <1>16

\* A child goes on, or is gone, without its request.
LEMMA ChildMoves ==
    ASSUME Handling, NEW r \in Requests, NEW s \in {"none", "wrote"},
           s = "wrote" <=> child[r] \in {"busy", "wrote"},
           child' = [child EXCEPT ![r] = s], UNCHANGED <<req, queue>>
    PROVE  Handling'
<1>1. /\ child' \in [Requests -> {"none", "busy", "wrote", "killed"}]
      /\ \A q \in Requests : child'[q] \in {"busy", "wrote"} <=> At(q, "running")'
  BY DEF Handling, At
<1>2. Queued' = Queued /\ Running' = Running /\ Pinned' /\ NoIdleSlot'
  BY DEF Handling, Queued, Running, Pinned, NoIdleSlot, At
<1>3. QED
  BY <1>1, <1>2 DEF Handling

\* Nothing of it moves.
LEMMA HandlingStays ==
    ASSUME Handling, UNCHANGED <<req, queue, child>>
    PROVE  Handling'
<1>1. Queued' = Queued /\ Running' = Running /\ Pinned' /\ NoIdleSlot'
      /\ \A q \in Requests : At(q, "running")' <=> At(q, "running")
  BY DEF Handling, Queued, Running, Pinned, NoIdleSlot, At
<1>2. QED
  BY <1>1 DEF Handling

-----------------------------------------------------------------------------
(* Every step keeps it.                                                    *)

\* The handlers keep fitting together.
LEMMA HandlingStep == IInv /\ [Next]_vars => Handling'
<1> SUFFICES ASSUME IInv, [Next]_vars PROVE Handling'
  OBVIOUS
<1>h. Handling /\ week \in Weeks
  BY DEF IInv
<1>z. 0 \in 0..MaxRedirects
  BY IngestAssumption
<1>a. ASSUME NEW r \in Requests, Answered(r), UNCHANGED <<queue, child>>,
             ~At(r, "queued"), ~At(r, "running")
      PROVE  Handling'
  <2>1. Quiet(r, Idle)
    BY <1>a DEF Quiet, Answered
  <2>2. QED
    BY <2>1, <1>h, QuietStep
<1>1. ASSUME NEW r \in Requests, NEW pc \in {"prepared", "sniff", "resolve"}, Arrive(r, pc)
      PROVE  Handling'
  <2>1. [pc |-> pc, hop |-> 0] \in Handlers
    BY <1>z DEF Handlers
  <2>2. Quiet(r, [pc |-> pc, hop |-> 0])
    BY <2>1, <1>1 DEF Quiet, Arrive, At
  <2>3. QED
    BY <2>2, <1>h, QuietStep
<1>2. ASSUME NEW r \in Requests, NEW addrs \in SUBSET Addresses, NEW pinned \in Addresses,
             Resolve(r, addrs, pinned)
      PROVE  Handling'
  <2>1. At(r, "resolve") /\ ~At(r, "queued") /\ ~At(r, "running") /\ UNCHANGED <<queue, child>>
    BY <1>2 DEF Resolve, At
  <2>2. CASE Answered(r)
    BY <2>1, <2>2, <1>a
  <2>3. CASE Vetted(addrs) /\ pinned \in addrs
    <3> DEFINE new == [pc |-> "connect", hop |-> req[r].hop, to |-> pinned]
    <3>1. req[r].hop \in 0..MaxRedirects /\ pinned = "public"
      BY <2>1, <2>3, <1>h, Locals DEF At, Vetted, Addresses
    <3>2. new \in Handlers
      BY <3>1 DEF Handlers, Addresses
    <3>3. req' = [req EXCEPT ![r] = new]
      BY <1>2, <2>3 DEF Resolve
    <3>4. Quiet(r, new)
      BY <2>1, <3>1, <3>2, <3>3 DEF Quiet
    <3>5. QED
      BY <3>4, <1>h, QuietStep
  <2>4. QED
    BY <2>2, <2>3, <1>2 DEF Resolve
<1>3. ASSUME NEW r \in Requests, Connect(r) PROVE Handling'
  <2>1. At(r, "connect") /\ ~At(r, "queued") /\ ~At(r, "running") /\ UNCHANGED <<queue, child>>
    BY <1>3 DEF Connect, At
  <2>2. CASE Answered(r)
    BY <2>1, <2>2, <1>a
  <2>3. ASSUME NEW pc \in {"resolve", "sniff", "prepared"}, NEW hop \in 0..MaxRedirects,
               req' = [req EXCEPT ![r] = [pc |-> pc, hop |-> hop]]
        PROVE  Handling'
    <3>1. [pc |-> pc, hop |-> hop] \in Handlers
      BY DEF Handlers
    <3>2. Quiet(r, [pc |-> pc, hop |-> hop])
      BY <2>1, <2>3, <3>1 DEF Quiet
    <3>3. QED
      BY <3>2, <1>h, QuietStep
  <2>4. req[r].hop \in 0..MaxRedirects
    BY <2>1, <1>h, Locals DEF At
  <2>5. ~TooMany(req[r].hop + 1) => req[r].hop + 1 \in 0..MaxRedirects
    BY <2>4, IngestAssumption DEF TooMany
  <2>6. QED
    BY <2>2, <2>3, <2>5, <1>z, <1>3 DEF Connect
<1>4. ASSUME NEW r \in Requests, Sniff(r) PROVE Handling'
  <2>1. At(r, "sniff") /\ ~At(r, "queued") /\ ~At(r, "running")
    BY <1>4 DEF Sniff, At
  <2>2. CASE Goto(r, "prepared") /\ UNCHANGED <<queue, child>>
    <3>1. [req[r] EXCEPT !.pc = "prepared"] \in Handlers
      BY <2>1, <1>h, Locals DEF Handlers, At
    <3>2. [req[r] EXCEPT !.pc = "prepared"].pc = "prepared"
      BY <2>1, <1>h, Locals DEF At
    <3>3. Quiet(r, [req[r] EXCEPT !.pc = "prepared"])
      BY <2>1, <2>2, <3>1, <3>2 DEF Quiet, Goto
    <3>4. QED
      BY <3>3, <1>h, QuietStep
  <2>3. QED
    BY <2>1, <2>2, <1>4, <1>a, <1>h, SlotTaken, LineJoined DEF Sniff
<1>5. ASSUME NEW r \in Requests, Tokenize(r) PROVE Handling'
  <2>1. ~At(r, "queued") /\ ~At(r, "running") /\ UNCHANGED <<queue, child>>
    BY <1>5 DEF Tokenize, At
  <2>2. CASE req' = [req EXCEPT ![r] = [pc |-> "limits", week |-> week]]
    <3>1. [pc |-> "limits", week |-> week] \in Handlers
      BY <1>h DEF Handlers
    <3>2. Quiet(r, [pc |-> "limits", week |-> week])
      BY <2>1, <2>2, <3>1 DEF Quiet
    <3>3. QED
      BY <3>2, <1>h, QuietStep
  <2>3. QED
    BY <2>1, <2>2, <1>5, <1>a DEF Tokenize
<1>6. ASSUME NEW r \in Requests, ReadLimits(r) PROVE Handling'
  <2>1. At(r, "limits") /\ ~At(r, "queued") /\ ~At(r, "running") /\ UNCHANGED <<queue, child>>
    BY <1>6 DEF ReadLimits, At
  <2>2. PICK limited \in BOOLEAN :
           req' = [req EXCEPT ![r] = [pc |-> "insert", limited |-> limited, week |-> req[r].week]]
    BY <1>6 DEF ReadLimits
  <2> DEFINE new == [pc |-> "insert", limited |-> limited, week |-> req[r].week]
  <2>3. req[r].week \in Weeks
    BY <2>1, <1>h, Locals DEF At
  <2>4. new \in Handlers
    BY <2>3 DEF Handlers
  <2>5. Quiet(r, new)
    BY <2>1, <2>2, <2>4 DEF Quiet
  <2>6. QED
    BY <2>5, <1>h, QuietStep
<1>7. ASSUME NEW r \in Requests, Insert(r) PROVE Handling'
  <2>1. Answered(r) /\ ~At(r, "queued") /\ ~At(r, "running") /\ UNCHANGED <<queue, child>>
    BY <1>7 DEF Insert, At
  <2>2. QED
    BY <2>1, <1>a
<1>8. ASSUME NEW r \in Requests, SlotTimeout(r) PROVE Handling'
  BY <1>8, <1>h, LineLeft DEF SlotTimeout
<1>9. ASSUME NEW r \in Requests, Write(r) \/ Reap(r) PROVE Handling'
  BY <1>9, <1>h, ChildMoves DEF Write, Reap
<1>10. ASSUME NEW r \in Requests, Exit(r) \/ RunTimeout(r) PROVE Handling'
  <2>1. PICK left \in {"none", "killed"}, pc \in {"prepared", "answered"} :
           Release(r, left) /\ req' = After(r, pc)
    BY <1>10 DEF Exit, RunTimeout, Overdue, Killed
  <2>2. At(r, "running")
    BY <1>10 DEF Exit, RunTimeout
  <2>3. QED
    BY <2>1, <2>2, <1>h, SlotReleased
<1>11. ASSUME NEW r \in Requests, HangUp(r) PROVE Handling'
  <2>1. req[r] # Idle
    BY <1>11 DEF HangUp
  <2>2. CASE req[r].pc = "running"
    <3>1. At(r, "running") /\ child[r] \in {"busy", "wrote"}
      BY <2>1, <2>2, <1>h DEF At, Handling
    <3>2. Release(r, "killed") /\ req' = After(r, "answered")
      BY <2>2, <3>1, <1>11 DEF HangUp, Killed
    <3>3. QED
      BY <3>1, <3>2, <1>h, SlotReleased
  <2>3. CASE req[r].pc = "queued"
    <3>1. At(r, "queued") /\ Answered(r) /\ queue' = Left(r) /\ child' = child
      BY <2>1, <2>3, <1>11 DEF HangUp, At
    <3>2. QED
      BY <3>1, <1>h, LineLeft
  <2>4. CASE req[r].pc \in {"insert", "detached"}
    <3>1. Goto(r, "detached") /\ UNCHANGED <<queue, child>>
      BY <2>4, <1>11 DEF HangUp
    <3> DEFINE new == [req[r] EXCEPT !.pc = "detached"]
    <3>2. new \in Handlers /\ new.pc = "detached"
      BY <2>1, <2>4, <1>h, Locals DEF Handlers
    <3>3. Quiet(r, new)
      BY <2>4, <3>1, <3>2 DEF Quiet, Goto, At
    <3>4. QED
      BY <3>3, <1>h, QuietStep
  <2>5. CASE req[r].pc \notin {"running", "queued", "insert", "detached"}
    <3>1. Answered(r) /\ UNCHANGED <<queue, child>>
      BY <2>5, <1>11 DEF HangUp
    <3>2. QED
      BY <2>5, <3>1, <1>a DEF At
  <2>6. QED
    BY <2>2, <2>3, <2>4, <2>5
<1>12. CASE UNCHANGED <<req, queue, child>>
  BY <1>12, <1>h, HandlingStays
<1>13. QED
  BY <1>1, <1>2, <1>3, <1>4, <1>5, <1>6, <1>7, <1>8, <1>9, <1>10, <1>11, <1>12
     DEF Next, vars, Progress, Fetch, Environment, Create, ImportUrl, CallTool, Trash, Restore, Purge, Monday

\* The library and the calendar keep their types, and what is contacted is public.
LEMMA LibraryStep ==
    IInv /\ [Next]_vars => /\ books' \in [Rows -> Books \union {NoBook}] /\ week' \in Weeks
                           /\ reached' \subseteq {"public"}
<1> SUFFICES ASSUME IInv, [Next]_vars
             PROVE  /\ books' \in [Rows -> Books \union {NoBook}] /\ week' \in Weeks
                    /\ reached' \subseteq {"public"}
  OBVIOUS
<1>t. /\ Handling /\ books \in [Rows -> Books \union {NoBook}] /\ week \in Weeks
      /\ reached \subseteq {"public"}
  BY DEF IInv
<1> DEFINE Goal == /\ books' \in [Rows -> Books \union {NoBook}] /\ week' \in Weeks
                   /\ reached' \subseteq {"public"}
<1>1. ASSUME NEW r \in Requests, Connect(r) PROVE Goal
  <2>1. reached' = reached \union {req[r].to} /\ req[r].to = "public" /\ UNCHANGED Library
    BY <1>1, <1>t DEF Connect, Handling, Pinned
  <2>2. QED
    BY <2>1, <1>t DEF Library
<1>2. ASSUME NEW r \in Requests, Insert(r) PROVE Goal
  <2> DEFINE new == [week |-> req[r].week,
                     place |-> IF req[r].limited THEN "counted" ELSE "excused"]
  <2>1. req[r] # Idle /\ req[r].pc \in {"insert", "detached"} /\ UNCHANGED <<week, reached>>
    BY <1>2 DEF Insert, At
  <2>2. req[r].week \in Weeks
    BY <2>1, <1>t, Locals
  <2>3. new \in Books
    BY <2>2 DEF Books
  <2>4. books' = books \/ \E b \in Rows : books' = [books EXCEPT ![b] = new]
    BY <1>2 DEF Insert, Vacant
  <2> HIDE DEF new
  <2>5. QED
    BY <2>1, <2>3, <2>4, <1>t
<1>3. ASSUME NEW b \in Rows \ Vacant, Trash(b) \/ Restore(b) \/ Purge(b) PROVE Goal
  <2>1. books[b] \in Books
    BY <1>t DEF Vacant
  <2>2. \A place \in {"counted", "excused", "trash"} :
           [books[b] EXCEPT !.place = place] \in Books
    BY <2>1 DEF Books
  <2>3. /\ UNCHANGED <<week, reached>>
        /\ \E c \in Books \union {NoBook} : books' = [books EXCEPT ![b] = c]
    <3>1. CASE Trash(b)
      <4>1. books' = [books EXCEPT ![b] = [books[b] EXCEPT !.place = "trash"]]
        BY <3>1 DEF Trash
      <4>2. QED
        BY <2>2, <3>1, <4>1 DEF Trash
    <3>2. CASE Restore(b)
      <4>1. books' = [books EXCEPT ![b] = [books[b] EXCEPT !.place = "excused"]]
        BY <3>2 DEF Restore
      <4>2. QED
        BY <2>2, <3>2, <4>1 DEF Restore
    <3>3. CASE Purge(b)
      BY <3>3 DEF Purge
    <3>4. QED
      BY <1>3, <3>1, <3>2, <3>3
  <2>4. QED
    BY <2>3, <1>t
<1>4. CASE Monday
  <2>1. week' \in Weeks /\ UNCHANGED <<books, reached>>
    BY <1>4, <1>t, IngestAssumption DEF Monday, Weeks
  <2>2. QED
    BY <2>1, <1>t
<1>5. CASE UNCHANGED <<books, week, reached>>
  BY <1>5, <1>t
<1>6. QED
  BY <1>1, <1>2, <1>3, <1>4, <1>5
     DEF Next, vars, Progress, Fetch, Environment, Create, ImportUrl, CallTool, Arrive, Resolve, Sniff,
         Tokenize, ReadLimits, SlotTimeout, Write, Exit, RunTimeout, Reap, HangUp, Library

\* The closure that inserts has counted at least the rows of its own week.
LEMMA QuotaStep == IInv /\ [Next]_vars => WeeklyQuota'
<1> SUFFICES ASSUME IInv, [Next]_vars, NEW w \in Weeks PROVE Cardinality(Counted(w)') <= Limit
  BY DEF WeeklyQuota, Counted
<1> DEFINE counted == [week |-> w, place |-> "counted"]
<1>t. /\ Handling /\ books \in [Rows -> Books \union {NoBook}] /\ IsFiniteSet(Rows)
      /\ Limit \in Nat /\ Cardinality(Counted(w)) <= Limit
  BY IngestAssumption DEF IInv, WeeklyQuota, Counted
<1>c. counted \in Books /\ counted # NoBook
  BY NoneAssumption DEF Books
<1>f. /\ IsFiniteSet(Counted(w)) /\ Cardinality(Counted(w)) \in Nat
      /\ Counted(w)' \subseteq Rows /\ IsFiniteSet(Counted(w)')
  BY <1>t, FS_Subset, FS_CardinalityType DEF Counted
<1>s. ASSUME Counted(w)' \subseteq Counted(w) PROVE Cardinality(Counted(w)') <= Limit
  <2>1. Cardinality(Counted(w)') <= Cardinality(Counted(w)) /\ Cardinality(Counted(w)') \in Nat
    BY <1>s, <1>f, FS_Subset, FS_CardinalityType
  <2>2. QED
    BY <2>1, <1>t, <1>f
<1>1. ASSUME NEW r \in Requests, Insert(r) PROVE Cardinality(Counted(w)') <= Limit
  <2> DEFINE row == CHOOSE b \in Vacant : TRUE
             new == [week |-> req[r].week,
                     place |-> IF req[r].limited THEN "counted" ELSE "excused"]
  <2>1. row \in Vacant
    BY <1>1 DEF Insert
  <2>2. CASE books' = books
    BY <2>2, <1>s DEF Counted
  <2>3. CASE /\ books' = [books EXCEPT ![row] = new]
             /\ ~(req[r].limited /\ Full(req[r].week))
    <3> HIDE DEF row
    <3>1. CASE new # counted
      <4>1. Counted(w)' \subseteq Counted(w)
        BY <2>1, <2>3, <3>1, <1>t DEF Counted, Vacant
      <4>2. QED
        BY <4>1, <1>s
    <3>2. CASE new = counted
      <4>1. req[r].limited /\ req[r].week = w
        BY <3>2
      <4>2. Uploads(w) < Limit
        <5> DEFINE U == {b \in Rows \ Vacant : books[b].place # "trash" /\ books[b].week >= w}
        <5>1. Cardinality(U) \in Nat
          BY <1>t, FS_Subset, FS_CardinalityType
        <5>2. ~(Cardinality(U) >= Limit)
          BY <2>3, <4>1 DEF Full, Uploads
        <5>3. QED
          BY <5>1, <5>2, <1>t DEF Uploads
      <4>3. Cardinality(Counted(w)) <= Uploads(w) /\ Uploads(w) \in Nat
        <5> DEFINE U == {b \in Rows \ Vacant : books[b].place # "trash" /\ books[b].week >= w}
        <5>1. Counted(w) \subseteq U
          BY <1>c DEF Counted, Vacant, Weeks
        <5>2. IsFiniteSet(U)
          BY <1>t, FS_Subset
        <5>3. QED
          BY <5>1, <5>2, FS_Subset, FS_CardinalityType DEF Uploads
      <4>4. Counted(w)' = Counted(w) \union {row} /\ row \notin Counted(w)
        BY <2>1, <2>3, <3>2, <1>t, <1>c DEF Counted, Vacant
      <4>5. Cardinality(Counted(w)') = Cardinality(Counted(w)) + 1
        BY <4>4, <1>f, FS_AddElement
      <4>6. QED
        BY <4>2, <4>3, <4>5, <1>t, <1>f
    <3>3. QED
      BY <3>1, <3>2
  <2>4. QED
    BY <2>2, <2>3, <1>1 DEF Insert
<1>2. ASSUME NEW b \in Rows \ Vacant, Trash(b) \/ Restore(b) \/ Purge(b)
      PROVE  Cardinality(Counted(w)') <= Limit
  <2>1. books[b] \in Books
    BY <1>t DEF Vacant
  <2>2. books'[b] # counted /\ \A d \in Rows : d # b => books'[d] = books[d]
    <3>1. ASSUME NEW place \in {"excused", "trash"},
                 books' = [books EXCEPT ![b] = [books[b] EXCEPT !.place = place]]
          PROVE  books'[b] # counted /\ \A d \in Rows : d # b => books'[d] = books[d]
      <4>1. [books[b] EXCEPT !.place = place].place = place
        BY <2>1 DEF Books
      <4>2. QED
        BY <3>1, <4>1, <1>t
    <3>2. Trash(b) \/ Restore(b) =>
             \E place \in {"excused", "trash"} :
                books' = [books EXCEPT ![b] = [books[b] EXCEPT !.place = place]]
      BY DEF Trash, Restore
    <3>3. CASE Purge(b)
      BY <3>3, <1>t, <1>c DEF Purge
    <3>4. QED
      BY <1>2, <3>1, <3>2, <3>3
  <2>3. Counted(w)' \subseteq Counted(w)
    BY <2>2 DEF Counted
  <2>4. QED
    BY <2>3, <1>s
<1>3. CASE UNCHANGED books
  BY <1>3, <1>s DEF Counted
<1>4. QED
  BY <1>1, <1>2, <1>3
     DEF Next, vars, Progress, Fetch, Environment, Create, ImportUrl, CallTool, Arrive, Connect, Resolve,
         Sniff, Tokenize, ReadLimits, SlotTimeout, Write, Exit, RunTimeout, Reap, HangUp, Monday,
         Library

LEMMA Invariance == Spec => []IInv
<1>1. IInv /\ [Next]_vars => IInv'
  BY HandlingStep, LibraryStep, QuotaStep DEF IInv
<1>2. QED
  BY InitIInv, <1>1, PTL DEF Spec

\* Handlers and children keep their types, and the waiters of the semaphore are the
\* requests that are queued, each once, however slots pass and clients hang up.
THEOREM TypeCorrect == Spec => []TypeOK
<1>1. IInv => TypeOK
  BY DEF IInv, Handling, TypeOK, Queued, Addresses
<1>2. QED
  BY Invariance, <1>1, PTL

\* At most MaxConcurrent children run at once (SLOTS, kill_on_drop), each for a request
\* that still waits for it.
THEOREM ChildrenStayBounded == Spec => []ChildrenBounded
<1>1. IInv => ChildrenBounded
  <2> SUFFICES ASSUME IInv PROVE ChildrenBounded
    OBVIOUS
  <2>1. {r \in Requests : child[r] \in {"busy", "wrote"}} = Running
    BY DEF IInv, Handling, Running
  <2>2. QED
    BY <2>1 DEF IInv, Handling, ChildrenBounded
<1>2. QED
  BY Invariance, <1>1, PTL

\* No slot of the semaphore idles while an upload waits for one.
THEOREM SlotsAreUsed == Spec => []NoIdleSlot
<1>1. IInv => NoIdleSlot
  BY DEF IInv, Handling
<1>2. QED
  BY Invariance, <1>1, PTL

\* guarded_fetch connects to public addresses only, however many redirects it follows
\* and whatever each lookup answers.
THEOREM OnlyPublic == Spec => []NeverContactsPrivate
<1>1. IInv => NeverContactsPrivate
  BY DEF IInv, NeverContactsPrivate
<1>2. QED
  BY Invariance, <1>1, PTL

\* "Check + insert are atomic" (insert_prepared): the uploads of a week that were let in
\* against the limit and never left the library do not exceed it, whatever overlaps.
THEOREM QuotaHolds == Spec => []WeeklyQuota
<1>1. IInv => WeeklyQuota
  BY DEF IInv
<1>2. QED
  BY Invariance, <1>1, PTL

-----------------------------------------------------------------------------
(* RateLimiter: least and greatest numbers.                                *)

\* A set of naturals that has a member has a least one.
LEMMA LeastNatural ==
    ASSUME NEW T \in SUBSET Nat, T # {}
    PROVE  \E x \in T : \A y \in T : x <= y
<1>1. \E x \in T : \A y \in T : ~(<<y, x>> \in OpToRel(<, Nat))
  BY NatLessThanWellFounded, WFMin
<1>2. PICK x \in T : \A y \in T : ~(<<y, x>> \in OpToRel(<, Nat))
  BY <1>1
<1>3. \A y \in T : x \in Nat /\ y \in Nat /\ ~(y < x)
  BY <1>2 DEF OpToRel
<1>4. \A y \in T : x <= y
  BY <1>3
<1> QED
  BY <1>4

\* A bounded one has a greatest.
LEMMA GreatestNatural ==
    ASSUME NEW T \in SUBSET Nat, T # {}, NEW n \in Nat, \A x \in T : x <= n
    PROVE  \E x \in T : \A y \in T : y <= x
<1> DEFINE U == {n - x : x \in T}
<1>1. \A x \in T : x \in Nat /\ n - x \in Nat
  OBVIOUS
<1>2. U \in SUBSET Nat
  BY <1>1
<1>3. PICK u \in U : \A v \in U : u <= v
  <2> HIDE DEF U
  <2>1. U # {}
    BY DEF U
  <2> QED
    BY <1>2, <2>1, LeastNatural
<1>4. PICK x \in T : u = n - x
  BY <1>3
<1>5. \A y \in T : n - x <= n - y
  BY <1>3, <1>4
<1>6. \A y \in T : y <= x
  BY <1>1, <1>5
<1> QED
  BY <1>6

-----------------------------------------------------------------------------
(* Whose request it is.                                                    *)

\* However a request of a comes in it is somebody's, and a's own unless a proxy passed
\* on a CF-Connecting-IP.
LEMMA ClientIsKnown ==
    ASSUME NEW a \in Clients, NEW sent \in Sent, NEW cf \in Named,
           NEW hit \in Arriving(a, sent, cf)
    PROVE  ClientIp(hit) \in Hosts /\ (Vouches(hit, a) => ClientIp(hit) = a)
<1>1. /\ a \in Hosts /\ a \notin Proxies /\ a # NoAddr /\ sent \in Seq(Hosts)
      /\ cf \in Hosts \union {NoAddr}
  BY AddressAssumption DEF Hosts
<1>2. CASE hit = [peer |-> a, cf |-> cf, xff |-> sent]
  BY <1>1, <1>2 DEF ClientIp
<1>3. ASSUME NEW p \in Proxies, hit = [peer |-> p, cf |-> cf, xff |-> Append(sent, a)]
      PROVE  ClientIp(hit) = IF cf = NoAddr THEN a ELSE cf
  <2> DEFINE xff == Append(sent, a)
             clients == {i \in DOMAIN xff : xff[i] \notin Proxies}
  <2>1. /\ xff # <<>> /\ Len(xff) \in Nat /\ DOMAIN xff = 1..Len(xff) /\ Len(xff) > 0
        /\ xff[Len(xff)] = a
    BY <1>1, AppendProperties, LenProperties
  <2> HIDE DEF xff
  <2>2. Len(xff) \in clients /\ \A i \in clients : i <= Len(xff) /\ i \in Nat
    BY <1>1, <2>1
  <2>3. Max(clients) = Len(xff)
    <3>1. \A x \in clients : (\A y \in clients : x >= y) => x = Len(xff)
      BY <2>1, <2>2
    <3>2. \A y \in clients : Len(xff) >= y
      BY <2>1, <2>2
    <3> HIDE DEF clients
    <3> QED
      BY <2>2, <3>1, <3>2 DEF Max
  <2>4. Forwarded(xff) = a
    BY <2>1, <2>2, <2>3 DEF Forwarded
  <2>5. hit.peer \in Proxies /\ hit.cf = cf /\ hit.xff = xff
    BY <1>3 DEF xff
  <2> QED
    BY <1>1, <2>4, <2>5 DEF ClientIp, Behind
<1>4. ASSUME NEW p \in Proxies, hit = [peer |-> p, cf |-> a, xff |-> sent]
      PROVE  ClientIp(hit) = a
  BY <1>1, <1>4 DEF ClientIp, Behind
<1>5. ASSUME NEW p \in Proxies, hit = [peer |-> p, cf |-> cf, xff |-> Append(sent, a)]
      PROVE  ClientIp(hit) \in Hosts /\ (Vouches(hit, a) => ClientIp(hit) = a)
  <2>1. Vouches(hit, a) => cf \in {a, NoAddr}
    BY <1>5 DEF Vouches
  <2>2. ClientIp(hit) = IF cf = NoAddr THEN a ELSE cf
    BY <1>3, <1>5
  <2> QED
    BY <1>1, <2>1, <2>2
<1>6. ASSUME NEW p \in Proxies, hit = [peer |-> p, cf |-> a, xff |-> sent]
      PROVE  ClientIp(hit) \in Hosts /\ (Vouches(hit, a) => ClientIp(hit) = a)
  BY <1>1, <1>4, <1>6
<1>7. \/ hit = [peer |-> a, cf |-> cf, xff |-> sent]
      \/ \E p \in Proxies : hit = [peer |-> p, cf |-> cf, xff |-> Append(sent, a)]
      \/ \E p \in Proxies : hit = [peer |-> p, cf |-> a, xff |-> sent]
  BY DEF Arriving
<1> QED
  BY <1>1, <1>2, <1>5, <1>6, <1>7

-----------------------------------------------------------------------------
(* The invariant.                                                          *)

\* The bucket a client has at a door.
Bucket(door, a) == IF door = "route" THEN Network[a] ELSE a

\* A check in flight read the clock no more than Lag ago, and is charged to the bucket
\* of its client unless it may have named another.
ChargesAreDue ==
    \A t \in Threads : call[t] # NoCall =>
        /\ call[t].client # NoAddr => call[t].key = Bucket(call[t].door, call[t].client)
        /\ call[t].now <= clock /\ clock - call[t].now <= Lag

\* How far apart two openings of a window are at least.
Apart == IF late THEN Window - Lag ELSE Window

\* The history of one allowance cut into windows: seq are its admissions up to now, w
\* its window, and o those of the admissions that opened one.  A window has at
\* most RuleMax, and two are opened at least gap apart.
Cut(seq, w, now, gap, o) ==
    /\ o \subseteq 1..Len(seq)
    /\ \A i \in 1..Len(seq) : seq[i] <= now
    /\ \A i, j \in 1..Len(seq) : i <= j => seq[i] <= seq[j]
    /\ \A j \in Nat \ {0} : j + RuleMax - 1 <= Len(seq) =>
          \E i \in o : j <= i /\ i <= j + RuleMax - 1
    /\ \A i, j \in o : i < j => seq[i] + gap <= seq[j]
    /\ w = NoWindow => \A i \in o : seq[i] + gap <= now
    /\ w # NoWindow =>
          /\ w.count <= Len(seq) /\ Len(seq) - w.count + 1 \in o
          /\ \A i \in o : seq[i] + gap <= w.reset_at

BurstsAreCut ==
    \A k \in Keys : \E o \in SUBSET Nat : Cut(admitted[k], buckets[k], clock, Apart, o)

LimiterIInv == LimiterTypeOK /\ ChargesAreDue /\ BurstsAreCut

\* A window in the map.
OpenWindow == [reset_at: Nat, count: 1..RuleMax]

\* The numbers involved.
LEMMA LimiterNumbers ==
    /\ RuleMax \in Nat /\ RuleMax >= 1 /\ Window \in Nat /\ Window >= 1
    /\ Lag \in Nat /\ EndOfTime \in Nat /\ SweepEvery \in Nat
    /\ Window - Lag \in Nat /\ Window - Lag <= Window
    /\ 2 * (Window - Lag) >= Window
    /\ Apart \in {Window - Lag, Window} /\ Apart \in Nat
BY RateLimiterAssumption, LagAssumption DEF Apart

\* Time may pass, and the required gap shrink.
LEMMA CutLater ==
    ASSUME NEW seq \in Seq(Nat), NEW w \in OpenWindow \union {NoWindow}, NEW o \in SUBSET Nat,
           NEW now \in Nat, NEW gap \in Nat, NEW then \in Nat, NEW less \in Nat,
           now <= then, less <= gap, Cut(seq, w, now, gap, o)
    PROVE  Cut(seq, w, then, less, o)
<1>1. o \subseteq 1..Len(seq) /\ \A i \in 1..Len(seq) : seq[i] \in Nat
  BY ElementOfSeq, LenProperties DEF Cut
<1>2. \A i \in 1..Len(seq) : seq[i] <= then
  BY <1>1 DEF Cut
<1>3. \A i, j \in o : i < j => seq[i] + less <= seq[j]
  BY <1>1 DEF Cut
<1>4. w = NoWindow => \A i \in o : seq[i] + less <= then
  BY <1>1 DEF Cut
<1>5. w # NoWindow => \A i \in o : seq[i] + less <= w.reset_at
  <2>1. SUFFICES ASSUME w # NoWindow, NEW i \in o
                 PROVE  seq[i] + less <= w.reset_at
    OBVIOUS
  <2>2. w.reset_at \in Nat /\ seq[i] \in Nat /\ seq[i] + gap <= w.reset_at
    BY <1>1, <2>1 DEF Cut, OpenWindow
  <2> QED
    BY <2>2
<1> QED
  BY <1>2, <1>3, <1>4, <1>5 DEF Cut

\* A window that is over may be dropped.
LEMMA CutDropped ==
    ASSUME NEW seq \in Seq(Nat), NEW w \in OpenWindow, NEW o \in SUBSET Nat,
           NEW now \in Nat, NEW gap \in Nat, w # NoWindow,
           w.reset_at <= now, Cut(seq, w, now, gap, o)
    PROVE  Cut(seq, NoWindow, now, gap, o)
<1>1. \A i \in o : seq[i] + gap <= now
  <2>1. \A i \in o : seq[i] \in Nat /\ seq[i] + gap <= w.reset_at
    BY ElementOfSeq, LenProperties DEF Cut
  <2>2. w.reset_at \in Nat
    BY DEF OpenWindow
  <2> QED
    BY <2>1, <2>2
<1> QED
  BY <1>1 DEF Cut

\* One more admission keeps the order.
LEMMA AppendKeepsOrder ==
    ASSUME NEW seq \in Seq(Nat), NEW now \in Nat,
           \A i \in 1..Len(seq) : seq[i] <= now,
           \A i, j \in 1..Len(seq) : i <= j => seq[i] <= seq[j]
    PROVE  LET more == Append(seq, now) IN
           /\ more \in Seq(Nat) /\ Len(more) = Len(seq) + 1 /\ Len(seq) \in Nat
           /\ \A i \in 1..Len(seq) : more[i] = seq[i] /\ seq[i] \in Nat
           /\ more[Len(seq) + 1] = now
           /\ \A i \in 1..Len(more) : more[i] <= now
           /\ \A i, j \in 1..Len(more) : i <= j => more[i] <= more[j]
<1> DEFINE more == Append(seq, now)
<1>1. /\ more \in Seq(Nat) /\ Len(more) = Len(seq) + 1 /\ Len(seq) \in Nat
      /\ \A i \in 1..Len(seq) : more[i] = seq[i] /\ seq[i] \in Nat
      /\ more[Len(seq) + 1] = now
  BY AppendProperties, LenProperties, ElementOfSeq
<1> HIDE DEF more
<1>2. \A i \in 1..Len(more) : i \in 1..Len(seq) \/ i = Len(seq) + 1
  BY <1>1
<1>3. ASSUME NEW i \in 1..Len(more)
      PROVE  more[i] <= now
  <2>1. CASE i \in 1..Len(seq)
    <3>1. more[i] = seq[i] /\ seq[i] <= now
      BY <1>1, <2>1
    <3> QED
      BY <3>1
  <2>2. CASE i = Len(seq) + 1
    BY <1>1, <2>2
  <2> QED
    BY <1>2, <2>1, <2>2
<1>4. ASSUME NEW i \in 1..Len(more), NEW j \in 1..Len(more), i <= j
      PROVE  more[i] <= more[j]
  <2>1. CASE j \in 1..Len(seq)
    <3>1. i \in 1..Len(seq)
      BY <1>1, <1>4, <2>1
    <3>2. more[i] = seq[i] /\ more[j] = seq[j] /\ seq[i] <= seq[j]
      BY <1>1, <1>4, <2>1, <3>1
    <3> QED
      BY <3>2
  <2>2. CASE j = Len(seq) + 1
    BY <1>1, <1>3, <2>2
  <2> QED
    BY <1>2, <2>1, <2>2
<1> QED
  BY <1>1, <1>3, <1>4 DEF more

\* An admission is counted by a window that is not full.
LEMMA CutCounted ==
    ASSUME NEW seq \in Seq(Nat), NEW w \in OpenWindow, NEW o \in SUBSET Nat,
           NEW now \in Nat, NEW gap \in Nat, w # NoWindow,
           w.count < RuleMax, Cut(seq, w, now, gap, o)
    PROVE  Cut(Append(seq, now), [w EXCEPT !.count = @ + 1], now, gap, o)
<1> DEFINE more == Append(seq, now)
           v == [w EXCEPT !.count = @ + 1]
<1>1. /\ more \in Seq(Nat) /\ Len(more) = Len(seq) + 1 /\ Len(seq) \in Nat
      /\ \A i \in 1..Len(seq) : more[i] = seq[i] /\ seq[i] \in Nat
      /\ \A i \in 1..Len(more) : more[i] <= now
      /\ \A i, j \in 1..Len(more) : i <= j => more[i] <= more[j]
  BY AppendKeepsOrder DEF Cut
<1>2. /\ v.count = w.count + 1 /\ v.reset_at = w.reset_at /\ v \in [reset_at: Nat, count: Nat]
      /\ w.count \in Nat /\ w.count >= 1
  <2>1. w \in [reset_at: Nat, count: Nat] /\ w.count \in 1..RuleMax /\ RuleMax \in Nat
    BY LimiterNumbers DEF OpenWindow
  <2>2. v = [reset_at |-> w.reset_at, count |-> w.count + 1] /\ w.count + 1 \in Nat
    BY <2>1
  <2> QED
    BY <2>1, <2>2
<1> HIDE DEF more, v
<1>0. /\ Len(more) = Len(seq) + 1 /\ Len(seq) \in Nat /\ w.count \in Nat /\ w.count >= 1
      /\ v.count = w.count + 1
  BY <1>1, <1>2
<1>3. v # NoWindow
  BY <1>2, NoWindowAssumption
<1>4. o \subseteq 1..Len(seq) /\ o \subseteq 1..Len(more)
  BY <1>1 DEF Cut
<1>5. /\ w.count <= Len(seq) /\ Len(seq) - w.count + 1 \in o
      /\ \A i \in o : seq[i] + gap <= w.reset_at
      /\ \A i, j \in o : i < j => seq[i] + gap <= seq[j]
  BY DEF Cut
<1>6. ASSUME NEW j \in Nat \ {0}, j + RuleMax - 1 <= Len(more)
      PROVE  \E i \in o : j <= i /\ i <= j + RuleMax - 1
  <2>1. CASE j + RuleMax - 1 <= Len(seq)
    BY <2>1 DEF Cut
  <2>2. CASE j + RuleMax - 1 = Len(seq) + 1
    <3>1. Len(seq) - w.count + 1 >= j /\ Len(seq) - w.count + 1 <= j + RuleMax - 1
      <4>1. RuleMax \in Nat /\ w.count + 1 <= RuleMax
        BY <1>2, LimiterNumbers
      <4> QED
        BY <1>0, <2>2, <4>1
    <3> QED
      BY <1>5, <3>1
  <2>3. RuleMax \in Nat
    BY LimiterNumbers
  <2> QED
    BY <1>0, <1>6, <2>1, <2>2, <2>3
<1>7. \A i, j \in o : i < j => more[i] + gap <= more[j]
  BY <1>1, <1>4, <1>5
<1>8. \A i \in o : more[i] + gap <= v.reset_at
  BY <1>1, <1>2, <1>4, <1>5
<1>9. v.count <= Len(more) /\ Len(more) - v.count + 1 \in o
  <2>1. Len(more) - v.count + 1 = Len(seq) - w.count + 1
    <3>1. Len(more) - v.count + 1 = (Len(seq) + 1) - (w.count + 1) + 1
      BY <1>0
    <3>2. \A a, b \in Nat : (a + 1) - (b + 1) + 1 = a - b + 1
      OBVIOUS
    <3> QED
      BY <1>0, <3>1, <3>2
  <2>2. w.count <= Len(seq)
    BY <1>5
  <2>3. v.count <= Len(more)
    BY <1>0, <2>2
  <2> QED
    BY <1>5, <2>1, <2>3
<1>10. Cut(more, v, now, gap, o)
  BY <1>1, <1>3, <1>4, <1>6, <1>7, <1>8, <1>9 DEF Cut
<1> QED
  BY <1>10 DEF more, v

\* Where there is no window, an admission opens one, which ends in gap or later.
LEMMA CutOpened ==
    ASSUME NEW seq \in Seq(Nat), NEW o \in SUBSET Nat,
           NEW now \in Nat, NEW gap \in Nat, NEW end \in Nat,
           end >= now + gap, Cut(seq, NoWindow, now, gap, o)
    PROVE  Cut(Append(seq, now), [reset_at |-> end, count |-> 1], now, gap,
               o \union {Len(seq) + 1})
<1> DEFINE more == Append(seq, now)
           v == [reset_at |-> end, count |-> 1]
           n == Len(seq) + 1
           p == o \union {n}
<1>1. /\ more \in Seq(Nat) /\ Len(more) = n /\ Len(seq) \in Nat
      /\ \A i \in 1..Len(seq) : more[i] = seq[i] /\ seq[i] \in Nat
      /\ more[n] = now
      /\ \A i \in 1..Len(more) : more[i] <= now
      /\ \A i, j \in 1..Len(more) : i <= j => more[i] <= more[j]
  BY AppendKeepsOrder DEF Cut
<1>2. v # NoWindow /\ v.count = 1 /\ v.reset_at = end
  BY NoWindowAssumption
<1> HIDE DEF more, v
<1>3. o \subseteq 1..Len(seq) /\ p \subseteq 1..Len(more) /\ \A i \in o : i \in Nat /\ i < n
  <2>1. Len(more) = n /\ Len(seq) \in Nat
    BY <1>1
  <2>2. o \subseteq 1..Len(seq)
    BY DEF Cut
  <2>3. \A i \in 1..Len(seq) : i \in Nat /\ i < n /\ i \in 1..n
    BY <2>1
  <2>4. n \in 1..n
    BY <2>1
  <2> QED
    BY <2>1, <2>2, <2>3, <2>4
<1>4. /\ \A i, j \in o : i < j => seq[i] + gap <= seq[j]
      /\ \A i \in o : seq[i] + gap <= now
  BY DEF Cut
<1>5. ASSUME NEW j \in Nat \ {0}, j + RuleMax - 1 <= Len(more)
      PROVE  \E i \in p : j <= i /\ i <= j + RuleMax - 1
  <2>1. CASE j + RuleMax - 1 <= Len(seq)
    BY <2>1 DEF Cut
  <2>2. CASE j + RuleMax - 1 = n
    BY <1>1, <2>2, LimiterNumbers
  <2> QED
    BY <1>1, <1>5, <2>1, <2>2, LimiterNumbers
<1>6. \A i, j \in p : i < j => more[i] + gap <= more[j]
  <2>1. SUFFICES ASSUME NEW i \in p, NEW j \in p, i < j
                 PROVE  more[i] + gap <= more[j]
    OBVIOUS
  <2>2. i \in o
    BY <1>1, <1>3, <2>1
  <2>3. CASE j \in o
    BY <1>1, <1>3, <1>4, <2>1, <2>2, <2>3
  <2>4. CASE j = n
    BY <1>1, <1>3, <1>4, <2>2, <2>4
  <2> QED
    BY <2>3, <2>4
<1>7. \A i \in p : more[i] + gap <= v.reset_at
  <2>1. \A i \in o : more[i] + gap <= end
    BY <1>1, <1>3, <1>4
  <2>2. more[n] + gap <= end
    BY <1>1
  <2> QED
    BY <1>2, <2>1, <2>2
<1>8. v.count <= Len(more) /\ Len(more) - v.count + 1 \in p
  BY <1>1, <1>2
<1>9. Cut(more, v, now, gap, p)
  BY <1>1, <1>2, <1>3, <1>5, <1>6, <1>7, <1>8 DEF Cut
<1> QED
  BY <1>9 DEF more, v

\* No window's length holds three openings, nor two when no check was held up.
LEMMA CutBounds ==
    ASSUME LimiterTypeOK, NEW k \in Keys, NEW from \in 0..EndOfTime, NEW o \in SUBSET Nat,
           Cut(admitted[k], buckets[k], clock, Apart, o)
    PROVE  Burst(k, from) < (IF late THEN 3 ELSE 2) * RuleMax
<1> DEFINE seq == admitted[k]
           most == (IF late THEN 3 ELSE 2) * RuleMax
           in == {j \in DOMAIN admitted[k] : admitted[k][j] \in from..(from + Window - 1)}
<1>1. /\ seq \in Seq(Nat) /\ Len(seq) \in Nat /\ 1..Len(seq) = 1..Len(seq)
      /\ \A i \in 1..Len(seq) : seq[i] \in Nat
  <2>1. seq \in Seq(0..EndOfTime) /\ EndOfTime \in Nat
    BY LimiterNumbers DEF LimiterTypeOK
  <2>2. /\ Len(seq) \in Nat /\ 1..Len(seq) = 1..Len(seq)
        /\ \A i \in 1..Len(seq) : seq[i] \in 0..EndOfTime
    BY <2>1, ElementOfSeq, LenProperties
  <2>3. seq \in Seq(Nat)
    BY <2>1, <2>2, SeqMonotonic
  <2> QED
    BY <2>1, <2>2, <2>3
<1>2. /\ RuleMax \in Nat /\ RuleMax >= 1 /\ Window \in Nat /\ Apart \in Nat
      /\ most \in Nat /\ most >= 1
      /\ late => most = 3 * RuleMax /\ 2 * Apart >= Window
      /\ ~late => most = 2 * RuleMax /\ Apart = Window
  BY LimiterNumbers DEF Apart
<1>3. /\ o \subseteq 1..Len(seq)
      /\ \A i, j \in 1..Len(seq) : i <= j => seq[i] <= seq[j]
      /\ \A j \in Nat \ {0} : j + RuleMax - 1 <= Len(seq) =>
            \E i \in o : j <= i /\ i <= j + RuleMax - 1
      /\ \A i, j \in o : i < j => seq[i] + Apart <= seq[j]
  BY DEF Cut
<1> HIDE DEF seq, most
<1>4. CASE in = {}
  <2>1. Burst(k, from) = 0
    BY <1>4, FS_EmptySet DEF Burst, seq
  <2>2. 0 < most
    BY <1>2
  <2> QED
    BY <2>1, <2>2 DEF most
<1>5. CASE in # {}
  <2>1. in \in SUBSET Nat /\ \A j \in in : j <= Len(seq)
    BY <1>1 DEF seq
  <2>2. PICK lo \in in : \A j \in in : lo <= j
    <3> HIDE DEF in
    <3> QED
      BY <1>5, <2>1, LeastNatural
  <2>3. PICK hi \in in : \A j \in in : j <= hi
    <3> HIDE DEF in
    <3> QED
      BY <1>1, <1>5, <2>1, GreatestNatural
  <2>4. /\ lo \in Nat \ {0} /\ hi \in Nat /\ lo <= hi /\ hi <= Len(seq) /\ Len(seq) \in Nat
        /\ lo \in 1..Len(seq) /\ hi \in 1..Len(seq)
    BY <1>1, <2>2, <2>3 DEF seq
  <2>5. /\ seq[hi] < seq[lo] + Window /\ seq[lo] \in Nat /\ seq[hi] \in Nat
        /\ Window \in Nat /\ Apart \in Nat
    <3>1. from \in Nat /\ seq[lo] >= from /\ seq[hi] <= from + Window - 1
      BY LimiterNumbers DEF seq
    <3>2. seq[lo] \in Nat /\ seq[hi] \in Nat /\ Window \in Nat /\ Apart \in Nat
      BY <1>1, <1>2, <2>4
    <3> QED
      BY <3>1, <3>2
  <2>6. hi - lo + 1 < most
    <3> SUFFICES ASSUME hi - lo + 1 >= most
                 PROVE  FALSE
      BY <1>2, <2>4
    <3>0. RuleMax \in Nat /\ RuleMax >= 1 /\ most \in Nat /\ lo + most - 1 <= hi
      <4>1. most \in Nat
        BY <1>2
      <4>2. lo + most - 1 <= hi
        BY <2>4, <4>1
      <4> QED
        BY <1>2, <4>2
    <3>1. most >= 2 * RuleMax
      <4>1. most = 3 * RuleMax \/ most = 2 * RuleMax
        BY <1>2
      <4> QED
        BY <3>0, <4>1
    <3>2. PICK a \in o : lo <= a /\ a <= lo + RuleMax - 1
      <4>1. lo + RuleMax - 1 <= Len(seq)
        BY <2>4, <3>0, <3>1
      <4> QED
        BY <1>3, <2>4, <4>1
    <3>3. a \in Nat /\ a \in 1..Len(seq) /\ a <= lo + RuleMax - 1 /\ lo <= a
      BY <1>3, <2>4, <3>2
    <3>4. PICK b \in o : a + 1 <= b /\ b <= a + RuleMax
      <4>1. a + 1 \in Nat \ {0} /\ (a + 1) + RuleMax - 1 <= Len(seq)
        BY <2>4, <3>0, <3>1, <3>3
      <4>2. PICK i \in o : a + 1 <= i /\ i <= (a + 1) + RuleMax - 1
        BY <1>3, <4>1
      <4>3. (a + 1) + RuleMax - 1 = a + RuleMax
        BY <3>0, <3>3
      <4> QED
        BY <4>2, <4>3
    <3>5. b \in Nat /\ b \in 1..Len(seq) /\ a + 1 <= b /\ b <= a + RuleMax
      BY <1>3, <3>4
    <3>6. /\ seq[a] \in Nat /\ seq[b] \in Nat /\ seq[lo] <= seq[a]
          /\ seq[a] + Apart <= seq[b]
      <4>1. a < b
        BY <3>3, <3>5
      <4> QED
        BY <1>1, <1>3, <2>4, <3>2, <3>3, <3>4, <3>5, <4>1
    <3>7. CASE ~late
      <4>1. Apart = Window
        BY <1>2, <3>7
      <4>2. b <= hi
        BY <2>4, <3>0, <3>1, <3>3, <3>5
      <4>3. seq[b] <= seq[hi]
        BY <1>3, <2>4, <3>5, <4>2
      <4> QED
        BY <2>5, <3>6, <4>1, <4>3
    <3>8. CASE late
      <4>0. most = 3 * RuleMax /\ 2 * Apart >= Window
        BY <1>2, <3>8
      <4>1. b + RuleMax <= hi
        BY <2>4, <3>0, <3>3, <3>5, <4>0
      <4>2. PICK c \in o : b + 1 <= c /\ c <= b + RuleMax
        <5>1. b + 1 \in Nat \ {0} /\ (b + 1) + RuleMax - 1 <= Len(seq)
          BY <2>4, <3>0, <3>5, <4>1
        <5>2. PICK i \in o : b + 1 <= i /\ i <= (b + 1) + RuleMax - 1
          BY <1>3, <5>1
        <5>3. (b + 1) + RuleMax - 1 = b + RuleMax
          BY <3>0, <3>5
        <5> QED
          BY <5>2, <5>3
      <4>3. c \in Nat /\ c \in 1..Len(seq) /\ b + 1 <= c /\ c <= b + RuleMax
        BY <1>3, <4>2
      <4>4. b < c /\ c <= hi
        BY <2>4, <3>0, <3>5, <4>1, <4>3
      <4>5. seq[c] \in Nat /\ seq[b] + Apart <= seq[c] /\ seq[c] <= seq[hi]
        BY <1>1, <1>3, <2>4, <3>4, <4>2, <4>3, <4>4
      <4> QED
        BY <2>5, <3>6, <4>0, <4>5
    <3> QED
      BY <3>7, <3>8
  <2>7. IsFiniteSet(lo..hi) /\ Cardinality(lo..hi) = hi - lo + 1
    <3>1. lo \in Int /\ hi \in Int /\ lo <= hi
      BY <2>4
    <3>2. IsFiniteSet(lo..hi)
          /\ Cardinality(lo..hi) = IF lo > hi THEN 0 ELSE hi - lo + 1
      BY <3>1, FS_Interval
    <3>3. ~(lo > hi)
      BY <2>4
    <3> QED
      BY <3>2, <3>3
  <2>8. in \subseteq lo..hi
    <3> HIDE DEF in
    <3> QED
      BY <2>1, <2>2, <2>3, <2>4
  <2>9. Cardinality(in) <= Cardinality(lo..hi) /\ Cardinality(in) \in Nat
    <3> HIDE DEF in
    <3>1. IsFiniteSet(in) /\ Cardinality(in) <= Cardinality(lo..hi)
      BY <2>7, <2>8, FS_Subset
    <3> QED
      BY <3>1, FS_CardinalityType
  <2>10. Burst(k, from) = Cardinality(in)
    BY DEF Burst
  <2> HIDE DEF in
  <2>11. most \in Nat
    BY <1>2
  <2>12. Burst(k, from) < most
    BY <2>4, <2>6, <2>7, <2>9, <2>10, <2>11
  <2> QED
    BY <2>12 DEF most
<1> QED
  BY <1>4, <1>5

-----------------------------------------------------------------------------
(* The steps.                                                              *)

\* At first nobody was let through.
LEMMA LimiterStarts == LimiterInit => LimiterIInv
<1> SUFFICES ASSUME LimiterInit
             PROVE  LimiterIInv
  OBVIOUS
<1>1. LimiterTypeOK
  <2>1. <<>> \in Seq(0..EndOfTime) /\ 0 \in 0..EndOfTime
    BY LimiterNumbers
  <2> QED
    BY <2>1, LimiterNumbers DEF LimiterInit, LimiterTypeOK
<1>2. ChargesAreDue
  BY DEF LimiterInit, ChargesAreDue
<1>3. ASSUME NEW k \in Keys
      PROVE  Cut(admitted[k], buckets[k], clock, Apart, {})
  <2>1. admitted[k] = <<>> /\ buckets[k] = NoWindow /\ Len(<<>>) = 0
    BY <1>3 DEF LimiterInit
  <2>2. \A j \in Nat \ {0} : ~(j + RuleMax - 1 <= 0)
    BY LimiterNumbers
  <2> QED
    BY <2>1, <2>2 DEF Cut
<1> QED
  BY <1>1, <1>2, <1>3 DEF LimiterIInv, BurstsAreCut

\* What the types say of one allowance.
LEMMA AllowanceType ==
    ASSUME LimiterTypeOK, NEW k \in Keys
    PROVE  /\ admitted[k] \in Seq(Nat) /\ buckets[k] \in OpenWindow \union {NoWindow}
           /\ clock \in Nat
<1>1. admitted[k] \in Seq(0..EndOfTime) /\ (0..EndOfTime) \subseteq Nat
  BY LimiterNumbers DEF LimiterTypeOK
<1>2. admitted[k] \in Seq(Nat)
  BY <1>1, SeqMonotonic
<1> QED
  BY <1>2, LimiterNumbers DEF LimiterTypeOK, OpenWindow

\* A thread that has read the clock and whose request it is.
LEMMA ReadClockKeeps ==
    ASSUME LimiterIInv, NEW t \in Threads, NEW door \in Doors,
           NEW a \in Clients, NEW sent \in Sent, NEW cf \in Named,
           ReadClock(t, door, a, sent, cf)
    PROVE  LimiterIInv'
<1>1. PICK hit \in Arriving(a, sent, cf) :
         call' = [call EXCEPT ![t] =
                     [key |-> Key(door, hit), now |-> clock, door |-> door,
                      client |-> IF Vouches(hit, a) THEN a ELSE NoAddr]]
  BY DEF ReadClock
<1>2. UNCHANGED <<clock, buckets, nextSweep, admitted, late>>
  BY DEF ReadClock
<1>3. /\ Key(door, hit) \in Keys
      /\ Vouches(hit, a) => Key(door, hit) = Bucket(door, a)
  BY ClientIsKnown DEF Key, Keys, Bucket
<1> DEFINE c == [key |-> Key(door, hit), now |-> clock, door |-> door,
                 client |-> IF Vouches(hit, a) THEN a ELSE NoAddr]
<1>4. /\ c.key = Key(door, hit) /\ c.now = clock /\ c.door = door
      /\ c.client = IF Vouches(hit, a) THEN a ELSE NoAddr
  OBVIOUS
<1>5. /\ c \in Charge /\ c.now = clock
      /\ c.client # NoAddr => c.key = Bucket(c.door, c.client)
  <2>1. c \in Charge
    BY <1>3 DEF Charge, LimiterIInv, LimiterTypeOK
  <2> HIDE DEF c
  <2> QED
    BY <1>3, <1>4, <2>1
<1> HIDE DEF c
<1>6. call' = [call EXCEPT ![t] = c]
  BY <1>1 DEF c
<1>7. LimiterTypeOK'
  BY <1>2, <1>5, <1>6 DEF LimiterIInv, LimiterTypeOK
<1>8. ChargesAreDue'
  <2>1. \A s \in Threads : call'[s] = IF s = t THEN c ELSE call[s]
    BY <1>6 DEF LimiterIInv, LimiterTypeOK
  <2>2. clock \in Nat /\ clock - clock <= Lag
    BY LimiterNumbers DEF LimiterIInv, LimiterTypeOK
  <2>3. ASSUME NEW s \in Threads, call'[s] # NoCall
        PROVE  /\ call'[s].client # NoAddr =>
                     call'[s].key = Bucket(call'[s].door, call'[s].client)
               /\ call'[s].now <= clock /\ clock - call'[s].now <= Lag
    <3>1. CASE s = t
      BY <1>5, <2>1, <2>2, <3>1
    <3>2. CASE s # t
      BY <2>1, <2>3, <3>2 DEF LimiterIInv, ChargesAreDue
    <3> QED
      BY <3>1, <3>2
  <2> QED
    BY <1>2, <2>3 DEF ChargesAreDue
<1>9. BurstsAreCut'
  BY <1>2 DEF LimiterIInv, BurstsAreCut, Apart
<1> QED
  BY <1>7, <1>8, <1>9 DEF LimiterIInv

\* Time passes.
LEMMA TickKeeps ==
    ASSUME LimiterIInv, Tick
    PROVE  LimiterIInv'
<1>1. /\ clock' = clock + 1 /\ clock < EndOfTime
      /\ UNCHANGED <<buckets, nextSweep, call, admitted, late>>
      /\ \A t \in Threads : call[t] # NoCall => clock - call[t].now < Lag
  BY DEF Tick
<1>2. clock \in Nat /\ EndOfTime \in Nat /\ Lag \in Nat
  BY LimiterNumbers DEF LimiterIInv, LimiterTypeOK
<1>3. LimiterTypeOK'
  <2>1. clock' \in 0..EndOfTime
    BY <1>1, <1>2
  <2> QED
    BY <1>1, <2>1 DEF LimiterIInv, LimiterTypeOK
<1>4. ChargesAreDue'
  <2>1. ASSUME NEW t \in Threads, call[t] # NoCall
        PROVE  /\ call[t].client # NoAddr => call[t].key = Bucket(call[t].door, call[t].client)
               /\ call[t].now <= clock' /\ clock' - call[t].now <= Lag
    <3>1. call[t].now \in Nat
      <4>1. call[t] \in Charge
        BY <2>1 DEF LimiterIInv, LimiterTypeOK
      <4> QED
        BY <1>2, <4>1 DEF Charge
    <3>2. /\ call[t].client # NoAddr => call[t].key = Bucket(call[t].door, call[t].client)
          /\ call[t].now <= clock /\ clock - call[t].now < Lag
      BY <1>1, <2>1 DEF LimiterIInv, ChargesAreDue
    <3> QED
      BY <1>1, <1>2, <3>1, <3>2
  <2> QED
    BY <1>1, <2>1 DEF ChargesAreDue
<1>5. ASSUME NEW k \in Keys
      PROVE  \E o \in SUBSET Nat : Cut(admitted[k], buckets[k], clock', Apart, o)
  <2>1. PICK o \in SUBSET Nat : Cut(admitted[k], buckets[k], clock, Apart, o)
    BY DEF LimiterIInv, BurstsAreCut
  <2>2. clock' \in Nat /\ clock <= clock' /\ Apart \in Nat /\ Apart <= Apart
    BY <1>1, <1>2, LimiterNumbers
  <2>3. Cut(admitted[k], buckets[k], clock', Apart, o)
    BY <1>2, <2>1, <2>2, CutLater, AllowanceType DEF LimiterIInv
  <2> QED
    BY <2>3
<1>6. BurstsAreCut'
  BY <1>1, <1>5 DEF BurstsAreCut, Apart
<1> QED
  BY <1>3, <1>4, <1>6 DEF LimiterIInv

\* A check: sweep, then count, open or refuse.
LEMMA CheckKeeps ==
    ASSUME LimiterIInv, NEW t \in Threads, Check(t)
    PROVE  LimiterIInv'
<1> DEFINE at == call[t].now
           key == call[t].key
           swept == Swept(at)
           w == Current(swept[key], at)
           fuller == [w EXCEPT !.count = @ + 1]
<1>1. /\ call[t] # NoCall /\ call[t] \in Charge
      /\ key \in Keys
      /\ at \in Nat /\ clock \in Nat /\ at <= clock /\ clock - at <= Lag
  <2>1. call[t] # NoCall /\ call[t] \in Charge
    BY DEF Check, LimiterIInv, LimiterTypeOK
  <2>2. call[t].key \in Keys /\ call[t].now \in Nat
    BY <2>1, LimiterNumbers DEF Charge
  <2> QED
    BY <2>1, <2>2, LimiterNumbers DEF LimiterIInv, LimiterTypeOK, ChargesAreDue
<1>2. /\ nextSweep' = IF at >= nextSweep THEN at + SweepEvery ELSE nextSweep
      /\ IF Over(w)
         THEN buckets' = [swept EXCEPT ![key] = w] /\ admitted' = admitted
         ELSE /\ buckets' = [swept EXCEPT ![key] = fuller]
              /\ admitted' = [admitted EXCEPT ![key] = Append(@, clock)]
      /\ call' = [call EXCEPT ![t] = NoCall]
      /\ late' = (late \/ at < clock)
      /\ clock' = clock
  BY <1>1 DEF Check
<1>3. /\ Apart' \in Nat /\ Apart' <= Apart
      /\ at + Window \in Nat /\ at + Window >= clock + Apart'
  <2>1. CASE late'
    <3>1. Apart' = Window - Lag
      BY <2>1 DEF Apart
    <3> QED
      BY <1>1, <3>1, LimiterNumbers
  <2>2. CASE ~late'
    <3>1. ~late /\ ~(at < clock)
      BY <1>2, <2>2
    <3>2. at = clock
      BY <1>1, <3>1
    <3>3. Apart' = Window /\ Apart = Window
      BY <2>2, <3>1 DEF Apart
    <3> QED
      BY <1>1, <3>2, <3>3, LimiterNumbers
  <2> QED
    BY <2>1, <2>2
<1>4. /\ swept \in [Keys -> OpenWindow \union {NoWindow}]
      /\ \A k \in Keys : \/ swept[k] = buckets[k]
                         \/ swept[k] = NoWindow /\ buckets[k] # NoWindow /\ buckets[k].reset_at <= at
  BY DEF Swept, Expired, LimiterIInv, LimiterTypeOK, OpenWindow
<1> HIDE DEF at, key, swept
<1>5. ASSUME NEW k \in Keys
      PROVE  \E o \in SUBSET Nat : Cut(admitted[k], swept[k], clock, Apart', o)
  <2>1. PICK o \in SUBSET Nat : Cut(admitted[k], buckets[k], clock, Apart, o)
    BY DEF LimiterIInv, BurstsAreCut
  <2>2. /\ admitted[k] \in Seq(Nat) /\ buckets[k] \in OpenWindow \union {NoWindow}
        /\ Apart \in Nat /\ clock <= clock
    BY <1>1, AllowanceType, LimiterNumbers DEF LimiterIInv
  <2>3. Cut(admitted[k], buckets[k], clock, Apart', o)
    BY <1>1, <1>3, <2>1, <2>2, CutLater
  <2>4. CASE swept[k] = buckets[k]
    BY <2>3, <2>4
  <2>5. CASE swept[k] = NoWindow /\ buckets[k] # NoWindow /\ buckets[k].reset_at <= at
    <3>1. buckets[k] \in OpenWindow /\ buckets[k].reset_at \in Nat
      BY <2>2, <2>5 DEF OpenWindow
    <3>2. buckets[k].reset_at <= clock
      BY <1>1, <2>5, <3>1
    <3>3. Cut(admitted[k], NoWindow, clock, Apart', o)
      BY <1>1, <1>3, <2>2, <2>3, <2>5, <3>1, <3>2, CutDropped
    <3> QED
      BY <2>5, <3>3
  <2> QED
    BY <1>4, <2>4, <2>5
<1>6. PICK o \in SUBSET Nat : Cut(admitted[key], swept[key], clock, Apart', o)
  BY <1>1, <1>5
<1>7. admitted[key] \in Seq(Nat) /\ swept[key] \in OpenWindow \union {NoWindow}
  BY <1>1, <1>4, AllowanceType DEF LimiterIInv
<1>8. \/ buckets' = swept /\ admitted' = admitted
      \/ \E v \in OpenWindow, p \in SUBSET Nat :
            /\ buckets' = [swept EXCEPT ![key] = v]
            /\ admitted' = [admitted EXCEPT ![key] = Append(@, clock)]
            /\ Cut(Append(admitted[key], clock), v, clock, Apart', p)
  <2>1. CASE swept[key] # NoWindow /\ ~(swept[key].reset_at <= at)
    <3>1. w = swept[key] /\ w \in OpenWindow /\ w # NoWindow
      BY <1>7, <2>1 DEF Current, Expired
    <3>2. CASE Over(w)
      BY <1>1, <1>2, <1>4, <3>1, <3>2
    <3>3. CASE ~Over(w)
      <4>1. w.count \in 1..RuleMax /\ w.count < RuleMax /\ w.reset_at \in Nat
        <5>1. w.count \in 1..RuleMax /\ w.reset_at \in Nat /\ ~(w.count >= RuleMax)
          BY <3>1, <3>3 DEF OpenWindow, Over
        <5> QED
          BY <5>1, LimiterNumbers
      <4>2. fuller \in OpenWindow
        <5>1. fuller = [reset_at |-> w.reset_at, count |-> w.count + 1]
          BY <3>1 DEF OpenWindow
        <5>2. w.count + 1 \in 1..RuleMax
          BY <4>1, LimiterNumbers
        <5> QED
          BY <4>1, <5>1, <5>2 DEF OpenWindow
      <4>3. Cut(Append(admitted[key], clock), fuller, clock, Apart', o)
        BY <1>1, <1>3, <1>6, <1>7, <3>1, <4>1, CutCounted
      <4>4. /\ buckets' = [swept EXCEPT ![key] = fuller]
            /\ admitted' = [admitted EXCEPT ![key] = Append(@, clock)]
        BY <1>2, <3>3
      <4> QED
        BY <4>2, <4>3, <4>4
    <3> QED
      BY <3>2, <3>3
  <2>2. CASE swept[key] = NoWindow \/ swept[key].reset_at <= at
    <3>1. w = [reset_at |-> at + Window, count |-> 0]
      BY <2>2 DEF Current, Expired
    <3>2. ~Over(w) /\ fuller = [reset_at |-> at + Window, count |-> 1]
      BY <3>1, LimiterNumbers DEF Over
    <3>3. fuller \in OpenWindow
      BY <1>3, <3>2, LimiterNumbers DEF OpenWindow
    <3>4. Cut(admitted[key], NoWindow, clock, Apart', o)
      <4>1. CASE swept[key] = NoWindow
        BY <1>6, <4>1
      <4>2. CASE swept[key] # NoWindow /\ swept[key].reset_at <= at
        <5>1. swept[key] \in OpenWindow /\ swept[key].reset_at \in Nat
          BY <1>7, <4>2 DEF OpenWindow
        <5>2. swept[key].reset_at <= clock
          BY <1>1, <4>2, <5>1
        <5> QED
          BY <1>1, <1>3, <1>6, <1>7, <4>2, <5>1, <5>2, CutDropped
      <4> QED
        BY <2>2, <4>1, <4>2
    <3>5. Cut(Append(admitted[key], clock), [reset_at |-> at + Window, count |-> 1], clock,
              Apart', o \union {Len(admitted[key]) + 1})
      BY <1>1, <1>3, <1>7, <3>4, CutOpened
    <3>6. o \union {Len(admitted[key]) + 1} \in SUBSET Nat
      <4>1. Len(admitted[key]) \in Nat
        BY <1>7, LenProperties
      <4>2. Len(admitted[key]) + 1 \in Nat
        BY <4>1
      <4> QED
        BY <4>2
    <3>7. /\ buckets' = [swept EXCEPT ![key] = fuller]
          /\ admitted' = [admitted EXCEPT ![key] = Append(@, clock)]
      BY <1>2, <3>2
    <3> QED
      BY <3>2, <3>3, <3>5, <3>6, <3>7
  <2> QED
    BY <2>1, <2>2
<1>9. /\ buckets' \in [Keys -> OpenWindow \union {NoWindow}]
      /\ admitted' \in [Keys -> Seq(0..EndOfTime)]
  <2>1. admitted \in [Keys -> Seq(0..EndOfTime)] /\ clock \in 0..EndOfTime
    BY DEF LimiterIInv, LimiterTypeOK
  <2>2. Append(admitted[key], clock) \in Seq(0..EndOfTime)
    BY <1>1, <2>1, AppendProperties
  <2> QED
    BY <1>4, <1>8, <2>1, <2>2
<1>10. LimiterTypeOK'
  <2>1. nextSweep' \in Nat
    <3>1. nextSweep \in Nat /\ at + SweepEvery \in Nat
      BY <1>1, LimiterNumbers DEF LimiterIInv, LimiterTypeOK
    <3> QED
      BY <1>2, <3>1
  <2>2. call' \in [Threads -> Charge \union {NoCall}]
    BY <1>2 DEF LimiterIInv, LimiterTypeOK
  <2>3. late' \in BOOLEAN /\ clock' \in 0..EndOfTime
    BY <1>2 DEF LimiterIInv, LimiterTypeOK
  <2> QED
    BY <1>9, <2>1, <2>2, <2>3 DEF LimiterTypeOK, OpenWindow
<1>11. ChargesAreDue'
  <2>1. \A s \in Threads : call'[s] = IF s = t THEN NoCall ELSE call[s]
    BY <1>2 DEF LimiterIInv, LimiterTypeOK
  <2> QED
    BY <1>2, <2>1 DEF LimiterIInv, ChargesAreDue
<1>12. BurstsAreCut'
  <2>1. CASE buckets' = swept /\ admitted' = admitted
    BY <1>2, <1>5, <2>1 DEF BurstsAreCut
  <2>2. CASE \E v \in OpenWindow, p \in SUBSET Nat :
            /\ buckets' = [swept EXCEPT ![key] = v]
            /\ admitted' = [admitted EXCEPT ![key] = Append(@, clock)]
            /\ Cut(Append(admitted[key], clock), v, clock, Apart', p)
    <3>1. PICK v \in OpenWindow, p \in SUBSET Nat :
            /\ buckets' = [swept EXCEPT ![key] = v]
            /\ admitted' = [admitted EXCEPT ![key] = Append(@, clock)]
            /\ Cut(Append(admitted[key], clock), v, clock, Apart', p)
      BY <2>2
    <3>2. admitted \in [Keys -> Seq(0..EndOfTime)]
      BY DEF LimiterIInv, LimiterTypeOK
    <3>3. \A k \in Keys : k # key => buckets'[k] = swept[k] /\ admitted'[k] = admitted[k]
      BY <1>1, <1>4, <3>1, <3>2
    <3>4. buckets'[key] = v /\ admitted'[key] = Append(admitted[key], clock)
      BY <1>1, <1>4, <3>1, <3>2
    <3>5. ASSUME NEW k \in Keys
          PROVE  \E q \in SUBSET Nat : Cut(admitted'[k], buckets'[k], clock, Apart', q)
      <4>1. CASE k = key
        BY <3>1, <3>4, <4>1
      <4>2. CASE k # key
        BY <1>5, <3>3, <4>2
      <4> QED
        BY <4>1, <4>2
    <3> QED
      BY <1>2, <3>5 DEF BurstsAreCut
  <2> QED
    BY <1>8, <2>1, <2>2
<1> QED
  BY <1>10, <1>11, <1>12 DEF LimiterIInv

\* The invariant holds.
LEMMA LimiterInvariance == LimiterSpec => []LimiterIInv
<1>1. LimiterIInv /\ [LimiterNext]_limiterVars => LimiterIInv'
  <2> SUFFICES ASSUME LimiterIInv, [LimiterNext]_limiterVars
               PROVE  LimiterIInv'
    OBVIOUS
  <2>1. CASE UNCHANGED limiterVars
    BY <2>1 DEF limiterVars, LimiterIInv, LimiterTypeOK, ChargesAreDue, BurstsAreCut, Apart
  <2> QED
    BY <2>1, ReadClockKeeps, CheckKeeps, TickKeeps DEF LimiterNext
<1> QED
  BY <1>1, LimiterStarts, PTL DEF LimiterSpec

\* Windows, calls and the history keep their types.
THEOREM LimiterTypeCorrect == LimiterSpec => []LimiterTypeOK
<1>1. LimiterIInv => LimiterTypeOK
  BY DEF LimiterIInv
<1> QED
  BY <1>1, LimiterInvariance, PTL

\* No stretch of a window's length lets twice the rule's maximum through a bucket, nor
\* three times where threads are held up, for any rule, sweep and threads.
THEOREM BurstsStayBounded == LimiterSpec => []BurstBounded
<1>1. LimiterIInv => BurstBounded
  BY CutBounds DEF LimiterIInv, BurstsAreCut, BurstBounded
<1> QED
  BY <1>1, LimiterInvariance, PTL

\* The buckets of two networks are apart, by whichever doors, and a client has one at
\* each door, for any addresses, headers and proxies, as long as no proxy passes on a
\* CF-Connecting-IP that names another.
THEOREM BucketsStayApart == LimiterSpec => []AllowancesApart
<1>1. LimiterIInv => AllowancesApart
  <2> SUFFICES ASSUME LimiterIInv, NEW t \in Threads, NEW u \in Threads,
                      Vouched(t), Vouched(u)
               PROVE  /\ call[t].key = call[u].key =>
                            Network[call[t].client] = Network[call[u].client]
                      /\ call[t].client = call[u].client /\ call[t].door = call[u].door =>
                            call[t].key = call[u].key
    BY DEF AllowancesApart
  <2>1. ASSUME NEW s \in Threads, Vouched(s)
        PROVE  /\ call[s].client \in Clients
               /\ call[s].key = Bucket(call[s].door, call[s].client)
    <3>1. call[s] \in Charge /\ call[s].client # NoAddr /\ call[s] # NoCall
      BY <2>1 DEF Vouched, LimiterIInv, LimiterTypeOK
    <3> QED
      BY <3>1 DEF Charge, LimiterIInv, ChargesAreDue
  <2>2. PICK a, b, k, m :
           /\ a = call[t].client /\ b = call[u].client
           /\ k = call[t].door /\ m = call[u].door
    OBVIOUS
  <2>3. /\ a \in Clients /\ b \in Clients
        /\ call[t].key = Bucket(k, a) /\ call[u].key = Bucket(m, b)
    BY <2>1, <2>2
  <2>4. /\ a \in Hosts /\ b \in Hosts
        /\ Network[a] \notin Hosts \ {a} /\ Network[b] \notin Hosts \ {b}
    BY <2>3, AddressAssumption DEF Hosts
  <2>5. ASSUME Bucket(k, a) = Bucket(m, b)
        PROVE  Network[a] = Network[b]
    <3>1. CASE k = "route" /\ m # "route"
      BY <2>4, <2>5, <3>1 DEF Bucket
    <3>2. CASE k # "route" /\ m = "route"
      BY <2>4, <2>5, <3>2 DEF Bucket
    <3>3. CASE k = "route" <=> m = "route"
      BY <2>5, <3>3 DEF Bucket
    <3> QED
      BY <3>1, <3>2, <3>3
  <2> QED
    BY <2>2, <2>3, <2>5
<1> QED
  BY <1>1, LimiterInvariance, PTL

=============================================================================

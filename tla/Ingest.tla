------------------------------- MODULE Ingest -------------------------------
(***************************************************************************)
(* How a book gets into one reader's library: pasted text, an uploaded     *)
(* file or a fetched link (books.rs create, import_url, insert_prepared;   *)
(* import.rs guarded_fetch), the extraction children behind a semaphore    *)
(* (extract.rs), and the weekly limit of the free hosted plan.             *)
(*                                                                         *)
(* A handler is a sequence of steps between its awaits.  A client may hang *)
(* up at any of them: the server drops the handler, and with it the slot   *)
(* and the child it holds; a database closure that was dispatched runs.    *)
(***************************************************************************)
EXTENDS Naturals, Sequences, SequencesExt, FiniteSets

CONSTANTS
    Requests,      \* requests that can be in progress at once
    MaxConcurrent, \* MAX_CONCURRENT extraction children, 2 in the code
    MaxRedirects,  \* MAX_REDIRECTS, 5 in the code
    Limit,         \* WEEKLY_UPLOAD_LIMIT, 15 in the code
    LastWeek,      \* bound: the weeks that begin
    Rows,          \* bound: rows of uploads, in the library and the trash
    Idle, NoBook   \* no request, and no upload in a row

ASSUME IngestAssumption ==
    /\ MaxConcurrent \in Nat \ {0} /\ MaxRedirects \in Nat
    /\ Limit \in Nat /\ LastWeek \in Nat /\ IsFiniteSet(Rows)

Weeks == 0..LastWeek

\* What a name can resolve to.
Addresses == {"public", "private"}

\* An upload is dated in a week.  In the library it is counted against that week's
\* limit, or excused: let in without a limit, or taken back out of the trash.
Books == [week : Weeks, place : {"counted", "excused", "trash"}]

\* The locals a handler has where it is; limited: nobody found pro time.
Handlers ==
    [pc : {"resolve", "sniff", "queued", "running", "prepared"}, hop : 0..MaxRedirects]
    \union [pc : {"connect"}, hop : 0..MaxRedirects, to : Addresses]
    \union [pc : {"limits"}, week : Weeks]
    \union [pc : {"insert", "detached"}, limited : BOOLEAN, week : Weeks]

ASSUME NoneAssumption == Idle \notin Handlers /\ NoBook \notin Books

VARIABLES
    req,      \* the handlers, by request: where each is and its locals
    queue,    \* the waiters of SLOTS, in order
    child,    \* the extraction child of a request: what it is doing
    books,    \* the uploads, by row
    week,     \* the current ISO week
    reached   \* history: kinds of addresses the server connected to

vars == <<req, queue, child, books, week, reached>>

Init ==
    /\ req = [r \in Requests |-> Idle]
    /\ queue = <<>>
    /\ child = [r \in Requests |-> "none"]
    /\ books = [b \in Rows |-> NoBook]
    /\ week = 0
    /\ reached = {}

At(r, pc) == req[r] # Idle /\ req[r].pc = pc

Running == {r \in Requests : At(r, "running")}

Goto(r, pc) == req' = [req EXCEPT ![r].pc = pc]

Library == <<books, week>>

-----------------------------------------------------------------------------
(* Arrival: the body has been read; the extractor's user is in hand.       *)

Vacant == {b \in Rows : books[b] = NoBook}

\* A request whose upload would exceed the bound does not come.
Arrive(r, pc) ==
    /\ req[r] = Idle
    /\ child[r] = "none"
    /\ Cardinality({q \in Requests : req[q] # Idle}) < Cardinality(Vacant)
    /\ req' = [req EXCEPT ![r] = [pc |-> pc, hop |-> 0]]
    /\ UNCHANGED <<queue, child, reached, Library>>

\* POST /api/books with text (or /api/import/html) or with a file, and
\* POST /api/import/url.
Create == \E r \in Requests : Arrive(r, "prepared") \/ Arrive(r, "sniff")
ImportUrl == \E r \in Requests : Arrive(r, "resolve")

\* The MCP tools save_text and import_url: another door onto the same two paths.  The
\* calls of a batch come one by one, and a hang-up ends the rest with the one it hits.
CallTool == \E r \in Requests : Arrive(r, "prepared") \/ Arrive(r, "resolve")

\* The response goes out.
Answered(r) == req' = [req EXCEPT ![r] = Idle]

-----------------------------------------------------------------------------
(* guarded_fetch.                                                          *)

\* Mutant: one public address is enough.
Vetted_Any(addrs) == "public" \in addrs

\* Every address a name resolves to has to be public.
Vetted(addrs) == addrs # {} /\ "private" \notin addrs

\* Scheme, DNS lookup and vetting of one hop: the answers may differ each time
\* a name is looked up.  One vetted address is pinned.
Resolve(r, addrs, pinned) ==
    /\ At(r, "resolve")
    /\ IF Vetted(addrs) /\ pinned \in addrs
       THEN req' = [req EXCEPT ![r] = [pc |-> "connect", hop |-> @.hop, to |-> pinned]]
       ELSE Answered(r)
    /\ UNCHANGED <<queue, child, reached, Library>>

\* Mutant: as many redirects as the sites like.
TooMany_Never(hop) == FALSE

TooMany(hop) == hop > MaxRedirects

\* The request to the pinned address: it fails or times out, it redirects, or a
\* body comes back, of which an article's text is extracted without a child.
Connect(r) ==
    LET back(pc, hop) == [pc |-> pc, hop |-> hop]
        next == req[r].hop + 1
    IN  /\ At(r, "connect")
        /\ reached' = reached \union {req[r].to}
        /\ \/ Answered(r)
           \/ IF TooMany(next) THEN Answered(r)
              ELSE req' = [req EXCEPT ![r] = back("resolve", next)]
           \/ \E pc \in {"sniff", "prepared"} : req' = [req EXCEPT ![r] = back(pc, 0)]
        /\ UNCHANGED <<queue, child, Library>>

-----------------------------------------------------------------------------
(* sniff_bytes and extract.                                                *)

\* A slot is free only when nobody waits: a released one goes to the first waiter.
Free == Cardinality(Running) < MaxConcurrent

\* Plain text needs no child; a PDF or an EPUB asks for a slot; the rest is refused.
Sniff(r) ==
    /\ At(r, "sniff")
    /\ \/ Goto(r, "prepared") /\ UNCHANGED <<queue, child>>
       \/ Answered(r) /\ UNCHANGED <<queue, child>>
       \/ /\ Free
          /\ Goto(r, "running")
          /\ child' = [child EXCEPT ![r] = "busy"]
          /\ UNCHANGED queue
       \/ /\ ~Free
          /\ Goto(r, "queued")
          /\ queue' = Append(queue, r)
          /\ UNCHANGED child
    /\ UNCHANGED <<reached, Library>>

\* The waiters without r.
Left(r) == RemoveAt(queue, CHOOSE i \in DOMAIN queue : queue[i] = r)

\* Nobody got a slot for a minute: 503.
SlotTimeout(r) ==
    /\ At(r, "queued")
    /\ Answered(r)
    /\ queue' = Left(r)
    /\ UNCHANGED <<child, reached, Library>>

\* Mutant: a slot that is released is not handed on.
Heir_None == {}

\* Who gets a slot that is released now.
Heir == IF queue = <<>> THEN {} ELSE {Head(queue)}

\* Mutant: without kill_on_drop.
Killed_Not(state) == state

\* What becomes of a child whose handle is dropped: SIGKILL, unless it exited.
Killed(state) == IF state \in {"busy", "wrote"} THEN "killed" ELSE state

\* r lets go of its slot and its child, whose state is left; the first waiter
\* spawns its own.
Release(r, left) ==
    /\ queue' = IF Heir = {} THEN queue ELSE Tail(queue)
    /\ child' = [q \in Requests |-> IF q = r THEN left
                                    ELSE IF q \in Heir THEN "busy" ELSE child[q]]

After(r, pc) == [q \in Requests |->
    CASE q = r -> IF pc = "answered" THEN Idle ELSE [req[r] EXCEPT !.pc = pc]
      [] q \in Heir -> [req[q] EXCEPT !.pc = "running"]
      [] OTHER -> req[q]]

\* The child has written its line, or all it was going to.
Write(r) ==
    /\ At(r, "running") /\ child[r] = "busy"
    /\ child' = [child EXCEPT ![r] = "wrote"]
    /\ UNCHANGED <<req, queue, reached, Library>>

\* The child exits: with the text, or having crashed, hit its memory limit or
\* found too much or nothing (400).
Exit(r) ==
    /\ At(r, "running") /\ child[r] \in {"busy", "wrote"}
    /\ Release(r, "none")
    /\ \/ child[r] = "wrote" /\ req' = After(r, "prepared")
       \/ req' = After(r, "answered")
    /\ UNCHANGED <<reached, Library>>

\* Mutant: only reading the output is under the timeout, not the exit.
Overdue_Reading(r) == child[r] = "busy"

Overdue(r) == child[r] \in {"busy", "wrote"}

\* A minute is over: the child is killed, and the upload is a 400.
RunTimeout(r) ==
    /\ At(r, "running")
    /\ Overdue(r)
    /\ Release(r, Killed(child[r]))
    /\ req' = After(r, "answered")
    /\ UNCHANGED <<reached, Library>>

\* A killed child is gone.
Reap(r) ==
    /\ child[r] = "killed"
    /\ child' = [child EXCEPT ![r] = "none"]
    /\ UNCHANGED <<req, queue, reached, Library>>

-----------------------------------------------------------------------------
(* insert_prepared.                                                        *)

\* The timeline is built and the book dated.
Tokenize(r) ==
    /\ At(r, "prepared")
    /\ \/ Answered(r)       \* no words
       \/ req' = [req EXCEPT ![r] = [pc |-> "limits", week |-> week]]
    /\ UNCHANGED <<queue, child, reached, Library>>

\* pro_active: the plan as of the request's start, the referral days as of
\* today, the events as of now.  Each changes at any time: any answer.
ReadLimits(r) ==
    /\ At(r, "limits")
    /\ \E limited \in BOOLEAN :
          req' = [req EXCEPT ![r] = [pc |-> "insert", limited |-> limited, week |-> @.week]]
    /\ UNCHANGED <<queue, child, reached, Library>>

\* uploads_this_week, of the week w on.
Uploads(w) ==
    Cardinality({b \in Rows \ Vacant : books[b].place # "trash" /\ books[b].week >= w})

\* Mutant: off by one.
Full_OffByOne(w) == Uploads(w) > Limit

Full(w) == Uploads(w) >= Limit

\* The closure: count and insert in one.  A handler that was dropped meanwhile
\* does not stop it.
Insert(r) ==
    LET row == CHOOSE b \in Vacant : TRUE
        new == [week |-> req[r].week,
                place |-> IF req[r].limited THEN "counted" ELSE "excused"]
    IN  /\ At(r, "insert") \/ At(r, "detached")
        /\ Vacant # {}
        /\ books' = IF req[r].limited /\ Full(req[r].week) THEN books
                    ELSE [books EXCEPT ![row] = new]
        /\ Answered(r)
        /\ UNCHANGED <<queue, child, week, reached>>

-----------------------------------------------------------------------------
(* The client hangs up.                                                    *)

HangUp(r) ==
    /\ req[r] # Idle
    /\ CASE req[r].pc = "running" ->
               Release(r, Killed(child[r])) /\ req' = After(r, "answered")
         [] req[r].pc = "queued" ->
               /\ Answered(r)
               /\ queue' = Left(r)
               /\ UNCHANGED child
         [] req[r].pc \in {"insert", "detached"} -> Goto(r, "detached") /\ UNCHANGED <<queue, child>>
         [] OTHER -> Answered(r) /\ UNCHANGED <<queue, child>>
    /\ UNCHANGED <<reached, Library>>

(* The library and the calendar meanwhile. *)

\* delete_book, restore_book, purge_book of an upload.
Trash(b) ==
    /\ books[b].place # "trash"
    /\ books' = [books EXCEPT ![b].place = "trash"]
    /\ UNCHANGED <<req, queue, child, week, reached>>

Restore(b) ==
    /\ books[b].place = "trash"
    /\ books' = [books EXCEPT ![b].place = "excused"]
    /\ UNCHANGED <<req, queue, child, week, reached>>

Purge(b) ==
    /\ books[b].place = "trash"
    /\ books' = [books EXCEPT ![b] = NoBook]
    /\ UNCHANGED <<req, queue, child, week, reached>>

Monday ==
    /\ week < LastWeek
    /\ week' = week + 1
    /\ UNCHANGED <<req, queue, child, books, reached>>

-----------------------------------------------------------------------------
Fetch(r) ==
    \/ \E addrs \in SUBSET Addresses, pinned \in Addresses : Resolve(r, addrs, pinned)
    \/ Connect(r)

\* What the server does by itself.
Progress(r) ==
    \/ Fetch(r) \/ Sniff(r) \/ Tokenize(r) \/ ReadLimits(r) \/ Insert(r)

\* Nobody can be relied upon to do any of this.
Environment ==
    \/ Create \/ ImportUrl \/ CallTool
    \/ \E r \in Requests : Write(r) \/ Exit(r) \/ Reap(r) \/ HangUp(r)
    \/ \E b \in Rows \ Vacant : Trash(b) \/ Restore(b) \/ Purge(b)
    \/ Monday

Next ==
    \/ \E r \in Requests : Progress(r) \/ SlotTimeout(r) \/ RunTimeout(r)
    \/ Environment

Spec == Init /\ [][Next]_vars

\* Tasks are run and timers fire; children may hang.  A request is always in
\* reach of exactly one of the three.
Fairness ==
    \A r \in Requests : WF_vars(Progress(r) \/ SlotTimeout(r) \/ RunTimeout(r))

FairSpec == Spec /\ Fairness

-----------------------------------------------------------------------------
(* Properties.                                                             *)

\* Handlers have the locals of where they are, a fetch takes no more hops than the
\* redirects allow, and the waiters are those that wait, each once.
TypeOK ==
    /\ req \in [Requests -> Handlers \union {Idle}]
    /\ queue \in Seq(Requests)
    /\ IsInjective(queue) /\ ToSet(queue) = {r \in Requests : At(r, "queued")}
    /\ child \in [Requests -> {"none", "busy", "wrote", "killed"}]
    /\ books \in [Rows -> Books \union {NoBook}]
    /\ week \in Weeks
    /\ reached \subseteq Addresses

\* "DNS resolved to public unicast IPs, the connection pinned to the vetted IP":
\* whatever each lookup answers, on every hop, no private address is contacted.
NeverContactsPrivate == "private" \notin reached

\* "A semaphore bounds how many children run at once", timeouts and hang-ups
\* included: children that were not killed are never more than the slots, and
\* each works for a request that still waits for it.
ChildrenBounded ==
    LET alive == {r \in Requests : child[r] \in {"busy", "wrote"}}
    IN  alive = Running /\ Cardinality(alive) <= MaxConcurrent

\* No slot is idle while an upload waits, however slots came free and whoever
\* gave up waiting.
NoIdleSlot == queue # <<>> => Cardinality(Running) = MaxConcurrent

\* "Check + insert are atomic" (books.rs): whatever overlaps, the uploads of a
\* week that were let in against the limit and never left the library do not
\* exceed it; pro time read before the closure and books restored come on top.
WeeklyQuota ==
    \A w \in Weeks :
        Cardinality({b \in Rows : books[b] = [week |-> w, place |-> "counted"]}) <= Limit

\* "A child that dies for any reason is just a 400 for that one upload; the
\* server keeps serving": every request is answered or hung up on, children
\* that hang and slots that are taken notwithstanding.
EveryRequestEnds == \A r \in Requests : req[r] # Idle ~> req[r] = Idle
=============================================================================

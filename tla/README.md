# flick, formally

A TLA+ model of the flick server and its reading engine: the modules, the
configurations that model-check them, and machine-checked proofs of the core.
Every definition is translated from the Rust sources under `src/`;
`PROJECT.json` maps each one to the lines it stands for.

- [What is modelled](#inventory)
- [How the modules are written](#how-the-modules-are-written)
- [The modules, what their runs show, and their bounds](#modules-and-runs)
- [What is proved](#proofs)
- [Where the code and its documentation disagree](#disagreements)
- [What is not modelled](#not-modelled)
- [Plan](#plan)

Run a model with `tlc -workers 2 -config MCAccounts.cfg MCAccounts`, the proofs of
a module with `tlapm AccountsProofs.tla` (likewise `SignInProofs`, `ReaderProofs`,
`ReferralProofs`, `SharingProofs`, `AdminProofs`, `StorageProofs`, `IngestProofs`).

## Inventory

flick is one axum process over one SQLite file. All state that survives a
request is in that file, in the rate limiter's map, and in the extraction
semaphore. `Db::call` (db.rs) runs a closure on a blocking thread under the
connection's mutex: one closure never overlaps another, but a handler is a
sequence of closures with awaits between them, a client that hangs up drops the
handler between two of them (a dispatched closure still runs), and the statements
of a closure commit one by one unless it opens a transaction. Only
`merge_guest_into` does. That is where the hard behaviour of this code is.

| component | state | operations | what makes it correct |
|---|---|---|---|
| accounts and sessions (auth.rs, oidc.rs, db.rs) | `users`, `sessions`, `identities`, the cookie a browser holds | guest start, register, login, OAuth callback, logout, erasure, guest merge inside every sign-in | nothing outlives its user; a sign-in merges the guest it came with before its session starts; one account per email; identities stay put; books change hands only with a whole guest |
| library, catalog, trash (books.rs, catalog.rs) | `books` | seed, add, read, trash, restore, purge, lazy sweep, merge of two libraries | a merge keeps the furthest position and drops doubles only; an add makes the copies it says |
| email login codes (auth.rs) | `login_codes` | request, verify, expiry | single use; five attempts; attempts count against their own code |
| rate limiter (ratelimit.rs) | map of windows under a mutex | key from peer and headers, check, lazy sweep | a bounded burst per allowance, and no `X-Forwarded-For` changes whose allowance it is |
| referrals and events (referral.rs) | `users.ref*`, `pro_until`, `events` | invite, sign-up by invite, qualify, sweep and pay, reject | attributed once, never oneself, paid once |
| friends (social.rs) | `friends` | add by code, remove, list | one row per pair, between users that exist |
| timeline engine (core/src/lib.rs) | none | split, pivot, weights, paragraphs, pages (mcp.rs) | nothing lost; all views of a text align; pace is honest |
| reading stats, session log, wrapped (stats.rs, social.rs, `set_position`, `create_session`) | `reading_days`, `sessions_log` | report, session, stats, wrapped | streaks are runs of days; midnight is fair; the years add up; clients do not outrun the capped pace |
| extraction and ingest (extract.rs, import.rs, books.rs) | the semaphore, child processes, requests | upload, fetch, wait, run, time out, insert | bounded children, no lost slot, every request ends, weekly limit, no private address contacted |
| share links (books.rs) | `books.share_token`, `share_mode` | share, flip, revoke, serve, import | a link serves its book or nothing; revoked is revoked |
| admin surface (admin.rs) | `users.is_admin`, `plan`, `admin_sessions` | login, patch, delete | demotion ends what it should; profile saves do not touch privileges |
| migrations, start-up, search index (db.rs, main.rs, catalog.rs) | the schema, `user_version`, `books_fts`, `catalog_cache` | ten batches, the triggers, filling the cache | what serves has the whole schema; a start loses no row and comes up; no reference dangles; the index agrees with the rows; copies of a work share a timeline |
| OIDC and OAuth sign-in (oidc.rs) | the state cookie, a `OnceCell` per discovered provider | login, callback, discovery, exchange, session | one session at most per answer, in the browser that began the sign-in; nobody waits for a request that left |
| MCP endpoint (mcp.rs) | none | tools that call the handlers above | pages align with positions; another door onto the same limits |
| text extraction, search queries, export, mail, discovery documents, configuration, routing | none | | |

Interactions: every request resolves its user from a session first
(`AuthUser`) and works with that snapshot; sign-in calls merge, which touches
books, reading days, the session log and referral columns; erasure cascades over
all of them; uploads ask plan and events; the status page of referrals runs the
payout sweep.

The hazards these interactions create are listed, each at its line, under
`hazards` in `PROJECT.json`, with the properties that watch them.

## How the modules are written

- One action per `Db::call` closure or per stretch of a handler between two
  awaits. A handler's locals between two of its steps (the snapshot of its user,
  a looked-up target, a clock reading) are state, so they may be stale.
- Random ids and tokens are fresh names: an index that only grows, or a name that
  is never used again after its row is gone.
- A clock is a counter or a stage: `expired`, `overdue`, a week, a day.
- Variables marked *history* are not in the program; properties use them to speak
  of the past.
- Operators named `X_Something`, commented *Mutant*, are plausible bugs of the
  operator `X` that follows. No specification uses them; each shows that a
  property can fail.
- Where a property quotes what the repository says and the code does otherwise, a
  run expects the violation (`library_adds`, `doors_bucket`, `admin_demotion`), and a
  property of a passing run or a theorem says how far the code goes.
- Components that share no state are checked side by side in one run (`doors`,
  `reader`): in each step one of them moves while the others rest where they begin, so
  each is explored in full and no two are multiplied. Nothing is said of behaviours
  in which two of them move, and there is nothing to say: no action of one reads a
  variable of another.
- Every passing run has `CHECK_DEADLOCK FALSE`: names, days, weeks and counters
  are bounded, and when they are used up the model stops where the server would
  not.

## Modules and runs

### Accounts, Custody (run `accounts`)

`Accounts` has the `users`, `sessions`, `identities` and `books.user_id` columns
as functions and, for every request in progress, its stage (`pc`), the user
snapshot it carries and the cookie it came with. `register`, the OAuth callback
and the logins first find or create a user, then merge the cookie's guest, then
start a session: three steps that other requests, erasures, expiries and
hang-ups come between. `Custody` is the abstract promise about books: they
enter a library that exists, leave by their owner's hand or with it, and change
hands only when a guest becomes part of an existing account, all together.
`ImplementsCustody` is the refinement; the mapping is by name.

The run checks `NothingOutlivesItsUser`, `CookieSettled` (the cookie of a sign-in about
to start its session opens no unmerged guest), `OneAccountPerEmail`, `IdentityStable`
(`link_identity` is INSERT OR REPLACE) and the refinement; `OnlyOwnersDestroy` is
proved. Bounds: three users, two emails, two tokens, one identity, two books, two
requests. Two requests overlap in every way two handlers can; three users are needed for
a guest, an account, and a second account to be confused with; one identity suffices for
relinking.

### Library (runs `library`, `library_adds`)

Rows of `books` for one guest and one account, with catalog slug, position and
stage in the trash. Seeding, adding, reading, trashing (which sweeps), restoring,
purging and the merge with the exact order of its deletes. Two properties speak
of every `Merge(g, m)` step, of any two libraries that this can produce: no progress is
lost (`FurthestCopySurvives`) and no doubles are added (`MergeDeduplicates`). Seeding at
sign-up is a sequence of inserts that a crash may cut (`SignUpCut`). Bounds: one catalog
work of one word, three copies of each, one own book, four rows, one overdue row. Two
copies per side, one in the trash, is the case the order of the two deletes
is about; the deletes treat works independently.

`library_adds` asks what catalog.rs:184 says of the add handler: `AddIsIdempotent`, an add
makes one copy of a work that is not on the shelf and none of one that is. It is
violated: a guest that trashed its starter library is seeded again by the add, and the
work it adds is there twice (see [disagreements](#disagreements)). Five rows
leave room for that. How far it goes is proved (`OneCopyPerAdd`): only a guest without a
live book, and never more than two.

### LoginCodes (run `doors`)

One address, its pending code and requests that check the account in one call
and store the code in the next. The statements inside `code_verify` commit
separately, so the process may crash after the bump of the attempts. Properties:
`SingleUse`, `FiveAttempts`, `AttemptsAreItsOwn`. Bounds: two requests, two codes,
three attempts instead of five (a limit of three is reached by the same
interleavings), two crashes.

### RateLimiter (runs `doors`, `doors_bucket`)

One endpoint with its map of windows, and threads that read the clock before they
take the lock. The endpoint is the import of an address, because it has two doors:
the middleware charges the route to a client's network, the MCP tool charges the
same endpoint to its address. What is charged is derived as `client_ip` does it,
from the peer, `CF-Connecting-IP` and `X-Forwarded-For`: a request arrives directly,
through a proxy that appends to `X-Forwarded-For` and passes every other header on, as
the documented `reverse_proxy` does, or through a tunnel that sets its own
`CF-Connecting-IP`. In all three the client may have sent both headers itself.

`BurstBounded` is the "2x burst" of the source comment, per key of the map and whatever
requests are charged to it, and says a little more: of any stretch as long as a window, less
than twice the limit is let through. A thread held up between the clock and the lock can
make that three times, and the property says so. `AllowancesApart` is about the keys: two
checks are charged to one key only if their clients are of one network, whichever doors they
come by, and the same client by the same door is charged to the same key, whichever way it
came and whatever it wrote into `X-Forwarded-For`. It leaves out requests whose
`CF-Connecting-IP` a proxy passed on and that names somebody else: the code trusts it, and
such a client picks its bucket (see [disagreements](#disagreements)). Whose request a check
is is history (`client` of `call`), not the code's own key.

`doors_bucket` asks what mcp.rs:471 says, that the tool's bucket is the route's
(`SameBucket`), of the same instance; it is violated by an IPv6 client.

Bounds: an IPv4 and an IPv6 client and one proxy, two threads, one request per window of
two ticks, time from tick 0 to 2, a sweep every tick, a lag of one: a window ends, and is
swept or reopened, while a thread is held up. Two threads are needed for one to be
overtaken; a limit of one is exceeded by the shortest interleaving. What a client writes
into `X-Forwarded-For` is nothing or the other client's address, as the code looks at the
rightmost entry that is no proxy's; into `CF-Connecting-IP`, nothing or an address.

### Referral, Social (run `referral`)

Who was referred by whom through sign-ups, merges and erasures, the goal days that qualify
an invitee, and the payout sweep, which is one closure but no transaction and may crash
anywhere. `FriendLink` is the other way to be referred (social.rs records the owner of a
friend link as referrer). `Social` extends it by the rows of `friends`: adding by code,
removing, and the cascades of merges and erasures; its steps are those of `Referral` with
what they do to friendships, and its own. The run checks `Social`, and `NeverSelf` and
`PaidOncePerCrash` of `Referral` in it; `FriendsCanPart` says that a friendship is between
two users that exist and that either ends it for both. Bounds: three users, one day, two
addresses, one crash. Three users are a referrer, an invitee, and one more to be either. A
guest and an account that came by invites of two different referrers take four users:
`AttributedOnce` (a referrer once recorded is never replaced) is therefore proved, and not a
property of the run.

### Timeline (run `reader`)

The pure engine, as operators on a text of tokens. A token has what the engine looks at
instead of its letters: how much leads and trails its core, the core's length, and at
which places of the core there are letters or digits, vowels, digits, capitals and
hyphens; its frequency factors, what punctuation ends it. Whatever is in a core and no
letter is an apostrophe, a dot, a hyphen, a slash: `core_bounds` trims the ends only, and
does so for each chunk again, so a cut next to a slash moves a chunk's core (`Core`,
`CoreStart`). The factors for digits, capitals and hyphens stack as the code stacks them
(`Kind`). Weights are integers in thousandths, each truncated where the code multiplies
f32s; the sum for the mean is rounded after each addition as a running f32 sum is
(`FloatSum`: `Significand` is 2^24 in the code).

The next-state relation writes a text token by token, so the run covers every text of at
most four tokens out of five: "I'm." (an apostrophe inside), "(12-30)," (digits and a
hyphen inside, brackets outside), a compound that splits at a vowel, an address whose
cuts fall next to slashes and hyphens, in capitals and with a digit, and a row of dashes
without any letter. `SplitsWell` says that a token's chunks cover it, leave no stubs, are
no longer than the caps (`CHUNK_LEN`, and for the last chunk `SPLIT_ABOVE`), and that the
pivot is between the first and the last letter a chunk shows. It does not say that the
pivot is a letter: that of I'm is the apostrophe. `HonestPace` says that a normalised text
takes the time its pace says, up to the rounding of each word and what the running sum
loses, which grows with the length of the text; it is about texts of up to an eighth of
2^24 words, two million, while the largest text the server extracts (32 MiB) may have more.
`ViewsAlign` is the promise all clients depend on: position n is the same word in the
timeline, in `/text` and in every paging of the MCP tool. It is about one engine: a timeline
stored by an older release against the text of today is not in it.

`SplitAbove` and `ChunkLen` are the source's. The normalisation threshold, the language
window and the long sentence are lowered to be reached by four tokens, and `Significand` to
1024, so that sums of a few words are rounded. `TimelineAssumption` says of a token only
what any token satisfies: a core begins and ends in a letter or has none at all, vowels,
digits and capitals are letters and a hyphen is none.

### Reading (run `reader`)

Day reports, streaks, the session log, lifetime totals and the yearly wrapped, with
Hinnant's civil-date algorithms that stand between the stored dates and the computed
days. A report is accepted (checked against the server's day) in one step and
recorded in a later one, so midnight can pass in between. A session is filed under
the instant at which the client says it began, of which the model keeps the UTC day, with
its words clamped around what its time and capped pace make. stats.rs:202 accepts any
instant that is not negative, so `CreateSession` dates one today or on any of the days in
`Begun`: the first of 1970, a new year's day, one in the next century.

`StreaksAreRuns`: the scan and the walk back find what the definition of a streak says.
`MidnightIsFair`: midnight (the server's) turns the Gregorian calendar's page, a met day
carries the streak over it, a day that was not met ends it. `YearsAddUp`: the wrapped of all
years that can be asked for, the words dated tomorrow in the year to come, and the sessions
dated outside those years add up to the lifetime totals, and no session is in two years,
though days are attributed by the text of their date and sessions by instants between two
parsed new years. Sessions astray are in the lifetime totals and in nobody's wrapped: that
is what the code does, and the property says it. `PaceIsCapped`: whatever summaries clients
send, the lifetime pace stays within the cap and its tolerance.

The totals are sums over sets of rows (`Total`), and the scan for the best streak is a
recursive function over the sorted days, as the loop of `streaks` is.

Bounds: three days from each of two leap days (2000, a century's, and 2024), a new year, and
the end of February 2100, which has no leap day; a goal of two words, reached by one report
or by two, a skew of one day, one session that begins today or on one of three far days, out
of a short one with too many words, a long one with too few and one that is refused.
`FirstYear` is 2000 instead of 2020, so that every year of these days can be asked for, the
one a skew reaches back to included; `YearAssumption` says that, of the day log.

### Ingest (run `ingest`)

Requests that fetch, sniff, wait for a slot, run a child, tokenize and insert.
`Vetted`/`Resolve` is `guarded_fetch`: each hop's name is looked up anew and may answer
differently. The MCP tools are a second door onto the same paths (`CallTool`). Uploads
are rows, in a week, counted against its limit or excused from it, or in the trash. The
semaphore is fair (tokio's is): a released slot goes to the first waiter. A client may
hang up at any step; a running child is then killed, a dispatched insert still runs.
Whether a user has pro time is any answer, since plans, referral days and events change
at any moment.

Safety: `NeverContactsPrivate`, `ChildrenBounded`, `NoIdleSlot`, `WeeklyQuota`
(uploads counted against a week's limit never exceed it, however requests
overlap; a restore is not counted by the code, and restored rows are excused here).
Liveness: `EveryRequestEnds`. Its fairness is weak fairness of the server's own
steps and of its two timers, per request: tokio polls every task that is woken and
fires every timer. Children, clients and remote sites get none: a child may hang
for ever, and it is the timeout around reading *and* waiting that ends the
request. Resolution and requests to remote sites end because reqwest's client has
a timeout and the resolver one of its own. Bounds: three requests on one slot (one
runs, two wait, and the first waiter may give up), one redirect, a limit of one,
two weeks, three rows of uploads. With the limit at one, two
overlapping requests are enough to exceed it.

### Sharing (run `sharing`)

Tokens and modes of books across the trash, copies, merge and erasure. A step may
be any former user's, because a handler may still hold a user that has gone.
`LinksServeTheirBook`, `RevokedStaysRevoked`, `LinksEndByTheOwner` (signing in never
breaks the link of one's own book); `ReadOnlyIsNotCopied` is proved. Bounds: a guest, an
account, one work, three books and two tokens ever: a second token is needed for a
new share after a revocation, a third book for a copy next to doubles in a merge.
Positions are kept for catalog works only, where the merge looks at them.

### Admin (runs `admin`, `admin_demotion`)

Logins, `require_admin`, PATCH and DELETE as their separate calls, next to a user's
own profile edits, which write back what the extractor read. A handler may be dropped
between two calls (`Drop`). `user_set_admin` updates `is_admin` and then deletes the
sessions, in one call but in two commits: `SetAdmin` is the call as it usually goes, since
the connection is locked, and `SetAdminCut` the UPDATE alone, when the server dies before
the DELETE or the DELETE fails.

`admin_demotion` asks what db.rs:1490 says, that demoting kills the panel's sessions
(`SessionsDieWithDemotion`): a session whose login read the row before the last demotion
is not there. It is violated, by a demotion cut between its commits and by a login that
overtakes one. What holds is checked in `admin` and proved: `WholeDemotionsEndSessions`,
a session that was in the table when its user was demoted is left only by a demotion that
was cut (`spared`, history), and the next whole one takes it along. `LastAdminStays` (the
panel is locked only by the token, by self-erasure or by requests that overtake one another),
`PrivilegesAreGranted` (a stale profile never restores a revoked privilege);
`NothingAfterDemotion` is proved: neither kind of session authorises anything while its user
is not an admin. Bounds: two users that may both be admins, a session, two requests, one
demotion each; one session is what is spared, or overtaken, and the second user
acts by it or by the token. Both users have an email, so the refusal to promote one
without is not exercised.

### Storage (run `storage`)

The database file across starts. `RunStatement` runs the next statement of the next
batch, `SetVersion` commits `user_version` after it, `Stop` is a crash or an error
between any two commits. Batches 1 and 2 commit statement by statement (four stand for
however many there are), the later ones as a transaction. A statement that has run
before fails and the process exits; it may be started again, as the unit in `deploy/`
does at once. Batch 3 turns foreign keys off (`KeysDuring`), rebuilds `users` by copying,
dropping and renaming, turns the legacy subjects into identities, and turns foreign keys
on again (`KeysAfter`); with keys on, the drop would take along whatever refers to a
user, as SQLite does. Batch 4 fills the full-text index. `Init` is the file of a release
of any version. When no batch is left the server serves: rows are inserted, updated and
deleted with the triggers that keep the index in step and, with keys on, the cascades of
an erasure; rowids are used again, and the cache of catalog timelines keeps the timeline
of the release that made it.

`ServesWhole`: a server that serves has every batch behind it, and every legacy subject its
identity. `UpgradeKeepsRows`: no step of a start changes a user, session or book; it rests
on the keys being off while the table is dropped. `NothingDangles`: no session, identity or
book is left with a user who is gone; it rests on their being on again once the server
serves. `StartComesUp`: a start comes up or is stopped, unless an earlier one was cut
between a batch and its version (*history* variable `cut`); that one case is the hazard of
db.rs:251, after which no start comes up, however often it is restarted. `IndexAgrees` and
`CopiesAlign` (a merge compares positions on one scale). Fairness: weak fairness of the
steps of a start (`Starting`), which is one thread that runs to its end; none for requests,
and none for `Start`: the property speaks of each start by itself. Bounds: all ten batches,
two users, two rowids (one is used again while the other stays), one text, one work, any
number of crashes.

### SignIn, OAuth (run `doors`)

`OAuth` is sign-in at a provider: `login` mints state, nonce and verifier (one
name, the attempt, stands for the three) into the provider's cookie; the callback
reads the cookie it was sent with, compares, exchanges the code, finds the user and
starts the session. Discovered providers need a client that one request at a time
makes (`OnceCell`); a failure or a hang-up there leaves the cell empty. The address
of a callback may be opened twice, late or in another browser, a cookie may age out
or be overwritten by a sign-in in another tab, and a code may be redeemed with its
answer lost. The provider is external: it redeems a code once, and checks the
verifier of a discovered one.

`SignIn` is the abstract promise: for an answer given at the provider at most one session is
opened, and only the browser in which the attempt was begun gets it.
`ImplementsSignIn` is the refinement; its mapping gives an attempt the browser it was
begun in and forgets cookies, cells and requests. Bounds: two browsers, GitHub
and a discovered Google, two attempts, two codes, two requests, one subject: two of each
is what it takes to mix them up. `NobodyWaitsForTheGone` is proved.

## Proofs

The proofs hold for any sets of users, requests, tokens and books and any bounds. Each
proof module has an inductive invariant `IInv`, a lemma per part of it or per action,
`Invariance` (`Spec => []IInv`), and a theorem per property. Type invariants of these
modules are proved (`TypeCorrect` and the like) and not listed in a run, though TLC has
found no state without them on the instances of the runs.

**AccountsProofs** proves every property of the run `accounts`: `NothingOutlives`,
`CookiesSettle`, `UniqueEmails` (invariants), `IdentitiesStay` (an action property)
and `Refinement`: every behaviour of `Accounts` is one of `Custody`. `OwnersDestroy`,
not part of a run, is about who destroys books. They rest on

    IInv == TypeOK /\ NothingOutlivesItsUser /\ CookieSettled
            /\ OneAccountPerEmail /\ NamesAreSpent /\ SubjectsKnown

The first four are not inductive on their own. `NamesAreSpent` says that fresh names are
fresh: without it a new session could be inserted under a token some request
already presents, and unsettle its cookie. `SubjectsKnown` says that a request
about to merge carries an account and that identities belong to accounts: without
it a guest could be merged into another guest, and identities be left with the
one that goes.

**AdminProofs** proves every property of the run `admin`. `DemotionEndsSessions` is
inductive with the types: a login inserts with the count of demotions of that moment, a
whole demotion deletes, a cut one marks. `RowsAreUsed` (ids are not
reused, so a sign-up replaces nobody's row) and `NeverOneself`
(a handler about to demote or delete acts on somebody else: "you can't demote
yourself" is checked before the awaits, and still true after them) carry
`PrivilegesHold` and `LastAdmin`. `OnlyAdminsAct` (a PATCH or DELETE starts only for the
token or an admin) is proved and not part of a run.

**ReferralProofs** proves every property of the run `referral`. `UnbornUnreferred`
(who has not signed up has no referrer) is what `AttributionStays` needs of a
sign-up; `EarnedIsCounted` bounds what was paid by the flag `ref_credited` and the
crashes. `FriendsPart` is about `Social`, whose steps are steps of `Referral` or
leave its state alone; it rests on friendships being pairs of users that exist.
`GoalDaysStay` (a merge loses no day on which the goal was met) is proved and not part
of a run.

**SharingProofs** proves every property of the run `sharing`. `LinksAreIssued` says of
every row with a token that the token was issued for this row, in the row's mode, by
its owner or by the guest that became its owner, and was not revoked; the four
properties are read off it and the effect of each action. `LinksEnd` needs in
addition that what a merge drops has a double that stays (`DoublesStay`), which
follows from the order of its two deletes. `IdsInTurn` says that a new row
takes no existing row's place. `ReadOnlyStays` is proved and not part of a run.

**StorageProofs** proves the safety properties of the run `storage`, for any number of
batches from four on. `BatchesInOrder` (the batches up to the version are
complete; of the next one this start has run what is committed) gives `ServesWhole`,
with `SubjectsLinked` (from batch 3 on the legacy subjects are identities). `CacheAgrees`
(every copy of a work has the timeline the cache has of it) gives `CopiesAlign`.
`Enforced` (keys are on between batches) and `RebuildRows` (with keys off, the copy, drop
and rename leave the rows as they were) give `UpgradesKeepRows` and `ReferencesHold`;
`IndexAgrees` and `NothingDangles` are inductive with them and the types.

**SignInProofs** proves the properties of `OAuth` and `LoginCodes` in the run `doors`, and
`NobodyWaitsForTheGone`, which is not in it. For `OAuth` and its refinement of `SignIn`:
`CookiesAreOwn`: a state cookie names an attempt begun in that browser at that
provider. `InOrder`, of every request: its code was issued and its cookie begun in its
browser; past the check, the cookie is that of the attempt the code answers; past the
exchange, its code is spent, and open only once this request has opened it. `Alone`,
that no two requests are past the exchange with one code, is what makes
`StartSession` an `Open` of `SignIn` and not a second one. For `LoginCodes`, with the
limit of attempts a constant: `PendingIsCounted` (the attempts on a pending code are the
comparisons with it, and it has opened nothing yet) links row and history; `FutureIsBlank`
(serials not issued yet have no history) is what makes a new code start from nothing.

**IngestProofs** proves the safety properties of the run `ingest`. `Handling` says that
the waiters are exactly the queued requests, each once, and that the children
that were not killed are those of the running requests, no more than slots. So the
first waiter can take over any slot released, which keeps `NoIdleSlot`.
The quota rests on the closure counting every upload from its week on, its own week's
among them, in the step that inserts.

It also proves `BurstBounded` and `AllowancesApart`, for any rule, clients, proxies,
headers, sweep interval and number of threads (`LimiterIInv`). `ChargesAreDue` says that a
check in flight whose client did not name another is charged to the client's address or its
network, as its door has it, and any check with a clock no older than the lag. `BurstsAreCut` is about the history: the admissions of an allowance can be cut into
windows at those that opened one (`Cut`); a window has at most the maximum, and two are
opened at least `Apart` from each other, a whole window, or a window less the lag once a
check has been late. The map itself is not enough of an invariant, as a sweep forgets
windows; what it forgets was over, so the cut of the history stands. A stretch of a window's
length then meets two windows, or three, and the window it cuts into was opened before it.
That three suffice needs `LagAssumption`: no thread is held up for more than half a window.

**ReaderProofs** is about what a reader reads and keeps, and proves every property of the
runs `library` and `reader`.

For `Library`, with any guests, accounts, works and copies: `OwnersAreHere` (a row belongs
to a user who has signed up and has not been merged away) makes a merge move and trash
what the two users owned and nothing else. The copies of a work are finitely many, so one
is furthest, and the pass over the merged library keeps that one (`FurthestStays`); what is
then left of each work is one copy, or the copies that one side had (`MergesDeduplicate`).
`OneCopyIsMade` follows the two inserts of an add: no second copy of what is on the shelf,
and two of another work only for a guest whose every book is in the trash.

For `Reading`, in four layers.

- *Sums.* The library's induction theorems take operators, which the provers here cannot
  instantiate. Induction over a finite set is therefore proved from the well-foundedness of
  the naturals in the form of sets of subsets (`SubsetInduction`, `ElementInduction`), and
  from it what `FoldFunction` computes: a sum does not depend on the order, is monotone,
  splits over disjoint parts (`TotalIs`, `SumAny`, `SumOrder`, `SumByParts`).
- *The calendar.* `RoundTrip`: `DaysFromCivil` and `CivilFromDays` are inverse to each other
  on every day, before 1970 too. `NextDate`: the day after is the next date of the
  Gregorian calendar. `EarlierDays`: the order of the dates' text is the order of the days.
  The divisions of the algorithm are handled by their bounds (`Quotient`), the months by
  their twelve cases.
- *Streaks.* The rank of a date among the dates that met the goal is its place, so
  `Qualifying` is the rising sequence of their days (`QualifyingIs`). On such a sequence a
  run is what the last gap says it is (`FoundNext`), so the scan finds the longest run
  (`BestIsGreatest`), and the walk back finds the run that ends today or yesterday
  (`CurrentIs`).
- *The years.* A day is in the year between whose new years it is (`YearsGrow`), so the rows
  by the text of their date and the sessions by instants are cut at the same places;
  the sums split, with what is in no year that can be asked for as a part of its own, and a
  streak splits into stretches of the years (`BestsAddUp`).

The invariants are small: `PaceIInv` (each row keeps within the cap by itself, since the
clamp does) and `DaysIInv` (rows are under real dates in reach of the server's days, and a
report under way will be). `YearsStayApart` needs besides only `YearAssumption`: the day
log begins in a year with a wrapped, and a skew is no longer than a year. It assumes nothing
of the instants sessions are dated at.

For `Timeline` the invariant is only that a text is a sequence of paragraphs of tokens
(`TextStays`); the work is in what the engine computes from one. Its loops are written as
recursive functions on an interval. That such a function exists is itself an induction
(`ReadsExist`, `PagesExist`, `FlatsExist`), and so is what it holds at the end.

- *Flattening.* `FlattenSeq` appends sequence after sequence (`Flattened`), and flattening
  two after each other is flattening both (`FlatJoin`).
- *Splitting.* `display_tokens` is an induction from a token's last character to its first
  (`ChunksAre`): the rest is a chunk, or a cut that `TakeIs` bounds followed by chunks. A cut
  leaves half a chunk on each side, whatever vowel it was made at, because what is longer
  than `SplitAbove` is at least a chunk and a half; `TimelineAssumption` says so of the
  two caps (14 and 10 in the source). The pivot is an offset into the chunk's own core, which
  is long enough for it (`PivotIs`), whatever punctuation the cut left at the chunk's ends.
- *Pace.* A raw weight is in the clamps (`RawWeightIs`), so the mean is positive; the
  division by it loses less than a thousandth a word and the rounding half a hundredth
  (`ShareIs`), so the weights add up to a thousand a word but for ten a word
  (`SharesAddUp`), and the mean over the display words, not over the tokens, is what they
  are shares of. The running sum is off by half a spacing of the floats around it at each
  addition, and the spacing is bounded by what has been added so far; hence the part of the
  bound that grows with the square of the number of words.
- *Views.* Each token that is read adds its chunks (`RawIs`), and each paragraph shows those of
  its tokens (`ParagraphsAre`), so both flatten to the same (`ParagraphsAlign`). The loop over
  the paragraphs yields the page of their flattening, wherever a page begins or ends
  (`PageGrows`, `PageIs`); a call reads one word further or more (`CallProgresses`), so whoever
  follows `next_position` has read every word once (`ReadsAll`).

Assumptions on the constants, all checked by TLC on the runs: the values for
"none" (`NoUser`, `NoToken`, `NoRow`, `NoBook`, `Idle`, ...) are none of the things
they stand beside, guests and members differ, bounds are numbers, sets of rows are
finite where they are counted, there are at least four batches, and the three assumptions
named above (`LagAssumption`, `YearAssumption`, `TimelineAssumption`).

What is model-checked only is liveness (`EveryRequestEnds`, `StartComesUp`), which is out of
the provers' reach, and the violations, which are single behaviours.

## Disagreements

Where the code does what a comment or a document of the repository does not say. The
models do what the code does. The first three are runs that expect the violation, and are
`findings` in `PROJECT.json`.

- A guest whose library is bare adds a catalog work: the backstop seeding inserts
  all works first, and the add inserts the work again. catalog.rs:184 says an
  add is idempotent per user (`AddIsIdempotent`, run `library_adds`).
- The MCP tool for imports is to charge the "same bucket as POST /api/import/url"
  (mcp.rs:471). It does for IPv4; for IPv6 the middleware's key is the /64 network
  and the tool's the whole address (`SameBucket`, run `doors_bucket`).
- "Demoting kills their panel sessions immediately" (db.rs:1490), but the two statements
  commit apart, and a login that read the row before inserts its session afterwards
  (`SessionsDieWithDemotion`, run `admin_demotion`).
- ratelimit.rs:222-227 reads `CF-Connecting-IP` from any trusted peer because Cloudflare
  strips a client's own. The reverse proxy that
  server/assets/agents/skills/self-host-flick/SKILL.md:112-116 documents
  does not; there a client names its bucket itself. `AllowancesApart` leaves these requests
  out, and `Arriving` has them.
- The same SKILL.md:69 says that the first `X-Forwarded-For` entry is trusted; the
  code takes the rightmost that is no proxy's, and ratelimit.rs:237-244 says why.
- The same SKILL.md:131 calls a stop by SIGTERM safe. One that falls between a batch of a
  migration and its version leaves a file on which no start comes up (`cut` in `Storage`).
- lib.rs:4 (core) speaks of a pivot letter; the pivot of I'm is the apostrophe. lib.rs:28
  calls ten the maximum core of a chunk, but the last chunk of a word may have fourteen.
  lib.rs:280 has words take "exactly" N/wpm minutes; rounding and the f32 sum take part. And
  the comment in `raw_weight` that a chunk's trailing hyphen is outside its core does not
  hold for chunks without letters, which are slowed for it.
- A referrer that did not come by an invite has no `signup_ip`, so a second account
  from the same address qualifies. referral.rs:8-9 says self-invites from the same
  IP never pay out.
- Importing a shared link twice makes two copies; the comment above `shared_import`
  (books.rs) says a copy that exists is returned again.
- A share body that does not parse is taken for no body, and the link hands out
  copies, which the comment in `share_book` (books.rs) wants to prevent.
- Two overlapping profile patches lose one of them, since the row is written back as
  the extractor read it, though the avatar's absence is documented as "unchanged"
  (auth.rs:697).

## Not modelled

- Parsing of HTML, EPUB, PDF and clippings: functions on strings, or third-party
  crates. What can happen to the child that runs them is in `Ingest`.
- Search queries, export, the admin's lists and the overview: they only read. The index
  a search reads is in `Storage`.
- Of the wrapped and the stats: the 90-day window of the session list, the books
  finished, and the month and weekday most was read in.
- Mail delivery (it may fail, in `LoginCodes`), the provider's side of OAuth,
  discovery documents, configuration, error bodies, routing, the JSON-RPC envelope of
  the MCP endpoint: external or stateless.
- Tags and the announcement banner: single-row writes without interplay.

## Plan

1. Done: the core with its proofs (Accounts with Custody, LoginCodes, Referral, Sharing,
   Admin), Library, RateLimiter with its keys, Timeline, Reading with sessions
   and wrapped; Ingest, Storage, Social and OAuth with SignIn, with their proofs.
2. Composition: one merge acting on Library, Referral, Reading and Sharing at once, as
   it does in one transaction, with Accounts deciding when it happens; catalog
   adds and uploads as inserts of one library.
3. Proofs: the modules of item 2, once they are written; every invariant and action
   property of the runs has its theorem.
4. Larger instances: two catalog works in Library, two sessions in Reading, a referrer
   per guest and account in Referral; in Admin two sessions.

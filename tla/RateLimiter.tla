----------------------------- MODULE RateLimiter -----------------------------
(***************************************************************************)
(* The fixed-window counters of server/src/ratelimit.rs: one endpoint and  *)
(* its rule, several clients, and threads that read the clock before they  *)
(* take the lock.  The endpoint is the import of an address, which has two *)
(* doors: the route, charged by the middleware, and the MCP tool, which    *)
(* charges the same endpoint itself.                                       *)
(*                                                                         *)
(* What a check is charged to is derived from the peer and the headers of  *)
(* its request: the client speaks to the server directly, through a proxy  *)
(* that appends to X-Forwarded-For and passes other headers on, or through *)
(* a tunnel that sets CF-Connecting-IP (both external, as the comments in  *)
(* the source and the documented reverse_proxy have them).  By each way it *)
(* may send both headers itself; only the tunnel replaces one of them.     *)
(***************************************************************************)
EXTENDS Naturals, Sequences, FiniteSets, FiniteSetsExt

CONSTANTS
    Clients,      \* public addresses of clients
    Proxies,      \* addresses of the reverse proxy's host
    Network,      \* of each address: its /64, or itself for IPv4
    Sent,         \* what clients put into X-Forwarded-For themselves
    Named,        \* and into CF-Connecting-IP, NoAddr where they do not
    Threads,
    RuleMax,      \* rule.max
    Window,       \* rule.window, in ticks
    SweepEvery,   \* SWEEP_EVERY, in ticks
    Lag,          \* ticks a thread may spend between Instant::now and the lock
    EndOfTime,    \* bound: the last tick of the clock
    NoWindow, NoCall, NoAddr

Hosts == Clients \union Proxies

\* What a window in the map belongs to.
Keys == Hosts \union {Network[a] : a \in Hosts}

ASSUME AddressAssumption ==
    /\ Clients \intersect Proxies = {} /\ NoAddr \notin Hosts
    /\ DOMAIN Network = Hosts
    /\ \A a \in Hosts : Network[a] \notin Hosts \ {a}
    /\ Sent \subseteq Seq(Hosts) /\ Named \subseteq Hosts \union {NoAddr}

ASSUME RateLimiterAssumption ==
    /\ RuleMax \in Nat \ {0}
    /\ Window \in Nat \ {0}
    /\ SweepEvery \in Nat \ {0}
    /\ Lag \in Nat
    /\ EndOfTime \in Nat

\* No thread waits for the lock for more than half a window: the shortest window is
\* five minutes, and what is done under the lock is a look-up or a pass over a map.
ASSUME LagAssumption == 2 * Lag <= Window

Doors == {"route", "tool"}

\* What a check has read and derived before it takes the lock; and as history by
\* which door it came and whose request it is, NoAddr where a proxy passed on a
\* CF-Connecting-IP of the client's own: that may name anyone.
Charge == [key: Keys, now: 0..EndOfTime, door: Doors, client: Clients \union {NoAddr}]

ASSUME NoWindowAssumption ==
    /\ NoWindow \notin [reset_at: Nat, count: Nat]
    /\ NoCall \notin Charge

VARIABLES
    clock,
    buckets,      \* the map: reset_at and count of the window of each key
    nextSweep,
    call,         \* the check a thread is in: charged to which key, with which now
    admitted,     \* history: the ticks at which requests got Ok, by what they were charged to
    late          \* history: has a check been held up between clock and lock

limiterVars == <<clock, buckets, nextSweep, call, admitted, late>>

LimiterTypeOK ==
    /\ clock \in 0..EndOfTime
    /\ buckets \in [Keys -> [reset_at: Nat, count: 1..RuleMax] \union {NoWindow}]
    /\ nextSweep \in Nat
    /\ call \in [Threads -> Charge \union {NoCall}]
    /\ admitted \in [Keys -> Seq(0..EndOfTime)]
    /\ late \in BOOLEAN

LimiterInit ==
    /\ clock = 0
    /\ buckets = [k \in Keys |-> NoWindow]
    /\ nextSweep = SweepEvery
    /\ call = [t \in Threads |-> NoCall]
    /\ admitted = [k \in Keys |-> <<>>]
    /\ late = FALSE

-----------------------------------------------------------------------------

(* Whose request it is.                                                    *)

\* A request of client a, as it arrives by each way, with what a itself put into
\* X-Forwarded-For and into CF-Connecting-IP.
Arriving(a, sent, cf) ==
    {[peer |-> a, cf |-> cf, xff |-> sent]}
    \union {[peer |-> p, cf |-> cf, xff |-> Append(sent, a)] : p \in Proxies}
    \union {[peer |-> p, cf |-> a, xff |-> sent] : p \in Proxies}

\* Mutant: the leftmost entry.
Forwarded_Leftmost(xff) == IF xff = <<>> THEN NoAddr ELSE Head(xff)

\* forwarded_ip: the rightmost that is no proxy of ours, else the rightmost.
Forwarded(xff) ==
    LET clients == {i \in DOMAIN xff : xff[i] \notin Proxies}
    IN  IF xff = <<>> THEN NoAddr
        ELSE xff[IF clients = {} THEN Len(xff) ELSE Max(clients)]

\* client_behind_trusted_peer.
Behind(req) == IF req.cf # NoAddr THEN req.cf ELSE Forwarded(req.xff)

\* client_ip.
ClientIp(req) ==
    IF req.peer \in Proxies /\ Behind(req) # NoAddr THEN Behind(req) ELSE req.peer

\* The middleware's key is client_key, a network for IPv6; the tool's is client_ip.
Key(door, req) == IF door = "route" THEN Network[ClientIp(req)] ELSE ClientIp(req)

-----------------------------------------------------------------------------
(* check.                                                                  *)

\* A proxy that passes on the client's own header names whom the client likes.
Vouches(req, a) == req.peer \in Proxies => req.cf \in {a, NoAddr}

\* let now = Instant::now().
ReadClock(t, door, a, sent, cf) ==
    /\ call[t] = NoCall
    /\ \E req \in Arriving(a, sent, cf) :
          call' = [call EXCEPT ![t] =
                     [key |-> Key(door, req), now |-> clock, door |-> door,
                      client |-> IF Vouches(req, a) THEN a ELSE NoAddr]]
    /\ UNCHANGED <<clock, buckets, nextSweep, admitted, late>>

Expired(w, at) == w # NoWindow /\ w.reset_at <= at

\* The lazy sweep, under the lock.
Swept(at) ==
    IF at >= nextSweep
    THEN [k \in Keys |-> IF Expired(buckets[k], at) THEN NoWindow ELSE buckets[k]]
    ELSE buckets

\* Mutant: an exhausted window is reopened instead of refusing.
Current_Reopened(w, at) ==
    IF w = NoWindow \/ Expired(w, at) \/ (w # NoWindow /\ w.count >= RuleMax)
    THEN [reset_at |-> at + Window, count |-> 0] ELSE w

\* entry().or_insert, then the reset of a window that is over.
Current(w, at) ==
    IF w = NoWindow \/ Expired(w, at) THEN [reset_at |-> at + Window, count |-> 0] ELSE w

Over(w) == w.count >= RuleMax

\* check, from the lock to the answer.
Check(t) ==
    LET at == call[t].now
        k == call[t].key
        w == Current(Swept(at)[k], at)
    IN  /\ call[t] # NoCall
        /\ nextSweep' = IF at >= nextSweep THEN at + SweepEvery ELSE nextSweep
        /\ IF Over(w)
           THEN /\ buckets' = [Swept(at) EXCEPT ![k] = w]
                /\ UNCHANGED admitted
           ELSE /\ buckets' = [Swept(at) EXCEPT ![k] = [w EXCEPT !.count = @ + 1]]
                /\ admitted' = [admitted EXCEPT ![k] = Append(@, clock)]
        /\ call' = [call EXCEPT ![t] = NoCall]
        /\ late' = (late \/ at < clock)
        /\ UNCHANGED clock

\* Time passes, but no thread is held up for more than Lag ticks.
Tick ==
    /\ clock < EndOfTime
    /\ \A t \in Threads : call[t] # NoCall => clock - call[t].now < Lag
    /\ clock' = clock + 1
    /\ UNCHANGED <<buckets, nextSweep, call, admitted, late>>

LimiterNext ==
    \/ \E t \in Threads, door \in Doors, a \in Clients, sent \in Sent, cf \in Named :
          ReadClock(t, door, a, sent, cf)
    \/ \E t \in Threads : Check(t)
    \/ Tick

LimiterSpec == LimiterInit /\ [][LimiterNext]_limiterVars

-----------------------------------------------------------------------------
(* Properties.                                                             *)

\* Requests charged to k that were let through in the Window ticks from i on.
Burst(k, i) == Cardinality({j \in DOMAIN admitted[k] : admitted[k][j] \in i..(i + Window - 1)})

\* "Worst-case 2x burst across a window boundary" (ratelimit.rs): no stretch of
\* one window's length lets twice the limit through, the request that opened the
\* earlier of its windows lying before the stretch, whatever the sweep drops
\* meanwhile, as long as threads reach the lock within the tick in which they read
\* the clock.  A thread that is held up may open its window in the past, so that it
\* ends early; then one more window fits, but no more.
BurstBounded ==
    \A k \in Keys, i \in 0..EndOfTime : Burst(k, i) < (IF late THEN 3 ELSE 2) * RuleMax

\* The checks a client cannot have steered with a CF-Connecting-IP of its own.
Vouched(t) == call[t] # NoCall /\ call[t].client # NoAddr

\* "Taking the leftmost entry instead let any client pick their own rate limit
\* bucket just by sending the header" (ratelimit.rs): neither the way a request
\* takes nor an X-Forwarded-For moves a client to another allowance or into that of
\* another network, whichever doors the two come by.  A CF-Connecting-IP does, where
\* the proxy passes on the client's: such requests are left out here.
AllowancesApart ==
    \A t, u \in Threads : Vouched(t) /\ Vouched(u) =>
        /\ call[t].key = call[u].key => Network[call[t].client] = Network[call[u].client]
        /\ call[t].client = call[u].client /\ call[t].door = call[u].door =>
              call[t].key = call[u].key

\* "Same bucket as POST /api/import/url: MCP is another door onto the same outbound
\* fetcher, not a second allowance" (mcp.rs): whichever door a client takes, it is
\* charged to one allowance.
SameBucket ==
    \A t, u \in Threads : Vouched(t) /\ Vouched(u) /\ call[t].client = call[u].client =>
        call[t].key = call[u].key
=============================================================================

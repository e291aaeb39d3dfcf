------------------------------- MODULE OAuth -------------------------------
(***************************************************************************)
(* Sign-in at a provider (oidc.rs).  The server keeps nothing of a sign-in *)
(* that was begun: state, nonce and PKCE verifier live in one cookie per   *)
(* provider, which the next sign-in begun in the browser overwrites.  The  *)
(* three are minted together, so one name, the attempt, stands for them.   *)
(*                                                                         *)
(* Discovered providers (OIDC, Google) need a client that the first        *)
(* request makes (a OnceCell); GitHub needs none, and no nonce or PKCE.    *)
(* What happens to users and the guest's merge is module Accounts.         *)
(***************************************************************************)
CONSTANTS Browsers, Providers, Discovered, Attempts, Codes, Subjects, Reqs, None

ASSUME DiscoveredAssumption == Discovered \subseteq Providers
ASSUME NoneAssumption ==
    None \notin Browsers \union Attempts \union Codes \union Reqs \union
                [browser : Browsers, provider : Providers] \union
                [attempt : Attempts, subject : Subjects]
ASSUME CellAssumption == "empty" \notin Reqs /\ "ready" \notin Reqs

VARIABLES
    begun,     \* attempts that were begun: browser and provider
    jar,       \* the flick_oauth_ cookie of each browser and provider
    answer,    \* the codes a provider issued: for an attempt, of a subject
    spent,     \* codes that were exchanged
    cell,      \* the client of a discovered provider: empty, ready, or the request
               \* that is making it
    req,       \* requests in progress
    opened,    \* codes for which start_session inserted a row
    holds      \* the code of the session cookie each browser has

vars == <<begun, jar, answer, spent, cell, req, opened, holds>>

Stages == {"idle", "client", "discover", "redirect", "check", "exchange", "complete",
           "session", "respond"}

\* A callback has a code; a login has none.  saved: the cookie it was sent with.
Request == [stage : Stages, browser : Browsers, provider : Providers,
            code : Codes \union {None}, saved : Attempts \union {None}]

TypeOK ==
    /\ begun \in [Attempts -> [browser : Browsers, provider : Providers] \union {None}]
    /\ jar \in [Browsers -> [Providers -> Attempts \union {None}]]
    /\ answer \in [Codes -> [attempt : Attempts, subject : Subjects] \union {None}]
    /\ spent \subseteq Codes
    /\ cell \in [Discovered -> {"empty", "ready"} \union Reqs]
    /\ req \in [Reqs -> Request \union {[stage |-> "idle"]}]
    /\ opened \subseteq Codes
    /\ holds \in [Browsers -> Codes \union {None}]

Init ==
    /\ begun = [a \in Attempts |-> None]
    /\ jar = [b \in Browsers |-> [p \in Providers |-> None]]
    /\ answer = [c \in Codes |-> None]
    /\ spent = {}
    /\ cell = [p \in Discovered |-> "empty"]
    /\ req = [r \in Reqs |-> [stage |-> "idle"]]
    /\ opened = {}
    /\ holds = [b \in Browsers |-> None]

At(r, stage) == req[r].stage = stage

Goto(r, stage) == req' = [req EXCEPT ![r].stage = stage]

\* The handler has answered with an error, or its client has hung up.
Ended(r) == req' = [req EXCEPT ![r] = [stage |-> "idle"]]

\* What comes after the provider's client is there.
Onward(r) == IF req[r].code = None THEN "redirect" ELSE "check"

-----------------------------------------------------------------------------
(* Requests arrive.                                                        *)

\* GET login.
Login(r, b, p) ==
    /\ At(r, "idle")
    /\ req' = [req EXCEPT ![r] =
                 [stage |-> IF p \in Discovered THEN "client" ELSE "redirect",
                  browser |-> b, provider |-> p, code |-> None, saved |-> None]]
    /\ UNCHANGED <<begun, jar, answer, spent, cell, opened, holds>>

\* The provider's redirect is followed, by whichever browser opens that address, and
\* maybe more than once.  Cookies are those of the moment.
Callback(r, b, c) ==
    /\ At(r, "idle") /\ answer[c] # None
    /\ LET p == begun[answer[c].attempt].provider
       IN  req' = [req EXCEPT ![r] =
                     [stage |-> IF p \in Discovered THEN "client" ELSE "check",
                      browser |-> b, provider |-> p, code |-> c, saved |-> jar[b][p]]]
    /\ UNCHANGED <<begun, jar, answer, spent, cell, opened, holds>>

-----------------------------------------------------------------------------
(* oidc_client: get_or_try_init lets one request at a time make the client. *)

ClientReady(r) ==
    /\ At(r, "client") /\ cell[req[r].provider] = "ready"
    /\ Goto(r, Onward(r))
    /\ UNCHANGED <<begun, jar, answer, spent, cell, opened, holds>>

Discover(r) ==
    /\ At(r, "client") /\ cell[req[r].provider] = "empty"
    /\ cell' = [cell EXCEPT ![req[r].provider] = r]
    /\ Goto(r, "discover")
    /\ UNCHANGED <<begun, jar, answer, spent, opened, holds>>

DiscoveryDone(r) ==
    /\ At(r, "discover")
    /\ cell' = [cell EXCEPT ![req[r].provider] = "ready"]
    /\ Goto(r, Onward(r))
    /\ UNCHANGED <<begun, jar, answer, spent, opened, holds>>

\* A failure leaves the cell empty, and so does a request that is dropped there.
Released(r) ==
    [p \in Discovered |-> IF cell[p] = r THEN "empty" ELSE cell[p]]

\* 502, a 4xx, or a client that hangs up: at any stage, before or after what the
\* stage's step would do.
End(r) ==
    /\ ~At(r, "idle")
    /\ cell' = Released(r)
    /\ Ended(r)
    /\ UNCHANGED <<begun, jar, answer, spent, opened, holds>>

-----------------------------------------------------------------------------
(* The sign-in.                                                            *)

\* 302 to the provider, with the cookie.  Nothing is kept here, so that minting
\* and the arrival of the cookie are one step.
Redirect(r, a) ==
    LET b == req[r].browser  p == req[r].provider
    IN  /\ At(r, "redirect") /\ begun[a] = None
        /\ begun' = [begun EXCEPT ![a] = [browser |-> b, provider |-> p]]
        /\ jar' = [jar EXCEPT ![b][p] = a]
        /\ Ended(r)
        /\ UNCHANGED <<answer, spent, cell, opened, holds>>

\* A subject signs in at the provider (external), which redirects with a new code.
Answer(c, a, s) ==
    /\ begun[a] # None /\ answer[c] = None
    /\ answer' = [answer EXCEPT ![c] = [attempt |-> a, subject |-> s]]
    /\ UNCHANGED <<begun, jar, spent, cell, req, opened, holds>>

\* The cookie ages out, after STATE_TTL_SECS.
Forget(b, p) ==
    /\ jar[b][p] # None
    /\ jar' = [jar EXCEPT ![b][p] = None]
    /\ UNCHANGED <<begun, answer, spent, cell, req, opened, holds>>

\* Mutant: any state cookie will do.
StateMatches_Present(r) == req[r].saved # None

\* constant_eq of the state in the cookie and the one in the address.
StateMatches(r) == req[r].saved = answer[req[r].code].attempt

CheckState(r) ==
    /\ At(r, "check") /\ StateMatches(r)
    /\ Goto(r, "exchange")
    /\ UNCHANGED <<begun, jar, answer, spent, cell, opened, holds>>

\* The provider's token endpoint (external) takes a code once, and a discovered
\* provider's only with the verifier of its attempt; its ID token has that attempt's
\* nonce.
Redeemable(r) ==
    LET c == req[r].code
    IN  /\ c \notin spent
        /\ req[r].provider \in Discovered => req[r].saved = answer[c].attempt

Exchange(r) ==
    /\ At(r, "exchange") /\ Redeemable(r)
    /\ spent' = spent \union {req[r].code}
    /\ Goto(r, "complete")
    /\ UNCHANGED <<begun, jar, answer, cell, opened, holds>>

\* The token is issued and its answer lost.
ExchangeLost(r) ==
    /\ At(r, "exchange") /\ Redeemable(r)
    /\ spent' = spent \union {req[r].code}
    /\ Ended(r)
    /\ UNCHANGED <<begun, jar, answer, cell, opened, holds>>

\* complete: the user is found, linked or created, the guest merged; or a 409 (End).
Complete(r) ==
    /\ At(r, "complete")
    /\ Goto(r, "session")
    /\ UNCHANGED <<begun, jar, answer, spent, cell, opened, holds>>

StartSession(r) ==
    /\ At(r, "session")
    /\ opened' = opened \union {req[r].code}
    /\ Goto(r, "respond")
    /\ UNCHANGED <<begun, jar, answer, spent, cell, holds>>

\* 302 to the app: the browser gets the session and drops the state cookie, which
\* may be that of a sign-in begun in another tab meanwhile.
Respond(r) ==
    LET b == req[r].browser
    IN  /\ At(r, "respond")
        /\ holds' = [holds EXCEPT ![b] = req[r].code]
        /\ jar' = [jar EXCEPT ![b][req[r].provider] = None]
        /\ Ended(r)
        /\ UNCHANGED <<begun, answer, spent, cell, opened>>

Next ==
    \/ \E r \in Reqs :
          \/ \E b \in Browsers : \/ \E p \in Providers : Login(r, b, p)
                                 \/ \E c \in Codes : Callback(r, b, c)
          \/ ClientReady(r) \/ Discover(r) \/ DiscoveryDone(r) \/ End(r)
          \/ \E a \in Attempts : Redirect(r, a)
          \/ CheckState(r) \/ Exchange(r) \/ ExchangeLost(r)
          \/ Complete(r) \/ StartSession(r) \/ Respond(r)
    \/ \E c \in Codes, a \in Attempts, s \in Subjects : Answer(c, a, s)
    \/ \E b \in Browsers, p \in Providers : Forget(b, p)

Spec == Init /\ [][Next]_vars

-----------------------------------------------------------------------------
(* Properties.                                                             *)

\* A session is opened at most once for an answer given at the provider, and only
\* the browser in which that sign-in was begun gets it: however often and wherever
\* the callback's address is opened, whatever else is begun in other tabs.
BrowserOf(a) == IF begun[a] = None THEN None ELSE begun[a].browser

S == INSTANCE SignIn WITH
        begun  <- [a \in Attempts |-> BrowserOf(a)],
        answer <- answer,
        opened <- opened,
        holds  <- holds

ImplementsSignIn == S!Spec

\* Whoever waits for a provider's client waits for a request that is making it: an
\* outage or a hang-up never leaves the cell taken.
NobodyWaitsForTheGone ==
    \A p \in Discovered : cell[p] \in Reqs =>
        At(cell[p], "discover") /\ req[cell[p]].provider = p
=============================================================================

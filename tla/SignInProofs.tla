----------------------------- MODULE SignInProofs ----------------------------
(***************************************************************************)
(* Machine-checked proofs about both ways of signing in without a          *)
(* password.                                                               *)
(*                                                                         *)
(* OAuth, for any number of browsers, providers, attempts, codes and       *)
(* overlapping requests: it implements SignIn, and no request waits for    *)
(* one that has left.  The argument: a cookie names an attempt of its own  *)
(* browser; a request that passed the check was sent with the cookie of    *)
(* the attempt its code answers; and the one exchange of a code leaves one *)
(* request with it.                                                        *)
(*                                                                         *)
(* LoginCodes, for any number of requests, codes, attempts and crashes: a  *)
(* code signs in once and is compared five times at most.  The argument:   *)
(* the attempts on record of the pending code are exactly the comparisons  *)
(* with it, and a code yet to be issued has no history.                    *)
(***************************************************************************)
EXTENDS OAuth, LoginCodes, TLAPS

-----------------------------------------------------------------------------
(* OAuth: a sign-in with a provider.                                       *)

Won == {"complete", "session", "respond"}

\* A state cookie names an attempt that was begun in that browser at that provider.
CookiesAreOwn ==
    \A b \in Browsers, p \in Providers :
        jar[b][p] # None => begun[jar[b][p]] = [browser |-> b, provider |-> p]

\* A code answers an attempt that was begun.
AnswersAreBegun == \A c \in Codes : answer[c] # None => begun[answer[c].attempt] # None

\* A callback's code was issued, and its cookie was begun in its browser.
Genuine(r) ==
    /\ req[r].stage \in {"client", "discover"} => req[r].provider \in Discovered
    /\ req[r].stage = "check" => req[r].code # None
    /\ req[r].stage # "idle" /\ req[r].code # None => answer[req[r].code] # None
    /\ req[r].stage # "idle" /\ req[r].saved # None =>
           begun[req[r].saved] # None /\ begun[req[r].saved].browser = req[r].browser

\* Past the check, the cookie is that of the attempt the code answers.
Matched(r) ==
    req[r].stage \in Won \union {"exchange"} =>
        /\ req[r].code # None
        /\ req[r].saved = answer[req[r].code].attempt

\* The session of a code that was exchanged is opened by the request that did.
Opens(r) ==
    /\ req[r].stage \in Won => req[r].code \in spent
    /\ req[r].stage \in {"complete", "session"} => req[r].code \notin opened
    /\ req[r].stage = "respond" => req[r].code \in opened

InOrder(r) == Genuine(r) /\ Matched(r) /\ Opens(r)

\* A code was exchanged by one request only.
Alone(r, q) ==
    r # q /\ req[r].stage \in Won /\ req[q].stage \in Won => req[r].code # req[q].code

IInv ==
    /\ TypeOK /\ CookiesAreOwn /\ AnswersAreBegun
    /\ \A r \in Reqs : InOrder(r)
    /\ \A r, q \in Reqs : Alone(r, q)
    /\ opened \subseteq spent
    /\ NobodyWaitsForTheGone

-----------------------------------------------------------------------------

\* Nothing was begun.
LEMMA InitIInv == Init => IInv
<1> SUFFICES ASSUME Init PROVE IInv
  OBVIOUS
<1> USE DEF Init
<1>1. TypeOK
  BY DEF TypeOK
<1>2. CookiesAreOwn /\ AnswersAreBegun
  BY DEF CookiesAreOwn, AnswersAreBegun
<1>3. \A r \in Reqs : InOrder(r)
  BY DEF InOrder, Genuine, Matched, Opens, Won
<1>4. \A r, q \in Reqs : Alone(r, q)
  BY DEF Alone, Won
<1>5. NobodyWaitsForTheGone
  BY CellAssumption DEF NobodyWaitsForTheGone
<1>6. QED
  BY <1>1, <1>2, <1>3, <1>4, <1>5 DEF IInv

\* A request in progress has all its locals.
LEMMA InProgress ==
    ASSUME TypeOK, NEW r \in Reqs, ~At(r, "idle")
    PROVE  req[r] \in Request
BY DEF TypeOK, At

\* Going on changes the stage of one request.
LEMMA GotoStep ==
    ASSUME TypeOK, NEW r \in Reqs, ~At(r, "idle"), NEW s \in Stages, Goto(r, s)
    PROVE  /\ req' \in [Reqs -> Request \union {[stage |-> "idle"]}]
           /\ req'[r].stage = s
           /\ req'[r].browser = req[r].browser /\ req'[r].provider = req[r].provider
           /\ req'[r].code = req[r].code /\ req'[r].saved = req[r].saved
           /\ \A q \in Reqs : q # r => req'[q] = req[q]
<1>1. req[r] \in Request
  BY InProgress
<1>2. req' = [req EXCEPT ![r] = [req[r] EXCEPT !.stage = s]]
  BY DEF Goto
<1>3. [req[r] EXCEPT !.stage = s] \in Request
  BY <1>1 DEF Request
<1>4. req'[r] = [req[r] EXCEPT !.stage = s]
  BY <1>2 DEF TypeOK
<1>5. QED
  BY <1>1, <1>2, <1>3, <1>4 DEF TypeOK, Request

\* Being done leaves the others alone.
LEMMA EndedStep ==
    ASSUME TypeOK, NEW r \in Reqs, Ended(r)
    PROVE  /\ req' \in [Reqs -> Request \union {[stage |-> "idle"]}]
           /\ req'[r].stage = "idle"
           /\ \A q \in Reqs : q # r => req'[q] = req[q]
BY DEF TypeOK, Ended

\* A request that is not touched stays in order while attempts are begun, answers
\* given and codes spent, and sessions opened for codes of others.
LEMMA OthersStay ==
    ASSUME TypeOK, NEW q \in Reqs, InOrder(q), req'[q] = req[q],
           \A c \in Codes : answer[c] # None => answer'[c] = answer[c],
           \A a \in Attempts : begun[a] # None => begun'[a] = begun[a],
           spent \subseteq spent',
           opened \subseteq opened',
           req[q].stage \in Won => (req[q].code \in opened' => req[q].code \in opened)
    PROVE  InOrder(q)'
<1>1. req[q] \in Request \/ req[q] = [stage |-> "idle"]
  BY DEF TypeOK
<1>2. CASE req[q] = [stage |-> "idle"]
  BY <1>2 DEF InOrder, Genuine, Matched, Opens, Won
<1>3. CASE req[q] \in Request
  <2>1. Genuine(q)'
    BY <1>3 DEF InOrder, Genuine, Request
  <2>2. Matched(q)'
    BY <1>3 DEF InOrder, Genuine, Matched, Request, Won
  <2>3. Opens(q)'
    BY <1>3 DEF InOrder, Opens, Request, Won
  <2>4. QED
    BY <2>1, <2>2, <2>3 DEF InOrder
<1>4. QED
  BY <1>1, <1>2, <1>3

-----------------------------------------------------------------------------
(* Types, cookies and answers.                                             *)

\* Every step keeps the types.
LEMMA TypeOKStep == IInv /\ [Next]_vars => TypeOK'
<1> SUFFICES ASSUME IInv, [Next]_vars PROVE TypeOK'
  OBVIOUS
<1>t. TypeOK
  BY DEF IInv
<1>1. ASSUME NEW r \in Reqs, NEW b \in Browsers, NEW p \in Providers, Login(r, b, p) PROVE TypeOK'
  <2> DEFINE new == [stage |-> IF p \in Discovered THEN "client" ELSE "redirect",
                     browser |-> b, provider |-> p, code |-> None, saved |-> None]
  <2>1. new \in Request
    BY DEF Request, Stages
  <2>2. req' = [req EXCEPT ![r] = new] /\ UNCHANGED <<begun, jar, answer, spent, cell, opened, holds>>
    BY <1>1 DEF Login
  <2> HIDE DEF new
  <2>3. QED
    BY <2>1, <2>2, <1>t DEF TypeOK
<1>2. ASSUME NEW r \in Reqs, NEW b \in Browsers, NEW c \in Codes, Callback(r, b, c) PROVE TypeOK'
  <2> DEFINE p == begun[answer[c].attempt].provider
  <2> DEFINE new == [stage |-> IF p \in Discovered THEN "client" ELSE "check",
                     browser |-> b, provider |-> p, code |-> c, saved |-> jar[b][p]]
  <2>1. p \in Providers
    <3>1. answer[c] \in [attempt : Attempts, subject : Subjects]
      BY <1>2, <1>t DEF Callback, TypeOK
    <3>2. begun[answer[c].attempt] # None
      BY <1>2 DEF Callback, IInv, AnswersAreBegun
    <3>3. begun[answer[c].attempt] \in [browser : Browsers, provider : Providers]
      BY <3>1, <3>2, <1>t DEF TypeOK
    <3>4. QED
      BY <3>3
  <2>2. req' = [req EXCEPT ![r] = new] /\ UNCHANGED <<begun, jar, answer, spent, cell, opened, holds>>
    BY <1>2 DEF Callback
  <2> HIDE DEF p
  <2>3. jar[b][p] \in Attempts \union {None}
    BY <2>1, <1>t DEF TypeOK
  <2>4. new \in Request
    BY <2>1, <2>3 DEF Request, Stages
  <2> HIDE DEF new
  <2>5. QED
    BY <2>2, <2>4, <1>t DEF TypeOK
<1>3. ASSUME NEW r \in Reqs, ClientReady(r) \/ CheckState(r) \/ Complete(r) PROVE TypeOK'
  <2>1. PICK s \in Stages : Goto(r, s)
    BY <1>3 DEF ClientReady, CheckState, Complete, Onward, Stages
  <2>2. ~At(r, "idle") /\ UNCHANGED <<begun, jar, answer, spent, cell, opened, holds>>
    BY <1>3 DEF ClientReady, CheckState, Complete, At
  <2>3. req' \in [Reqs -> Request \union {[stage |-> "idle"]}]
    BY <2>1, <2>2, <1>t, GotoStep
  <2>4. QED
    BY <2>2, <2>3, <1>t DEF TypeOK
<1>4. ASSUME NEW r \in Reqs, Discover(r) \/ DiscoveryDone(r) PROVE TypeOK'
  <2>1. PICK s \in Stages : Goto(r, s)
    BY <1>4 DEF Discover, DiscoveryDone, Onward, Stages
  <2>2. /\ ~At(r, "idle") /\ UNCHANGED <<begun, jar, answer, spent, opened, holds>>
        /\ \/ cell' = [cell EXCEPT ![req[r].provider] = r]
           \/ cell' = [cell EXCEPT ![req[r].provider] = "ready"]
    BY <1>4 DEF Discover, DiscoveryDone, At
  <2>3. req' \in [Reqs -> Request \union {[stage |-> "idle"]}]
    BY <2>1, <2>2, <1>t, GotoStep
  <2>4. cell' \in [Discovered -> {"empty", "ready"} \union Reqs]
    BY <2>2, <1>t DEF TypeOK
  <2>5. QED
    BY <2>2, <2>3, <2>4, <1>t DEF TypeOK
<1>5. ASSUME NEW r \in Reqs, End(r) PROVE TypeOK'
  <2>1. req' \in [Reqs -> Request \union {[stage |-> "idle"]}]
    BY <1>5, <1>t, EndedStep DEF End
  <2>2. cell' \in [Discovered -> {"empty", "ready"} \union Reqs]
    BY <1>5, <1>t DEF End, Released, TypeOK
  <2>3. QED
    BY <1>5, <2>1, <2>2, <1>t DEF End, TypeOK
<1>6. ASSUME NEW r \in Reqs, NEW a \in Attempts, Redirect(r, a) PROVE TypeOK'
  <2>0. req[r] \in Request
    BY <1>6, <1>t, InProgress DEF Redirect, At
  <2>1. req[r].browser \in Browsers /\ req[r].provider \in Providers
    BY <2>0 DEF Request
  <2>2. /\ begun' = [begun EXCEPT ![a] = [browser |-> req[r].browser, provider |-> req[r].provider]]
        /\ jar' = [jar EXCEPT ![req[r].browser] = [jar[req[r].browser] EXCEPT ![req[r].provider] = a]]
        /\ UNCHANGED <<answer, spent, cell, opened, holds>>
        /\ Ended(r)
    BY <1>6 DEF Redirect
  <2>3. req' \in [Reqs -> Request \union {[stage |-> "idle"]}]
    BY <2>2, <1>t, EndedStep
  <2>4. begun' \in [Attempts -> [browser : Browsers, provider : Providers] \union {None}]
    BY <2>1, <2>2, <1>t DEF TypeOK
  <2>5. jar' \in [Browsers -> [Providers -> Attempts \union {None}]]
    BY <2>1, <2>2, <1>t DEF TypeOK
  <2>6. QED
    BY <2>2, <2>3, <2>4, <2>5, <1>t DEF TypeOK
<1>7. ASSUME NEW r \in Reqs, Exchange(r) \/ ExchangeLost(r) PROVE TypeOK'
  <2>1. req' \in [Reqs -> Request \union {[stage |-> "idle"]}]
    BY <1>7, <1>t, GotoStep, EndedStep DEF Exchange, ExchangeLost, At, Stages
  <2>2. /\ spent' = spent \union {req[r].code}
        /\ UNCHANGED <<begun, jar, answer, cell, opened, holds>> /\ At(r, "exchange")
    BY <1>7 DEF Exchange, ExchangeLost
  <2>3. req[r] \in Request
    BY <2>2, <1>t, InProgress DEF At
  <2>4. req[r].code \in Codes
    BY <2>2, <2>3 DEF IInv, InOrder, Matched, Request, At
  <2>5. QED
    BY <2>1, <2>2, <2>4, <1>t DEF TypeOK
<1>8. ASSUME NEW r \in Reqs, StartSession(r) PROVE TypeOK'
  <2>1. req' \in [Reqs -> Request \union {[stage |-> "idle"]}]
    BY <1>8, <1>t, GotoStep DEF StartSession, At, Stages
  <2>2. /\ opened' = opened \union {req[r].code}
        /\ UNCHANGED <<begun, jar, answer, spent, cell, holds>> /\ At(r, "session")
    BY <1>8 DEF StartSession
  <2>3. req[r] \in Request
    BY <2>2, <1>t, InProgress DEF At
  <2>4. req[r].code \in Codes
    BY <2>2, <2>3 DEF IInv, InOrder, Matched, Request, At, Won
  <2>5. QED
    BY <2>1, <2>2, <2>4, <1>t DEF TypeOK
<1>9. ASSUME NEW r \in Reqs, Respond(r) PROVE TypeOK'
  <2>1. At(r, "respond") /\ Ended(r) /\ UNCHANGED <<begun, answer, spent, cell, opened>>
    BY <1>9 DEF Respond
  <2>2. req' \in [Reqs -> Request \union {[stage |-> "idle"]}]
    BY <2>1, <1>t, EndedStep
  <2>3. req[r] \in Request
    BY <2>1, <1>t, InProgress DEF At
  <2>4. req[r].code \in Codes /\ req[r].browser \in Browsers /\ req[r].provider \in Providers
    BY <2>1, <2>3 DEF IInv, InOrder, Matched, Request, At, Won
  <2>5. /\ holds' = [holds EXCEPT ![req[r].browser] = req[r].code]
        /\ jar' = [jar EXCEPT ![req[r].browser] = [jar[req[r].browser] EXCEPT ![req[r].provider] = None]]
    BY <1>9 DEF Respond
  <2>6. holds' \in [Browsers -> Codes \union {None}]
    BY <2>4, <2>5, <1>t DEF TypeOK
  <2>7. jar' \in [Browsers -> [Providers -> Attempts \union {None}]]
    BY <2>4, <2>5, <1>t DEF TypeOK
  <2>8. QED
    BY <2>1, <2>2, <2>6, <2>7, <1>t DEF TypeOK
<1>10. ASSUME NEW c \in Codes, NEW a \in Attempts, NEW s \in Subjects, Answer(c, a, s) PROVE TypeOK'
  <2>1. answer' = [answer EXCEPT ![c] = [attempt |-> a, subject |-> s]]
        /\ UNCHANGED <<begun, jar, spent, cell, req, opened, holds>>
    BY <1>10 DEF Answer
  <2>2. answer' \in [Codes -> [attempt : Attempts, subject : Subjects] \union {None}]
    BY <2>1, <1>t DEF TypeOK
  <2>3. QED
    BY <2>1, <2>2, <1>t DEF TypeOK
<1>11. ASSUME NEW b \in Browsers, NEW p \in Providers, Forget(b, p) PROVE TypeOK'
  <2>1. jar' = [jar EXCEPT ![b] = [jar[b] EXCEPT ![p] = None]]
        /\ UNCHANGED <<begun, answer, spent, cell, req, opened, holds>>
    BY <1>11 DEF Forget
  <2>2. jar' \in [Browsers -> [Providers -> Attempts \union {None}]]
    BY <2>1, <1>t DEF TypeOK
  <2>3. QED
    BY <2>1, <2>2, <1>t DEF TypeOK
<1>12. CASE UNCHANGED vars
  BY <1>12, <1>t DEF TypeOK, vars
<1>13. QED
  BY <1>1, <1>2, <1>3, <1>4, <1>5, <1>6, <1>7, <1>8, <1>9, <1>10, <1>11, <1>12 DEF Next

\* What was begun, answered, spent and opened stays so.
Grows ==
    /\ \A a \in Attempts : begun[a] # None => begun'[a] = begun[a]
    /\ \A c \in Codes : answer[c] # None => answer'[c] = answer[c]
    /\ spent \subseteq spent'
    /\ opened \subseteq opened'

LEMMA GrowsStep == IInv /\ [Next]_vars => Grows
<1> SUFFICES ASSUME IInv, [Next]_vars PROVE Grows
  OBVIOUS
<1>t. TypeOK
  BY DEF IInv
<1>1. ASSUME NEW r \in Reqs, NEW a \in Attempts, Redirect(r, a) PROVE Grows
  <2>1. \A x \in Attempts : begun[x] # None => begun'[x] = begun[x]
    BY <1>1, <1>t DEF Redirect, TypeOK
  <2>2. QED
    BY <1>1, <2>1 DEF Redirect, Grows
<1>2. ASSUME NEW c \in Codes, NEW a \in Attempts, NEW s \in Subjects, Answer(c, a, s) PROVE Grows
  <2>1. \A x \in Codes : answer[x] # None => answer'[x] = answer[x]
    BY <1>2, <1>t DEF Answer, TypeOK
  <2>2. QED
    BY <1>2, <2>1 DEF Answer, Grows
<1>3. CASE UNCHANGED begun /\ UNCHANGED answer /\ spent \subseteq spent' /\ opened \subseteq opened'
  BY <1>3 DEF Grows
<1>4. QED
  BY <1>1, <1>2, <1>3 DEF Next, vars, Login, Callback, ClientReady, Discover, DiscoveryDone,
     End, CheckState, Exchange, ExchangeLost, Complete, StartSession, Respond, Forget

\* A new cookie is that of the attempt just begun, a new answer that of one begun.
LEMMA CookiesStep == IInv /\ [Next]_vars => CookiesAreOwn' /\ AnswersAreBegun'
<1> SUFFICES ASSUME IInv, [Next]_vars PROVE CookiesAreOwn' /\ AnswersAreBegun'
  OBVIOUS
<1>t. TypeOK /\ CookiesAreOwn /\ AnswersAreBegun
  BY DEF IInv
<1>g. Grows
  BY GrowsStep
<1>1. CASE UNCHANGED <<begun, jar, answer>>
  BY <1>1, <1>t DEF CookiesAreOwn, AnswersAreBegun
<1>2. ASSUME NEW r \in Reqs, NEW a \in Attempts, Redirect(r, a)
      PROVE  CookiesAreOwn' /\ AnswersAreBegun'
  <2> DEFINE b == req[r].browser
             p == req[r].provider
  <2>1. b \in Browsers /\ p \in Providers
    BY <1>2, <1>t, InProgress DEF Redirect, At, Request
  <2>2. /\ begun' = [begun EXCEPT ![a] = [browser |-> b, provider |-> p]]
        /\ jar' = [jar EXCEPT ![b] = [jar[b] EXCEPT ![p] = a]]
        /\ begun[a] = None /\ answer' = answer
    BY <1>2 DEF Redirect
  <2> HIDE DEF b, p
  <2>3. begun'[a] = [browser |-> b, provider |-> p] /\ begun'[a] # None
    BY <2>1, <2>2, <1>t, NoneAssumption DEF TypeOK
  <2>4. ASSUME NEW b1 \in Browsers, NEW p1 \in Providers, jar'[b1][p1] # None
        PROVE  begun'[jar'[b1][p1]] = [browser |-> b1, provider |-> p1]
    <3>1. CASE b1 = b /\ p1 = p
      BY <3>1, <2>1, <2>2, <2>3, <1>t DEF TypeOK
    <3>2. CASE ~(b1 = b /\ p1 = p)
      <4>1. jar'[b1][p1] = jar[b1][p1]
        BY <3>2, <2>1, <2>2, <1>t DEF TypeOK
      <4>2. jar[b1][p1] \in Attempts /\ begun[jar[b1][p1]] = [browser |-> b1, provider |-> p1]
        BY <4>1, <2>4, <1>t DEF TypeOK, CookiesAreOwn
      <4>3. begun[jar[b1][p1]] # None
        BY <4>2, NoneAssumption
      <4>4. QED
        BY <4>1, <4>2, <4>3, <1>g DEF Grows
    <3>3. QED
      BY <3>1, <3>2
  <2>5. AnswersAreBegun'
    BY <2>2, <1>t, <1>g DEF AnswersAreBegun, Grows, TypeOK
  <2>6. QED
    BY <2>4, <2>5 DEF CookiesAreOwn
<1>3. ASSUME NEW c \in Codes, NEW a \in Attempts, NEW s \in Subjects, Answer(c, a, s)
      PROVE  CookiesAreOwn' /\ AnswersAreBegun'
  <2>1. /\ answer' = [answer EXCEPT ![c] = [attempt |-> a, subject |-> s]]
        /\ begun[a] # None /\ UNCHANGED <<begun, jar>>
    BY <1>3 DEF Answer
  <2>2. \A x \in Codes : answer'[x] = IF x = c THEN [attempt |-> a, subject |-> s] ELSE answer[x]
    BY <2>1, <1>t DEF TypeOK
  <2>3. QED
    BY <2>1, <2>2, <1>t DEF CookiesAreOwn, AnswersAreBegun
<1>4. ASSUME NEW b \in Browsers, NEW p \in Providers,
             jar' = [jar EXCEPT ![b][p] = None], UNCHANGED <<begun, answer>>
      PROVE  CookiesAreOwn' /\ AnswersAreBegun'
  <2>1. jar' = [jar EXCEPT ![b] = [jar[b] EXCEPT ![p] = None]]
    BY <1>4
  <2>2. \A b1 \in Browsers, p1 \in Providers :
           jar'[b1][p1] = IF b1 = b /\ p1 = p THEN None ELSE jar[b1][p1]
    BY <2>1, <1>t DEF TypeOK
  <2>3. QED
    BY <1>4, <2>2, <1>t DEF CookiesAreOwn, AnswersAreBegun
<1>5. ASSUME NEW r \in Reqs, Respond(r) PROVE CookiesAreOwn' /\ AnswersAreBegun'
  <2>1. req[r].browser \in Browsers /\ req[r].provider \in Providers
    BY <1>5, <1>t, InProgress DEF Respond, At, Request
  <2>2. QED
    BY <2>1, <1>4, <1>5 DEF Respond
<1>6. QED
  BY <1>1, <1>2, <1>3, <1>4, <1>5 DEF Next, vars, Login, Callback, ClientReady, Discover,
     DiscoveryDone, End, CheckState, Exchange, ExchangeLost, Complete, StartSession, Forget

-----------------------------------------------------------------------------
(* Requests.                                                               *)

\* Only one request changes.
Only(r) == \A q \in Reqs : q # r => req'[q] = req[q]

\* A step of one request leaves the others in order, unless it opens a session for
\* the code of one of them.
LEMMA OthersInOrder ==
    ASSUME IInv, Grows, NEW r, Only(r),
           \A q \in Reqs : q # r /\ req[q].stage \in Won =>
               (req[q].code \in opened' => req[q].code \in opened)
    PROVE  \A q \in Reqs : q # r => InOrder(q)'
<1> SUFFICES ASSUME NEW q \in Reqs, q # r PROVE InOrder(q)'
  OBVIOUS
<1>1. TypeOK /\ InOrder(q) /\ req'[q] = req[q]
  BY DEF IInv, Only
<1>2. QED
  BY <1>1, OthersStay DEF Grows

\* Every request stays in order.
LEMMA RequestsStep == IInv /\ [Next]_vars => \A q \in Reqs : InOrder(q)'
<1> SUFFICES ASSUME IInv, [Next]_vars PROVE \A q \in Reqs : InOrder(q)'
  OBVIOUS
<1>t. TypeOK /\ \A r \in Reqs : InOrder(r)
  BY DEF IInv
<1>g. Grows
  BY GrowsStep
<1>e. ASSUME NEW r \in Reqs, Ended(r), UNCHANGED opened PROVE \A q \in Reqs : InOrder(q)'
  <2>1. req'[r].stage = "idle" /\ Only(r)
    BY <1>e, <1>t, EndedStep DEF Only
  <2>2. InOrder(r)'
    BY <2>1 DEF InOrder, Genuine, Matched, Opens, Won
  <2>3. QED
    BY <2>1, <2>2, <1>e, <1>g, OthersInOrder
<1>f. ASSUME NEW r \in Reqs, NEW s \in Stages, Goto(r, s), ~At(r, "idle"), UNCHANGED opened,
             Only(r) => InOrder(r)'
      PROVE  \A q \in Reqs : InOrder(q)'
  <2>1. Only(r)
    BY <1>f, <1>t, GotoStep DEF Only
  <2>2. QED
    BY <2>1, <1>f, <1>g, OthersInOrder
<1>1. ASSUME NEW r \in Reqs, NEW b \in Browsers, NEW p \in Providers, Login(r, b, p)
      PROVE  \A q \in Reqs : InOrder(q)'
  <2> DEFINE new == [stage |-> IF p \in Discovered THEN "client" ELSE "redirect",
                     browser |-> b, provider |-> p, code |-> None, saved |-> None]
  <2>1. req'[r] = new /\ Only(r) /\ UNCHANGED opened
    BY <1>1, <1>t DEF Login, TypeOK, Only
  <2>2. InOrder(r)'
    BY <2>1 DEF InOrder, Genuine, Matched, Opens, Won
  <2>3. QED
    BY <2>1, <2>2, <1>g, OthersInOrder
<1>2. ASSUME NEW r \in Reqs, NEW b \in Browsers, NEW c \in Codes, Callback(r, b, c)
      PROVE  \A q \in Reqs : InOrder(q)'
  <2> DEFINE p == begun[answer[c].attempt].provider
  <2> DEFINE new == [stage |-> IF p \in Discovered THEN "client" ELSE "check",
                     browser |-> b, provider |-> p, code |-> c, saved |-> jar[b][p]]
  <2>1. p \in Providers
    <3>1. answer[c] \in [attempt : Attempts, subject : Subjects]
      BY <1>2, <1>t DEF Callback, TypeOK
    <3>2. begun[answer[c].attempt] # None
      BY <1>2 DEF Callback, IInv, AnswersAreBegun
    <3>3. begun[answer[c].attempt] \in [browser : Browsers, provider : Providers]
      BY <3>1, <3>2, <1>t DEF TypeOK
    <3>4. QED
      BY <3>3
  <2>2. req'[r] = new /\ Only(r) /\ UNCHANGED <<opened, begun, answer>> /\ answer[c] # None
    BY <1>2, <1>t DEF Callback, TypeOK, Only
  <2> HIDE DEF p
  <2>3. jar[b][p] # None => /\ begun[jar[b][p]] = [browser |-> b, provider |-> p]
                            /\ begun[jar[b][p]] # None
    BY <2>1, NoneAssumption DEF IInv, CookiesAreOwn
  <2>4. Genuine(r)'
    BY <2>2, <2>3, NoneAssumption DEF Genuine
  <2>5. InOrder(r)'
    BY <2>2, <2>4 DEF InOrder, Matched, Opens, Won
  <2>6. QED
    BY <2>2, <2>5, <1>g, OthersInOrder
<1>3. ASSUME NEW r \in Reqs, ClientReady(r) \/ Discover(r) \/ DiscoveryDone(r)
      PROVE  \A q \in Reqs : InOrder(q)'
  <2>1. /\ ~At(r, "idle") /\ UNCHANGED <<begun, answer, opened>>
        /\ req[r].stage \in {"client", "discover"}
    BY <1>3 DEF ClientReady, Discover, DiscoveryDone, At
  <2>2. PICK s \in Stages : /\ Goto(r, s)
                            /\ s \in {"discover", "redirect", "check"}
                            /\ s = "check" => req[r].code # None
    BY <1>3 DEF ClientReady, Discover, DiscoveryDone, Onward, Stages
  <2>3. InOrder(r) /\ req[r] \in Request
    BY <2>1, <1>t, InProgress
  <2>4. Genuine(r)'
    BY <2>1, <2>2, <2>3, <1>t, GotoStep DEF InOrder, Genuine
  <2>5. InOrder(r)'
    BY <2>1, <2>2, <2>4, <1>t, GotoStep DEF InOrder, Matched, Opens, Won
  <2>6. QED
    BY <2>1, <2>2, <2>5, <1>f
<1>4. ASSUME NEW r \in Reqs, CheckState(r) PROVE \A q \in Reqs : InOrder(q)'
  <2>1. /\ ~At(r, "idle") /\ UNCHANGED <<begun, answer, opened>> /\ Goto(r, "exchange")
        /\ req[r].stage = "check" /\ StateMatches(r)
    BY <1>4 DEF CheckState, At
  <2>2. InOrder(r) /\ "exchange" \in Stages
    BY <1>t DEF Stages
  <2>3. /\ req'[r].stage = "exchange" /\ req'[r].browser = req[r].browser
        /\ req'[r].code = req[r].code /\ req'[r].saved = req[r].saved
    BY <2>1, <2>2, <1>t, GotoStep
  <2>4. InOrder(r)'
    BY <2>1, <2>2, <2>3 DEF InOrder, Genuine, Matched, Opens, Won, StateMatches
  <2>5. QED
    BY <2>1, <2>2, <2>4, <1>f
<1>5. ASSUME NEW r \in Reqs, Exchange(r) PROVE \A q \in Reqs : InOrder(q)'
  <2>1. /\ ~At(r, "idle") /\ UNCHANGED <<begun, answer, opened>> /\ Goto(r, "complete")
        /\ req[r].stage = "exchange" /\ req[r].code \notin spent
        /\ spent' = spent \union {req[r].code}
    BY <1>5 DEF Exchange, Redeemable, At
  <2>2. InOrder(r) /\ "complete" \in Stages /\ req[r].code \notin opened
    BY <2>1, <1>t DEF Stages, IInv
  <2>3. /\ req'[r].stage = "complete" /\ req'[r].browser = req[r].browser
        /\ req'[r].code = req[r].code /\ req'[r].saved = req[r].saved
    BY <2>1, <2>2, <1>t, GotoStep
  <2>4. InOrder(r)'
    BY <2>1, <2>2, <2>3 DEF InOrder, Genuine, Matched, Opens, Won
  <2>5. QED
    BY <2>1, <2>2, <2>4, <1>f
<1>6. ASSUME NEW r \in Reqs, Complete(r) PROVE \A q \in Reqs : InOrder(q)'
  <2>1. /\ ~At(r, "idle") /\ UNCHANGED <<begun, answer, opened, spent>> /\ Goto(r, "session")
        /\ req[r].stage = "complete"
    BY <1>6 DEF Complete, At
  <2>2. InOrder(r) /\ "session" \in Stages
    BY <1>t DEF Stages
  <2>3. /\ req'[r].stage = "session" /\ req'[r].browser = req[r].browser
        /\ req'[r].code = req[r].code /\ req'[r].saved = req[r].saved
    BY <2>1, <2>2, <1>t, GotoStep
  <2>4. InOrder(r)'
    BY <2>1, <2>2, <2>3 DEF InOrder, Genuine, Matched, Opens, Won
  <2>5. QED
    BY <2>1, <2>2, <2>4, <1>f
<1>7. ASSUME NEW r \in Reqs, StartSession(r) PROVE \A q \in Reqs : InOrder(q)'
  <2>1. /\ ~At(r, "idle") /\ UNCHANGED <<begun, answer, spent>> /\ Goto(r, "respond")
        /\ req[r].stage = "session" /\ opened' = opened \union {req[r].code}
    BY <1>7 DEF StartSession, At
  <2>2. InOrder(r) /\ "respond" \in Stages
    BY <1>t DEF Stages
  <2>3. /\ req'[r].stage = "respond" /\ req'[r].browser = req[r].browser
        /\ req'[r].code = req[r].code /\ req'[r].saved = req[r].saved /\ Only(r)
    BY <2>1, <2>2, <1>t, GotoStep DEF Only
  <2>4. InOrder(r)'
    BY <2>1, <2>2, <2>3 DEF InOrder, Genuine, Matched, Opens, Won
  <2>5. \A q \in Reqs : q # r /\ req[q].stage \in Won => req[q].code # req[r].code
    BY <2>1 DEF IInv, Alone, Won
  <2>6. QED
    BY <2>1, <2>3, <2>4, <2>5, <1>g, OthersInOrder
<1>8. ASSUME UNCHANGED <<req, opened>> PROVE \A q \in Reqs : InOrder(q)'
  BY <1>8, <1>t, <1>g, OthersStay DEF Grows
<1>9. QED
  BY <1>e, <1>1, <1>2, <1>3, <1>4, <1>5, <1>6, <1>7, <1>8
     DEF Next, vars, End, Redirect, ExchangeLost, Respond, Answer, Forget

\* The one that exchanges a code finds it unspent, so nobody else has it.
LEMMA AloneStep == IInv /\ [Next]_vars => (\A r, q \in Reqs : Alone(r, q))' /\ (opened \subseteq spent)'
<1> SUFFICES ASSUME IInv, [Next]_vars
             PROVE  (\A r, q \in Reqs : Alone(r, q))' /\ (opened \subseteq spent)'
  OBVIOUS
<1>t. TypeOK /\ (\A r \in Reqs : InOrder(r)) /\ opened \subseteq spent
  BY DEF IInv
<1>k. ASSUME NEW r \in Reqs, Only(r),
             req'[r].stage \in Won => req[r].stage \in Won /\ req'[r].code = req[r].code
      PROVE  (\A q1, q2 \in Reqs : Alone(q1, q2))'
  <2>1. \A q \in Reqs : req'[q].stage \in Won => req[q].stage \in Won /\ req'[q].code = req[q].code
    BY <1>k DEF Only
  <2>2. QED
    BY <2>1 DEF IInv, Alone
<1>1. ASSUME NEW r \in Reqs, NEW b \in Browsers,
             (\E p \in Providers : Login(r, b, p)) \/ (\E c \in Codes : Callback(r, b, c))
      PROVE  (\A q1, q2 \in Reqs : Alone(q1, q2))' /\ (opened \subseteq spent)'
  <2>1. Only(r) /\ req'[r].stage \notin Won /\ UNCHANGED <<opened, spent>>
    BY <1>1, <1>t DEF Login, Callback, TypeOK, Only, Won
  <2>2. QED
    BY <2>1, <1>k, <1>t
<1>2. ASSUME NEW r \in Reqs, ClientReady(r) \/ Discover(r) \/ DiscoveryDone(r) \/ CheckState(r)
      PROVE  (\A q1, q2 \in Reqs : Alone(q1, q2))' /\ (opened \subseteq spent)'
  <2>1. ~At(r, "idle") /\ UNCHANGED <<opened, spent>>
    BY <1>2 DEF ClientReady, Discover, DiscoveryDone, CheckState, At
  <2>2. PICK s \in Stages : Goto(r, s) /\ s \notin Won
    BY <1>2 DEF ClientReady, Discover, DiscoveryDone, CheckState, Onward, Stages, Won
  <2>3. Only(r) /\ req'[r].stage \notin Won
    BY <2>1, <2>2, <1>t, GotoStep DEF Only
  <2>4. QED
    BY <2>1, <2>3, <1>k, <1>t
<1>3. ASSUME NEW r \in Reqs, Ended(r), UNCHANGED opened, spent \subseteq spent'
      PROVE  (\A q1, q2 \in Reqs : Alone(q1, q2))' /\ (opened \subseteq spent)'
  <2>1. Only(r) /\ req'[r].stage \notin Won
    BY <1>3, <1>t, EndedStep DEF Only, Won
  <2>2. QED
    BY <2>1, <1>3, <1>k, <1>t
<1>4. ASSUME NEW r \in Reqs, Exchange(r)
      PROVE  (\A q1, q2 \in Reqs : Alone(q1, q2))' /\ (opened \subseteq spent)'
  <2>1. /\ ~At(r, "idle") /\ Goto(r, "complete") /\ req[r].code \notin spent
        /\ UNCHANGED opened /\ spent \subseteq spent'
    BY <1>4 DEF Exchange, Redeemable, At
  <2>2. Only(r) /\ req'[r].code = req[r].code
    BY <2>1, <1>t, GotoStep DEF Only, Stages
  <2>3. \A q \in Reqs : q # r /\ req[q].stage \in Won => req[q].code # req[r].code
    BY <2>1, <1>t DEF InOrder, Opens
  <2>4. (\A q1, q2 \in Reqs : Alone(q1, q2))'
    <3> SUFFICES ASSUME NEW q1 \in Reqs, NEW q2 \in Reqs PROVE Alone(q1, q2)'
      OBVIOUS
    <3>1. Alone(q1, q2)
      BY DEF IInv
    <3>2. QED
      BY <2>2, <2>3, <3>1 DEF Only, Alone
  <2>5. QED
    BY <2>1, <2>4, <1>t
<1>5. ASSUME NEW r \in Reqs, Complete(r) \/ StartSession(r)
      PROVE  (\A q1, q2 \in Reqs : Alone(q1, q2))' /\ (opened \subseteq spent)'
  <2>1. /\ ~At(r, "idle") /\ req[r].stage \in Won /\ UNCHANGED spent
        /\ \E s \in Stages : Goto(r, s)
        /\ opened' = opened \/ opened' = opened \union {req[r].code}
    BY <1>5 DEF Complete, StartSession, At, Won, Stages
  <2>2. Only(r) /\ req'[r].code = req[r].code
    BY <2>1, <1>t, GotoStep DEF Only
  <2>3. req[r].code \in spent
    BY <2>1, <1>t DEF InOrder, Opens
  <2>4. QED
    BY <2>1, <2>2, <2>3, <1>k, <1>t
<1>6. ASSUME UNCHANGED <<req, opened, spent>>
      PROVE  (\A q1, q2 \in Reqs : Alone(q1, q2))' /\ (opened \subseteq spent)'
  BY <1>6 DEF IInv, Alone
<1>7. QED
  BY <1>1, <1>2, <1>3, <1>4, <1>5, <1>6
     DEF Next, vars, End, Redirect, ExchangeLost, Respond, Answer, Forget

\* The cell is taken and left by the request that is at the discovery.
LEMMA CellStep == IInv /\ [Next]_vars => NobodyWaitsForTheGone'
<1> SUFFICES ASSUME IInv, [Next]_vars PROVE NobodyWaitsForTheGone'
  OBVIOUS
<1>t. TypeOK /\ NobodyWaitsForTheGone
  BY DEF IInv
<1>k. ASSUME NEW r \in Reqs, Only(r), UNCHANGED cell, ~At(r, "discover")
      PROVE  NobodyWaitsForTheGone'
  BY <1>k, <1>t DEF NobodyWaitsForTheGone, Only, At
<1>1. ASSUME NEW r \in Reqs, NEW b \in Browsers,
             (\E p \in Providers : Login(r, b, p)) \/ (\E c \in Codes : Callback(r, b, c))
      PROVE  NobodyWaitsForTheGone'
  <2>1. Only(r) /\ UNCHANGED cell /\ ~At(r, "discover")
    BY <1>1, <1>t DEF Login, Callback, TypeOK, Only, At
  <2>2. QED
    BY <2>1, <1>k
<1>2. ASSUME NEW r \in Reqs,
             ClientReady(r) \/ CheckState(r) \/ Exchange(r) \/ Complete(r) \/ StartSession(r)
      PROVE  NobodyWaitsForTheGone'
  <2>1. /\ ~At(r, "idle") /\ ~At(r, "discover") /\ UNCHANGED cell
        /\ \E s \in Stages : Goto(r, s)
    BY <1>2 DEF ClientReady, CheckState, Exchange, Complete, StartSession, Onward, At, Stages
  <2>2. QED
    BY <2>1, <1>k, <1>t, GotoStep DEF Only
<1>3. ASSUME NEW r \in Reqs,
             ExchangeLost(r) \/ Respond(r) \/ (\E a \in Attempts : Redirect(r, a))
      PROVE  NobodyWaitsForTheGone'
  <2>1. Ended(r) /\ ~At(r, "discover") /\ UNCHANGED cell
    BY <1>3 DEF ExchangeLost, Respond, Redirect, At
  <2>2. QED
    BY <2>1, <1>k, <1>t, EndedStep DEF Only
<1>4. ASSUME NEW r \in Reqs, Discover(r) PROVE NobodyWaitsForTheGone'
  <2>1. /\ ~At(r, "idle") /\ ~At(r, "discover") /\ Goto(r, "discover") /\ At(r, "client")
        /\ cell' = [cell EXCEPT ![req[r].provider] = r]
    BY <1>4 DEF Discover, At
  <2>2. /\ req'[r].stage = "discover" /\ req'[r].provider = req[r].provider
        /\ Only(r)
    BY <2>1, <1>t, GotoStep DEF Only, Stages
  <2>3. QED
    BY <2>1, <2>2, <1>t DEF NobodyWaitsForTheGone, TypeOK, Only, At
<1>5. ASSUME NEW r \in Reqs, DiscoveryDone(r) PROVE NobodyWaitsForTheGone'
  <2>1. /\ ~At(r, "idle") /\ (\E s \in Stages : Goto(r, s))
        /\ cell' = [cell EXCEPT ![req[r].provider] = "ready"]
    BY <1>5 DEF DiscoveryDone, At, Onward, Stages
  <2>2. Only(r)
    BY <2>1, <1>t, GotoStep DEF Only
  <2>3. QED
    BY <2>1, <2>2, <1>t, CellAssumption DEF NobodyWaitsForTheGone, TypeOK, Only, At
<1>6. ASSUME NEW r \in Reqs, End(r) PROVE NobodyWaitsForTheGone'
  <2>1. Only(r) /\ cell' = Released(r)
    BY <1>6, <1>t, EndedStep DEF End, Only
  <2>2. QED
    BY <2>1, <1>t, CellAssumption DEF NobodyWaitsForTheGone, Released, Only, At
<1>7. CASE UNCHANGED <<req, cell>>
  BY <1>7, <1>t DEF NobodyWaitsForTheGone, At
<1>8. QED
  BY <1>1, <1>2, <1>3, <1>4, <1>5, <1>6, <1>7 DEF Next, vars, Answer, Forget

LEMMA Invariance == Spec => []IInv
<1>1. IInv /\ [Next]_vars => IInv'
  BY TypeOKStep, CookiesStep, RequestsStep, AloneStep, CellStep DEF IInv
<1>2. QED
  BY InitIInv, <1>1, PTL DEF Spec

\* Requests, cookies, answers, the cell and sessions keep their types: only codes that
\* were issued are spent or opened, and a callback's provider exists.
THEOREM TypeCorrect == Spec => []TypeOK
<1>1. IInv => TypeOK
  BY DEF IInv
<1>2. QED
  BY Invariance, <1>1, PTL

\* A request that waits for a provider's client waits for one that is making it
\* (get_or_try_init): it never waits for a request that failed or was dropped.
THEOREM NobodyWaits == Spec => []NobodyWaitsForTheGone
<1>1. IInv => NobodyWaitsForTheGone
  BY DEF IInv
<1>2. QED
  BY Invariance, <1>1, PTL

-----------------------------------------------------------------------------
(* The refinement.                                                         *)

\* Nothing was begun in the abstract either.
LEMMA InitMaps == Init => S!Init
<1> SUFFICES ASSUME Init PROVE S!Init
  OBVIOUS
<1>1. [a \in Attempts |-> BrowserOf(a)] = [a \in Attempts |-> None]
  BY DEF Init, BrowserOf
<1>2. QED
  BY <1>1 DEF Init, S!Init

\* Every step is a step of SignIn, or changes nothing there.
LEMMA StepMaps == IInv /\ [Next]_vars => [S!Next]_(S!vars)
<1> SUFFICES ASSUME IInv, [Next]_vars PROVE [S!Next]_(S!vars)
  OBVIOUS
<1>t. TypeOK /\ \A r \in Reqs : InOrder(r)
  BY DEF IInv
<1>s. ASSUME UNCHANGED begun
      PROVE  [a \in Attempts |-> BrowserOf(a)]' = [a \in Attempts |-> BrowserOf(a)]
  BY <1>s DEF BrowserOf
<1>1. ASSUME NEW r \in Reqs, NEW a \in Attempts, Redirect(r, a) PROVE S!Next
  <2> DEFINE b == req[r].browser
             p == req[r].provider
             f == [x \in Attempts |-> BrowserOf(x)]
  <2>1. b \in Browsers /\ p \in Providers
    BY <1>1, <1>t, InProgress DEF Redirect, At, Request
  <2>2. /\ begun' = [begun EXCEPT ![a] = [browser |-> b, provider |-> p]]
        /\ begun[a] = None /\ UNCHANGED <<answer, opened, holds>>
    BY <1>1 DEF Redirect
  <2>3. f[a] = None
    BY <2>2 DEF BrowserOf
  <2> HIDE DEF b, p
  <2>4. begun'[a] = [browser |-> b, provider |-> p] /\ begun'[a] # None
    BY <2>1, <2>2, <1>t, NoneAssumption DEF TypeOK
  <2>5. \A x \in Attempts : x # a => begun'[x] = begun[x]
    BY <2>2, <1>t DEF TypeOK
  <2>6. f' = [f EXCEPT ![a] = b]
    <3>1. BrowserOf(a)' = b
      BY <2>4 DEF BrowserOf
    <3>2. \A x \in Attempts : x # a => BrowserOf(x)' = BrowserOf(x)
      BY <2>5 DEF BrowserOf
    <3>3. QED
      BY <3>1, <3>2
  <2>7. S!Begin(a, b)
    BY <2>2, <2>3, <2>6 DEF S!Begin
  <2>8. QED
    BY <2>1, <2>7 DEF S!Next
<1>2. ASSUME NEW c \in Codes, NEW a \in Attempts, NEW s \in Subjects, Answer(c, a, s)
      PROVE  S!Next
  <2>1. begun[a] # None
    BY <1>2 DEF Answer
  <2>2. begun[a].browser \in Browsers
    BY <2>1, <1>t DEF TypeOK
  <2>3. [x \in Attempts |-> BrowserOf(x)][a] # None
    BY <2>1, <2>2, NoneAssumption DEF BrowserOf
  <2>4. S!Answer(c, a, s)
    BY <1>2, <2>3, <1>s DEF Answer, S!Answer
  <2>5. QED
    BY <2>4 DEF S!Next
<1>3. ASSUME NEW r \in Reqs, StartSession(r) PROVE S!Next
  <2>1. /\ req[r].stage = "session" /\ opened' = opened \union {req[r].code}
        /\ UNCHANGED <<begun, answer, holds>>
    BY <1>3 DEF StartSession, At
  <2>2. InOrder(r) /\ req[r] \in Request
    BY <2>1, <1>t, InProgress DEF At
  <2>3. /\ req[r].code \in Codes /\ answer[req[r].code] # None
        /\ req[r].code \notin opened
    BY <2>1, <2>2 DEF InOrder, Genuine, Matched, Opens, Won, Request
  <2>4. S!Open(req[r].code)
    BY <2>1, <2>3, <1>s DEF S!Open
  <2>5. QED
    BY <2>3, <2>4 DEF S!Next
<1>4. ASSUME NEW r \in Reqs, Respond(r) PROVE S!Next
  <2> DEFINE b == req[r].browser
             c == req[r].code
             a == answer[c].attempt
  <2>1. /\ req[r].stage = "respond" /\ holds' = [holds EXCEPT ![b] = c]
        /\ UNCHANGED <<begun, answer, opened>>
    BY <1>4 DEF Respond, At
  <2>2. InOrder(r) /\ req[r] \in Request
    BY <2>1, <1>t, InProgress DEF At
  <2>3. c \in Codes /\ b \in Browsers /\ c \in opened /\ answer[c] # None /\ req[r].saved = a
    BY <2>1, <2>2 DEF InOrder, Genuine, Matched, Opens, Won, Request
  <2>4. a \in Attempts
    BY <2>3, <1>t DEF TypeOK
  <2>5. begun[a] # None /\ begun[a].browser = b
    BY <2>1, <2>2, <2>3, <2>4, NoneAssumption DEF InOrder, Genuine
  <2>6. [x \in Attempts |-> BrowserOf(x)][a] = b
    BY <2>4, <2>5 DEF BrowserOf
  <2>7. S!Enter(b, c)
    BY <2>1, <2>3, <2>6, <1>s DEF S!Enter
  <2>8. QED
    BY <2>3, <2>7 DEF S!Next
<1>5. CASE UNCHANGED <<begun, answer, opened, holds>>
  BY <1>5, <1>s DEF S!vars
<1>6. QED
  BY <1>1, <1>2, <1>3, <1>4, <1>5
     DEF Next, vars, Login, Callback, ClientReady, Discover, DiscoveryDone, End, CheckState,
         Exchange, ExchangeLost, Complete, Forget

\* The sign-in of oidc.rs implements SignIn: one session at most for an answer given at
\* the provider, and only in the browser where that sign-in was begun.
THEOREM Refinement == Spec => ImplementsSignIn
<1>1. QED
  BY InitMaps, StepMaps, Invariance, PTL DEF Spec, ImplementsSignIn, S!Spec

-----------------------------------------------------------------------------
(* LoginCodes: a sign-in with a code from an email.                        *)

\* The attempts on record of the pending code are exactly the comparisons with
\* it, and it has not signed anybody in.
PendingIsCounted ==
    code # NoCode => /\ compared[code.serial] = code.attempts
                     /\ signedIn[code.serial] = 0

\* Codes that are yet to be issued have no history.
FutureIsBlank == \A s \in Serials : s > issued => compared[s] = 0 /\ signedIn[s] = 0

CodesIInv ==
    /\ CodesTypeOK
    /\ PendingIsCounted
    /\ FutureIsBlank
    /\ SingleUse
    /\ FiveAttempts

-----------------------------------------------------------------------------

\* No code, no request and no attempt yet.
LEMMA CodesInitIInv == CodesInit => CodesIInv
<1> SUFFICES ASSUME CodesInit PROVE CodesIInv
  OBVIOUS
<1> USE LoginCodesAssumption DEF CodesInit
<1>1. CodesTypeOK
  <2>1. compared \in [Serials -> Nat] /\ signedIn \in [Serials -> Nat]
    OBVIOUS
  <2>2. crashes \in [Serials -> 0..MaxCrashes] /\ issued \in 0..MaxIssues
    OBVIOUS
  <2>3. QED
    BY <2>1, <2>2 DEF CodesTypeOK
<1>2. PendingIsCounted
  BY DEF PendingIsCounted
<1>3. FutureIsBlank /\ SingleUse /\ FiveAttempts
  BY DEF FutureIsBlank, SingleUse, FiveAttempts
<1>4. QED
  BY <1>1, <1>2, <1>3 DEF CodesIInv

\* The pending code of a good state is a record, and its serial was issued.
LEMMA PendingTyped ==
    ASSUME CodesTypeOK, code # NoCode
    PROVE  /\ code \in [serial: 1..issued, attempts: 0..MaxAttempts, expired: BOOLEAN]
           /\ code.serial \in Serials /\ code.serial <= issued
           /\ code.attempts \in 0..MaxAttempts
<1>1. code \in [serial: 1..issued, attempts: 0..MaxAttempts, expired: BOOLEAN]
  BY DEF CodesTypeOK
<1>2. code.serial \in 1..issued /\ code.attempts \in 0..MaxAttempts
  BY <1>1
<1>3. 1..issued \subseteq Serials /\ \A n \in 1..issued : n <= issued
  BY LoginCodesAssumption DEF CodesTypeOK, Serials
<1>4. QED
  BY <1>1, <1>2, <1>3

\* Every step keeps the types.
LEMMA CodesTypeOKStep == CodesIInv /\ [CodesNext]_codesVars => CodesTypeOK'
<1> SUFFICES ASSUME CodesIInv, [CodesNext]_codesVars PROVE CodesTypeOK'
  OBVIOUS
<1> USE LoginCodesAssumption DEF CodesTypeOK
<1>1. ASSUME NEW r \in CodeReqs, CodeRequest(r) \/ BeginErase(r) \/ Abandon(r)
      PROVE CodesTypeOK'
  BY <1>1 DEF CodesIInv, CodeRequest, BeginErase, Abandon, CodeGoto
<1>2. ASSUME NEW r \in CodeReqs, IssueCode(r) PROVE CodesTypeOK'
  <2>1. issued' \in 0..MaxIssues /\ code' \in [serial: 1..issued', attempts: 0..MaxAttempts,
                                               expired: BOOLEAN]
    BY <1>2 DEF CodesIInv, IssueCode, Fresh
  <2>2. pc' \in [CodeReqs -> {"idle", "exists", "erasing", "late"}]
    BY <1>2 DEF CodesIInv, IssueCode, CodeGoto
  <2>3. QED
    BY <1>2, <2>1, <2>2 DEF CodesIInv, IssueCode
<1>3. ASSUME NEW r \in CodeReqs, FinishErase(r) \/ FinishLateErase(r) PROVE CodesTypeOK'
  BY <1>3 DEF CodesIInv, FinishErase, FinishLateErase, CodeGoto
<1>4. ASSUME VerifyDead PROVE CodesTypeOK'
  BY <1>4 DEF CodesIInv, VerifyDead
<1>5. ASSUME VerifyWrong PROVE CodesTypeOK'
  <2>1. code' \in [serial: 1..issued, attempts: 0..MaxAttempts, expired: BOOLEAN] \union {NoCode}
    BY <1>5, PendingTyped DEF CodesIInv, VerifyWrong, Bumped, Dead
  <2>2. compared' \in [Serials -> Nat]
    BY <1>5, PendingTyped DEF CodesIInv, VerifyWrong
  <2>3. QED
    BY <1>5, <2>1, <2>2 DEF CodesIInv, VerifyWrong
<1>6. ASSUME VerifyRight PROVE CodesTypeOK'
  <2>1. compared' \in [Serials -> Nat] /\ signedIn' \in [Serials -> Nat]
    BY <1>6, PendingTyped DEF CodesIInv, VerifyRight
  <2>2. QED
    BY <1>6, <2>1 DEF CodesIInv, VerifyRight, Spent
<1>7. ASSUME VerifyCut PROVE CodesTypeOK'
  <2>1. code' \in [serial: 1..issued, attempts: 0..MaxAttempts, expired: BOOLEAN] \union {NoCode}
    BY <1>7, PendingTyped DEF CodesIInv, VerifyCut, Bumped, Dead
  <2>2. compared' \in [Serials -> Nat] /\ crashes' \in [Serials -> 0..MaxCrashes]
    BY <1>7, PendingTyped DEF CodesIInv, VerifyCut
  <2>3. QED
    BY <1>7, <2>1, <2>2 DEF CodesIInv, VerifyCut
<1>8. ASSUME Expire PROVE CodesTypeOK'
  <2>1. code' \in [serial: 1..issued, attempts: 0..MaxAttempts, expired: BOOLEAN]
    BY <1>8, PendingTyped DEF CodesIInv, Expire
  <2>2. QED
    BY <1>8, <2>1 DEF CodesIInv, Expire
<1>9. ASSUME Register PROVE CodesTypeOK'
  BY <1>9 DEF CodesIInv, Register
<1>10. ASSUME UNCHANGED codesVars PROVE CodesTypeOK'
  BY <1>10 DEF CodesIInv, codesVars
<1>11. QED
  BY <1>1, <1>2, <1>3, <1>4, <1>5, <1>6, <1>7, <1>8, <1>9, <1>10 DEF CodesNext

\* What the actions that touch the pending code do to its counters.
LEMMA CountersStep ==
    CodesIInv /\ [CodesNext]_codesVars => /\ PendingIsCounted' /\ FutureIsBlank'
                           /\ SingleUse' /\ FiveAttempts'
<1> SUFFICES ASSUME CodesIInv, [CodesNext]_codesVars
             PROVE  PendingIsCounted' /\ FutureIsBlank' /\ SingleUse' /\ FiveAttempts'
  OBVIOUS
<1> USE LoginCodesAssumption
    DEF CodesIInv, PendingIsCounted, FutureIsBlank, SingleUse, FiveAttempts
<1> DEFINE Counted == PendingIsCounted' /\ FutureIsBlank' /\ SingleUse' /\ FiveAttempts'
<1>t. /\ compared \in [Serials -> Nat] /\ signedIn \in [Serials -> Nat]
      /\ issued \in 0..MaxIssues
  BY DEF CodesTypeOK
<1>1. ASSUME NEW r \in CodeReqs, CodeRequest(r) \/ BeginErase(r) \/ Abandon(r) PROVE Counted
  BY <1>1 DEF CodeRequest, BeginErase, Abandon
<1>2. ASSUME NEW r \in CodeReqs, IssueCode(r) PROVE Counted
  <2>1. issued + 1 \in Serials /\ issued + 1 > issued
    BY <1>2, <1>t DEF IssueCode, Serials
  <2>2. code'.serial = issued + 1 /\ code'.attempts = 0
    BY <1>2 DEF IssueCode, Fresh
  <2>3. compared[issued + 1] = 0 /\ signedIn[issued + 1] = 0
    BY <2>1
  <2>4. QED
    BY <1>2, <1>t, <2>1, <2>2, <2>3 DEF IssueCode, Serials
<1>3. ASSUME NEW r \in CodeReqs, FinishErase(r) \/ FinishLateErase(r) PROVE Counted
  BY <1>3 DEF FinishErase, FinishLateErase
<1>4. ASSUME VerifyDead PROVE Counted
  BY <1>4 DEF VerifyDead
<1>5. ASSUME VerifyWrong \/ VerifyCut PROVE Counted
  <2>1. PICK n \in Serials : n = code.serial /\ n <= issued
    BY <1>5, PendingTyped DEF VerifyWrong, VerifyCut
  <2>2. compared[n] = code.attempts /\ signedIn[n] = 0 /\ code.attempts < MaxAttempts
    BY <1>5, <2>1, PendingTyped DEF VerifyWrong, VerifyCut, Dead
  <2>3. compared' = [compared EXCEPT ![n] = @ + 1] /\ UNCHANGED <<signedIn, issued>>
    BY <1>5, <2>1 DEF VerifyWrong, VerifyCut
  <2>4. code' = NoCode \/ code' = Bumped(code)
    BY <1>5 DEF VerifyWrong, VerifyCut
  <2>5. code' = Bumped(code) => code'.serial = n /\ code'.attempts = code.attempts + 1
    BY <1>5, <2>1, PendingTyped DEF VerifyWrong, VerifyCut, Bumped
  <2>6. compared'[n] = code.attempts + 1 /\ \A s \in Serials \ {n} : compared'[s] = compared[s]
    BY <1>t, <2>1, <2>2, <2>3
  <2>7. code.attempts + 1 <= MaxAttempts
    BY <1>5, <2>2, PendingTyped DEF VerifyWrong, VerifyCut
  <2>8. PendingIsCounted'
    BY <2>2, <2>3, <2>4, <2>5, <2>6
  <2>9. FutureIsBlank' /\ SingleUse'
    BY <1>t, <2>1, <2>3, <2>6 DEF Serials
  <2>10. FiveAttempts'
    BY <1>t, <2>6, <2>7
  <2>11. QED
    BY <2>8, <2>9, <2>10
<1>6. ASSUME VerifyRight PROVE Counted
  <2>1. PICK n \in Serials : n = code.serial /\ n <= issued
    BY <1>6, PendingTyped DEF VerifyRight
  <2>2. compared[n] = code.attempts /\ signedIn[n] = 0 /\ code.attempts < MaxAttempts
    BY <1>6, <2>1, PendingTyped DEF VerifyRight, Dead
  <2>3. /\ compared'[n] = code.attempts + 1 /\ signedIn'[n] <= 1
        /\ \A s \in Serials \ {n} : compared'[s] = compared[s] /\ signedIn'[s] = signedIn[s]
    BY <1>6, <1>t, <2>1, <2>2 DEF VerifyRight
  <2>4. code.attempts + 1 <= MaxAttempts
    BY <1>6, <2>2, PendingTyped DEF VerifyRight
  <2>5. FiveAttempts'
    BY <2>3, <2>4
  <2>6. FutureIsBlank' /\ SingleUse'
    BY <1>6, <1>t, <2>1, <2>3 DEF VerifyRight, Serials
  <2>7. PendingIsCounted'
    BY <1>6 DEF VerifyRight, Spent
  <2>8. QED
    BY <2>5, <2>6, <2>7
<1>7. ASSUME Expire PROVE Counted
  <2>1. code'.serial = code.serial /\ code'.attempts = code.attempts
    BY <1>7, PendingTyped DEF Expire
  <2>2. QED
    BY <1>7, <2>1 DEF Expire
<1>8. ASSUME Register \/ UNCHANGED codesVars PROVE Counted
  BY <1>8 DEF Register, codesVars
<1>9. QED
  BY <1>1, <1>2, <1>3, <1>4, <1>5, <1>6, <1>7, <1>8 DEF CodesNext

\* The inductive invariant holds in every reachable state of every instance.
THEOREM CodesInvariance == CodesSpec => []CodesIInv
<1>1. CodesIInv /\ [CodesNext]_codesVars => CodesIInv'
  BY CodesTypeOKStep, CountersStep DEF CodesIInv
<1>2. QED
  BY CodesInitIInv, <1>1, PTL DEF CodesSpec

-----------------------------------------------------------------------------
(* What holds of every behaviour.                                          *)

\* The row and the counters keep their types.
THEOREM CodesTypeCorrect == CodesSpec => []CodesTypeOK
BY CodesInvariance, PTL DEF CodesIInv

\* One issued code signs in once, for any number of overlapping verifications,
\* requests, erasures and crashes.
THEOREM CodesAreSingleUse == CodesSpec => []SingleUse
BY CodesInvariance, PTL DEF CodesIInv

\* No code is compared more often than the limit, whatever the limit is.
THEOREM AttemptsAreBounded == CodesSpec => []FiveAttempts
BY CodesInvariance, PTL DEF CodesIInv

\* The attempts on record are comparisons with the pending code itself.
THEOREM AttemptsAreOwn == CodesSpec => []AttemptsAreItsOwn
<1>1. CodesIInv => AttemptsAreItsOwn
  BY PendingTyped DEF CodesIInv, PendingIsCounted, AttemptsAreItsOwn
<1>2. QED
  BY CodesInvariance, <1>1, PTL

=============================================================================

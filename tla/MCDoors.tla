------------------------------- MODULE MCDoors -------------------------------
(* Small instances of what stands at the server's doors: the sign-in at a  *)
(* provider, the login codes of one address, and the rate limiter with two *)
(* clients behind one proxy, one of them with an IPv6 address.  The three  *)
(* share no state, so one of them moves while the others rest where they   *)
(* begin: what one does is explored in full, and nothing twice.            *)
EXTENDS OAuth, LoginCodes, RateLimiter, TLC

CONSTANTS v4, v6, net64, proxy

MCNetwork == (v4 :> v4) @@ (v6 :> net64) @@ (proxy :> proxy)
MCSent == {<<>>, <<v6>>}
MCNamed == {NoAddr, v4}

Symmetric ==
    Permutations(Browsers) \union Permutations(Attempts) \union Permutations(Codes)
    \union Permutations(Reqs)

DoorsVars == <<vars, codesVars, limiterVars>>

DoorsInit == Init /\ CodesInit /\ LimiterInit

DoorsNext ==
    \/ Next /\ CodesInit /\ LimiterInit /\ UNCHANGED <<codesVars, limiterVars>>
    \/ CodesNext /\ Init /\ LimiterInit /\ UNCHANGED <<vars, limiterVars>>
    \/ LimiterNext /\ Init /\ CodesInit /\ UNCHANGED <<vars, codesVars>>

DoorsSpec == DoorsInit /\ [][DoorsNext]_DoorsVars
=============================================================================

------------------------------- MODULE SignIn -------------------------------
(***************************************************************************)
(* What signing in at a provider promises: an attempt is begun in a        *)
(* browser, a subject answers it at the provider, and for this answer at   *)
(* most one session is ever opened; if any browser gets it, it is the one  *)
(* the attempt was begun in.                                               *)
(***************************************************************************)
CONSTANTS Browsers, Attempts, Codes, Subjects, None

VARIABLES
    begun,    \* the browser each attempt was begun in
    answer,   \* the answers: a code, for an attempt, of a subject
    opened,   \* the answers a session was opened for
    holds     \* the answer whose session a browser holds

vars == <<begun, answer, opened, holds>>

Init ==
    /\ begun = [a \in Attempts |-> None]
    /\ answer = [c \in Codes |-> None]
    /\ opened = {}
    /\ holds = [b \in Browsers |-> None]

Begin(a, b) ==
    /\ begun[a] = None
    /\ begun' = [begun EXCEPT ![a] = b]
    /\ UNCHANGED <<answer, opened, holds>>

\* An attempt may be answered more than once: each answer has a code of its own.
Answer(c, a, s) ==
    /\ begun[a] # None /\ answer[c] = None
    /\ answer' = [answer EXCEPT ![c] = [attempt |-> a, subject |-> s]]
    /\ UNCHANGED <<begun, opened, holds>>

Open(c) ==
    /\ answer[c] # None /\ c \notin opened
    /\ opened' = opened \union {c}
    /\ UNCHANGED <<begun, answer, holds>>

Enter(b, c) ==
    /\ c \in opened /\ begun[answer[c].attempt] = b
    /\ holds' = [holds EXCEPT ![b] = c]
    /\ UNCHANGED <<begun, answer, opened>>

Next ==
    \/ \E a \in Attempts, b \in Browsers : Begin(a, b)
    \/ \E c \in Codes, a \in Attempts, s \in Subjects : Answer(c, a, s)
    \/ \E c \in Codes : Open(c) \/ \E b \in Browsers : Enter(b, c)

Spec == Init /\ [][Next]_vars
=============================================================================

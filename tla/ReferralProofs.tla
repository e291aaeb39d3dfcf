--------------------------- MODULE ReferralProofs ---------------------------
(***************************************************************************)
(* Machine-checked proofs about Referral, and the friendships of Social    *)
(* around it, for any number of users, days, addresses and crashes.        *)
(***************************************************************************)
EXTENDS Social, TLAPS

\* A row that never existed was referred by nobody.
UnbornUnreferred == \A u \in Users : kind[u] = "none" => referredBy[u] = NoUser

\* What an invitee has earned is accounted for: once when it was settled as
\* paid, and once for every crash.
EarnedIsCounted ==
    \A c \in Users : earned[c] <= crashes + (IF credited[c] = "credited" THEN 1 ELSE 0)

IInv == TypeOK /\ NeverSelf /\ UnbornUnreferred /\ EarnedIsCounted

-----------------------------------------------------------------------------

\* Nobody has signed up, been referred or been paid yet.
LEMMA InitIInv == Init => IInv
<1> SUFFICES ASSUME Init PROVE IInv
  OBVIOUS
<1> USE ReferralAssumption DEF Init
<1>1. TypeOK
  <2>1. words \in [Users -> [Days -> 0..Goal]]
    BY 0 \in 0..Goal DEF Init
  <2>2. 0 \in 0..MaxCrashes
    OBVIOUS
  <2>3. QED
    BY <2>1, <2>2 DEF TypeOK
<1>2. NeverSelf /\ UnbornUnreferred /\ EarnedIsCounted
  BY DEF NeverSelf, UnbornUnreferred, EarnedIsCounted
<1>3. QED
  BY <1>1, <1>2 DEF IInv

\* The operators of a sweep keep the types.
LEMMA SettleTyped ==
    ASSUME TypeOK, NEW reject, NEW pay
    PROVE  /\ Settle(reject, pay) \in [Users -> {"pending", "credited", "rejected"}]
           /\ Pay(pay) \in [Users -> Nat]
           /\ \A c \in Users : Pay(pay)[c] = earned[c] + IF c \in pay THEN 1 ELSE 0
BY DEF TypeOK, Settle, Pay

\* So does the merge of two users' reading days; a goal day of either stays one.
LEMMA SummedTyped ==
    ASSUME TypeOK, NEW g \in Users, NEW m \in Users
    PROVE  /\ Summed(g, m) \in [Days -> 0..Goal]
           /\ \A d \in Days : words[g][d] >= Goal \/ words[m][d] >= Goal => Summed(g, m)[d] >= Goal
<1>1. \A d \in Days : words[g][d] \in 0..Goal /\ words[m][d] \in 0..Goal
  BY DEF TypeOK
<1>2. QED
  BY <1>1, ReferralAssumption DEF Summed

\* Attribution is inherited once, and never to oneself.
LEMMA InheritedTyped ==
    ASSUME TypeOK, NeverSelf, NEW g \in Users, NEW m \in Users
    PROVE  /\ Inherited(g, m) \in Users \union {NoUser}
           /\ Inherited(g, m) # m
           /\ Inherited(g, m) # NoUser => Inherited(g, m) \in refCode
           /\ referredBy[m] # NoUser => Inherited(g, m) = referredBy[m]
BY ReferralAssumption DEF TypeOK, NeverSelf, Inherited

\* Every step keeps the types.
LEMMA TypeOKStep == IInv /\ [Next]_vars => TypeOK'
<1> SUFFICES ASSUME IInv, [Next]_vars PROVE TypeOK'
  OBVIOUS
<1> USE ReferralAssumption
<1>t. TypeOK /\ NeverSelf
  BY DEF IInv
<1>1. ASSUME NEW u \in Users, NEW status \in {"guest", "member"}, NEW ip \in IPs,
             NEW referrer \in Users \union {NoUser}, SignUp(u, status, ip, referrer)
      PROVE  TypeOK'
  <2>1. referrer # NoUser => referrer \in refCode
    BY <1>1 DEF SignUp, Codes
  <2>2. QED
    BY <1>1, <1>t, <2>1 DEF SignUp, TypeOK
<1>2. ASSUME NEW u \in Users, NEW d \in Days, Read(u, d) PROVE TypeOK'
  <2>1. words' = [words EXCEPT ![u] = [words[u] EXCEPT ![d] = @ + 1]]
    BY <1>2 DEF Read
  <2>2. words[u][d] + 1 \in 0..Goal
    BY <1>2, <1>t DEF Read, TypeOK
  <2>3. words' \in [Users -> [Days -> 0..Goal]]
    BY <1>t, <2>1, <2>2 DEF TypeOK
  <2>4. QED
    BY <1>2, <1>t, <2>3 DEF Read, TypeOK
<1>3. ASSUME NEW g \in Users, NEW m \in Users, Merge(g, m) PROVE TypeOK'
  <2>1. words' \in [Users -> [Days -> 0..Goal]]
    BY <1>3, <1>t, SummedTyped DEF Merge, TypeOK
  <2>2. /\ referredBy' \in [Users -> Users \union {NoUser}]
        /\ \A u \in Users : referredBy'[u] # NoUser => referredBy'[u] \in refCode
    BY <1>3, <1>t, InheritedTyped DEF Merge, TypeOK
  <2>3. signupIp' \in [Users -> IPs \union {NoIP}]
    BY <1>3, <1>t DEF Merge, TypeOK
  <2>4. QED
    BY <1>3, <1>t, <2>1, <2>2, <2>3 DEF Merge, TypeOK
<1>4. ASSUME NEW u \in Users, Erase(u) \/ OpenStatus(u) \/ FriendLink(u) PROVE TypeOK'
  BY <1>4, <1>t DEF Erase, OpenStatus, FriendLink, Minted, TypeOK
<1>5. ASSUME NEW u \in Users, Sweep(u) PROVE TypeOK'
  BY <1>5, <1>t, SettleTyped DEF Sweep, Minted, TypeOK
<1>6. ASSUME Toggle PROVE TypeOK'
  BY <1>6, <1>t DEF Toggle, TypeOK
<1>7. ASSUME NEW u \in Users, NEW c \in Users, NEW done \in SUBSET Users, SweepCut(u, done, c)
      PROVE  TypeOK'
  <2>1. crashes' \in 0..MaxCrashes
    BY <1>7, <1>t DEF SweepCut, TypeOK
  <2>2. /\ credited' \in [Users -> {"pending", "credited", "rejected"}]
        /\ earned' \in [Users -> Nat]
    BY <1>7, <1>t, SettleTyped DEF SweepCut
  <2>3. QED
    BY <1>7, <1>t, <2>1, <2>2 DEF SweepCut, Minted, TypeOK
<1>8. ASSUME UNCHANGED vars PROVE TypeOK'
  BY <1>8, <1>t DEF vars, TypeOK
<1>9. QED
  BY <1>1, <1>2, <1>3, <1>4, <1>5, <1>6, <1>7, <1>8 DEF Next

\* Who was referred by whom changes in sign-ups and merges only.
LEMMA AttributionStep ==
    IInv /\ [Next]_vars =>
        /\ NeverSelf' /\ UnbornUnreferred'
        /\ \A u \in Users : referredBy[u] # NoUser => referredBy'[u] = referredBy[u]
<1> SUFFICES ASSUME IInv, [Next]_vars
             PROVE  /\ NeverSelf' /\ UnbornUnreferred'
                    /\ \A u \in Users : referredBy[u] # NoUser => referredBy'[u] = referredBy[u]
  OBVIOUS
<1> DEFINE Good == /\ NeverSelf' /\ UnbornUnreferred'
                   /\ \A u \in Users : referredBy[u] # NoUser => referredBy'[u] = referredBy[u]
<1>t. TypeOK /\ NeverSelf /\ UnbornUnreferred
  BY DEF IInv
<1>1. ASSUME NEW u \in Users, NEW status \in {"guest", "member"}, NEW ip \in IPs,
             NEW referrer \in Users \union {NoUser}, SignUp(u, status, ip, referrer)
      PROVE  Good
  <2>1. referrer # u
    BY <1>1, ReferralAssumption DEF SignUp, Codes, Here
  <2>2. referredBy[u] = NoUser
    BY <1>1, <1>t DEF SignUp, UnbornUnreferred
  <2>3. QED
    BY <1>1, <1>t, <2>1, <2>2 DEF SignUp, TypeOK, NeverSelf, UnbornUnreferred
<1>2. ASSUME NEW g \in Users, NEW m \in Users, Merge(g, m) PROVE Good
  BY <1>2, <1>t, InheritedTyped DEF Merge, TypeOK, NeverSelf, UnbornUnreferred
<1>3. ASSUME NEW u \in Users, Erase(u) PROVE Good
  BY <1>3, <1>t DEF Erase, TypeOK, NeverSelf, UnbornUnreferred
<1>4. ASSUME UNCHANGED <<kind, referredBy>> PROVE Good
  BY <1>4, <1>t DEF NeverSelf, UnbornUnreferred
<1>5. QED
  BY <1>1, <1>2, <1>3, <1>4
  DEF Next, Read, OpenStatus, FriendLink, Sweep, SweepCut, Toggle, vars

\* Payouts are settled, or cut by a crash that is counted.
LEMMA EarnedStep == IInv /\ [Next]_vars => EarnedIsCounted'
<1> SUFFICES ASSUME IInv, [Next]_vars, NEW x \in Users
             PROVE  earned'[x] <= crashes' + (IF credited'[x] = "credited" THEN 1 ELSE 0)
  BY DEF EarnedIsCounted
<1> DEFINE Good == earned'[x] <= crashes' + (IF credited'[x] = "credited" THEN 1 ELSE 0)
<1>t. /\ TypeOK /\ earned[x] \in Nat /\ crashes \in Nat
      /\ earned[x] <= crashes + (IF credited[x] = "credited" THEN 1 ELSE 0)
  BY ReferralAssumption DEF IInv, TypeOK, EarnedIsCounted
<1>1. \A u \in Users : Payable(u) \intersect Rejected(u) = {}
                    /\ \A c \in Payable(u) \union Rejected(u) : credited[c] = "pending"
  BY DEF Payable, Rejected, Unsettled, Pending
<1>2. ASSUME NEW u \in Users, Sweep(u) PROVE Good
  <2>1. /\ earned'[x] = earned[x] + (IF x \in Payable(u) THEN 1 ELSE 0)
        /\ crashes' = crashes
        /\ x \in Payable(u) => credited'[x] = "credited"
        /\ x \in Rejected(u) => credited[x] = "pending"
        /\ x \notin Payable(u) \union Rejected(u) => credited'[x] = credited[x]
    BY <1>1, <1>2, <1>t, SettleTyped DEF Sweep, Settle
  <2>2. x \in Payable(u) => credited[x] = "pending"
    BY <1>1
  <2>3. QED
    BY <1>t, <2>1, <2>2
<1>3. ASSUME NEW u \in Users, NEW c \in Users, NEW done \in SUBSET Users, SweepCut(u, done, c)
      PROVE  Good
  <2> DEFINE paid == Payable(u) \intersect done
  <2>0. /\ earned' = Pay(paid \union {c})
        /\ crashes' = crashes + 1
        /\ c \in Payable(u) \ done
    BY <1>3 DEF SweepCut
  <2>1. earned'[x] = earned[x] + (IF x \in paid \union {c} THEN 1 ELSE 0)
    BY <2>0 DEF Pay
  <2>2. /\ x \in paid => credited'[x] = "credited" /\ credited[x] = "pending"
        /\ x \in Rejected(u) => credited[x] = "pending"
        /\ x \notin Payable(u) \union Rejected(u) => credited'[x] = credited[x]
    BY <1>1, <1>3 DEF SweepCut, Settle
  <2>3. x = c => credited[x] = "pending"
    BY <1>1, <2>0
  <2>4. x \in Payable(u) => credited[x] = "pending"
    BY <1>1
  <2>5. QED
    BY <1>t, <2>0, <2>1, <2>2, <2>3, <2>4
<1>4. ASSUME UNCHANGED <<credited, earned, crashes>> PROVE Good
  BY <1>4, <1>t
<1>5. QED
  BY <1>2, <1>3, <1>4
  DEF Next, SignUp, Read, Merge, Erase, OpenStatus, FriendLink, Toggle, vars

\* The inductive invariant holds in every reachable state of every instance.
THEOREM Invariance == Spec => []IInv
<1>1. IInv /\ [Next]_vars => IInv'
  BY TypeOKStep, AttributionStep, EarnedStep DEF IInv
<1>2. QED
  BY InitIInv, <1>1, PTL DEF Spec

\* The step that ends a guest and changes the days of another is the merge, which
\* adds them up.
LEMMA GoalDaysStep ==
    IInv /\ [Next]_vars =>
        [\A g, m \in Users : kind[g] = "guest" /\ kind'[g] = "gone" /\ words'[m] # words[m] =>
            \A d \in Days :
                words[g][d] >= Goal \/ words[m][d] >= Goal => words'[m][d] >= Goal]_vars
<1> SUFFICES ASSUME IInv, [Next]_vars, NEW g \in Users, NEW m \in Users,
                    kind[g] = "guest", kind'[g] = "gone", words'[m] # words[m], NEW d \in Days,
                    words[g][d] >= Goal \/ words[m][d] >= Goal
             PROVE  words'[m][d] >= Goal
  OBVIOUS
<1>t. TypeOK
  BY DEF IInv
<1>1. PICK n \in Users : Merge(g, n)
  <2>1. ASSUME NEW u \in Users, NEW status \in {"guest", "member"}, NEW ip \in IPs,
               NEW referrer \in Users \union {NoUser}, SignUp(u, status, ip, referrer)
        PROVE  FALSE
    BY <2>1, <1>t DEF SignUp, TypeOK
  <2>2. ASSUME NEW h \in Users, NEW n \in Users, Merge(h, n) PROVE h = g
    BY <2>2, <1>t DEF Merge, TypeOK
  <2>3. QED
    BY <2>1, <2>2
    DEF Next, Read, Erase, OpenStatus, FriendLink, Sweep, SweepCut, Toggle, vars
<1>2. n = m /\ words'[m] = Summed(g, m)
  BY <1>1, <1>t DEF Merge, TypeOK
<1>3. QED
  BY <1>2, <1>t, SummedTyped

-----------------------------------------------------------------------------
(* What holds of every behaviour.                                          *)

\* The referral columns keep their types, and a referrer is one who had a code.
THEOREM TypeCorrect == Spec => []TypeOK
BY Invariance, PTL DEF IInv

\* However guests, invites and merges are combined, nobody is their own referrer.
THEOREM NobodyRefersThemselves == Spec => []NeverSelf
BY Invariance, PTL DEF IInv

\* Attribution is recorded once, for any number of referrers and merges; the
\* case of a guest and an account with different referrers is included.
THEOREM AttributionStays == Spec => AttributedOnce
<1>1. IInv /\ [Next]_vars =>
        [\A u \in Users : referredBy[u] # NoUser => referredBy'[u] = referredBy[u]]_vars
  BY AttributionStep
<1>2. QED
  BY Invariance, <1>1, PTL DEF Spec, AttributedOnce

\* Goal days of both sides of a merge are goal days of the account.
THEOREM GoalDaysStay == Spec => GoalDaysSurviveMerge
BY Invariance, GoalDaysStep, PTL DEF Spec, GoalDaysSurviveMerge

\* An invitee is paid once, and once more at most for each crash.
THEOREM PaidOnce == Spec => []PaidOncePerCrash
<1>1. IInv => PaidOncePerCrash
  BY ReferralAssumption DEF IInv, TypeOK, EarnedIsCounted, PaidOncePerCrash
<1>2. QED
  BY Invariance, <1>1, PTL

-----------------------------------------------------------------------------
(* Friendships.                                                            *)

\* What a friends row says of its two users.
Befriended(u, v) == /\ u # v /\ Here(u) /\ Here(v)
                    /\ u \in refCode \/ v \in refCode

FriendsInv == \A u, v \in Users : Row(u, v) \in friends => Befriended(u, v)

\* With friendships around it the referral state behaves as before.
LEMMA SocialIsReferral == SocialSpec => Spec
<1>1. SocialInit => Init
  BY DEF SocialInit
<1>2. [SocialNext]_socialVars => [Next]_vars
  BY DEF SocialNext, socialVars, Around, AddFriend, RemoveFriend
<1>3. QED
  BY <1>1, <1>2, PTL DEF SocialSpec, Spec

\* A code that was handed out stays, and nobody but a merged guest or an erased
\* user goes.
LEMMA CodesStay == IInv /\ [Next]_vars => refCode \subseteq refCode'
BY DEF Next, SignUp, Read, Merge, Erase, OpenStatus, FriendLink, Sweep, SweepCut, Toggle, vars

\* A row of a pair is the row of no other pair.
LEMMA RowsArePairs ==
    ASSUME NEW u, NEW v, NEW x, NEW y, Row(u, v) = Row(x, y)
    PROVE  (u = x /\ v = y) \/ (u = y /\ v = x)
<1>1. u \in {x, y} /\ v \in {x, y} /\ x \in {u, v} /\ y \in {u, v}
  BY DEF Row
<1>2. QED
  BY <1>1

\* Adding asks for a code and for two users, the cascade removes what a user that
\* goes is part of.
LEMMA FriendsStep == IInv /\ FriendsInv /\ [SocialNext]_socialVars => FriendsInv'
<1> SUFFICES ASSUME IInv, FriendsInv, [SocialNext]_socialVars, NEW x \in Users, NEW y \in Users,
                    Row(x, y) \in friends'
             PROVE  Befriended(x, y)'
  BY DEF FriendsInv, Row
<1>1. CASE Around
  <2>1. Row(x, y) \in friends
    BY <1>1 DEF Around, Kept
  <2>2. PICK u \in Users, v \in Users : Here(u)' /\ Here(v)' /\ Row(x, y) = Row(u, v)
    BY <1>1 DEF Around, Kept
  <2>3. Here(x)' /\ Here(y)'
    BY <2>2, RowsArePairs
  <2>4. refCode \subseteq refCode'
    BY <1>1, CodesStay DEF Around
  <2>5. QED
    BY <2>1, <2>3, <2>4 DEF FriendsInv, Befriended
<1>2. ASSUME NEW u \in Users, NEW v \in Users, AddFriend(u, v) PROVE Befriended(x, y)'
  <2>1. Befriended(u, v) /\ Befriended(v, u)
    BY <1>2 DEF AddFriend, Codes, Befriended
  <2>2. Befriended(x, y)
    <3>1. CASE Row(x, y) \in friends
      BY <3>1 DEF FriendsInv
    <3>2. CASE Row(x, y) = Row(u, v)
      BY <3>2, <2>1, RowsArePairs
    <3>3. QED
      BY <1>2, <3>1, <3>2 DEF AddFriend
  <2>3. UNCHANGED <<kind, refCode>>
    BY <1>2 DEF AddFriend, vars
  <2>4. QED
    BY <2>2, <2>3 DEF Befriended, Here
<1>3. ASSUME NEW u \in Users, NEW v \in Users, RemoveFriend(u, v) PROVE Befriended(x, y)'
  BY <1>3 DEF RemoveFriend, vars, FriendsInv, Befriended, Here
<1>4. CASE UNCHANGED socialVars
  BY <1>4 DEF socialVars, vars, FriendsInv, Befriended, Here
<1>5. QED
  BY <1>1, <1>2, <1>3, <1>4 DEF SocialNext

\* Friends exist, one of them handed out a code, and either can end it for both.
THEOREM FriendsPart == SocialSpec => []FriendsCanPart
<1>1. SocialInit => FriendsInv
  BY DEF SocialInit, FriendsInv
<1>2. [SocialNext]_socialVars => [Next]_vars
  BY DEF SocialNext, socialVars, Around, AddFriend, RemoveFriend
<1>3. FriendsInv => FriendsCanPart
  <2> SUFFICES ASSUME FriendsInv, NEW u \in Users, NEW v \in Sees(friends, u)
               PROVE  /\ Befriended(u, v)
                      /\ LET after == friends \ {Row(u, v)}
                         IN  v \notin Sees(after, u) /\ u \notin Sees(after, v)
    BY DEF FriendsCanPart, Befriended
  <2>1. v \in Users /\ Row(u, v) = Row(v, u)
    BY DEF Sees, Row
  <2>2. Befriended(u, v)
    BY <2>1 DEF Sees, FriendsInv
  <2>3. QED
    BY <2>1, <2>2 DEF Sees
<1>4. SocialSpec => []IInv
  BY SocialIsReferral, Invariance, PTL
<1>5. QED
  BY <1>1, <1>2, <1>3, <1>4, FriendsStep, PTL DEF SocialSpec
=============================================================================

------------------------------- MODULE Social -------------------------------
(***************************************************************************)
(* Friendships (server/src/social.rs and the friends part of db.rs) next   *)
(* to the sign-ups, merges and erasures of Referral: a friend link is the  *)
(* same code as an invite.                                                 *)
(*                                                                         *)
(* Every handler is one closure after the extractor has resolved its user, *)
(* who may be gone by then.                                                *)
(***************************************************************************)
EXTENDS Referral

VARIABLE friends   \* friends rows

socialVars == <<vars, friends>>

SocialInit == Init /\ friends = {}

\* Mutant: the row of a pair as the caller gave it.
Row_AsGiven(x, y) == <<x, y>>

\* One row per pair, the smaller id in a: a pair without an order.
Row(x, y) == {x, y}

\* friend_ids, from the rows fs: the pair is looked for on both sides.
Sees(fs, u) == {v \in Users : Row(u, v) \in fs \/ Row(v, u) \in fs}

\* POST /api/friends/add by u, who may be a guest, with v's code.  The foreign key
\* refuses a u that is gone; INSERT OR IGNORE a friend (answered like one's own code).
AddFriend(u, v) ==
    /\ v \in Codes /\ Here(u)
    /\ u # v
    /\ friends' = friends \union {Row(u, v)}
    /\ UNCHANGED vars

\* DELETE /api/friends/{v} by u; 404 without the row.
RemoveFriend(u, v) ==
    /\ Row(u, v) \in friends
    /\ friends' = friends \ {Row(u, v)}
    /\ UNCHANGED vars

\* ON DELETE CASCADE: a merged guest's friendships go with its row, they are not
\* handed to the account.
Kept == friends \intersect {Row(u, v) : u, v \in {w \in Users : Here(w)'}}

\* Whatever else happens to users.
Around == Next /\ friends' = Kept

SocialNext ==
    \/ Around
    \/ \E u, v \in Users : AddFriend(u, v) \/ RemoveFriend(u, v)

SocialSpec == SocialInit /\ [][SocialNext]_socialVars

-----------------------------------------------------------------------------
(* Properties.                                                             *)

\* A friendship is between two users that exist, one of whom handed out a code, and
\* either of them can end it for both: no second row of the pair stays behind.
FriendsCanPart ==
    \A u \in Users : \A v \in Sees(friends, u) :
        /\ u # v /\ Here(u) /\ Here(v)
        /\ u \in refCode \/ v \in refCode
        /\ LET after == friends \ {Row(u, v)}
           IN  v \notin Sees(after, u) /\ u \notin Sees(after, v)
=============================================================================

----------------------------- MODULE FollowList -----------------------------
(***************************************************************************)
(* The list of (follower, followed) pairs of server.c, follow_list with    *)
(* its length follow_count, as a sequence of pairs.  It is kept by user    *)
(* name: it outlives the connections of both users.                        *)
(***************************************************************************)
EXTENDS Naturals, Sequences, Positions

CONSTANTS
  MaxFollows,   (* MAX_FOLLOWS: 128 * 128 in the code                      *)
  Stored        (* what is left of a text in an array of USER_SIZE: 15     *)
                (* characters at most                                      *)

ASSUME MaxFollowsAssumption == MaxFollows \in Nat

Pair(follower, followed) == [follower |-> follower, followed |-> followed]

Follows(list, follower, followed) ==
  \E k \in DOMAIN list : list[k] = Pair(follower, followed)

(* Mutants: the checks of processFollowMessage left out one by one.        *)
AddFollow_Self(list, follower, text) ==
  IF Follows(list, follower, text) \/ Len(list) >= MaxFollows
  THEN list
  ELSE Append(list, Pair(follower, Stored[text]))

AddFollow_Again(list, follower, text) ==
  IF follower = text \/ Len(list) >= MaxFollows
  THEN list
  ELSE Append(list, Pair(follower, Stored[text]))

AddFollow_NoLimit(list, follower, text) ==
  IF follower = text \/ Follows(list, follower, text)
  THEN list
  ELSE Append(list, Pair(follower, Stored[text]))

(* processFollowMessage ignores a user who follows himself, a pair that is *)
(* there already, and every pair once the array is full.  It compares the  *)
(* text as it was sent and stores what fits.                               *)
AddFollow(list, follower, text) ==
  IF follower = text \/ Follows(list, follower, text)
                     \/ Len(list) >= MaxFollows
  THEN list
  ELSE Append(list, Pair(follower, Stored[text]))

(* The names to_notify of processPostMessage: the followers of a user in   *)
(* the order of the list, the first limit of them.                         *)
FollowersOf(list, followed, limit) ==
  LET At == Ascending({k \in DOMAIN list : list[k].followed = followed})
  IN  [k \in {n \in DOMAIN At : n <= limit} |-> list[At[k]].follower]

(* Another text may have been cut to this one.                             *)
MayBeCut(text) == \E longer \in DOMAIN Stored : longer # text /\ Stored[longer] = text

(* A pair that is in the list more than once.                              *)
Twice(list, follower, followed) ==
  \E j, k \in DOMAIN list :
    j # k /\ list[j] = Pair(follower, followed) /\ list[k] = Pair(follower, followed)

(* Nobody follows himself and no pair is there twice, but for those whose  *)
(* second part may be what is left of a longer text.                       *)
Sound(list) ==
  /\ \A k \in DOMAIN list :
       list[k].follower = list[k].followed => MayBeCut(list[k].followed)
  /\ \A j, k \in DOMAIN list :
       list[j] = list[k] => j = k \/ MayBeCut(list[k].followed)
=============================================================================

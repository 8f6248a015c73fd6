----------------------------- MODULE FeedArray -----------------------------
(***************************************************************************)
(* The data of the global feed and of the message counter: the array       *)
(* feed_messages[FEED_MAX_SIZE] and the uint32_t msg_id_counter of         *)
(* server.c, as values and operators.  The threads that use them are in    *)
(* Feed and in Server.                                                     *)
(***************************************************************************)
EXTENDS Naturals, Positions

CONSTANTS
  FeedMaxSize,  (* FEED_MAX_SIZE: 5 in the code                            *)
  IdModulus,    (* 2^32 in the code: msg_id_counter is a uint32_t          *)
  Text,         (* the non-empty strings: user names and contents          *)
  Empty         (* the empty string, what a zeroed char array holds        *)

ASSUME FeedSizeAssumption == FeedMaxSize \in Nat \ {0}
ASSUME IdAssumption       == IdModulus \in Nat \ {0}
ASSUME EmptyAssumption    == Empty \notin Text

String == Text \cup {Empty}

(* What a stored Message says, its type left out: it is MSG_POST in every  *)
(* element of the feed and is overwritten when the feed is sent.           *)
Post == [msg_id : 0 .. IdModulus - 1, username : String, content : String]

(* A zeroed Message: an element of the array that was never written.       *)
NoPost == [msg_id |-> 0, username |-> Empty, content |-> Empty]

Indices == 0 .. FeedMaxSize - 1

EmptyFeed == [i \in Indices |-> NoPost]

(* Mutant: a counter narrower than the ids it gives.                       *)
NextId_Narrow(n) == (n + 1) % (IdModulus - 1)

(* ++msg_id_counter on an unsigned integer.                                *)
NextId(n) == (n + 1) % IdModulus

(* Mutants: the loop starts one element past the end of the array, or ends *)
(* before it has moved element 0.                                          *)
ShiftIn_PastTheEnd(feed, m) ==
  [i \in 0 .. FeedMaxSize |-> IF i = 0 THEN m ELSE feed[i - 1]]

ShiftIn_EndsEarly(feed, m) ==
  [i \in Indices |-> IF i = 0 THEN m ELSE IF i = 1 THEN feed[1] ELSE feed[i - 1]]

(* The shift of addMsgToFeed: every element moves one place towards the    *)
(* end, the last one is lost, the new message takes index 0.               *)
ShiftIn(feed, m) == [i \in Indices |-> IF i = 0 THEN m ELSE feed[i - 1]]

(* Mutant: the loop ends one element too early.                            *)
Filled_OffByOne(feed) == {i \in Indices : i < FeedMaxSize - 1 /\ feed[i].msg_id # 0}

(* The elements getFeedMessages copies: those whose id is not 0, in the    *)
(* order of the array.                                                     *)
Filled(feed) == {i \in Indices : feed[i].msg_id # 0}

FeedItems(feed) ==
  LET At == Ascending(Filled(feed))
  IN  [k \in DOMAIN At |-> feed[At[k]]]
=============================================================================

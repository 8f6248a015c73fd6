-------------------------------- MODULE Feed --------------------------------
(***************************************************************************)
(* The global feed under concurrent posts and reads.  A POST takes two     *)
(* critical sections, one under msg_id_mutex (incrementMsgIdCounter) and   *)
(* one under feed_mutex (addMsgToFeed); a READ takes one, under feed_mutex *)
(* (getFeedMessages).  All accesses to the counter and to the array are    *)
(* under these mutexes, so each critical section is one step; what other   *)
(* threads do between the two sections of a POST is left free.             *)
(***************************************************************************)
EXTENDS FeedArray, Sequences

CONSTANTS
  Threads,      (* the handler threads                                     *)
  MaxPosts      (* bound on the number of POSTs, for model checking        *)

ASSUME MaxPostsAssumption == MaxPosts \in Nat

VARIABLES
  msg_id_counter,
  feed_messages,
  stage,        (* "numbered" between the two sections of a POST           *)
  msg,          (* the message each thread is between the sections with    *)
  feed,         (* what the last getFeedMessages of each thread returned   *)
  log,          (* history: the posts in the order they entered the array  *)
  issued        (* history: how many ids have been handed out              *)

vars == <<msg_id_counter, feed_messages, stage, msg, feed, log, issued>>

Init ==
  /\ msg_id_counter = 0
  /\ feed_messages = EmptyFeed
  /\ stage = [t \in Threads |-> "idle"]
  /\ msg = [t \in Threads |-> NoPost]
  /\ feed = [t \in Threads |-> <<>>]
  /\ log = <<>>
  /\ issued = 0

(* Mutant: the id is the counter before its increment.                     *)
IncrementMsgIdCounter_PostIncrement(t) ==
  /\ stage[t] = "idle"
  /\ issued < MaxPosts
  /\ msg_id_counter' = NextId(msg_id_counter)
  /\ \E u \in Text, c \in String :
       msg' = [msg EXCEPT ![t] = [msg_id |-> msg_id_counter, username |-> u, content |-> c]]
  /\ stage' = [stage EXCEPT ![t] = "numbered"]
  /\ issued' = issued + 1
  /\ UNCHANGED <<feed_messages, feed, log>>

(* incrementMsgIdCounter, called first by processPostMessage.              *)
IncrementMsgIdCounter(t) ==
  /\ stage[t] = "idle"
  /\ issued < MaxPosts
  /\ msg_id_counter' = NextId(msg_id_counter)
  /\ \E u \in Text, c \in String :
       msg' = [msg EXCEPT ![t] = [msg_id   |-> NextId(msg_id_counter),
                                  username |-> u,
                                  content  |-> c]]
  /\ stage' = [stage EXCEPT ![t] = "numbered"]
  /\ issued' = issued + 1
  /\ UNCHANGED <<feed_messages, feed, log>>

AddMsgToFeed(t) ==
  /\ stage[t] = "numbered"
  /\ feed_messages' = ShiftIn(feed_messages, msg[t])
  /\ log' = Append(log, [post |-> msg[t], by |-> t])
  /\ stage' = [stage EXCEPT ![t] = "idle"]
  /\ msg' = [msg EXCEPT ![t] = NoPost]
  /\ UNCHANGED <<msg_id_counter, feed, issued>>

GetFeedMessages(t) ==
  /\ stage[t] = "idle"
  /\ feed' = [feed EXCEPT ![t] = FeedItems(feed_messages)]
  /\ UNCHANGED <<msg_id_counter, feed_messages, stage, msg, log, issued>>

Next ==
  \E t \in Threads :
    \/ IncrementMsgIdCounter(t)
    \/ AddMsgToFeed(t)
    \/ GetFeedMessages(t)

Spec == Init /\ [][Next]_vars

-----------------------------------------------------------------------------
(* The variables have the types the C declarations give them.              *)
TypeOK ==
  /\ msg_id_counter \in 0 .. IdModulus - 1
  /\ feed_messages \in [Indices -> Post]
  /\ stage \in [Threads -> {"idle", "numbered"}]
  /\ msg \in [Threads -> Post]
  /\ feed \in [Threads -> Seq(Post)]
  /\ log \in Seq([post : Post, by : Threads])
  /\ issued \in 0 .. MaxPosts

(* However posts interleave, the array is exactly the FEED_MAX_SIZE posts  *)
(* that entered it last, in the reverse order of their entry, and zeroed   *)
(* elements behind them: no post is lost, repeated or out of place         *)
(* (addMsgToFeed).                                                         *)
FeedIsTail ==
  \A i \in Indices :
    feed_messages[i] = IF i < Len(log) THEN log[Len(log) - i].post ELSE NoPost

Numbered(t) == stage[t] = "numbered"

LoggedIds == {log[k].post.msg_id : k \in DOMAIN log}

HeldIds == {msg[t].msg_id : t \in {u \in Threads : Numbered(u)}}

(* Every id handed out is in one place only: in one entry of the feed's    *)
(* history or in the hands of one thread that has not entered its post     *)
(* yet.  So ids are unique and no numbered post disappears, as long as the *)
(* counter has not wrapped (incrementMsgIdCounter, addMsgToFeed).          *)
EveryIdAccounted ==
  issued < IdModulus =>
    /\ LoggedIds \cup HeldIds = 1 .. issued
    /\ LoggedIds \cap HeldIds = {}
    /\ \A j, k \in DOMAIN log :
         log[j].post.msg_id = log[k].post.msg_id => j = k
    /\ \A t, u \in Threads :
         Numbered(t) /\ Numbered(u) /\ msg[t].msg_id = msg[u].msg_id => t = u

(* The feed can disagree with the order of the ids only where two threads  *)
(* posted at the same time: the posts of one thread enter it in the order  *)
(* of their ids (processPostMessage finishes one post before the next).    *)
SameThreadInOrder ==
  issued < IdModulus =>
    \A j, k \in DOMAIN log :
      log[j].by = log[k].by /\ j < k => log[j].post.msg_id < log[k].post.msg_id

(* A READ always answers with the last FEED_MAX_SIZE posts that entered    *)
(* the feed, latest entry first: the array, its shift and its copy         *)
(* implement a timeline (addMsgToFeed, getFeedMessages).                   *)
Timeline ==
  INSTANCE GlobalFeed WITH
    Posts    <- Post,
    timeline <- [k \in DOMAIN log |-> log[k].post],
    answer   <- feed

ImplementsTimeline == Timeline!Spec

(* What README.md:11 and the comment at server.c:439 say of a READ: newest *)
(* message first, down to the oldest.  Ids are what tells which message is *)
(* newer: they are given in order, one per post.                           *)
NewestFirst ==
  \A t \in Threads : \A j, k \in DOMAIN feed[t] :
    j < k => feed[t][j].msg_id > feed[t][k].msg_id
=============================================================================

----------------------------- MODULE FeedProofs -----------------------------
(***************************************************************************)
(* Proofs about Feed, for any number of threads, posts and elements of the *)
(* array: its type invariant, that the array is the tail of the posts, and *)
(* that it implements the timeline of GlobalFeed while ids do not wrap.    *)
(***************************************************************************)
EXTENDS Feed, FeedArrayProofs

-----------------------------------------------------------------------------
(* Types.                                                                  *)

LEMMA TypeInit == Init => TypeOK
<1> SUFFICES ASSUME Init PROVE TypeOK  OBVIOUS
<1> USE DEF Init
<1>1. msg_id_counter \in 0 .. IdModulus - 1  BY IdAssumption
<1>2. feed_messages \in [Indices -> Post]  BY NoPostType DEF EmptyFeed
<1>3. msg \in [Threads -> Post]  BY NoPostType
<1>4. feed \in [Threads -> Seq(Post)]  BY EmptySeq
<1>5. log \in Seq([post : Post, by : Threads])  BY EmptySeq
<1>6. issued \in 0 .. MaxPosts  BY MaxPostsAssumption
<1> QED  BY <1>1, <1>2, <1>3, <1>4, <1>5, <1>6 DEF TypeOK

LEMMA TypeNext == TypeOK /\ [Next]_vars => TypeOK'
<1> SUFFICES ASSUME TypeOK, [Next]_vars PROVE TypeOK'  OBVIOUS
<1> USE DEF TypeOK
<1>1. ASSUME NEW t \in Threads, IncrementMsgIdCounter(t) PROVE TypeOK'
  <2> USE <1>1 DEF IncrementMsgIdCounter
  <2>1. NextId(msg_id_counter) \in 0 .. IdModulus - 1  BY NextIdType
  <2>2. msg' \in [Threads -> Post]
    <3>1. PICK u \in Text, c \in String :
            msg' = [msg EXCEPT ![t] = [msg_id |-> NextId(msg_id_counter),
                                       username |-> u, content |-> c]]
      OBVIOUS
    <3>2. [msg_id |-> NextId(msg_id_counter), username |-> u, content |-> c] \in Post
      BY <2>1 DEF Post, String
    <3> QED  BY <3>1, <3>2
  <2>3. issued' \in 0 .. MaxPosts  BY MaxPostsAssumption
  <2> QED  BY <2>1, <2>2, <2>3
<1>2. ASSUME NEW t \in Threads, AddMsgToFeed(t) PROVE TypeOK'
  <2> USE <1>2 DEF AddMsgToFeed
  <2>1. feed_messages' \in [Indices -> Post]  BY ShiftInType
  <2>2. msg' \in [Threads -> Post]  BY NoPostType
  <2>3. log' \in Seq([post : Post, by : Threads])
    <3>1. [post |-> msg[t], by |-> t] \in [post : Post, by : Threads]  OBVIOUS
    <3> QED  BY <3>1, AppendProperties
  <2> QED  BY <2>1, <2>2, <2>3
<1>3. ASSUME NEW t \in Threads, GetFeedMessages(t) PROVE TypeOK'
  <2> USE <1>3 DEF GetFeedMessages
  <2>1. feed' \in [Threads -> Seq(Post)]  BY FeedItemsType
  <2> QED  BY <2>1
<1>4. CASE UNCHANGED vars  BY <1>4 DEF vars
<1> QED  BY <1>1, <1>2, <1>3, <1>4 DEF Next

(* The variables keep the types of their C declarations.                   *)
THEOREM TypeCorrect == Spec => []TypeOK
BY TypeInit, TypeNext, PTL DEF Spec
-----------------------------------------------------------------------------
(* The array is the tail of the history.                                   *)

LEMMA TailInit == Init => FeedIsTail
BY DEF Init, FeedIsTail, EmptyFeed, Indices

LEMMA TailNext == TypeOK /\ FeedIsTail /\ [Next]_vars => FeedIsTail'
<1> SUFFICES ASSUME TypeOK, FeedIsTail, [Next]_vars PROVE FeedIsTail'  OBVIOUS
<1>1. ASSUME NEW t \in Threads, AddMsgToFeed(t) PROVE FeedIsTail'
  <2> DEFINE e == [post |-> msg[t], by |-> t]
  <2>1. log \in Seq([post : Post, by : Threads]) /\ e \in [post : Post, by : Threads]
    BY DEF TypeOK
  <2>2. /\ Len(log) \in Nat
        /\ log' = Append(log, e) /\ Len(log') = Len(log) + 1
        /\ log'[Len(log) + 1] = e
        /\ \A k \in 1 .. Len(log) : log'[k] = log[k]
    BY <1>1, <2>1, LenProperties, AppendProperties DEF AddMsgToFeed
  <2>3. ASSUME NEW i \in Indices
        PROVE  feed_messages'[i] = IF i < Len(log') THEN log'[Len(log') - i].post ELSE NoPost
    <3>1. i \in Nat  BY FeedSizeAssumption DEF Indices
    <3>2. CASE i = 0
      BY <3>2, <1>1, <2>2 DEF AddMsgToFeed, ShiftIn
    <3>3. CASE i # 0
      <4>1. i - 1 \in Indices  BY <3>1, <3>3, FeedSizeAssumption DEF Indices
      <4>2. feed_messages'[i] = feed_messages[i - 1]
        BY <3>3, <1>1 DEF AddMsgToFeed, ShiftIn
      <4>3. feed_messages[i - 1] =
              IF i - 1 < Len(log) THEN log[Len(log) - (i - 1)].post ELSE NoPost
        BY <4>1 DEF FeedIsTail
      <4>4. CASE i - 1 < Len(log)
        <5>1. Len(log) - (i - 1) \in 1 .. Len(log) /\ Len(log') - i = Len(log) - (i - 1)
          BY <4>4, <3>1, <3>3, <2>2
        <5> QED  BY <5>1, <4>2, <4>3, <4>4, <3>1, <2>2
      <4>5. CASE ~(i - 1 < Len(log))
        BY <4>2, <4>3, <4>5, <3>1, <2>2
      <4> QED  BY <4>4, <4>5
    <3> QED  BY <3>2, <3>3
  <2> QED  BY <2>3 DEF FeedIsTail
<1>2. ASSUME NEW t \in Threads, IncrementMsgIdCounter(t) PROVE FeedIsTail'
  BY <1>2 DEF IncrementMsgIdCounter, FeedIsTail
<1>3. ASSUME NEW t \in Threads, GetFeedMessages(t) PROVE FeedIsTail'
  BY <1>3 DEF GetFeedMessages, FeedIsTail
<1>4. CASE UNCHANGED vars  BY <1>4 DEF vars, FeedIsTail
<1> QED  BY <1>1, <1>2, <1>3, <1>4 DEF Next

(* The array holds just the last posts that entered it, whatever the       *)
(* interleaving of posts (addMsgToFeed).                                   *)
THEOREM ArrayIsTail == Spec => []FeedIsTail
BY TypeInit, TypeNext, TailInit, TailNext, PTL DEF Spec
-----------------------------------------------------------------------------
(* The ids.  EveryIdAccounted and SameThreadInOrder are not inductive by   *)
(* themselves: the counter must equal the number of ids handed out, and a  *)
(* thread's posts in the history must be older than the one it holds.      *)

LogPost == [post : Post, by : Threads]

IdInv ==
  /\ EveryIdAccounted
  /\ SameThreadInOrder
  /\ issued < IdModulus => msg_id_counter = issued
  /\ issued < IdModulus =>
       \A t \in Threads : \A k \in DOMAIN log :
         Numbered(t) /\ log[k].by = t => log[k].post.msg_id < msg[t].msg_id

LEMMA IdInit == Init => IdInv
<1> SUFFICES ASSUME Init PROVE IdInv  OBVIOUS
<1>1. issued = 0 /\ log = <<>> /\ msg_id_counter = 0 /\ \A t \in Threads : ~Numbered(t)
  BY DEF Init, Numbered
<1>2. DOMAIN log = {}  BY <1>1
<1>3. LoggedIds = {} /\ HeldIds = {}  BY <1>1, <1>2 DEF LoggedIds, HeldIds
<1>4. 1 .. issued = {}  BY <1>1
<1> QED
  BY <1>1, <1>2, <1>3, <1>4 DEF IdInv, EveryIdAccounted, SameThreadInOrder

(* A new id is larger than all ids there are.                              *)
LEMMA IdIncrement ==
  ASSUME TypeOK, IdInv, NEW t \in Threads, IncrementMsgIdCounter(t)
  PROVE  IdInv'
<1> SUFFICES ASSUME issued' < IdModulus PROVE IdInv'
  BY DEF IdInv, EveryIdAccounted, SameThreadInOrder
<1> DEFINE id == NextId(msg_id_counter)
<1>1. /\ issued \in Nat /\ issued' = issued + 1 /\ issued < IdModulus
      /\ IdModulus \in Nat \ {0}
      /\ msg_id_counter = issued
  BY IdAssumption, MaxPostsAssumption DEF TypeOK, IncrementMsgIdCounter, IdInv
<1>2. id = issued + 1 /\ msg_id_counter' = issued'
  BY <1>1 DEF NextId, IncrementMsgIdCounter
<1>3. /\ log' = log /\ stage' = [stage EXCEPT ![t] = "numbered"]
      /\ stage[t] = "idle" /\ msg'[t].msg_id = id
      /\ \A u \in Threads \ {t} : msg'[u] = msg[u]
  BY DEF TypeOK, IncrementMsgIdCounter
<1>4. /\ \A u \in Threads : Numbered(u)' <=> (u = t \/ Numbered(u))
      /\ ~Numbered(t)
  BY <1>3 DEF TypeOK, Numbered
<1>5. /\ LoggedIds \cup HeldIds = 1 .. issued
      /\ LoggedIds \cap HeldIds = {}
  BY <1>1 DEF IdInv, EveryIdAccounted
<1>6. LoggedIds' = LoggedIds  BY <1>3 DEF LoggedIds
<1>7. HeldIds' = HeldIds \cup {id}  BY <1>3, <1>4 DEF HeldIds
<1>8. id \notin LoggedIds /\ id \notin HeldIds  BY <1>1, <1>2, <1>5
<1>9. /\ LoggedIds' \cup HeldIds' = 1 .. issued'
      /\ LoggedIds' \cap HeldIds' = {}
  BY <1>1, <1>2, <1>5, <1>6, <1>7, <1>8
<1>10. \A k \in DOMAIN log : log[k].post.msg_id \in 1 .. issued
  BY <1>5 DEF LoggedIds
<1>11. \A u \in Threads : Numbered(u) => msg[u].msg_id # id
  BY <1>8 DEF HeldIds
<1>12. \A u, v \in Threads :
         Numbered(u)' /\ Numbered(v)' /\ msg'[u].msg_id = msg'[v].msg_id => u = v
  BY <1>1, <1>3, <1>4, <1>11 DEF IdInv, EveryIdAccounted
<1>13. EveryIdAccounted'
  <2>1. \A j, k \in DOMAIN log :
          log[j].post.msg_id = log[k].post.msg_id => j = k
    BY <1>1 DEF IdInv, EveryIdAccounted
  <2> QED  BY <1>3, <1>9, <1>12, <2>1 DEF EveryIdAccounted
<1>14. SameThreadInOrder'
  BY <1>1, <1>3 DEF IdInv, SameThreadInOrder
<1>15. \A u \in Threads : \A k \in DOMAIN log :
         Numbered(u)' /\ log[k].by = u => log[k].post.msg_id < msg'[u].msg_id
  <2> TAKE u \in Threads
  <2> TAKE k \in DOMAIN log
  <2> HAVE Numbered(u)' /\ log[k].by = u
  <2>1. CASE u = t  BY <2>1, <1>1, <1>2, <1>3, <1>10
  <2>2. CASE u # t  BY <2>2, <1>1, <1>3, <1>4 DEF IdInv
  <2> QED  BY <2>1, <2>2
<1> QED  BY <1>2, <1>3, <1>13, <1>14, <1>15 DEF IdInv

(* An id moves from the hands of a thread to the end of the history.       *)
LEMMA IdAdd ==
  ASSUME TypeOK, IdInv, NEW t \in Threads, AddMsgToFeed(t)
  PROVE  IdInv'
<1> SUFFICES ASSUME issued' < IdModulus PROVE IdInv'
  BY DEF IdInv, EveryIdAccounted, SameThreadInOrder
<1> DEFINE e == [post |-> msg[t], by |-> t]
           id == msg[t].msg_id
           n == Len(log)
<1>1. /\ issued' = issued /\ issued < IdModulus /\ msg_id_counter' = msg_id_counter
      /\ stage' = [stage EXCEPT ![t] = "idle"] /\ stage[t] = "numbered"
      /\ \A u \in Threads \ {t} : msg'[u] = msg[u]
  BY DEF TypeOK, AddMsgToFeed
<1>2. log \in Seq(LogPost) /\ e \in LogPost
  BY DEF TypeOK, LogPost
<1>3. /\ n \in Nat /\ DOMAIN log = 1 .. n
      /\ DOMAIN log' = 1 .. n + 1
      /\ log'[n + 1] = e
      /\ \A k \in 1 .. n : log'[k] = log[k]
  <2>1. log' = Append(log, e)  BY DEF AddMsgToFeed
  <2>2. log' \in Seq(LogPost)  BY <2>1, <1>2, AppendProperties
  <2> QED  BY <2>1, <2>2, <1>2, LenProperties, AppendProperties
<1>4. \A u \in Threads : Numbered(u)' <=> (u # t /\ Numbered(u))
  BY <1>1 DEF TypeOK, Numbered
<1>5. Numbered(t)  BY <1>1 DEF Numbered
<1>6. /\ LoggedIds \cup HeldIds = 1 .. issued
      /\ LoggedIds \cap HeldIds = {}
      /\ \A j, k \in DOMAIN log : log[j].post.msg_id = log[k].post.msg_id => j = k
      /\ \A u, v \in Threads :
           Numbered(u) /\ Numbered(v) /\ msg[u].msg_id = msg[v].msg_id => u = v
  BY <1>1 DEF IdInv, EveryIdAccounted
<1>7. LoggedIds' = LoggedIds \cup {id}
  <2>1. LoggedIds' = {log'[k].post.msg_id : k \in 1 .. n + 1}  BY <1>3 DEF LoggedIds
  <2>2. LoggedIds = {log[k].post.msg_id : k \in 1 .. n}  BY <1>3 DEF LoggedIds
  <2>3. 1 .. n + 1 = (1 .. n) \cup {n + 1}  BY <1>3
  <2> QED  BY <2>1, <2>2, <2>3, <1>3
<1>8. HeldIds = HeldIds' \cup {id} /\ id \notin HeldIds'
  BY <1>1, <1>4, <1>5, <1>6 DEF HeldIds
<1>9. id \notin LoggedIds  BY <1>6, <1>8
<1>10. \A k \in 1 .. n : log[k].post.msg_id # id
  BY <1>3, <1>9 DEF LoggedIds
<1>11. EveryIdAccounted'
  <2>1. LoggedIds' \cup HeldIds' = 1 .. issued' /\ LoggedIds' \cap HeldIds' = {}
    BY <1>1, <1>6, <1>7, <1>8
  <2>2. \A j, k \in DOMAIN log' :
          log'[j].post.msg_id = log'[k].post.msg_id => j = k
    BY <1>3, <1>6, <1>10
  <2>3. \A u, v \in Threads :
          Numbered(u)' /\ Numbered(v)' /\ msg'[u].msg_id = msg'[v].msg_id => u = v
    BY <1>1, <1>4, <1>6
  <2> QED  BY <2>1, <2>2, <2>3 DEF EveryIdAccounted
<1>12. SameThreadInOrder'
  <2>1. \A k \in 1 .. n : log[k].by = t => log[k].post.msg_id < id
    BY <1>1, <1>3, <1>5 DEF IdInv
  <2>2. \A j, k \in 1 .. n :
          log[j].by = log[k].by /\ j < k => log[j].post.msg_id < log[k].post.msg_id
    BY <1>1, <1>3 DEF IdInv, SameThreadInOrder
  <2>3. \A j, k \in 1 .. n + 1 :
          log'[j].by = log'[k].by /\ j < k => log'[j].post.msg_id < log'[k].post.msg_id
    <3> TAKE j, k \in 1 .. n + 1
    <3> HAVE log'[j].by = log'[k].by /\ j < k
    <3>1. CASE k = n + 1  BY <3>1, <2>1, <1>3
    <3>2. CASE k \in 1 .. n  BY <3>2, <2>2, <1>3
    <3> QED  BY <3>1, <3>2, <1>3
  <2> QED  BY <2>3, <1>3 DEF SameThreadInOrder
<1>13. \A u \in Threads : \A k \in 1 .. n + 1 :
         Numbered(u)' /\ log'[k].by = u => log'[k].post.msg_id < msg'[u].msg_id
  <2>1. \A u \in Threads : \A k \in 1 .. n :
          Numbered(u) /\ log[k].by = u => log[k].post.msg_id < msg[u].msg_id
    BY <1>1, <1>3 DEF IdInv
  <2> TAKE u \in Threads
  <2> TAKE k \in 1 .. n + 1
  <2> HAVE Numbered(u)' /\ log'[k].by = u
  <2>2. u # t /\ Numbered(u) /\ k # n + 1  BY <1>3, <1>4
  <2>3. k \in 1 .. n  BY <2>2, <1>3
  <2> QED  BY <2>1, <2>2, <2>3, <1>1, <1>3
<1>14. issued' < IdModulus => msg_id_counter' = issued'
  BY <1>1 DEF IdInv
<1> QED  BY <1>3, <1>11, <1>12, <1>13, <1>14 DEF IdInv

LEMMA IdNext == TypeOK /\ IdInv /\ [Next]_vars => IdInv'
<1> SUFFICES ASSUME TypeOK, IdInv, [Next]_vars PROVE IdInv'  OBVIOUS
<1>1. ASSUME UNCHANGED <<msg_id_counter, stage, msg, log, issued>> PROVE IdInv'
  <2>1. \A t : Numbered(t)' <=> Numbered(t)  BY <1>1 DEF Numbered
  <2>2. LoggedIds' = LoggedIds  BY <1>1 DEF LoggedIds
  <2>3. HeldIds' = HeldIds  BY <1>1, <2>1 DEF HeldIds
  <2>4. EveryIdAccounted'
    <3> HIDE DEF LoggedIds, HeldIds, Numbered
    <3> QED  BY <1>1, <2>1, <2>2, <2>3 DEF IdInv, EveryIdAccounted
  <2>5. SameThreadInOrder'  BY <1>1 DEF IdInv, SameThreadInOrder
  <2> QED  BY <1>1, <2>1, <2>4, <2>5 DEF IdInv
<1>2. ASSUME NEW t \in Threads, GetFeedMessages(t) PROVE IdInv'
  BY <1>1, <1>2 DEF GetFeedMessages
<1>3. CASE UNCHANGED vars  BY <1>1, <1>3 DEF vars
<1> QED  BY <1>2, <1>3, IdIncrement, IdAdd DEF Next

(* Ids are unique and no numbered post is lost until the counter wraps     *)
(* (incrementMsgIdCounter, addMsgToFeed).                                  *)
THEOREM IdsAccounted == Spec => []EveryIdAccounted
<1>1. IdInv => EveryIdAccounted  BY DEF IdInv
<1> QED  BY TypeInit, TypeNext, IdInit, IdNext, <1>1, PTL DEF Spec

(* The posts of one thread enter the feed in the order of their ids        *)
(* (processPostMessage).                                                   *)
THEOREM OneThreadInOrder == Spec => []SameThreadInOrder
<1>1. IdInv => SameThreadInOrder  BY DEF IdInv
<1> QED  BY TypeInit, TypeNext, IdInit, IdNext, <1>1, PTL DEF Spec
-----------------------------------------------------------------------------
(* The array implements the timeline.                                      *)

LineOf(s) == [k \in DOMAIN s |-> s[k].post]

Line == LineOf(log)

LEMMA LineType ==
  ASSUME NEW s \in Seq(LogPost)
  PROVE  /\ LineOf(s) \in Seq(Post)
         /\ Len(s) \in Nat /\ Len(LineOf(s)) = Len(s)
         /\ \A k \in 1 .. Len(s) : LineOf(s)[k] = s[k].post
<1>1. Len(s) \in Nat /\ DOMAIN s = 1 .. Len(s)  BY LenProperties
<1>2. \A k \in 1 .. Len(s) : s[k].post \in Post
  <2> TAKE k \in 1 .. Len(s)
  <2>1. s[k] \in LogPost  BY ElementOfSeq
  <2> QED  BY <2>1 DEF LogPost
<1>3. [k \in 1 .. Len(s) |-> s[k].post] \in Seq(Post)  BY <1>1, <1>2, IsASeq
<1>4. LineOf(s) = [k \in 1 .. Len(s) |-> s[k].post]  BY <1>1 DEF LineOf
<1>5. Len(LineOf(s)) = Len(s)  BY <1>1, <1>3, <1>4, LenProperties
<1> QED  BY <1>1, <1>3, <1>4, <1>5

(* While ids do not wrap the elements that hold a post are those whose id  *)
(* is not 0, so a READ answers with the end of the timeline.               *)
LEMMA ReadsLatest ==
  ASSUME TypeOK, FeedIsTail, IdInv, issued < IdModulus
  PROVE  FeedItems(feed_messages) = Timeline!Latest(Line, FeedMaxSize)
<1> DEFINE n == IF Len(log) < FeedMaxSize THEN Len(log) ELSE FeedMaxSize
<1>1. /\ Len(log) \in Nat /\ DOMAIN log = 1 .. Len(log) /\ Len(Line) = Len(log)
      /\ \A k \in 1 .. Len(log) : Line[k] = log[k].post
  <2>1. log \in Seq(LogPost)  BY DEF TypeOK, LogPost
  <2> QED  BY <2>1, LineType, LenProperties DEF Line
<1>2. n \in Nat /\ n <= Len(log) /\ Indices = 0 .. FeedMaxSize - 1 /\ FeedMaxSize \in Nat
  BY <1>1, FeedSizeAssumption DEF Indices
<1>3. \A k \in 1 .. Len(log) : log[k].post.msg_id # 0
  <2>1. LoggedIds \subseteq 1 .. issued  BY DEF IdInv, EveryIdAccounted
  <2>2. issued \in Nat  BY MaxPostsAssumption DEF TypeOK
  <2> QED  BY <2>1, <2>2, <1>1 DEF LoggedIds
<1>4. \A i \in Indices : feed_messages[i].msg_id # 0 <=> i < Len(log)
  <2> TAKE i \in Indices
  <2>1. CASE i < Len(log)
    <3>1. Len(log) - i \in 1 .. Len(log)  BY <2>1, <1>1, <1>2
    <3> QED  BY <2>1, <3>1, <1>3 DEF FeedIsTail
  <2>2. CASE ~(i < Len(log))
    BY <2>2 DEF FeedIsTail, NoPost
  <2> QED  BY <2>1, <2>2
<1>5. Filled(feed_messages) = 0 .. n - 1
  BY <1>1, <1>2, <1>4 DEF Filled
<1>6. FeedItems(feed_messages) = [k \in 1 .. n |-> feed_messages[k - 1]]
  BY <1>2, <1>5, FeedItemsOfPrefix
<1>7. \A k \in 1 .. n : feed_messages[k - 1] = Line[Len(Line) + 1 - k]
  <2> TAKE k \in 1 .. n
  <2>1. k - 1 \in Indices /\ k - 1 < Len(log)
        /\ Len(log) - (k - 1) = Len(log) + 1 - k /\ Len(log) + 1 - k \in 1 .. Len(log)
    BY <1>1, <1>2
  <2>2. feed_messages[k - 1] = log[Len(log) - (k - 1)].post  BY <2>1 DEF FeedIsTail
  <2> QED  BY <2>1, <2>2, <1>1
<1>8. Timeline!Latest(Line, FeedMaxSize) = [k \in 1 .. n |-> Line[Len(Line) + 1 - k]]
  BY <1>1 DEF Timeline!Latest
<1> QED  BY <1>6, <1>7, <1>8

LEMMA TimelineInit == Init => Timeline!Init
<1> SUFFICES ASSUME Init PROVE Timeline!Init  OBVIOUS
<1>1. [k \in DOMAIN log |-> log[k].post] = <<>>  BY DEF Init
<1> QED  BY <1>1 DEF Init, Timeline!Init

LEMMA TimelineStep ==
  ASSUME MaxPosts < IdModulus, TypeOK, TypeOK', FeedIsTail, IdInv, [Next]_vars
  PROVE  [Timeline!Next]_(Timeline!vars)
<1>1. ASSUME NEW t \in Threads, AddMsgToFeed(t) PROVE Timeline!Publish
  <2> DEFINE e == [post |-> msg[t], by |-> t]
  <2>1. log \in Seq(LogPost) /\ e \in LogPost /\ msg[t] \in Post  BY DEF TypeOK, LogPost
  <2>2. /\ log' = Append(log, e) /\ Len(log') = Len(log) + 1
        /\ log'[Len(log) + 1] = e
        /\ \A k \in 1 .. Len(log) : log'[k] = log[k]
        /\ Len(log) \in Nat
    BY <1>1, <2>1, LenProperties, AppendProperties DEF AddMsgToFeed
  <2>3. /\ Line \in Seq(Post) /\ Len(Line) = Len(log)
        /\ \A k \in 1 .. Len(log) : Line[k] = log[k].post
    BY <2>1, LineType DEF Line
  <2>4. /\ Line' \in Seq(Post) /\ Len(Line') = Len(log')
        /\ \A k \in 1 .. Len(log') : Line'[k] = log'[k].post
    <3>1. log' \in Seq(LogPost)  BY DEF TypeOK, LogPost
    <3> QED  BY <3>1, LineType DEF Line
  <2>5. /\ Append(Line, msg[t]) \in Seq(Post)
        /\ Len(Append(Line, msg[t])) = Len(log) + 1
        /\ Append(Line, msg[t])[Len(log) + 1] = msg[t]
        /\ \A k \in 1 .. Len(log) : Append(Line, msg[t])[k] = Line[k]
    BY <2>1, <2>2, <2>3, LenProperties, AppendProperties
  <2>6. \A k \in 1 .. Len(Line') : Line'[k] = Append(Line, msg[t])[k]
    <3> SUFFICES ASSUME NEW k \in 1 .. Len(Line') PROVE Line'[k] = Append(Line, msg[t])[k]
      OBVIOUS
    <3>1. Len(log) \in Nat /\ k \in 1 .. Len(log) + 1 /\ Line'[k] = log'[k].post
      BY <2>2, <2>4
    <3>2. CASE k = Len(log) + 1  BY <3>1, <3>2, <2>2, <2>5
    <3>3. CASE k \in 1 .. Len(log)  BY <3>1, <3>3, <2>2, <2>3, <2>5
    <3>4. k = Len(log) + 1 \/ k \in 1 .. Len(log)  BY <3>1
    <3> QED  BY <3>2, <3>3, <3>4
  <2>7. Line' = Append(Line, msg[t])
    BY <2>2, <2>4, <2>5, <2>6, SeqEqual
  <2> QED  BY <1>1, <2>1, <2>7 DEF Timeline!Publish, AddMsgToFeed, Line, LineOf
<1>2. ASSUME NEW t \in Threads, GetFeedMessages(t) PROVE Timeline!Read(t)
  <2>1. issued < IdModulus
    BY MaxPostsAssumption, IdAssumption DEF TypeOK
  <2>2. FeedItems(feed_messages) = Timeline!Latest(Line, FeedMaxSize)  BY <2>1, ReadsLatest
  <2> QED  BY <1>2, <2>2 DEF Timeline!Read, GetFeedMessages, Line, LineOf
<1>3. ASSUME NEW t \in Threads, IncrementMsgIdCounter(t) PROVE UNCHANGED Timeline!vars
  BY <1>3 DEF IncrementMsgIdCounter, Timeline!vars
<1>4. CASE UNCHANGED vars  BY <1>4 DEF vars, Timeline!vars
<1> QED  BY <1>1, <1>2, <1>3, <1>4 DEF Next, Timeline!Next

(* As long as the counter does not wrap, posts and reads behave as if each *)
(* were one step on a single timeline, however they interleave             *)
(* (addMsgToFeed, getFeedMessages).                                        *)
THEOREM FeedImplementsTimeline ==
  ASSUME MaxPosts < IdModulus
  PROVE  Spec => ImplementsTimeline
<1>1. /\ TypeOK /\ TypeOK' /\ FeedIsTail /\ IdInv /\ [Next]_vars
      => [Timeline!Next]_(Timeline!vars)
  BY TimelineStep
<1> QED
  BY TypeInit, TypeNext, TailInit, TailNext, IdInit, IdNext, TimelineInit, <1>1, PTL
     DEF Spec, ImplementsTimeline, Timeline!Spec
=============================================================================

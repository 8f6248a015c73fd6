-------------------------- MODULE ServerSendProofs --------------------------
(***************************************************************************)
(* Sending and following in Server, for any number of connections, slots   *)
(* and follows, and whatever the clients send: where the answers to READs  *)
(* go and what may interrupt them, what the follow list holds, whom the    *)
(* push of a post reaches and that it misses nobody.                       *)
(***************************************************************************)
EXTENDS ServerOwnershipProofs

-----------------------------------------------------------------------------
(* Where answers go.                                                       *)

(* Append adds one element, at the end.                                    *)
LEMMA Appended ==
  ASSUME NEW T, NEW seq \in Seq(T), NEW x \in T
  PROVE  /\ Len(seq) \in Nat /\ DOMAIN seq = 1 .. Len(seq)
         /\ Append(seq, x) \in Seq(T)
         /\ Len(Append(seq, x)) = Len(seq) + 1
         /\ DOMAIN Append(seq, x) = 1 .. Len(seq) + 1
         /\ \A k \in DOMAIN seq : k \in DOMAIN Append(seq, x) /\ Append(seq, x)[k] = seq[k]
         /\ Append(seq, x)[Len(seq) + 1] = x
<1>1. /\ Len(seq) \in Nat /\ DOMAIN seq = 1 .. Len(seq)
      /\ Append(seq, x) \in Seq(T) /\ Len(Append(seq, x)) = Len(seq) + 1
      /\ \A k \in 1 .. Len(seq) : Append(seq, x)[k] = seq[k]
      /\ Append(seq, x)[Len(seq) + 1] = x
  BY AppendProperties, LenProperties
<1>2. DOMAIN Append(seq, x) = 1 .. Len(seq) + 1  BY <1>1, LenProperties
<1> QED  BY <1>1, <1>2

(* What a step adds to the items sent to a client: nothing, or one item,   *)
(* which is a push or comes from the client's own thread.                  *)
LEMMA ItemsArrive ==
  ASSUME TypeInv, OwnInv, [Next]_vars, NEW d \in Conns
  PROVE  \/ rcvd'[d] = rcvd[d]
         \/ /\ peer[d] = "reading"
            /\ \E item \in Item :
                 /\ rcvd'[d] = Append(rcvd[d], item)
                 /\ \/ \E c \in Conns : SendPush(c) /\ target[c] = d /\ item = Push(c)
                    \/ SendFeedItem(d) /\ item.kind = "feed" /\ item.by = d
                    \/ SendEnd(d) /\ item.kind = "end" /\ item.by = d
<1>1. /\ rcvd \in [Conns -> Seq(Item)]
      /\ \A c \in Conns : target[c] \in Conns \cup {NoConn}
  BY DEF TypeInv, TypeOK, ClientsTypeOK, PostsTypeOK
<1>2. ASSUME NEW e, NEW item, Send(e, item)
      PROVE  \/ rcvd'[d] = rcvd[d]
             \/ e = d /\ peer[d] = "reading" /\ rcvd'[d] = Append(rcvd[d], item)
  BY <1>1, <1>2 DEF Send
<1>3. ASSUME NEW c \in Conns, SendPush(c)
      PROVE  Push(c) \in Item
  <2>1. Idx(c) \in Slots  BY <1>3, IdxType DEF SendPush, AtSlot
  <2> QED  BY <2>1 DEF Push, Item, TypeInv, TypeOK, ThreadsTypeOK, PostsTypeOK, Message
<1>4. ASSUME NEW c \in Conns, SendFeedItem(c) \/ SendEnd(c)
      PROVE  OpenAt(Mine(c).client_fd) = c
  BY <1>4 DEF OwnInv, SlotOwnership, FdOf, SendFeedItem, SendEnd, InSession
<1>5. ASSUME NEW c \in Conns, SendFeedItem(c)
      PROVE  \E item \in Item : Send(c, item) /\ item.kind = "feed" /\ item.by = c
  <2> DEFINE item == [kind |-> "feed", msg_id |-> feed_to_send[c][next_item[c]].msg_id,
                      by |-> c, to |-> c]
  <2>1. feed_to_send[c][next_item[c]] \in Post
    <3>1. feed_to_send[c] \in Seq(Post) /\ next_item[c] \in 1 .. Len(feed_to_send[c])
      BY <1>5, LenProperties DEF SendFeedItem, TypeInv, TypeOK, ReadsTypeOK
    <3> QED  BY <3>1, ElementOfSeq
  <2>2. item \in Item  BY <2>1 DEF Item, Post
  <2>3. Send(c, item)  BY <1>4, <1>5 DEF SendFeedItem
  <2> QED  BY <2>2, <2>3
<1>6. ASSUME NEW c \in Conns, SendEnd(c)
      PROVE  \E item \in Item : Send(c, item) /\ item.kind = "end" /\ item.by = c
  <2> DEFINE item == [kind |-> "end", msg_id |-> 0, by |-> c, to |-> c]
  <2>1. item \in Item  BY IdAssumption DEF Item
  <2>2. Send(c, item)  BY <1>4, <1>6 DEF SendEnd
  <2> QED  BY <2>1, <2>2
<1>7. ASSUME NEW c \in Conns, HandlerStep(c)
      PROVE  SendPush(c) \/ SendFeedItem(c) \/ SendEnd(c) \/ UNCHANGED rcvd
  BY <1>7, ThreadWrites
<1>8. ASSUME NEW c \in Conns, SendPush(c)
      PROVE  \/ rcvd'[d] = rcvd[d]
             \/ target[c] = d /\ peer[d] = "reading" /\ rcvd'[d] = Append(rcvd[d], Push(c))
  <2>1. Send(target[c], Push(c))  BY <1>8 DEF SendPush
  <2> QED  BY <2>1, <1>2
<1>9. ASSUME NEW c \in Conns, Leave(c) \/ StallOrResume(c) PROVE UNCHANGED rcvd
  BY <1>9, PeersWrite
<1>10. CASE UNCHANGED vars  BY <1>10 DEF vars, peerVars
<1>11. ASSUME NEW c \in Conns, HandlerStep(c)
       PROVE  \/ rcvd'[d] = rcvd[d]
              \/ /\ peer[d] = "reading"
                 /\ \E item \in Item :
                      /\ rcvd'[d] = Append(rcvd[d], item)
                      /\ \/ SendPush(c) /\ target[c] = d /\ item = Push(c)
                         \/ c = d /\ SendFeedItem(d) /\ item.kind = "feed" /\ item.by = d
                         \/ c = d /\ SendEnd(d) /\ item.kind = "end" /\ item.by = d
  BY <1>11, <1>2, <1>3, <1>5, <1>6, <1>7, <1>8
<1> QED  BY <1>9, <1>10, <1>11, MainWrites DEF Next

(* A thread that sends an answer sends it on the descriptor of its own     *)
(* connection.                                                             *)
LEMMA AnswersNext ==
  TypeInv /\ OwnInv /\ AnswersGoToAsker /\ [Next]_vars => AnswersGoToAsker'
<1> SUFFICES ASSUME TypeInv, OwnInv, AnswersGoToAsker, [Next]_vars,
                    NEW d \in Conns, NEW k \in DOMAIN rcvd'[d], rcvd'[d][k].kind # "push"
             PROVE  rcvd'[d][k].by = d
  BY DEF AnswersGoToAsker
<1>1. CASE rcvd'[d] = rcvd[d]  BY <1>1 DEF AnswersGoToAsker
<1>2. ASSUME NEW item \in Item, rcvd'[d] = Append(rcvd[d], item),
             item.kind = "push" \/ item.by = d
      PROVE  rcvd'[d][k].by = d
  <2>1. rcvd[d] \in Seq(Item)  BY DEF TypeInv, TypeOK, ClientsTypeOK
  <2>2. (k \in DOMAIN rcvd[d] /\ rcvd'[d][k] = rcvd[d][k]) \/ rcvd'[d][k] = item
    BY <1>2, <2>1, Appended
  <2> QED  BY <1>2, <2>2 DEF AnswersGoToAsker
<1> QED  BY <1>1, <1>2, ItemsArrive DEF Push

LEMMA AnswersInit == Init => AnswersGoToAsker
BY DEF Init, AnswersGoToAsker

(* Whoever else is given slots and descriptors meanwhile, the answer to a  *)
(* READ reaches the client that asked and no other (sendFeedToClient).     *)
THEOREM AnswersReachAsker == Spec => []AnswersGoToAsker
BY TypeInvInit, TypeInvNext, OwnInit, OwnNext, AnswersInit, AnswersNext, PTL DEF Spec

-----------------------------------------------------------------------------
(* The follow list.                                                        *)

(* A pair that is in the list, or of one user with himself, is not added,  *)
(* unless the text had to be cut to store it.                              *)
LEMMA AddFollowSound ==
  ASSUME NEW list \in Seq([follower : String, followed : String]), Sound(list),
         NEW a \in String, NEW b \in String
  PROVE  Sound(AddFollow(list, a, b))
<1>1. CASE AddFollow(list, a, b) = list  BY <1>1
<1>2. CASE AddFollow(list, a, b) # list
  <2> DEFINE n == Len(list)
             longer == Append(list, Pair(a, Stored[b]))
  <2>1. AddFollow(list, a, b) = longer /\ a # b /\ ~Follows(list, a, b)
    BY <1>2 DEF AddFollow
  <2>2. Pair(a, Stored[b]) \in [follower : String, followed : String]
    BY StoredType DEF Pair
  <2>3. /\ n \in Nat /\ DOMAIN list = 1 .. n /\ DOMAIN longer = 1 .. n + 1
        /\ \A k \in 1 .. n : longer[k] = list[k]
        /\ longer[n + 1] = Pair(a, Stored[b])
    <3>1. longer \in Seq([follower : String, followed : String])
      BY <2>2, AppendProperties
    <3> QED  BY <3>1, <2>2, AppendProperties, LenProperties
  <2> HIDE DEF n, longer
  <2>4. Stored[b] # b => MayBeCut(Stored[b])
    <3>1. b \in DOMAIN Stored  BY StoredAssumption
    <3> QED  BY <3>1 DEF MayBeCut
  <2>5. ASSUME NEW k \in 1 .. n + 1, longer[k].follower = longer[k].followed
        PROVE  MayBeCut(longer[k].followed)
    <3>1. CASE k = n + 1  BY <3>1, <2>1, <2>3, <2>4, <2>5 DEF Pair
    <3>2. CASE k \in 1 .. n  BY <3>2, <2>3, <2>5 DEF Sound
    <3> QED  BY <3>1, <3>2, <2>3
  <2>6. ASSUME NEW j \in 1 .. n + 1, NEW k \in 1 .. n + 1, longer[j] = longer[k]
        PROVE  j = k \/ MayBeCut(longer[k].followed)
    <3>1. j = n + 1 \/ j \in 1 .. n  BY <2>3
    <3>2. k = n + 1 \/ k \in 1 .. n  BY <2>3
    <3>3. CASE j \in 1 .. n /\ k \in 1 .. n  BY <3>3, <2>3, <2>6 DEF Sound
    <3>4. CASE (j = n + 1 \/ k = n + 1) /\ Stored[b] = b
      <4>1. \A l \in 1 .. n : list[l] # Pair(a, b)  BY <2>1, <2>3 DEF Follows
      <4> QED  BY <4>1, <3>1, <3>2, <3>4, <2>3, <2>6
    <3>5. CASE (j = n + 1 \/ k = n + 1) /\ Stored[b] # b
      <4>1. longer[k] = Pair(a, Stored[b])  BY <3>5, <2>3, <2>6
      <4> QED  BY <4>1, <3>5, <2>4 DEF Pair
    <3> QED  BY <3>1, <3>2, <3>3, <3>4, <3>5
  <2> QED  BY <2>1, <2>3, <2>5, <2>6 DEF Sound
<1> QED  BY <1>1, <1>2

LEMMA FollowsNext == TypeInv /\ FollowListSound /\ [Next]_vars => FollowListSound'
<1> SUFFICES ASSUME TypeInv, FollowListSound, [Next]_vars PROVE FollowListSound'
  OBVIOUS
<1>1. CASE UNCHANGED follow_list  BY <1>1 DEF FollowListSound, Sound
<1>2. ASSUME NEW c \in Conns, Follow(c) PROVE FollowListSound'
  <2>1. /\ follow_list \in Seq([follower : String, followed : String])
        /\ msg_received[c].username \in String /\ msg_received[c].content \in String
    BY DEF TypeInv, TypeOK, FollowsTypeOK, ThreadsTypeOK, Message
  <2>2. Sound(AddFollow(follow_list, msg_received[c].username, msg_received[c].content))
    BY <2>1, AddFollowSound DEF FollowListSound
  <2> QED  BY <1>2, <2>2 DEF Follow, FollowListSound
<1>3. ASSUME NEW c \in Conns, HandlerStep(c) PROVE Follow(c) \/ UNCHANGED follow_list
  BY <1>3, ThreadWrites
<1>4. ASSUME NEW c \in Conns, Leave(c) \/ StallOrResume(c) PROVE UNCHANGED follow_list
  BY <1>4, PeersWrite
<1>5. CASE UNCHANGED vars  BY <1>1, <1>5 DEF vars
<1> QED  BY <1>1, <1>2, <1>3, <1>4, <1>5, MainWrites DEF Next

LEMMA FollowsInit == Init => FollowListSound
BY DEF Init, FollowListSound, Sound

(* However many threads add to the follow list, no pair is twice in it and *)
(* nobody follows himself, but for followed names that a longer text is    *)
(* cut to (processFollowMessage).                                          *)
THEOREM FollowsAreSound == Spec => []FollowListSound
BY TypeInvInit, TypeInvNext, FollowsInit, FollowsNext, PTL DEF Spec

-----------------------------------------------------------------------------
(* What no step undoes.                                                    *)

(* A thread moves on, and one that is closing its descriptor ends.         *)
LEMMA ThreadPlaces ==
  ASSUME TypeInv, NEW c \in Conns, HandlerStep(c)
  PROVE  /\ pc[c] \notin {"none", "done"} /\ pc'[c] # "none"
         /\ pc[c] = "close" => pc'[c] = "done"
<1>1. pc \in [Conns -> Places]  BY DEF TypeInv, TypeOK, ThreadsTypeOK
<1> USE DEF Goto
<1>2. CASE Start(c) \/ ReceiveMessage(c) \/ Close(c) \/ Register(c) \/ Follow(c)
  BY <1>1, <1>2 DEF Start, ReceiveMessage, Close, Register, Follow
<1>3. CASE Disconnect(c) \/ RefuseUnregistered(c) \/ RefuseEmptyName(c) \/ Dispatch(c)
  BY <1>1, <1>3 DEF Disconnect, RefuseUnregistered, RefuseEmptyName, LeaveSlot, Dispatch
<1>4. CASE AssignId(c) \/ AddToFeed(c) \/ CollectFollowers(c) \/ CollectSlots(c)
  BY <1>1, <1>4 DEF AssignId, AddToFeed, CollectFollowers, CollectSlots
<1>5. CASE LockForPush(c) \/ CheckSlot(c) \/ ReadFd(c) \/ EnterSend(c) \/ SendPush(c)
  BY <1>1, <1>5 DEF LockForPush, CheckSlot, ReadFd, EnterSend, SendPush
<1>6. CASE UnlockPush(c) \/ NextFollower(c) \/ FinishPost(c)
  BY <1>1, <1>6 DEF UnlockPush, NextFollower, FinishPost
<1>7. CASE GetFeedMessages(c) \/ LockForFeed(c) \/ SendFeedItem(c) \/ SendEnd(c) \/ UnlockFeed(c)
  BY <1>1, <1>7 DEF GetFeedMessages, LockForFeed, SendFeedItem, SendEnd, UnlockFeed
<1> QED  BY <1>2, <1>3, <1>4, <1>5, <1>6, <1>7 DEF HandlerStep

(* The new thread of main was nobody's.                                    *)
LEMMA NewThread ==
  ASSUME TypeInv, OwnInv, CreateThread
  PROVE  \E c \in Conns :
           /\ pc[c] = "none" /\ pc'[c] = "start" /\ client_index'[c] = new_index
           /\ \A d \in Conns \ {c} : pc'[d] = pc[d] /\ client_index'[d] = client_index[d]
<1>1. PICK c \in Conns : c = fdTable[client_socket] /\ pc[c] = "none"
  BY DEF CreateThread, OwnInv, MainHolds
<1>2. pc \in [Conns -> Places] /\ client_index \in [Conns -> Slots]
  BY DEF TypeInv, TypeOK, ThreadsTypeOK
<1> QED  BY <1>1, <1>2 DEF CreateThread

(* The session of a connection is over: it holds no slot.                  *)
Departed(c) == pc[c] \in {"close", "done"}

(* A connection has a thread once and for good, with one slot, and one     *)
(* session: its end is its last.                                           *)
LEMMA OneSession ==
  ASSUME TypeInv, OwnInv, [Next]_vars, NEW c \in Conns
  PROVE  /\ pc[c] # "none" => pc'[c] # "none" /\ client_index'[c] = client_index[c]
         /\ Departed(c) => Departed(c)'
<1>1. CASE MainStep
  <2>1. CASE CreateThread  BY <2>1, NewThread DEF Departed
  <2>2. CASE UNCHANGED <<pc, client_index>>  BY <2>2 DEF Departed
  <2> QED  BY <1>1, <2>1, <2>2, MainWrites
<1>2. ASSUME NEW d \in Conns, HandlerStep(d)
      PROVE  /\ pc[c] # "none" => pc'[c] # "none" /\ client_index'[c] = client_index[c]
             /\ Departed(c) => Departed(c)'
  <2>1. client_index' = client_index  BY <1>2, ThreadWrites
  <2>2. CASE c = d  BY <1>2, <2>1, <2>2, ThreadPlaces DEF Departed
  <2>3. CASE c # d
    <3>1. pc'[c] = pc[c]  BY <1>2, <2>3, OwnLocals
    <3> QED  BY <2>1, <3>1 DEF Departed
  <2> QED  BY <2>2, <2>3
<1>3. ASSUME NEW d \in Conns, Leave(d) \/ StallOrResume(d) PROVE UNCHANGED <<pc, client_index>>
  BY <1>3, PeersWrite DEF threadVars
<1>4. CASE UNCHANGED vars  BY <1>4 DEF vars, threadVars, Departed
<1> QED  BY <1>1, <1>2, <1>3, <1>4 DEF Next, Departed

(* What a step does to a thread and its locals: it is a step of the thread *)
(* itself, or it leaves them as they are, but for the thread's creation.   *)
LEMMA StepOf ==
  ASSUME TypeInv, OwnInv, [Next]_vars, NEW d \in Conns
  PROVE  \/ up /\ HandlerStep(d)
         \/ /\ pc'[d] = pc[d] \/ (pc[d] = "none" /\ pc'[d] = "start")
            /\ msg_received'[d] = msg_received[d] /\ name'[d] = name[d]
            /\ to_notify'[d] = to_notify[d] /\ due'[d] = due[d] /\ aim'[d] = aim[d]
            /\ slots'[d] = slots[d] /\ sock'[d] = sock[d] /\ target'[d] = target[d]
            /\ feed_to_send'[d] = feed_to_send[d] /\ next_item'[d] = next_item[d]
<1>1. CASE up /\ MainStep
  <2>1. pc'[d] = pc[d] \/ (pc[d] = "none" /\ pc'[d] = "start")
    <3>1. CASE CreateThread  BY <3>1, NewThread
    <3> QED  BY <1>1, <3>1, MainWrites
  <2> QED  BY <1>1, <2>1, MainWrites DEF postVars, readVars, pushHistory
<1>2. ASSUME NEW c \in Conns, up, HandlerStep(c), c # d
      PROVE  /\ pc'[d] = pc[d]
             /\ msg_received'[d] = msg_received[d] /\ name'[d] = name[d]
             /\ to_notify'[d] = to_notify[d] /\ due'[d] = due[d] /\ aim'[d] = aim[d]
             /\ slots'[d] = slots[d] /\ sock'[d] = sock[d] /\ target'[d] = target[d]
             /\ feed_to_send'[d] = feed_to_send[d] /\ next_item'[d] = next_item[d]
  BY <1>2, OwnLocals
<1>3. ASSUME NEW c \in Conns, Leave(c) \/ StallOrResume(c)
      PROVE  UNCHANGED <<pc, msg_received, name, to_notify, due, aim, slots, sock, target,
                         feed_to_send, next_item>>
  BY <1>3, PeersWrite DEF threadVars, postVars, readVars, pushHistory
<1>4. CASE UNCHANGED vars
  BY <1>4 DEF vars, threadVars, postVars, readVars, pushHistory
<1> QED  BY <1>1, <1>2, <1>3, <1>4 DEF Next

(* The lists and the log only grow, and what was sent stays sent.          *)
LEMMA ListsGrow ==
  ASSUME TypeInv, [Next]_vars
  PROVE  /\ \A k \in DOMAIN log : k \in DOMAIN log' /\ log'[k] = log[k]
         /\ \A k \in DOMAIN follow_list :
              k \in DOMAIN follow_list' /\ follow_list'[k] = follow_list[k]
         /\ clobbered \subseteq clobbered'
<1>1. /\ log \in Seq([post : Post, by : Conns])
      /\ follow_list \in Seq([follower : String, followed : String])
      /\ DOMAIN log = 1 .. Len(log) /\ DOMAIN follow_list = 1 .. Len(follow_list)
      /\ Len(log) \in Nat /\ Len(follow_list) \in Nat
  BY LenProperties DEF TypeInv, TypeOK, FeedTypeOK, FollowsTypeOK
<1>2. ASSUME NEW c \in Conns, AddToFeed(c)
      PROVE  \A k \in DOMAIN log : k \in DOMAIN log' /\ log'[k] = log[k]
  <2> DEFINE entry == [post |-> PostOf(msg_received[c]), by |-> c]
  <2>1. entry \in [post : Post, by : Conns]
    BY DEF PostOf, Post, Message, TypeInv, TypeOK, ThreadsTypeOK
  <2>2. log' = Append(log, entry)  BY <1>2 DEF AddToFeed
  <2> HIDE DEF entry
  <2>3. /\ log' \in Seq([post : Post, by : Conns])
        /\ Len(log') = Len(log) + 1
        /\ \A k \in 1 .. Len(log) : log'[k] = log[k]
    BY <1>1, <2>1, <2>2, AppendProperties
  <2>4. DOMAIN log' = 1 .. Len(log')  BY <2>3, LenProperties
  <2> QED  BY <1>1, <2>3, <2>4
<1>3. ASSUME NEW c \in Conns, Follow(c)
      PROVE  \A k \in DOMAIN follow_list :
               k \in DOMAIN follow_list' /\ follow_list'[k] = follow_list[k]
  <2> DEFINE pair == Pair(msg_received[c].username, Stored[msg_received[c].content])
  <2>1. pair \in [follower : String, followed : String]
    <3>1. msg_received[c].username \in String /\ msg_received[c].content \in String
      BY DEF Message, TypeInv, TypeOK, ThreadsTypeOK
    <3> QED  BY <3>1, StoredType DEF Pair
  <2>2. follow_list' = follow_list \/ follow_list' = Append(follow_list, pair)
    BY <1>3 DEF Follow, AddFollow
  <2> HIDE DEF pair
  <2>3. CASE follow_list' = Append(follow_list, pair)
    <3>1. /\ follow_list' \in Seq([follower : String, followed : String])
          /\ Len(follow_list') = Len(follow_list) + 1
          /\ \A k \in 1 .. Len(follow_list) : follow_list'[k] = follow_list[k]
      BY <1>1, <2>1, <2>3, AppendProperties
    <3>2. DOMAIN follow_list' = 1 .. Len(follow_list')  BY <3>1, LenProperties
    <3> QED  BY <1>1, <3>1, <3>2
  <2> QED  BY <2>2, <2>3
<1>4. ASSUME NEW c \in Conns, HandlerStep(c)
      PROVE  /\ AddToFeed(c) \/ UNCHANGED log
             /\ Follow(c) \/ UNCHANGED follow_list
             /\ UNCHANGED clobbered
  BY <1>4, ThreadWrites
<1>5. ASSUME MainStep PROVE UNCHANGED <<log, follow_list>> /\ clobbered \subseteq clobbered'
  BY <1>5, MainWrites DEF feedVars, InitSlot
<1>6. ASSUME NEW c \in Conns, Leave(c) \/ StallOrResume(c)
      PROVE  UNCHANGED <<log, follow_list, clobbered>>
  BY <1>6, PeersWrite DEF feedVars
<1>7. CASE UNCHANGED vars  BY <1>7 DEF vars, feedVars
<1> QED  BY <1>2, <1>3, <1>4, <1>5, <1>6, <1>7 DEF Next

(* Nobody stops following: the code has no unfollow.                       *)
LEMMA FollowsStay ==
  ASSUME TypeInv, [Next]_vars, NEW a, NEW b, Follows(follow_list, a, b)
  PROVE  Follows(follow_list', a, b)
BY ListsGrow DEF Follows

-----------------------------------------------------------------------------
(* Names.                                                                  *)
AtLoop == AtSlot \cup {"lock"}
InPost == {"collect", "notify"} \cup AtLoop

(* The places where a thread acts in the name of its client.               *)
Acting == {"post", "add", "follow", "read"} \cup InPost

SlotNames ==
  /\ \A c \in Conns : pc[c] = "none" => name[c] = Empty
  /\ \A c \in Conns : InSession(c) => Mine(c).username = name[c]
  /\ main_pc = "create" => clients[new_index].username = Empty

ActingNames ==
  \A c \in Conns : pc[c] \in Acting =>
    msg_received[c].username = name[c] /\ name[c] # Empty

FollowerNames == \A k \in DOMAIN follow_list : follow_list[k].follower # Empty

NamesInv == SlotNames /\ ActingNames /\ FollowerNames

LEMMA NamesInit == Init => NamesInv
BY DEF Init, NamesInv, SlotNames, ActingNames, FollowerNames, InSession, Acting, InPost,
       AtLoop, AtSlot

(* The name in a slot is written by InitSlot and Register only.            *)
LEMMA UsernamesKept ==
  ASSUME TypeInv,
         \/ MainStep /\ ~InitSlot
         \/ \E c \in Conns : HandlerStep(c) /\ ~Register(c)
         \/ \E c \in Conns : Leave(c) \/ StallOrResume(c)
  PROVE  \A s \in Slots : clients'[s].username = clients[s].username
<1>1. clients \in [Slots -> Slot] /\ \A s \in Slots : clients[s] \in Slot
  BY DEF TypeInv, TypeOK, SlotsTypeOK, Slot
<1>2. ASSUME NEW i, NEW b, \/ clients' = [clients EXCEPT ![i].active = b]
                           \/ clients' = [clients EXCEPT ![i].client_fd = b]
      PROVE  \A s \in Slots : clients'[s].username = clients[s].username
  <2> TAKE s \in Slots
  <2>1. CASE s = i  BY <2>1, <1>1, <1>2 DEF Slot
  <2>2. CASE s # i  BY <2>2, <1>1, <1>2
  <2> QED  BY <2>1, <2>2
<1>3. CASE MainStep /\ ~InitSlot
  <2>1. CASE ClaimSlot \/ StoreFd \/ CreateThreadFails
    BY <2>1, <1>2 DEF ClaimSlot, StoreFd, CreateThreadFails
  <2>2. CASE Accept \/ RejectClient \/ CreateThread \/ CloseRefused
    BY <2>2 DEF Accept, RejectClient, CreateThread, CloseRefused, slotVars
  <2> QED  BY <1>3, <2>1, <2>2 DEF MainStep
<1>4. ASSUME NEW c \in Conns, HandlerStep(c), ~Register(c)
      PROVE  \A s \in Slots : clients'[s].username = clients[s].username
  <2>1. CASE Disconnect(c) \/ RefuseUnregistered(c) \/ RefuseEmptyName(c)
    BY <2>1, <1>2 DEF Disconnect, RefuseUnregistered, RefuseEmptyName, LeaveSlot
  <2>2. CASE ~(Disconnect(c) \/ RefuseUnregistered(c) \/ RefuseEmptyName(c))
    <3>1. UNCHANGED clients
      BY <1>4, <2>2 DEF HandlerStep, Start, ReceiveMessage, Close, Dispatch, Follow,
           AssignId, AddToFeed, CollectFollowers, CollectSlots, LockForPush, CheckSlot,
           ReadFd, EnterSend, SendPush, UnlockPush, NextFollower, FinishPost,
           GetFeedMessages, LockForFeed, SendFeedItem, SendEnd, UnlockFeed, slotVars
    <3> QED  BY <3>1
  <2> QED  BY <2>1, <2>2
<1>5. ASSUME NEW c \in Conns, Leave(c) \/ StallOrResume(c) PROVE UNCHANGED clients
  BY <1>5, PeersWrite DEF slotVars
<1> QED  BY <1>3, <1>4, <1>5

(* What Register does: the slot, the message and the connection of the     *)
(* thread get one name, and keep the one they had.                         *)
LEMMA RegisterNames ==
  ASSUME TypeInv, OwnInv, SlotNames, NEW c \in Conns, Register(c)
  PROVE  \E User \in String \ {Empty} :
           /\ name[c] # Empty => User = name[c]
           /\ name' = [name EXCEPT ![c] = User]
           /\ clients' = [clients EXCEPT ![client_index[c]].username = User]
<1> DEFINE User == IF Mine(c).username = Empty THEN Stored[msg_received[c].username]
                                               ELSE Mine(c).username
<1>1. InSession(c) /\ Mine(c).active /\ Mine(c).username = name[c]
  <2>1. InSession(c)  BY DEF Register, InSession
  <2> QED  BY <2>1 DEF OwnInv, SlotOwnership, SlotNames
<1>2. User \in String \ {Empty}
  <2>1. name[c] \in String /\ msg_received[c].username \in String
    BY DEF TypeInv, TypeOK, ThreadsTypeOK, Message
  <2> QED  BY <1>1, <2>1, StoredType DEF Register
<1>3. /\ name' = [name EXCEPT ![c] = User]
      /\ clients' = [clients EXCEPT ![client_index[c]].username = User]
  BY <1>1 DEF Register
<1>4. name[c] # Empty => User = name[c]  BY <1>1
<1> HIDE DEF User
<1> QED  BY <1>2, <1>3, <1>4

(* A connection keeps its first name.                                      *)
LEMMA NameStays ==
  ASSUME TypeInv, OwnInv, SlotNames, [Next]_vars, NEW c \in Conns
  PROVE  name'[c] = name[c] \/ name[c] = Empty
<1>1. name \in [Conns -> String]  BY DEF TypeInv, TypeOK, ThreadsTypeOK
<1>2. ASSUME NEW d \in Conns, Register(d) PROVE name'[c] = name[c] \/ name[c] = Empty
  BY <1>1, <1>2, RegisterNames
<1>3. ASSUME NEW d \in Conns, HandlerStep(d), ~Register(d) PROVE UNCHANGED name
  BY <1>3, ThreadWrites
<1>4. ASSUME NEW d \in Conns, Leave(d) \/ StallOrResume(d) PROVE UNCHANGED name
  BY <1>4, PeersWrite
<1> QED  BY <1>2, <1>3, <1>4, MainWrites DEF Next, vars

(* No two sessions have one slot, and main clears the name of a slot that  *)
(* no session has.                                                         *)
LEMMA SlotNamesNext == TypeInv /\ OwnInv /\ SlotNames /\ [Next]_vars => SlotNames'
<1> SUFFICES ASSUME TypeInv, OwnInv, SlotNames, [Next]_vars PROVE SlotNames'
  OBVIOUS
<1>1. /\ clients \in [Slots -> Slot] /\ \A s \in Slots : clients[s] \in Slot
      /\ client_index \in [Conns -> Slots] /\ new_index \in Slots
      /\ name \in [Conns -> String] /\ pc \in [Conns -> Places]
  BY DEF TypeInv, TypeOK, SlotsTypeOK, ThreadsTypeOK, MainTypeOK, Slot
<1>2. ASSUME \A s \in Slots : clients'[s].username = clients[s].username,
             UNCHANGED <<name, client_index>>,
             main_pc' = "create" => main_pc = "create" /\ new_index' = new_index,
             \A c \in Conns : /\ pc'[c] = "none" => pc[c] = "none"
                              /\ InSession(c)' => InSession(c)
      PROVE  SlotNames'
  BY <1>1, <1>2 DEF SlotNames, Mine
<1>3. CASE InitSlot
  <2>1. /\ clients' = [clients EXCEPT ![new_index].username = Empty]
        /\ UNCHANGED <<pc, name, client_index, new_index>> /\ main_pc = "init_slot"
    BY <1>3 DEF InitSlot, threadVars
  <2>2. /\ clients'[new_index].username = Empty
        /\ \A s \in Slots \ {new_index} : clients'[s] = clients[s]
    BY <1>1, <2>1 DEF Slot
  <2>3. \A c \in Conns : InSession(c) => client_index[c] # new_index
    BY <2>1 DEF OwnInv, SlotOwnership, MainHasSlot
  <2>4. \A c \in Conns : InSession(c)' <=> InSession(c)  BY <2>1 DEF InSession
  <2> QED  BY <1>1, <2>1, <2>2, <2>3, <2>4 DEF SlotNames, Mine
<1>4. CASE CreateThread
  <2>1. PICK c \in Conns :
           /\ pc[c] = "none" /\ pc'[c] = "start" /\ client_index'[c] = new_index
           /\ \A d \in Conns \ {c} : pc'[d] = pc[d] /\ client_index'[d] = client_index[d]
    BY <1>4, NewThread
  <2>2. /\ UNCHANGED <<clients, name>> /\ main_pc = "create" /\ main_pc' # "create"
    BY <1>4 DEF CreateThread, slotVars
  <2>3. Mine(c)'.username = name'[c]  BY <2>1, <2>2 DEF SlotNames, Mine
  <2>4. \A d \in Conns \ {c} : /\ InSession(d)' <=> InSession(d)
                               /\ Mine(d)' = Mine(d)
    BY <2>1, <2>2 DEF InSession, Mine
  <2> QED  BY <2>1, <2>2, <2>3, <2>4 DEF SlotNames
<1>5. CASE MainStep /\ ~InitSlot /\ ~CreateThread
  <2>1. main_pc' # "create"
    BY <1>5 DEF MainStep, Accept, ClaimSlot, RejectClient, StoreFd, CreateThreadFails,
                CloseRefused
  <2>2. UNCHANGED <<pc, client_index, name>>  BY <1>5, MainWrites
  <2>3. \A c \in Conns : InSession(c)' <=> InSession(c)  BY <2>2 DEF InSession
  <2> QED  BY <1>5, <2>1, <2>2, <2>3, <1>2, UsernamesKept
<1>6. ASSUME NEW c \in Conns, Register(c) PROVE SlotNames'
  <2>1. PICK User \in String \ {Empty} :
           /\ name[c] # Empty => User = name[c]
           /\ name' = [name EXCEPT ![c] = User]
           /\ clients' = [clients EXCEPT ![client_index[c]].username = User]
    BY <1>6, RegisterNames
  <2>2. /\ clients'[client_index[c]].username = User
        /\ \A s \in Slots \ {client_index[c]} : clients'[s] = clients[s]
    BY <1>1, <2>1 DEF Slot
  <2>3. /\ pc[c] = "connect" /\ pc' = [pc EXCEPT ![c] = "waiting"]
        /\ UNCHANGED <<client_index, new_index, main_pc>>
    BY <1>6 DEF Register, Goto, mainVars
  <2>4. \A d \in Conns : InSession(d)' <=> InSession(d)
    BY <1>1, <2>3 DEF InSession
  <2>5. /\ main_pc = "create" => new_index # client_index[c]
        /\ \A d \in Conns \ {c} : InSession(d) => client_index[d] # client_index[c]
    BY <2>3 DEF OwnInv, SlotOwnership, MainHasSlot, InSession
  <2>6. \A d \in Conns : pc'[d] = "none" => d # c /\ pc[d] = "none"
    BY <1>1, <2>3
  <2>7. ASSUME NEW d \in Conns, InSession(d)' PROVE Mine(d)'.username = name'[d]
    <3>1. CASE d = c  BY <3>1, <1>1, <2>1, <2>2, <2>3 DEF Mine
    <3>2. CASE d # c  BY <3>2, <1>1, <2>1, <2>2, <2>3, <2>4, <2>5, <2>7 DEF Mine, SlotNames
    <3> QED  BY <3>1, <3>2
  <2>8. \A d \in Conns : pc'[d] = "none" => name'[d] = Empty
    BY <1>1, <2>1, <2>6 DEF SlotNames
  <2>9. main_pc' = "create" => clients'[new_index'].username = Empty
    BY <1>1, <2>2, <2>3, <2>5 DEF SlotNames
  <2> QED  BY <2>7, <2>8, <2>9 DEF SlotNames
<1>7. ASSUME NEW c \in Conns, HandlerStep(c), ~Register(c) PROVE SlotNames'
  <2>1. UNCHANGED <<name, client_index, main_pc, new_index>>
    BY <1>7, ThreadWrites DEF mainVars
  <2>2. \A d \in Conns : /\ pc'[d] = "none" => pc[d] = "none"
                         /\ InSession(d)' => InSession(d)
    BY <1>7, OwnLocals, ThreadPlaces DEF InSession
  <2>3. \A s \in Slots : clients'[s].username = clients[s].username
    BY <1>7, UsernamesKept
  <2> QED  BY <1>2, <2>1, <2>2, <2>3
<1>8. ASSUME NEW c \in Conns, Leave(c) \/ StallOrResume(c) PROVE SlotNames'
  BY <1>8, <1>2, PeersWrite DEF mainVars, threadVars, slotVars, InSession
<1>9. CASE UNCHANGED vars
  BY <1>9, <1>2 DEF vars, mainVars, threadVars, slotVars, InSession
<1> QED  BY <1>3, <1>4, <1>5, <1>6, <1>7, <1>8, <1>9 DEF Next

(* A thread enters what it does for its client through Dispatch only.      *)
LEMMA EnterActing ==
  ASSUME TypeInv, NEW c \in Conns, HandlerStep(c), pc'[c] \in Acting
  PROVE  \/ Dispatch(c)
         \/ pc[c] \in Acting /\ msg_received'[c].username = msg_received[c].username
<1>1. pc \in [Conns -> Places] /\ msg_received \in [Conns -> Message]
  BY DEF TypeInv, TypeOK, ThreadsTypeOK
<1> USE DEF Goto, Acting, InPost, AtLoop, AtSlot
<1>2. CASE Start(c) \/ ReceiveMessage(c) \/ Close(c) \/ Register(c) \/ Follow(c)
  BY <1>1, <1>2 DEF Start, ReceiveMessage, Close, Register, Follow
<1>3. CASE Disconnect(c) \/ RefuseUnregistered(c) \/ RefuseEmptyName(c)
  BY <1>1, <1>3 DEF Disconnect, RefuseUnregistered, RefuseEmptyName, LeaveSlot
<1>4. CASE AssignId(c)  BY <1>1, <1>4 DEF AssignId, Message
<1>5. CASE AddToFeed(c) \/ CollectFollowers(c) \/ CollectSlots(c)
  BY <1>1, <1>5 DEF AddToFeed, CollectFollowers, CollectSlots, threadVars
<1>6. CASE LockForPush(c) \/ CheckSlot(c) \/ ReadFd(c) \/ EnterSend(c) \/ SendPush(c)
  BY <1>1, <1>6 DEF LockForPush, CheckSlot, ReadFd, EnterSend, SendPush, threadVars
<1>7. CASE UnlockPush(c) \/ NextFollower(c) \/ FinishPost(c)
  BY <1>1, <1>7 DEF UnlockPush, NextFollower, FinishPost, threadVars
<1>8. CASE GetFeedMessages(c) \/ LockForFeed(c) \/ SendFeedItem(c) \/ SendEnd(c) \/ UnlockFeed(c)
  BY <1>1, <1>8 DEF GetFeedMessages, LockForFeed, SendFeedItem, SendEnd, UnlockFeed, threadVars
<1> QED  BY <1>2, <1>3, <1>4, <1>5, <1>6, <1>7, <1>8 DEF HandlerStep

(* A thread acts only after its client has registered, and puts the        *)
(* registered name in the message it acts on.                              *)
LEMMA ActingNamesNext == TypeInv /\ OwnInv /\ NamesInv /\ [Next]_vars => ActingNames'
<1> SUFFICES ASSUME TypeInv, OwnInv, NamesInv, [Next]_vars, NEW d \in Conns, pc'[d] \in Acting
             PROVE  msg_received'[d].username = name'[d] /\ name'[d] # Empty
  BY DEF ActingNames
<1> USE DEF NamesInv
<1>1. name'[d] = name[d] \/ name[d] = Empty  BY NameStays
<1>2. CASE pc[d] \in Acting /\ msg_received'[d].username = msg_received[d].username
  BY <1>1, <1>2 DEF ActingNames
<1>3. ASSUME HandlerStep(d) PROVE msg_received'[d].username = name'[d] /\ name'[d] # Empty
  <2>1. CASE Dispatch(d)
    <3>1. msg_received \in [Conns -> Message] /\ pc \in [Conns -> Places]
      BY DEF TypeInv, TypeOK, ThreadsTypeOK
    <3>2. msg_received[d].type # "CONNECT"
      BY <2>1, <3>1 DEF Dispatch, Goto, Acting, InPost, AtLoop, AtSlot
    <3>3. /\ Registered(d) /\ InSession(d) /\ UNCHANGED name
          /\ msg_received' = [msg_received EXCEPT ![d].username = Mine(d).username]
      BY <2>1, <3>2 DEF Dispatch, InSession
    <3>4. Mine(d).username = name[d] /\ name[d] # Empty
      BY <3>3 DEF SlotNames, Registered
    <3> QED  BY <3>1, <3>3, <3>4 DEF Message
  <2> QED  BY <1>2, <1>3, <2>1, EnterActing
<1> QED  BY <1>2, <1>3, StepOf DEF Acting, InPost, AtLoop, AtSlot

(* Who follows has a name.                                                 *)
LEMMA FollowerNamesNext == TypeInv /\ OwnInv /\ NamesInv /\ [Next]_vars => FollowerNames'
<1> SUFFICES ASSUME TypeInv, OwnInv, NamesInv, [Next]_vars PROVE FollowerNames'
  OBVIOUS
<1>1. CASE UNCHANGED follow_list  BY <1>1 DEF NamesInv, FollowerNames
<1>2. ASSUME NEW c \in Conns, Follow(c) PROVE FollowerNames'
  <2> DEFINE pair == Pair(msg_received[c].username, Stored[msg_received[c].content])
  <2>1. pair \in [follower : String, followed : String] /\ pair.follower # Empty
    <3>1. msg_received[c].username # Empty
      BY <1>2 DEF Follow, NamesInv, ActingNames, Acting
    <3>2. msg_received[c].username \in String /\ msg_received[c].content \in String
      BY DEF Message, TypeInv, TypeOK, ThreadsTypeOK
    <3> QED  BY <3>1, <3>2, StoredType DEF Pair
  <2>2. follow_list' = follow_list \/ follow_list' = Append(follow_list, pair)
    BY <1>2 DEF Follow, AddFollow
  <2> HIDE DEF pair
  <2>3. CASE follow_list' = Append(follow_list, pair)
    <3>1. follow_list \in Seq([follower : String, followed : String])
      BY DEF TypeInv, TypeOK, FollowsTypeOK
    <3>2. /\ follow_list' \in Seq([follower : String, followed : String])
          /\ Len(follow_list') = Len(follow_list) + 1
          /\ \A k \in 1 .. Len(follow_list) : follow_list'[k] = follow_list[k]
          /\ follow_list'[Len(follow_list) + 1] = pair
      BY <2>1, <2>3, <3>1, AppendProperties
    <3>3. DOMAIN follow_list' = 1 .. Len(follow_list')
          /\ DOMAIN follow_list = 1 .. Len(follow_list) /\ Len(follow_list) \in Nat
      BY <3>1, <3>2, LenProperties
    <3> QED  BY <2>1, <3>2, <3>3 DEF NamesInv, FollowerNames
  <2> QED  BY <2>2, <2>3, <1>1
<1>3. ASSUME NEW c \in Conns, HandlerStep(c) PROVE Follow(c) \/ UNCHANGED follow_list
  BY <1>3, ThreadWrites
<1>4. ASSUME NEW c \in Conns, Leave(c) \/ StallOrResume(c) PROVE UNCHANGED follow_list
  BY <1>4, PeersWrite
<1>5. ASSUME MainStep PROVE UNCHANGED follow_list  BY <1>5, MainWrites
<1>6. CASE UNCHANGED vars  BY <1>1, <1>6 DEF vars
<1> QED  BY <1>1, <1>2, <1>3, <1>4, <1>5, <1>6 DEF Next

LEMMA NamesNext == TypeInv /\ OwnInv /\ NamesInv /\ [Next]_vars => NamesInv'
BY SlotNamesNext, ActingNamesNext, FollowerNamesNext DEF NamesInv

(* A named client has its name to the end of its session, whatever it      *)
(* sends and whoever comes and goes (RECEIVED_MSG_CONNECT,                 *)
(* waitForClientConnection).                                               *)
THEOREM NamesAreKept == Spec => NameKept
<1>1. TypeInv /\ OwnInv /\ NamesInv /\ NamesInv' /\ [Next]_vars =>
        \A c \in Conns : name[c] # Empty /\ InSession(c)' => (Mine(c).username)' = name[c]
  <2> SUFFICES ASSUME TypeInv, OwnInv, NamesInv, NamesInv', [Next]_vars, NEW c \in Conns,
                      name[c] # Empty, InSession(c)'
               PROVE  (Mine(c).username)' = name[c]
    OBVIOUS
  <2>1. name'[c] = name[c]  BY NameStays DEF NamesInv
  <2> QED  BY <2>1 DEF NamesInv, SlotNames
<1> QED
  BY <1>1, TypeInvInit, TypeInvNext, OwnInit, OwnNext, NamesInit, NamesNext, PTL
     DEF Spec, NameKept

-----------------------------------------------------------------------------
(* How a thread gets where it is, and what it stays with there.            *)

(* Each place of a thread is entered by these steps only.                  *)
LEMMA PlacesEntered ==
  ASSUME TypeInv, NEW c \in Conns, HandlerStep(c)
  PROVE  /\ pc'[c] = "post" => Dispatch(c)
         /\ pc'[c] = "add" => AssignId(c)
         /\ pc'[c] = "collect" => AddToFeed(c)
         /\ pc'[c] = "notify" => CollectFollowers(c) \/ NextFollower(c)
         /\ pc'[c] = "lock" => CollectSlots(c) \/ UnlockPush(c)
         /\ pc'[c] = "check" => LockForPush(c)
         /\ pc'[c] = "fd" => CheckSlot(c)
         /\ pc'[c] = "send" => ReadFd(c)
         /\ pc'[c] = "sending" => EnterSend(c)
         /\ pc'[c] = "unlock" => CheckSlot(c) \/ SendPush(c)
         /\ pc'[c] = "read_lock" => GetFeedMessages(c)
         /\ pc'[c] = "send_feed" => LockForFeed(c) \/ SendFeedItem(c)
         /\ pc'[c] = "read_unlock" => SendEnd(c)
<1>1. pc \in [Conns -> Places]  BY DEF TypeInv, TypeOK, ThreadsTypeOK
<1> USE DEF Goto
<1>2. CASE Start(c) \/ ReceiveMessage(c) \/ Close(c) \/ Register(c) \/ Follow(c)
  BY <1>1, <1>2 DEF Start, ReceiveMessage, Close, Register, Follow
<1>3. CASE Disconnect(c) \/ RefuseUnregistered(c) \/ RefuseEmptyName(c)
  BY <1>1, <1>3 DEF Disconnect, RefuseUnregistered, RefuseEmptyName, LeaveSlot
<1>4. CASE Dispatch(c)  BY <1>1, <1>4 DEF Dispatch
<1>5. CASE AssignId(c) \/ AddToFeed(c) \/ CollectFollowers(c) \/ CollectSlots(c)
  BY <1>1, <1>5 DEF AssignId, AddToFeed, CollectFollowers, CollectSlots
<1>6. CASE LockForPush(c) \/ CheckSlot(c) \/ ReadFd(c) \/ EnterSend(c) \/ SendPush(c)
  BY <1>1, <1>6 DEF LockForPush, CheckSlot, ReadFd, EnterSend, SendPush
<1>7. CASE UnlockPush(c) \/ NextFollower(c) \/ FinishPost(c)
  BY <1>1, <1>7 DEF UnlockPush, NextFollower, FinishPost
<1>8. CASE GetFeedMessages(c) \/ LockForFeed(c) \/ SendEnd(c) \/ UnlockFeed(c)
  BY <1>1, <1>8 DEF GetFeedMessages, LockForFeed, SendEnd, UnlockFeed
<1>9. CASE SendFeedItem(c)  BY <1>1, <1>9 DEF SendFeedItem
<1> QED  BY <1>2, <1>3, <1>4, <1>5, <1>6, <1>7, <1>8, <1>9 DEF HandlerStep

(* No step of another takes the socket of a session away.                  *)
LEMMA SocketStays ==
  ASSUME TypeInv, OwnInv, [Next]_vars, NEW e \in Conns, InSession(e), NEW f, OpenAt(f) = e
  PROVE  OpenAt(f)' = e
<1>1. /\ fdTable \in [Fds -> Conns \cup {NoConn}] /\ NoConn \notin Conns
      /\ f \in Fds /\ fdTable[f] = e
  BY ServerAssumption DEF TypeInv, TypeOK, KernelTypeOK, OpenAt
<1>2. CASE UNCHANGED fdTable  BY <1>1, <1>2 DEF OpenAt
<1>3. CASE Accept  BY <1>1, <1>3 DEF Accept, OpenAt
<1>4. CASE RejectClient \/ CloseRefused
  <2>1. /\ main_pc # "accept"
        /\ fdTable' = [fdTable EXCEPT ![client_socket] = NoConn]
    BY <1>4 DEF RejectClient, CloseRefused
  <2>2. f # client_socket  BY <1>1, <2>1 DEF OwnInv, MainHolds, InSession
  <2> QED  BY <1>1, <2>1, <2>2 DEF OpenAt
<1>5. ASSUME NEW c \in Conns, Close(c) PROVE OpenAt(f)' = e
  <2>1. pc[c] = "close" /\ fdTable' = [fdTable EXCEPT ![client_fd[c]] = NoConn]
    BY <1>5 DEF Close
  <2>2. OpenAt(client_fd[c]) = c /\ c # e
    BY <2>1 DEF OwnInv, ClosingHolds, InSession
  <2> QED  BY <1>1, <2>1, <2>2 DEF OpenAt
<1>6. ASSUME NEW c \in Conns, HandlerStep(c) PROVE Close(c) \/ UNCHANGED fdTable
  BY <1>6, ThreadWrites
<1>7. ASSUME NEW c \in Conns, Leave(c) \/ StallOrResume(c) PROVE UNCHANGED fdTable
  BY <1>7, PeersWrite DEF kernelVars
<1>8. CASE UNCHANGED vars  BY <1>2, <1>8 DEF vars, kernelVars
<1> QED  BY <1>2, <1>3, <1>4, <1>5, <1>6, <1>7, <1>8, MainWrites DEF Next

-----------------------------------------------------------------------------
(* The followers that are to be notified.                                  *)

(* to_notify holds followers of the author.                                *)
LEMMA FollowersOfSound ==
  ASSUME NEW list \in Seq([follower : String, followed : String]),
         NEW user, NEW limit \in Nat, NEW k \in DOMAIN FollowersOf(list, user, limit)
  PROVE  Follows(list, FollowersOf(list, user, limit)[k], user)
<1> DEFINE Found == {i \in DOMAIN list : list[i].followed = user}
           At    == Ascending(Found)
<1>1. DOMAIN list = 1 .. Len(list) /\ Len(list) \in Nat  BY LenProperties
<1>2. Found \in SUBSET Nat /\ IsFiniteSet(Found)
  <2>1. IsFiniteSet(1 .. Len(list)) /\ Found \in SUBSET (1 .. Len(list))
    BY <1>1, FS_Interval
  <2> QED  BY <1>1, <2>1, FS_Subset
<1>3. \A i \in DOMAIN At : At[i] \in Found  BY <1>2, AscendingType
<1>4. FollowersOf(list, user, limit) =
        [i \in {n \in DOMAIN At : n <= limit} |-> list[At[i]].follower]
  BY DEF FollowersOf
<1> HIDE DEF At
<1>5. At[k] \in DOMAIN list /\ list[At[k]].followed = user  BY <1>3, <1>4
<1>6. list[At[k]] \in [follower : String, followed : String]
  BY <1>1, <1>5, ElementOfSeq
<1>7. list[At[k]] = Pair(list[At[k]].follower, user)  BY <1>5, <1>6 DEF Pair
<1> QED  BY <1>4, <1>5, <1>7 DEF Follows

QueueInv ==
  \A c \in Conns : pc[c] \in {"notify"} \cup AtLoop =>
    \A k \in DOMAIN to_notify[c] : Follows(follow_list, to_notify[c][k], name[c])

LEMMA QueueInit == Init => QueueInv
BY DEF Init, QueueInv, AtLoop, AtSlot

LEMMA QueueNext == TypeInv /\ OwnInv /\ NamesInv /\ QueueInv /\ [Next]_vars => QueueInv'
<1> SUFFICES ASSUME TypeInv, OwnInv, NamesInv, QueueInv, [Next]_vars,
                    NEW d \in Conns, pc'[d] \in {"notify"} \cup AtLoop,
                    NEW k \in DOMAIN to_notify'[d]
             PROVE  Follows(follow_list', to_notify'[d][k], name'[d])
  BY DEF QueueInv, Follows
<1> DEFINE Goal == Follows(follow_list', to_notify'[d][k], name'[d])
<1>1. ASSUME NEW a, Follows(follow_list, a, name[d]),
             pc[d] \in Acting, to_notify'[d][k] = a
      PROVE  Goal
  <2>1. name'[d] = name[d]  BY <1>1, NameStays DEF NamesInv, ActingNames
  <2> QED  BY <1>1, <2>1, FollowsStay
<1>2. CASE pc[d] \in {"notify"} \cup AtLoop /\ to_notify'[d] = to_notify[d]
  <2>1. pc[d] \in Acting  BY <1>2 DEF Acting, InPost
  <2> QED  BY <1>1, <1>2, <2>1 DEF QueueInv
<1>3. CASE HandlerStep(d)
  <2>1. CASE CollectFollowers(d)
    <3>1. to_notify \in [Conns -> Seq(String)]  BY DEF TypeInv, TypeOK, PostsTypeOK
    <3>2. /\ pc[d] = "collect"
          /\ to_notify'[d] = FollowersOf(follow_list, msg_received[d].username, MaxClients)
      BY <2>1, <3>1 DEF CollectFollowers
    <3>3. pc[d] \in Acting  BY <3>2 DEF Acting, InPost
    <3>4. msg_received[d].username = name[d]
      BY <3>3 DEF NamesInv, ActingNames
    <3>5. follow_list \in Seq([follower : String, followed : String]) /\ MaxClients \in Nat
      BY ServerAssumption DEF TypeInv, TypeOK, FollowsTypeOK
    <3>6. Follows(follow_list, to_notify'[d][k], name[d])
      BY <3>2, <3>4, <3>5, FollowersOfSound
    <3> QED  BY <1>1, <3>3, <3>6
  <2>2. CASE NextFollower(d)
    <3>1. to_notify \in [Conns -> Seq(String)]  BY DEF TypeInv, TypeOK, PostsTypeOK
    <3>2. /\ pc[d] = "lock" /\ to_notify'[d] = Tail(to_notify[d]) /\ to_notify[d] # <<>>
      BY <2>2, <3>1 DEF NextFollower, TypeInv, PushLoop
    <3>3. /\ Tail(to_notify[d]) \in Seq(String)
          /\ Len(Tail(to_notify[d])) = Len(to_notify[d]) - 1
          /\ \A i \in 1 .. Len(Tail(to_notify[d])) : Tail(to_notify[d])[i] = to_notify[d][i + 1]
      BY <3>1, <3>2, HeadTailProperties
    <3>4. /\ k \in 1 .. Len(to_notify[d]) - 1 /\ Len(to_notify[d]) \in Nat
          /\ DOMAIN to_notify[d] = 1 .. Len(to_notify[d])
      BY <3>1, <3>2, <3>3, LenProperties
    <3>5. k + 1 \in DOMAIN to_notify[d] /\ to_notify'[d][k] = to_notify[d][k + 1]
      BY <3>2, <3>3, <3>4
    <3>6. pc[d] \in Acting /\ pc[d] \in {"notify"} \cup AtLoop
      BY <3>2 DEF Acting, InPost, AtLoop
    <3> QED  BY <1>1, <3>5, <3>6 DEF QueueInv
  <2>3. CASE ~CollectFollowers(d) /\ ~NextFollower(d)
    <3>1. UNCHANGED to_notify  BY <1>3, <2>3, ThreadWrites
    <3>2. pc[d] \in {"notify"} \cup AtLoop
      BY <1>3, <2>3, PlacesEntered DEF AtLoop, AtSlot, CollectSlots, UnlockPush,
         LockForPush, CheckSlot, ReadFd, EnterSend, SendPush
    <3> QED  BY <1>2, <3>1, <3>2
  <2> QED  BY <2>1, <2>2, <2>3
<1> QED  BY <1>2, <1>3, StepOf DEF AtLoop, AtSlot

-----------------------------------------------------------------------------
(* The post that is being sent.                                            *)

(* A thread that sends pushes sends the post that it entered in the log.   *)
LoggedInv ==
  \A c \in Conns : pc[c] \in InPost =>
    \E k \in DOMAIN log : log[k].by = c /\ log[k].post = PostOf(msg_received[c])

LEMMA LoggedInit == Init => LoggedInv
BY DEF Init, LoggedInv, InPost, AtLoop, AtSlot

(* A post stays as it is from the feed to the end of its pushes.           *)
LEMMA InPostStays ==
  ASSUME TypeInv, OwnInv, [Next]_vars, NEW c \in Conns, pc'[c] \in InPost
  PROVE  AddToFeed(c) \/ (pc[c] \in InPost /\ msg_received'[c] = msg_received[c])
<1>1. CASE HandlerStep(c) /\ ~AddToFeed(c)
  <2>1. pc[c] \in InPost
    BY <1>1, PlacesEntered DEF InPost, AtLoop, AtSlot, CollectFollowers, NextFollower,
       CollectSlots, UnlockPush, LockForPush, CheckSlot, ReadFd, EnterSend, SendPush
  <2>2. UNCHANGED msg_received
    BY <1>1, <2>1, ThreadWrites DEF InPost, AtLoop, AtSlot, ReceiveMessage, Dispatch,
       Register, AssignId
  <2> QED  BY <2>1, <2>2
<1> QED  BY <1>1, StepOf DEF InPost, AtLoop, AtSlot

LEMMA LoggedNext == TypeInv /\ OwnInv /\ LoggedInv /\ [Next]_vars => LoggedInv'
<1> SUFFICES ASSUME TypeInv, OwnInv, LoggedInv, [Next]_vars,
                    NEW c \in Conns, pc'[c] \in InPost
             PROVE  \E k \in DOMAIN log' :
                      log'[k].by = c /\ log'[k].post = PostOf(msg_received'[c])
  BY DEF LoggedInv, PostOf
<1>1. CASE AddToFeed(c)
  <2> DEFINE entry == [post |-> PostOf(msg_received[c]), by |-> c]
  <2>1. log \in Seq([post : Post, by : Conns]) /\ Len(log) \in Nat
    BY LenProperties DEF TypeInv, TypeOK, FeedTypeOK
  <2>2. entry \in [post : Post, by : Conns]
    BY DEF PostOf, Post, Message, TypeInv, TypeOK, ThreadsTypeOK
  <2>3. log' = Append(log, entry) /\ msg_received' = msg_received
    BY <1>1 DEF AddToFeed, threadVars
  <2>4. entry.by = c /\ entry.post = PostOf(msg_received'[c])  BY <2>3
  <2> HIDE DEF entry
  <2>5. Len(log) + 1 \in DOMAIN log' /\ log'[Len(log) + 1] = entry
    <3>1. Append(log, entry) \in Seq([post : Post, by : Conns])
          /\ Len(Append(log, entry)) = Len(log) + 1
          /\ Append(log, entry)[Len(log) + 1] = entry
      BY <2>1, <2>2, AppendProperties
    <3>2. DOMAIN Append(log, entry) = 1 .. Len(log) + 1  BY <3>1, LenProperties
    <3> QED  BY <2>1, <2>3, <3>1, <3>2
  <2> QED  BY <2>4, <2>5
<1>2. CASE pc[c] \in InPost /\ msg_received'[c] = msg_received[c]
  <2>1. PICK k \in DOMAIN log : log[k].by = c /\ log[k].post = PostOf(msg_received[c])
    BY <1>2 DEF LoggedInv
  <2> QED  BY <1>2, <2>1, ListsGrow
<1> QED  BY <1>1, <1>2, InPostStays

-----------------------------------------------------------------------------
(* Whom a thread aims its pushes at.                                       *)

(* Each slot it still has to visit was, when it was collected, the slot of *)
(* a connection with the name of the follower.                             *)
AimedAt(c, t) ==
  /\ aim[c][t] \in Conns
  /\ pc[aim[c][t]] # "none"
  /\ client_index[aim[c][t]] = t
  /\ name[aim[c][t]] = Head(to_notify[c])

(* Once it has read the descriptor from the slot, that is the descriptor   *)
(* of this connection, or the connection has left.                         *)
AimedWell(c) ==
  LET e == aim[c][Idx(c)]
  IN  pc[c] \in {"send", "sending"} /\ InSession(e) =>
        /\ OpenAt(sock[c]) = e
        /\ pc[c] = "sending" => target[c] = e

AimInv ==
  \A c \in Conns :
    /\ pc[c] \in AtLoop => \A t \in slots[c] : AimedAt(c, t)
    /\ AimedWell(c)

LEMMA AimInit == Init => AimInv
BY DEF Init, AimInv, AimedWell, AtLoop, AtSlot

(* The head of to_notify is a name.                                        *)
LEMMA HeadIsName ==
  ASSUME TypeInv, NamesInv, QueueInv, NEW c \in Conns,
         pc[c] \in {"notify"} \cup AtLoop, to_notify[c] # <<>>
  PROVE  /\ Head(to_notify[c]) # Empty
         /\ Follows(follow_list, Head(to_notify[c]), name[c])
<1>1. to_notify[c] \in Seq(String)  BY DEF TypeInv, TypeOK, PostsTypeOK
<1>2. 1 \in DOMAIN to_notify[c] /\ Head(to_notify[c]) = to_notify[c][1]
  <2>1. Len(to_notify[c]) \in Nat \ {0} /\ DOMAIN to_notify[c] = 1 .. Len(to_notify[c])
    BY <1>1, EmptySeq, LenProperties
  <2> QED  BY <2>1
<1>3. Follows(follow_list, Head(to_notify[c]), name[c])  BY <1>2 DEF QueueInv
<1> QED  BY <1>3 DEF Follows, Pair, NamesInv, FollowerNames

(* processPostMessage collects the slots of sessions only: a slot that     *)
(* main is about to hand to a new thread has no name.                      *)
LEMMA CollectAims ==
  ASSUME TypeInv, OwnInv, NamesInv, QueueInv, NEW c \in Conns, CollectSlots(c)
  PROVE  /\ pc'[c] = "lock" /\ slots'[c] \subseteq Slots
         /\ \A t \in slots'[c] :
              /\ aim'[c][t] \in Conns /\ InSession(aim'[c][t])
              /\ client_index[aim'[c][t]] = t
              /\ name[aim'[c][t]] = Head(to_notify[c])
         /\ \A d \in Conns : InSession(d) /\ name[d] = Head(to_notify[c]) =>
              client_index[d] \in slots'[c] /\ aim'[c][client_index[d]] = d
<1>1. /\ aim \in [Conns -> [Slots -> Conns \cup {NoConn}]] /\ slots \in [Conns -> SUBSET Slots]
      /\ pc \in [Conns -> Places] /\ client_index \in [Conns -> Slots]
  BY DEF TypeInv, TypeOK, PostsTypeOK, ThreadsTypeOK
<1>2. Head(to_notify[c]) # Empty
  BY HeadIsName DEF CollectSlots
<1>3. /\ slots'[c] = SlotsOf(Head(to_notify[c])) /\ pc'[c] = "lock"
      /\ \A t \in Slots : aim'[c][t] =
           IF \E d \in Conns : InSession(d) /\ client_index[d] = t
           THEN CHOOSE d \in Conns : InSession(d) /\ client_index[d] = t
           ELSE NoConn
  BY <1>1 DEF CollectSlots, Goto
<1>4. \A d \in Conns : InSession(d) => aim'[c][client_index[d]] = d
  <2> TAKE d \in Conns
  <2> HAVE InSession(d)
  <2>1. \A e \in Conns : InSession(e) /\ client_index[e] = client_index[d] => e = d
    BY DEF OwnInv, SlotOwnership
  <2>2. (CHOOSE e \in Conns : InSession(e) /\ client_index[e] = client_index[d]) = d
    BY <2>1
  <2> QED  BY <1>1, <1>3, <2>2
<1>5. \A d \in Conns : InSession(d) /\ name[d] = Head(to_notify[c]) =>
        client_index[d] \in slots'[c]
  BY <1>1, <1>3 DEF SlotsOf, Mine, OwnInv, SlotOwnership, NamesInv, SlotNames
<1>6. ASSUME NEW t \in slots'[c]
      PROVE  \E d \in Conns : /\ InSession(d) /\ client_index[d] = t
                              /\ name[d] = Head(to_notify[c])
  <2>1. t \in Slots /\ clients[t].active /\ clients[t].username = Head(to_notify[c])
    BY <1>3, <1>6 DEF SlotsOf
  <2>2. ~MainHasSlot(t)
    BY <1>2, <2>1 DEF CollectSlots, ClientsMutexFree, MainHasSlot, NamesInv, SlotNames
  <2>3. PICK d \in Conns : InSession(d) /\ client_index[d] = t
    BY <2>1, <2>2 DEF OwnInv, NothingLeaks
  <2>4. name[d] = Head(to_notify[c])  BY <2>1, <2>3 DEF NamesInv, SlotNames, Mine
  <2> QED  BY <2>3, <2>4
<1>7. slots'[c] \subseteq Slots  BY <1>3 DEF SlotsOf
<1>8. \A t \in slots'[c] :
        /\ aim'[c][t] \in Conns /\ InSession(aim'[c][t])
        /\ client_index[aim'[c][t]] = t
        /\ name[aim'[c][t]] = Head(to_notify[c])
  BY <1>4, <1>6
<1> QED  BY <1>3, <1>4, <1>5, <1>7, <1>8

(* Within the loop over the slots of a follower only the end of a slot's   *)
(* turn changes what is to be visited.                                     *)
LEMMA LoopStays ==
  ASSUME TypeInv, OwnInv, [Next]_vars, NEW c \in Conns, pc'[c] \in AtLoop
  PROVE  \/ CollectSlots(c)
         \/ /\ pc[c] \in AtLoop /\ to_notify'[c] = to_notify[c] /\ aim'[c] = aim[c]
            /\ slots'[c] = slots[c] \/ (UnlockPush(c) /\ slots'[c] = slots[c] \ {Idx(c)})
<1>1. CASE HandlerStep(c) /\ ~CollectSlots(c)
  <2>1. pc[c] \in AtLoop
    BY <1>1, PlacesEntered DEF AtLoop, AtSlot, CollectSlots, UnlockPush, LockForPush,
       CheckSlot, ReadFd, EnterSend, SendPush
  <2>2. ~CollectFollowers(c)  BY <2>1 DEF CollectFollowers, AtLoop, AtSlot
  <2>3. ~NextFollower(c)
    <3>1. pc \in [Conns -> Places]  BY DEF TypeInv, TypeOK, ThreadsTypeOK
    <3> QED  BY <3>1 DEF NextFollower, Goto, AtLoop, AtSlot
  <2>4. UNCHANGED <<to_notify, aim>>  BY <1>1, <2>2, <2>3, ThreadWrites
  <2>5. UnlockPush(c) => slots'[c] = slots[c] \ {Idx(c)}
    BY DEF UnlockPush, TypeInv, TypeOK, PostsTypeOK
  <2>6. UnlockPush(c) \/ UNCHANGED slots  BY <1>1, ThreadWrites
  <2> QED  BY <2>1, <2>4, <2>5, <2>6
<1> QED  BY <1>1, StepOf DEF AtLoop, AtSlot

(* While a thread is busy with a slot there is one: idx is one of its      *)
(* slots.                                                                  *)
LEMMA IdxIn ==
  ASSUME TypeInv, NEW c \in Conns, pc[c] \in AtSlot
  PROVE  Idx(c) \in slots[c] /\ Idx(c) \in Slots
<1>1. slots[c] \in SUBSET Slots /\ slots[c] # {}
  BY DEF TypeInv, TypeOK, PostsTypeOK, PushLoop
<1> QED  BY <1>1, LowestIn DEF Idx

(* A session that is on has been on since its thread was created.          *)
LEMMA SessionWasOn ==
  ASSUME TypeInv, OwnInv, [Next]_vars, NEW e \in Conns, pc[e] # "none", InSession(e)'
  PROVE  InSession(e)
BY OneSession DEF InSession, Departed

(* What was true of a collected slot stays true of the connection it was   *)
(* collected for, whoever has the slot by then.                            *)
LEMMA AimsStay ==
  ASSUME TypeInv, OwnInv, NamesInv, QueueInv, AimInv, [Next]_vars, NEW c \in Conns,
         pc'[c] \in AtLoop, NEW t \in slots'[c]
  PROVE  AimedAt(c, t)'
<1> USE DEF AimedAt
<1>1. CASE CollectSlots(c)
  <2>1. /\ aim'[c][t] \in Conns /\ InSession(aim'[c][t])
        /\ client_index[aim'[c][t]] = t
        /\ name[aim'[c][t]] = Head(to_notify[c])
    BY <1>1, CollectAims
  <2>2. UNCHANGED <<to_notify, name>>  BY <1>1 DEF CollectSlots
  <2>3. pc[aim'[c][t]] # "none"  BY <2>1 DEF InSession
  <2> QED  BY <2>1, <2>2, <2>3, OneSession
<1>2. CASE ~CollectSlots(c)
  <2>1. /\ pc[c] \in AtLoop /\ to_notify'[c] = to_notify[c] /\ aim'[c] = aim[c]
        /\ slots'[c] \subseteq slots[c]
    BY <1>2, LoopStays
  <2>2. AimedAt(c, t)  BY <2>1 DEF AimInv
  <2>3. Head(to_notify[c]) # Empty
    BY <2>1, HeadIsName DEF TypeInv, PushLoop, AtLoop
  <2>4. name'[aim[c][t]] = name[aim[c][t]]  BY <2>2, <2>3, NameStays DEF NamesInv
  <2> QED  BY <2>1, <2>2, <2>4, OneSession
<1> QED  BY <1>1, <1>2

(* The descriptor read from the slot stays that of the connection aimed at *)
(* as long as this is in session.                                          *)
LEMMA SockAimed ==
  ASSUME TypeInv, OwnInv, NamesInv, QueueInv, AimInv, [Next]_vars, NEW c \in Conns
  PROVE  AimedWell(c)'
<1> SUFFICES ASSUME pc'[c] \in {"send", "sending"}, InSession(aim[c][Idx(c)])'
             PROVE  /\ OpenAt(sock[c])' = (aim[c][Idx(c)])'
                    /\ pc'[c] = "sending" => target'[c] = (aim[c][Idx(c)])'
  BY DEF AimedWell
<1>1. /\ pc \in [Conns -> Places] /\ sock \in [Conns -> Fds \cup {0}]
      /\ target \in [Conns -> Conns \cup {NoConn}]
  BY DEF TypeInv, TypeOK, ThreadsTypeOK, PostsTypeOK
<1>2. /\ pc[c] \in AtLoop /\ aim'[c] = aim[c] /\ slots'[c] = slots[c]
      /\ ~CollectSlots(c) /\ ~UnlockPush(c)
  <2>1. ~CollectSlots(c) /\ ~UnlockPush(c)
    BY <1>1 DEF CollectSlots, UnlockPush, Goto
  <2> QED  BY <2>1, LoopStays DEF AtLoop, AtSlot
<1>3. (aim[c][Idx(c)])' = aim[c][Idx(c)]  BY <1>2 DEF Idx
<1>4. pc[c] \in AtSlot
  <2>1. HandlerStep(c) => pc[c] # "lock"
    BY PlacesEntered DEF ReadFd, EnterSend
  <2> QED  BY <1>2, <2>1, StepOf DEF AtLoop
<1>5. PICK e \in Conns : /\ e = aim[c][Idx(c)] /\ (aim[c][Idx(c)])' = e
                         /\ pc[e] # "none" /\ client_index[e] = Idx(c)
  BY <1>2, <1>3, <1>4, IdxIn DEF AimInv, AimedAt
<1>6. InSession(e)
  <2>1. InSession(e)'  BY <1>5 DEF InSession
  <2> QED  BY <1>5, <2>1, SessionWasOn
<1>7. CASE HandlerStep(c)
  <2>1. CASE ReadFd(c)
    <3>1. pc'[c] = "send" /\ sock'[c] = Mine(e).client_fd
      BY <1>1, <1>5, <2>1 DEF ReadFd, Goto, Mine
    <3>2. OpenAt(sock'[c]) = e
      BY <1>5, <1>6, <3>1 DEF OwnInv, SlotOwnership
    <3>3. UNCHANGED fdTable  BY <2>1 DEF ReadFd, kernelVars
    <3> QED  BY <1>5, <3>1, <3>2, <3>3 DEF OpenAt
  <2>2. CASE EnterSend(c)
    <3>1. /\ pc[c] = "send" /\ target'[c] = OpenAt(sock[c]) /\ UNCHANGED <<sock, fdTable>>
      BY <1>1, <2>2 DEF EnterSend, kernelVars
    <3>2. OpenAt(sock[c]) = e  BY <1>5, <1>6, <3>1 DEF AimInv, AimedWell
    <3> QED  BY <1>5, <3>1, <3>2 DEF OpenAt
  <2> QED  BY <1>7, <2>1, <2>2, PlacesEntered
<1>8. CASE /\ pc'[c] = pc[c] /\ sock'[c] = sock[c] /\ target'[c] = target[c]
  <2>1. OpenAt(sock[c]) = e /\ (pc[c] = "sending" => target[c] = e)
    BY <1>5, <1>6, <1>8 DEF AimInv, AimedWell
  <2>2. OpenAt(sock[c])' = e
    <3>1. PICK f : f = sock[c] /\ f = sock'[c]  BY <1>8
    <3>2. OpenAt(f) = e  BY <2>1, <3>1 DEF OpenAt
    <3>3. OpenAt(f)' = e  BY <1>6, <3>2, SocketStays
    <3> QED  BY <3>1, <3>3 DEF OpenAt
  <2> QED  BY <1>5, <1>8, <2>1, <2>2
<1> QED  BY <1>2, <1>4, <1>7, <1>8, StepOf DEF AtSlot

LEMMA AimNext == TypeInv /\ OwnInv /\ NamesInv /\ QueueInv /\ AimInv /\ [Next]_vars => AimInv'
BY AimsStay, SockAimed DEF AimInv

-----------------------------------------------------------------------------
(* Whom a push reaches.                                                    *)

(* An item that reached a follower stays one of a follower.                *)
LEMMA FollowerStays ==
  ASSUME TypeInv, OwnInv, NamesInv, [Next]_vars, NEW d \in Conns, NEW item, Follower(d, item)
  PROVE  Follower(d, item)'
<1>1. PICK k \in DOMAIN log :
        /\ log[k].by = item.by /\ log[k].post.msg_id = item.msg_id
        /\ Follows(follow_list, name[d], log[k].post.username)
  BY DEF Follower
<1>2. name[d] # Empty
  BY <1>1 DEF Follows, Pair, NamesInv, FollowerNames
<1>3. name'[d] = name[d]  BY <1>2, NameStays DEF NamesInv
<1>4. k \in DOMAIN log' /\ log'[k] = log[k]  BY ListsGrow
<1>5. Follows(follow_list', name[d], log[k].post.username)  BY <1>1, FollowsStay
<1> QED  BY <1>1, <1>3, <1>4, <1>5 DEF Follower

(* What is true of each push, in a form that later steps do not undo.      *)
PushFits(d, item) ==
  IF item.to = d THEN Follower(d, item) ELSE item.to \in Conns /\ Departed(item.to)

PushedInv ==
  \A d \in Conns : \A k \in DOMAIN rcvd[d] :
    rcvd[d][k].kind = "push" => PushFits(d, rcvd[d][k])

LEMMA PushedInit == Init => PushedInv
BY DEF Init, PushedInv

(* A push that is sent to a connection is for a follower, or the           *)
(* connection it was for has left.                                         *)
LEMMA PushGoesWhereAimed ==
  ASSUME TypeInv, OwnInv, NamesInv, QueueInv, LoggedInv, AimInv,
         NEW c \in Conns, SendPush(c), NEW d \in Conns, target[c] = d
  PROVE  PushFits(d, Push(c))
<1>1. pc[c] = "sending"  BY DEF SendPush
<1>2. PICK e \in Conns : /\ e = aim[c][Idx(c)] /\ pc[e] # "none"
                         /\ name[e] = Head(to_notify[c])
  BY <1>1, IdxIn DEF AimInv, AimedAt, AtLoop, AtSlot
<1>3. Push(c).to = e /\ Push(c).by = c /\ Push(c).msg_id = msg_received[c].msg_id
  BY <1>2 DEF Push
<1>4. CASE e # d
  <2>1. ~InSession(e)  BY <1>1, <1>2, <1>4 DEF AimInv, AimedWell, InSession
  <2> QED  BY <1>2, <1>3, <1>4, <2>1 DEF PushFits, Departed, InSession
<1>5. CASE e = d
  <2>1. PICK k \in DOMAIN log : log[k].by = c /\ log[k].post = PostOf(msg_received[c])
    BY <1>1 DEF LoggedInv, InPost, AtLoop, AtSlot
  <2>2. to_notify[c] # <<>>  BY <1>1 DEF TypeInv, PushLoop, AtSlot
  <2>3. Follows(follow_list, name[d], name[c])
    BY <1>1, <1>2, <1>5, <2>2, HeadIsName DEF AtLoop, AtSlot
  <2>4. msg_received[c].username = name[c]
    BY <1>1 DEF NamesInv, ActingNames, Acting, InPost, AtLoop, AtSlot
  <2>5. Follower(d, Push(c))
    BY <1>3, <2>1, <2>3, <2>4 DEF Follower, PostOf
  <2> QED  BY <1>3, <1>5, <2>5 DEF PushFits
<1> QED  BY <1>4, <1>5

LEMMA PushedNext ==
  /\ TypeInv /\ OwnInv /\ NamesInv /\ QueueInv /\ LoggedInv /\ AimInv /\ PushedInv
  /\ [Next]_vars
  => PushedInv'
<1> SUFFICES ASSUME TypeInv, OwnInv, NamesInv, QueueInv, LoggedInv, AimInv, PushedInv,
                    [Next]_vars, NEW d \in Conns, NEW k \in DOMAIN rcvd'[d],
                    rcvd'[d][k].kind = "push"
             PROVE  PushFits(d, rcvd[d][k])'
  BY DEF PushedInv
<1>1. PICK item : item = rcvd'[d][k]  OBVIOUS
<1>2. PushFits(d, item)
  <2>1. CASE k \in DOMAIN rcvd[d] /\ rcvd'[d][k] = rcvd[d][k]
    BY <1>1, <2>1 DEF PushedInv
  <2>2. ASSUME NEW c \in Conns, SendPush(c), target[c] = d, item = Push(c)
        PROVE  PushFits(d, item)
    BY <2>2, PushGoesWhereAimed
  <2>3. \/ k \in DOMAIN rcvd[d] /\ rcvd'[d][k] = rcvd[d][k]
        \/ \E c \in Conns : SendPush(c) /\ target[c] = d /\ item = Push(c)
    <3>1. CASE rcvd'[d] = rcvd[d]  BY <3>1
    <3>2. CASE rcvd'[d] # rcvd[d]
      <4>1. PICK new \in Item :
              /\ rcvd'[d] = Append(rcvd[d], new)
              /\ \/ \E c \in Conns : SendPush(c) /\ target[c] = d /\ new = Push(c)
                 \/ new.kind # "push"
        BY <3>2, ItemsArrive
      <4>2. rcvd[d] \in Seq(Item)  BY DEF TypeInv, TypeOK, ClientsTypeOK
      <4>3. (k \in DOMAIN rcvd[d] /\ rcvd'[d][k] = rcvd[d][k]) \/ rcvd'[d][k] = new
        BY <4>1, <4>2, Appended
      <4> QED  BY <1>1, <4>1, <4>3
    <3> QED  BY <3>1, <3>2
  <2> QED  BY <2>1, <2>2, <2>3
<1>3. PushFits(d, item)'
  BY <1>2, FollowerStays, OneSession DEF PushFits
<1> QED  BY <1>1, <1>3 DEF PushFits, Follower

(* The invariants about whom a thread sends to.                            *)
SendInv == NamesInv /\ QueueInv /\ LoggedInv /\ AimInv /\ PushedInv

LEMMA SendInvInit == Init => SendInv
BY NamesInit, QueueInit, LoggedInit, AimInit, PushedInit DEF SendInv

LEMMA SendInvNext == TypeInv /\ OwnInv /\ SendInv /\ [Next]_vars => SendInv'
BY NamesNext, QueueNext, LoggedNext, AimNext, PushedNext DEF SendInv

(* A push that reaches a connection was meant for it and it follows the    *)
(* author of the post, or it was meant for a session that had ended: slots *)
(* and descriptors that change hands between the looks of                  *)
(* processPostMessage do no other harm.                                    *)
THEOREM PushesReachFollowers == Spec => []PushForFollowerUnlessGone
<1>1. PushedInv => PushForFollowerUnlessGone
  BY DEF PushedInv, PushFits, PushForFollowerUnlessGone, Departed, InSession
<1> QED  BY TypeInvInit, TypeInvNext, OwnInit, OwnNext, SendInvInit, SendInvNext, <1>1,
            PTL DEF Spec, SendInv

-----------------------------------------------------------------------------
(* What comes between the items of an answer.                              *)
GoneAway(d) == peer[d] \in {"closed", "reset"}

(* A client that has gone does not come back.                              *)
LEMMA GoneStays ==
  ASSUME TypeInv, [Next]_vars, NEW d \in Conns, GoneAway(d)
  PROVE  GoneAway(d)'
<1>1. peer \in [Conns -> {"new", "reading", "stalled", "closed", "reset"}]
  BY DEF TypeInv, TypeOK, ClientsTypeOK
<1>2. CASE Accept  BY <1>1, <1>2 DEF Accept, GoneAway
<1>3. ASSUME NEW e, NEW item, Send(e, item) PROVE GoneAway(d)'
  BY <1>1, <1>3 DEF Send, GoneAway
<1>4. ASSUME NEW c \in Conns, HandlerStep(c)
      PROVE  (\E e, item : Send(e, item)) \/ UNCHANGED peer
  <2>1. SendPush(c) => Send(target[c], Push(c))  BY DEF SendPush
  <2>2. SendFeedItem(c) => \E e, item : Send(e, item)  BY DEF SendFeedItem
  <2>3. SendEnd(c) => \E e, item : Send(e, item)  BY DEF SendEnd
  <2> QED  BY <1>4, <2>1, <2>2, <2>3, ThreadWrites
<1>5. ASSUME NEW c \in Conns, Leave(c) \/ StallOrResume(c) PROVE GoneAway(d)'
  BY <1>1, <1>5 DEF Leave, StallOrResume, Here, GoneAway
<1>6. CASE UNCHANGED peer  BY <1>6 DEF GoneAway
<1> QED  BY <1>2, <1>3, <1>4, <1>5, <1>6, MainWrites DEF Next, vars, peerVars

(* A client that has got an item of an answer has a thread, and if it was  *)
(* the last it got, the thread is still sending or the client has gone.    *)
AnswerOpen(d) == pc[d] = "send_feed" \/ GoneAway(d)

AnswerInv ==
  \A d \in Conns : \A k \in DOMAIN rcvd[d] : rcvd[d][k].kind = "feed" =>
    /\ pc[d] # "none"
    /\ k = Len(rcvd[d]) => AnswerOpen(d)

LEMMA AnswerInit == Init => AnswerInv
BY DEF Init, AnswerInv

(* Between its items a thread does nothing but send the next.              *)
LEMMA AnswerNext == TypeInv /\ OwnInv /\ AnswerInv /\ [Next]_vars => AnswerInv'
<1> SUFFICES ASSUME TypeInv, OwnInv, AnswerInv, [Next]_vars, NEW d \in Conns,
                    NEW k \in DOMAIN rcvd'[d], rcvd'[d][k].kind = "feed"
             PROVE  /\ pc'[d] # "none"
                    /\ k = Len(rcvd'[d]) => AnswerOpen(d)'
  BY DEF AnswerInv
<1>1. /\ rcvd \in [Conns -> Seq(Item)]
      /\ peer \in [Conns -> {"new", "reading", "stalled", "closed", "reset"}]
      /\ pc \in [Conns -> Places]
  BY DEF TypeInv, TypeOK, ClientsTypeOK, ThreadsTypeOK
<1>2. CASE rcvd'[d] = rcvd[d]
  <2>1. pc[d] # "none" /\ (k = Len(rcvd[d]) => AnswerOpen(d))
    BY <1>2 DEF AnswerInv
  <2>2. GoneAway(d) => AnswerOpen(d)'  BY GoneStays DEF AnswerOpen, GoneAway
  <2>3. ASSUME pc[d] = "send_feed" PROVE AnswerOpen(d)'
    <3>1. CASE HandlerStep(d)
      <4>1. SendFeedItem(d) \/ SendEnd(d)
        BY <1>1, <2>3, <3>1 DEF HandlerStep, Start, ReceiveMessage, Disconnect, Close,
           RefuseUnregistered, Dispatch, RefuseEmptyName, Register, Follow, AssignId,
           AddToFeed, CollectFollowers, CollectSlots, LockForPush, CheckSlot, ReadFd,
           EnterSend, SendPush, UnlockPush, NextFollower, FinishPost, GetFeedMessages,
           LockForFeed, UnlockFeed
      <4>2. CASE SendFeedItem(d)  BY <2>3, <4>2 DEF SendFeedItem, AnswerOpen
      <4>3. CASE SendEnd(d)
        <5>1. peer[d] # "new"  BY <2>3 DEF OwnInv, NewIsUnknown
        <5>2. OpenAt(Mine(d).client_fd) = d
          BY <2>3 DEF OwnInv, SlotOwnership, FdOf, InSession
        <5>3. PICK item : Send(d, item)  BY <4>3, <5>2 DEF SendEnd
        <5>4. GoneAway(d)
          <6>1. peer[d] # "stalled"  BY <5>3 DEF Send
          <6>2. peer[d] # "reading"
            <7>1. rcvd[d] \in Seq(Item) /\ Len(rcvd[d]) \in Nat  BY <1>1, LenProperties
            <7>2. peer[d] = "reading" => rcvd'[d] = Append(rcvd[d], item)
              BY <1>1, <5>3 DEF Send
            <7>3. Append(rcvd[d], item) # rcvd[d]
              <8>1. Len(Append(rcvd[d], item)) = Len(rcvd[d]) + 1
                BY <7>1 
              <8> QED  BY <7>1, <8>1
            <7> QED  BY <1>2, <7>2, <7>3
          <6> QED  BY <1>1, <5>1, <6>1, <6>2 DEF GoneAway
        <5> QED  BY <2>2, <5>4
      <4> QED  BY <4>1, <4>2, <4>3
    <3> QED  BY <2>3, <3>1, StepOf DEF AnswerOpen
  <2> QED  BY <1>2, <2>1, <2>2, <2>3, OneSession DEF AnswerOpen
<1>3. ASSUME NEW item \in Item, rcvd'[d] = Append(rcvd[d], item),
             item.kind = "feed" => SendFeedItem(d)
      PROVE  /\ pc'[d] # "none"
             /\ k = Len(rcvd'[d]) => AnswerOpen(d)'
  <2>1. \/ k \in DOMAIN rcvd[d] /\ rcvd'[d][k] = rcvd[d][k] /\ k # Len(rcvd'[d])
        \/ rcvd'[d][k] = item
    <3>1. rcvd[d] \in Seq(Item)  BY <1>1
    <3> QED  BY <1>3, <3>1, Appended
  <2>2. CASE k \in DOMAIN rcvd[d] /\ rcvd'[d][k] = rcvd[d][k] /\ k # Len(rcvd'[d])
    BY <2>2, OneSession DEF AnswerInv
  <2>3. CASE SendFeedItem(d)  BY <2>3 DEF SendFeedItem, AnswerOpen
  <2> QED  BY <1>3, <2>1, <2>2, <2>3
<1> QED  BY <1>2, <1>3, ItemsArrive DEF Push

(* While a thread answers, it and whoever sends a push to its connection   *)
(* both hold the mutex of the slot, which can be only if it was replaced.  *)
LEMMA InterruptedNext ==
  /\ TypeInv /\ OwnInv /\ SendMutexExclusive /\ SendInv /\ AnswerInv
  /\ InterruptedOnlyByReuse /\ [Next]_vars
  => InterruptedOnlyByReuse'
<1> SUFFICES ASSUME TypeInv, OwnInv, SendMutexExclusive, SendInv, AnswerInv,
                    InterruptedOnlyByReuse, [Next]_vars,
                    NEW d \in Conns, NEW k \in DOMAIN rcvd'[d], Interrupted(d, k)',
                    rcvd'[d][k + 1].to = d
             PROVE  client_index'[d] \in clobbered'
  BY DEF InterruptedOnlyByReuse
<1>1. /\ rcvd[d] \in Seq(Item)
      /\ rcvd'[d][k].kind = "feed" /\ k + 1 \in DOMAIN rcvd'[d]
      /\ rcvd'[d][k + 1].kind = "push"
  BY DEF TypeInv, TypeOK, ClientsTypeOK, Interrupted
<1>2. clobbered \subseteq clobbered'  BY ListsGrow
<1>3. CASE /\ k \in DOMAIN rcvd[d] /\ rcvd'[d][k] = rcvd[d][k]
           /\ k + 1 \in DOMAIN rcvd[d] /\ rcvd'[d][k + 1] = rcvd[d][k + 1]
  <2>1. client_index[d] \in clobbered
    BY <1>1, <1>3 DEF InterruptedOnlyByReuse, Interrupted
  <2>2. pc[d] # "none"  BY <1>1, <1>3 DEF AnswerInv
  <2> QED  BY <1>2, <2>1, <2>2, OneSession
<1>4. ASSUME NEW item \in Item, rcvd'[d] = Append(rcvd[d], item), peer[d] = "reading",
             item.kind = "push" =>
               \E c \in Conns : SendPush(c) /\ target[c] = d /\ item = Push(c)
      PROVE  client_index'[d] \in clobbered'
  <2>1. /\ Len(rcvd[d]) \in Nat /\ DOMAIN rcvd[d] = 1 .. Len(rcvd[d])
        /\ DOMAIN rcvd'[d] = 1 .. Len(rcvd[d]) + 1
        /\ \A i \in DOMAIN rcvd[d] : rcvd'[d][i] = rcvd[d][i]
        /\ rcvd'[d][Len(rcvd[d]) + 1] = item
    BY <1>1, <1>4, Appended
  <2>2. CASE k + 1 \in DOMAIN rcvd[d]  BY <1>3, <2>1, <2>2
  <2>3. CASE k + 1 = Len(rcvd[d]) + 1
    <3>1. k = Len(rcvd[d]) /\ k \in DOMAIN rcvd[d] /\ rcvd'[d][k + 1] = item
      BY <2>1, <2>3
    <3>2. pc[d] = "send_feed"
      BY <1>1, <1>4, <2>1, <3>1 DEF AnswerInv, AnswerOpen, GoneAway
    <3>3. PICK c \in Conns : SendPush(c) /\ item = Push(c)  BY <1>1, <1>4, <3>1
    <3>4. pc[c] = "sending" /\ aim[c][Idx(c)] = d
      BY <3>1, <3>3 DEF SendPush, Push
    <3>5. client_index[d] = Idx(c) /\ Idx(c) \in Slots
      BY <3>4, IdxIn DEF SendInv, AimInv, AimedAt, AtLoop, AtSlot
    <3>6. Holds(c, Idx(c)) /\ Holds(d, Idx(c)) /\ c # d
      BY <3>2, <3>4, <3>5 DEF Holds
    <3>7. client_index[d] \in clobbered  BY <3>5, <3>6 DEF SendMutexExclusive
    <3> QED  BY <1>2, <3>2, <3>7, OneSession
  <2> QED  BY <1>1, <2>1, <2>2, <2>3
<1>5. CASE rcvd'[d] = rcvd[d]  BY <1>1, <1>3, <1>5
<1> QED  BY <1>4, <1>5, ItemsArrive

LEMMA InterruptedInit == Init => InterruptedOnlyByReuse
BY DEF Init, InterruptedOnlyByReuse

(* A push comes between the items of an answer only because a slot was     *)
(* reused: its mutex was initialised while a thread was sending, or the    *)
(* push was meant for another connection (send_mutex in processPostMessage *)
(* and sendFeedToClient, pthread_mutex_init in waitForClientConnection).   *)
THEOREM AnswersInterruptedByReuseOnly == Spec => []InterruptedOnlyByReuse
BY TypeInvInit, TypeInvNext, OwnInit, OwnNext, MutexInit, MutexNext, SendInvInit,
   SendInvNext, AnswerInit, AnswerNext, InterruptedInit, InterruptedNext, PTL DEF Spec

-----------------------------------------------------------------------------
(* Nobody whom a push should reach is left out.                            *)

(* The places of the followers of a user in the follow list.               *)
Followed(list, user) == {k \in DOMAIN list : list[k].followed = user}

(* They are finitely many.                                                 *)
LEMMA FollowedFinite ==
  ASSUME NEW T, NEW list \in Seq(T), NEW user
  PROVE  /\ Followed(list, user) \in SUBSET Nat
         /\ IsFiniteSet(Followed(list, user))
<1>1. DOMAIN list = 1 .. Len(list) /\ Len(list) \in Nat  BY LenProperties
<1>2. IsFiniteSet(1 .. Len(list)) /\ Followed(list, user) \in SUBSET (1 .. Len(list))
  BY <1>1, FS_Interval DEF Followed
<1> QED  BY <1>1, <1>2, FS_Subset

(* If they are no more than to_notify holds, all of them are in it.        *)
AllFit(list, user, limit) == Cardinality(Followed(list, user)) <= limit

Named(names, a) == \E k \in DOMAIN names : names[k] = a

(* to_notify then holds every follower.                                    *)
LEMMA FollowersOfComplete ==
  ASSUME NEW list \in Seq([follower : String, followed : String]), NEW user, NEW a,
         NEW limit \in Nat, AllFit(list, user, limit),
         Follows(list, a, user)
  PROVE  Named(FollowersOf(list, user, limit), a)
<1> DEFINE At == Ascending(Followed(list, user))
           n  == Cardinality(Followed(list, user))
<1>1. /\ n \in Nat /\ DOMAIN At = 1 .. n
      /\ \A i \in Followed(list, user) : \E k \in 1 .. n : At[k] = i
  BY FollowedFinite, AscendingType, AscendingCollects
<1>2. PICK i \in DOMAIN list : list[i] = Pair(a, user)  BY DEF Follows
<1>3. i \in Followed(list, user) /\ list[i].follower = a  BY <1>2 DEF Followed, Pair
<1>4. PICK k \in 1 .. n : At[k] = i  BY <1>1, <1>3
<1>5. FollowersOf(list, user, limit) =
        [j \in {m \in DOMAIN At : m <= limit} |-> list[At[j]].follower]
  BY DEF FollowersOf, Followed
<1> HIDE DEF At
<1>6. k \in {m \in DOMAIN At : m <= limit}  BY <1>1, <1>4 DEF AllFit
<1> QED  BY <1>3, <1>4, <1>5, <1>6 DEF Named

(* A user does not lose followers.                                         *)
LEMMA NumFollowersGrows ==
  ASSUME TypeInv, [Next]_vars, NEW user
  PROVE  /\ NumFollowers(user) \in Nat /\ NumFollowers(user)' \in Nat
         /\ NumFollowers(user) <= NumFollowers(user)'
<1>1. TypeInv'  BY TypeInvNext
<1>2. /\ follow_list \in Seq([follower : String, followed : String])
      /\ follow_list' \in Seq([follower : String, followed : String])
  BY <1>1 DEF TypeInv, TypeOK, FollowsTypeOK
<1>3. Followed(follow_list, user) \in SUBSET Followed(follow_list', user)
  BY ListsGrow DEF Followed
<1>4. IsFiniteSet(Followed(follow_list, user)) /\ IsFiniteSet(Followed(follow_list', user))
  BY <1>2, FollowedFinite
<1>5. /\ NumFollowers(user) = Cardinality(Followed(follow_list, user))
      /\ NumFollowers(user)' = Cardinality(Followed(follow_list', user))
  BY DEF NumFollowers, Followed
<1> QED  BY <1>3, <1>4, <1>5, FS_Subset, FS_CardinalityType

(* A connection that has still to be sent the post is one of a follower    *)
(* that is still in to_notify, or it is in a slot that is still to be      *)
(* visited, or is being visited.                                           *)
StillToReach(c, d) ==
  \/ /\ pc[c] = "notify"
     /\ \E k \in DOMAIN to_notify[c] : to_notify[c][k] = name[d]
  \/ /\ pc[c] \in AtLoop
     /\ \/ \E k \in DOMAIN to_notify[c] : k # 1 /\ to_notify[c][k] = name[d]
        \/ \E t \in slots[c] : aim[c][t] = d /\ (pc[c] = "unlock" => t # Idx(c))

(* Only the threads of registered clients have somebody to push to, and    *)
(* only connections with a name are due.                                   *)
DueKnown ==
  \A c \in Conns :
    /\ name[c] = Empty => due[c] = {}
    /\ \A d \in due[c] : pc[d] # "none" /\ name[d] # Empty

(* What is missed is still to be reached.                                  *)
NobodyForgotten ==
  \A c \in Conns : NumFollowers(name[c]) <= MaxClients =>
    \A d \in Missed(c) : StillToReach(c, d)

LEMMA DueInit == Init => DueKnown /\ NobodyForgotten
BY DEF Init, DueKnown, NobodyForgotten, Missed

LEMMA DueKnownNext ==
  TypeInv /\ OwnInv /\ NamesInv /\ DueKnown /\ [Next]_vars => DueKnown'
<1> SUFFICES ASSUME TypeInv, OwnInv, NamesInv, DueKnown, [Next]_vars, NEW c \in Conns
             PROVE  /\ name'[c] = Empty => due'[c] = {}
                    /\ \A d \in due'[c] : pc'[d] # "none" /\ name'[d] # Empty
  BY DEF DueKnown
<1>1. due \in [Conns -> SUBSET Conns]  BY DEF TypeInv, TypeOK, PostsTypeOK
<1>2. \A d \in Conns : /\ pc[d] # "none" => pc'[d] # "none"
                       /\ name'[d] = name[d] \/ name[d] = Empty
                       /\ name'[d] = Empty => name[d] = Empty
  BY OneSession, NameStays DEF NamesInv
<1>3. CASE due'[c] \subseteq due[c]
  BY <1>1, <1>2, <1>3 DEF DueKnown
<1>4. CASE CollectFollowers(c)
  <2>1. name[c] # Empty
    BY <1>4 DEF CollectFollowers, NamesInv, ActingNames, Acting, InPost
  <2>2. \A d \in due'[c] : d \in Conns /\ InSession(d) /\ name[d] # Empty
    BY <1>1, <1>4 DEF CollectFollowers, Follows, Pair, NamesInv, FollowerNames
  <2> QED  BY <1>2, <2>1, <2>2 DEF InSession
<1>5. CASE HandlerStep(c) /\ ~CollectFollowers(c)
  <2>1. SendPush(c) => due'[c] \subseteq due[c]  BY <1>1 DEF SendPush
  <2> QED  BY <1>3, <1>5, <2>1, ThreadWrites
<1> QED  BY <1>3, <1>4, <1>5, StepOf

(* A connection that is due stays one still to be reached until the push   *)
(* is sent to it or its session ends: in particular the second look at the *)
(* slot of a session finds it as the first did.                            *)
LEMMA NobodyForgottenNext ==
  /\ TypeInv /\ OwnInv /\ NamesInv /\ QueueInv /\ AimInv /\ DueKnown /\ NobodyForgotten
  /\ [Next]_vars
  => NobodyForgotten'
<1> SUFFICES ASSUME TypeInv, OwnInv, NamesInv, QueueInv, AimInv, DueKnown,
                    NobodyForgotten, [Next]_vars, NEW c \in Conns,
                    NumFollowers(name[c])' <= MaxClients, NEW d \in Missed(c)'
             PROVE  StillToReach(c, d)'
  BY DEF NobodyForgotten
<1>1. /\ due \in [Conns -> SUBSET Conns] /\ to_notify \in [Conns -> Seq(String)]
      /\ pc \in [Conns -> Places] /\ slots \in [Conns -> SUBSET Slots]
  BY DEF TypeInv, TypeOK, PostsTypeOK, ThreadsTypeOK
<1>2. d \in due'[c] /\ InSession(d)'  BY DEF Missed
<1>3. CASE CollectFollowers(c)
  <2>1. /\ pc[c] = "collect" /\ pc'[c] = "notify" /\ UNCHANGED <<name, follow_list>>
        /\ to_notify'[c] = FollowersOf(follow_list, msg_received[c].username, MaxClients)
        /\ Follows(follow_list, name[d], msg_received[c].username)
    BY <1>1, <1>2, <1>3 DEF CollectFollowers, Goto
  <2>2. msg_received[c].username = name[c]
    BY <2>1 DEF NamesInv, ActingNames, Acting, InPost
  <2>3. AllFit(follow_list, name[c], MaxClients)
    BY <2>1 DEF NumFollowers, Followed, AllFit
  <2>4. \E k \in DOMAIN to_notify'[c] : to_notify'[c][k] = name[d]
    <3>1. follow_list \in Seq([follower : String, followed : String]) /\ MaxClients \in Nat
      BY ServerAssumption DEF TypeInv, TypeOK, FollowsTypeOK
    <3>2. Named(FollowersOf(follow_list, name[c], MaxClients), name[d])
      BY <2>1, <2>2, <2>3, <3>1, FollowersOfComplete
    <3> QED  BY <2>1, <2>2, <3>2 DEF Named
  <2> QED  BY <2>1, <2>4 DEF StillToReach
<1>4. CASE ~CollectFollowers(c)
  <2>1. due'[c] \subseteq due[c] /\ (SendPush(c) => due'[c] = due[c] \ {target[c]})
    <3>1. SendPush(c) => due'[c] = due[c] \ {target[c]}  BY <1>1 DEF SendPush
    <3> QED  BY <1>4, <3>1, ThreadWrites, StepOf
  <2>2. d \in due[c] /\ d \in Conns /\ InSession(d) /\ d \in Missed(c)
    <3>1. d \in due[c] /\ d \in Conns /\ pc[d] # "none"  BY <1>1, <1>2, <2>1 DEF DueKnown
    <3>2. InSession(d)  BY <1>2, <3>1, SessionWasOn
    <3> QED  BY <3>1, <3>2 DEF Missed
  <2>3. name'[d] = name[d] /\ name'[c] = name[c]
    BY <2>2, NameStays DEF DueKnown, NamesInv
  <2>4. NumFollowers(name[c]) <= MaxClients
    <3>1. PICK user : user = name[c]  OBVIOUS
    <3>2. NumFollowers(user)' <= MaxClients  BY <2>3, <3>1 DEF NumFollowers
    <3> QED  BY <3>1, <3>2, NumFollowersGrows, ServerAssumption
  <2>5. StillToReach(c, d)  BY <2>2, <2>4 DEF NobodyForgotten
  <2>6. CASE /\ pc'[c] = pc[c] /\ UNCHANGED <<to_notify[c], slots[c], aim[c]>>
    BY <2>3, <2>5, <2>6 DEF StillToReach, Idx
  <2>7. CASE CollectSlots(c)
    <3>1. PICK k \in DOMAIN to_notify[c] : to_notify[c][k] = name[d]
      BY <2>5, <2>7 DEF StillToReach, CollectSlots, AtLoop, AtSlot
    <3>2. pc'[c] = "lock" /\ to_notify'[c] = to_notify[c]
      BY <1>1, <2>7 DEF CollectSlots, Goto
    <3>3. CASE k = 1
      <4>1. name[d] = Head(to_notify[c])  BY <1>1, <3>1, <3>3
      <4>2. client_index[d] \in slots'[c] /\ aim'[c][client_index[d]] = d
        BY <2>2, <2>7, <4>1, CollectAims
      <4> QED  BY <3>2, <4>2 DEF StillToReach, AtLoop
    <3>4. CASE k # 1  BY <2>3, <3>1, <3>2, <3>4 DEF StillToReach, AtLoop
    <3> QED  BY <3>3, <3>4
  <2>8. CASE NextFollower(c)
    <3>1. PICK k \in DOMAIN to_notify[c] : k # 1 /\ to_notify[c][k] = name[d]
      BY <2>5, <2>8 DEF StillToReach, NextFollower
    <3>2. pc'[c] = "notify" /\ to_notify'[c] = Tail(to_notify[c])
      BY <1>1, <2>8 DEF NextFollower, Goto
    <3>3. to_notify[c] # <<>>  BY <2>8 DEF NextFollower, TypeInv, PushLoop
    <3>4. /\ Tail(to_notify[c]) \in Seq(String)
          /\ Len(Tail(to_notify[c])) = Len(to_notify[c]) - 1
          /\ \A i \in 1 .. Len(Tail(to_notify[c])) : Tail(to_notify[c])[i] = to_notify[c][i + 1]
      BY <1>1, <3>3, HeadTailProperties
    <3>5. /\ DOMAIN to_notify[c] = 1 .. Len(to_notify[c]) /\ Len(to_notify[c]) \in Nat
          /\ DOMAIN Tail(to_notify[c]) = 1 .. Len(to_notify[c]) - 1
      BY <1>1, <3>4, LenProperties
    <3>6. k - 1 \in 1 .. Len(to_notify[c]) - 1 /\ (k - 1) + 1 = k  BY <3>1, <3>5
    <3>7. k - 1 \in DOMAIN to_notify'[c] /\ to_notify'[c][k - 1] = name[d]
      BY <3>1, <3>2, <3>4, <3>5, <3>6
    <3> QED  BY <2>3, <3>2, <3>7 DEF StillToReach
  <2>9. CASE HandlerStep(c) /\ pc[c] \in AtLoop /\ ~NextFollower(c)
    <3>1. to_notify' = to_notify /\ aim' = aim
      BY <1>4, <2>9, ThreadWrites DEF CollectSlots, AtLoop, AtSlot
    <3>2. pc'[c] \in AtLoop
      BY <1>1, <2>9 DEF HandlerStep, Start, ReceiveMessage, Disconnect, Close,
         RefuseUnregistered, Dispatch, RefuseEmptyName, Register, Follow, AssignId,
         AddToFeed, CollectFollowers, CollectSlots, LockForPush, CheckSlot, ReadFd,
         EnterSend, SendPush, UnlockPush, FinishPost, GetFeedMessages, LockForFeed,
         SendFeedItem, SendEnd, UnlockFeed, Goto, AtLoop, AtSlot
    <3>3. CASE \E k \in DOMAIN to_notify[c] : k # 1 /\ to_notify[c][k] = name[d]
      BY <2>3, <3>1, <3>2, <3>3 DEF StillToReach
    <3>4. ASSUME NEW t \in slots[c], aim[c][t] = d, pc[c] = "unlock" => t # Idx(c)
          PROVE  StillToReach(c, d)'
      <4>1. CASE UnlockPush(c)
        <5>1. /\ pc'[c] = "lock" /\ slots'[c] = slots[c] \ {Idx(c)} /\ pc[c] = "unlock"
          BY <1>1, <4>1 DEF UnlockPush, Goto
        <5> QED  BY <3>1, <3>2, <3>4, <5>1 DEF StillToReach
      <4>2. CASE ~UnlockPush(c)
        <5>1. slots'[c] = slots[c]
          BY <2>9, <4>2, ThreadWrites DEF CollectSlots, AtLoop, AtSlot
        <5>2. CASE pc'[c] # "unlock" \/ t # Idx(c)
          <6>1. t \in slots'[c] /\ aim'[c][t] = d  BY <3>1, <3>4, <5>1
          <6>2. pc'[c] = "unlock" => t # Lowest(slots'[c])  BY <5>1, <5>2 DEF Idx
          <6> QED  BY <3>2, <6>1, <6>2 DEF StillToReach, Idx
        <5>3. CASE pc'[c] = "unlock" /\ t = Idx(c)
          <6>1. CASE CheckSlot(c)
            <7>1. client_index[d] = t /\ name[d] = Head(to_notify[c]) /\ t \in Slots
              BY <1>1, <2>9, <3>4 DEF AimInv, AimedAt
            <7>2. t \in SlotsOf(Head(to_notify[c]))
              BY <2>2, <7>1 DEF OwnInv, SlotOwnership, NamesInv, SlotNames, SlotsOf, Mine
            <7>3. pc'[c] = "fd"  BY <1>1, <5>3, <6>1, <7>2 DEF CheckSlot, Goto
            <7> QED  BY <5>3, <7>3
          <6>2. CASE SendPush(c)
            <7>1. target[c] = d
              BY <2>2, <3>4, <5>3, <6>2 DEF AimInv, AimedWell, SendPush
            <7> QED  BY <1>2, <2>1, <6>2, <7>1
          <6> QED  BY <2>9, <5>3, <6>1, <6>2, PlacesEntered
        <5> QED  BY <5>2, <5>3
      <4> QED  BY <4>1, <4>2
    <3>5. pc[c] # "notify"  BY <2>9 DEF AtLoop, AtSlot
    <3> QED  BY <2>5, <3>3, <3>4, <3>5 DEF StillToReach
  <2>10. CASE HandlerStep(c) /\ pc[c] = "notify" /\ ~CollectSlots(c)
    <3>1. FinishPost(c)
      BY <2>10 DEF HandlerStep, Start, ReceiveMessage, Disconnect, Close,
         RefuseUnregistered, Dispatch, RefuseEmptyName, Register, Follow, AssignId,
         AddToFeed, CollectFollowers, LockForPush, CheckSlot, ReadFd,
         EnterSend, SendPush, UnlockPush, NextFollower, GetFeedMessages, LockForFeed,
         SendFeedItem, SendEnd, UnlockFeed
    <3> QED  BY <2>5, <3>1 DEF FinishPost, StillToReach, AtLoop, AtSlot
  <2>11. CASE ~HandlerStep(c)
    <3>1. pc'[c] = pc[c]
      BY <2>5, <2>11, StepOf DEF StillToReach, AtLoop, AtSlot
    <3> QED  BY <2>6, <2>11, <3>1, StepOf
  <2> QED  BY <2>5, <2>7, <2>8, <2>9, <2>10, <2>11 DEF StillToReach
<1> QED  BY <1>3, <1>4

(* When a thread has done with a post, every connection that was in        *)
(* session under the name of a follower when the followers were collected  *)
(* was sent the push or is no longer in session, if the author has no more *)
(* followers than to_notify holds (processPostMessage).                    *)
THEOREM NoFollowerIsMissed == Spec => []FollowersReached
<1>1. NobodyForgotten => FollowersReached
  BY DEF NobodyForgotten, FollowersReached, StillToReach, AtLoop, AtSlot
<1> QED  BY TypeInvInit, TypeInvNext, OwnInit, OwnNext, SendInvInit, SendInvNext,
            DueInit, DueKnownNext, NobodyForgottenNext, <1>1, PTL DEF Spec, SendInv
=============================================================================

----------------------- MODULE ServerOwnershipProofs -----------------------
(***************************************************************************)
(* Types and ownership in Server, for any number of connections, slots,    *)
(* descriptors and follows, and whatever the clients send: the variables   *)
(* keep their types, a thread's slot and its descriptor are its own, none  *)
(* of them is lost, and the mutex of a slot has one holder.                *)
(***************************************************************************)
EXTENDS Server, FeedArrayProofs

-----------------------------------------------------------------------------
(* Operators.                                                              *)

(* The first slot of a search that finds one is a slot it found.           *)
LEMMA LowestIn ==
  ASSUME NEW S \in SUBSET Slots, S # {}
  PROVE  /\ Lowest(S) \in S
         /\ \A s \in S : Lowest(S) <= s
<1>1. /\ S \in SUBSET Nat
      /\ IsFiniteSet(S)
      /\ Cardinality(S) \in Nat \ {0}
  <2>1. MaxClients \in Nat /\ IsFiniteSet(Slots)
    BY ServerAssumption, FS_Interval DEF Slots
  <2>2. IsFiniteSet(S)  BY <2>1, FS_Subset
  <2>3. Cardinality(S) # 0  BY <2>2, FS_EmptySet
  <2> QED  BY <2>1, <2>2, <2>3, FS_CardinalityType DEF Slots
<1>2. PICK i \in S : Before(S, i) = 0
  <2>1. 1 \in 1 .. Cardinality(S) /\ 1 - 1 = 0  BY <1>1
  <2> QED  BY <2>1, <1>1, EveryRankTaken
<1>3. {j \in S : j < i} = {}
  <2>1. IsFiniteSet({j \in S : j < i})  BY <1>1, FS_Subset
  <2> QED  BY <2>1, <1>2, FS_EmptySet DEF Before
<1>4. \A s \in S : i <= s  BY <1>1, <1>3
<1> QED  BY <1>4 DEF Lowest

(* to_notify holds names.                                                  *)
LEMMA FollowersOfType ==
  ASSUME NEW list \in Seq([follower : String, followed : String]),
         NEW user, NEW limit \in Nat
  PROVE  FollowersOf(list, user, limit) \in Seq(String)
<1> DEFINE Found == {k \in DOMAIN list : list[k].followed = user}
           At    == Ascending(Found)
           n     == Cardinality(Found)
           m     == IF limit < n THEN limit ELSE n
<1>1. DOMAIN list = 1 .. Len(list) /\ Len(list) \in Nat  BY LenProperties
<1>2. /\ Found \in SUBSET Nat
      /\ IsFiniteSet(Found)
  <2>1. IsFiniteSet(1 .. Len(list)) /\ Found \subseteq 1 .. Len(list)
    BY <1>1, FS_Interval
  <2> QED  BY <1>1, <2>1, FS_Subset
<1>3. /\ n \in Nat /\ DOMAIN At = 1 .. n
      /\ \A k \in 1 .. n : At[k] \in Found
  BY <1>2, AscendingType
<1>4. \A k \in 1 .. Len(list) : list[k].follower \in String
  <2> TAKE k \in 1 .. Len(list)
  <2>1. list[k] \in [follower : String, followed : String]  BY ElementOfSeq
  <2> QED  BY <2>1
<1>5. FollowersOf(list, user, limit) = [k \in {i \in DOMAIN At : i <= limit} |-> list[At[k]].follower]
  BY DEF FollowersOf
<1>6. \A k \in 1 .. n : At[k] \in 1 .. Len(list)  BY <1>1, <1>3
<1> HIDE DEF Found, At, n
<1>7. m \in Nat /\ m <= n /\ {i \in DOMAIN At : i <= limit} = 1 .. m  BY <1>3
<1>8. \A k \in 1 .. m : list[At[k]].follower \in String  BY <1>3, <1>4, <1>6, <1>7
<1>9. [k \in 1 .. m |-> list[At[k]].follower] \in Seq(String)
  <2> HIDE DEF m
  <2> QED  BY <1>7, <1>8, IsASeq
<1> QED  BY <1>5, <1>7, <1>9

(* What strncpy leaves of a text is a text.                                *)
LEMMA StoredType ==
  ASSUME NEW t \in String
  PROVE  Stored[t] \in String /\ (Stored[t] = Empty <=> t = Empty)
BY StoredAssumption

(* processFollowMessage keeps the list within its array.                   *)
LEMMA AddFollowType ==
  ASSUME NEW list \in Seq([follower : String, followed : String]),
         Len(list) <= MaxFollows, NEW a \in String, NEW b \in String
  PROVE  /\ AddFollow(list, a, b) \in Seq([follower : String, followed : String])
         /\ Len(AddFollow(list, a, b)) <= MaxFollows
<1>1. Pair(a, Stored[b]) \in [follower : String, followed : String]  BY StoredType DEF Pair
<1>2. Len(list) \in Nat /\ MaxFollows \in Nat  BY LenProperties, MaxFollowsAssumption
<1>3. CASE a = b \/ Follows(list, a, b) \/ Len(list) >= MaxFollows
  BY <1>3 DEF AddFollow
<1>4. CASE ~(a = b \/ Follows(list, a, b) \/ Len(list) >= MaxFollows)
  <2>1. AddFollow(list, a, b) = Append(list, Pair(a, Stored[b]))  BY <1>4 DEF AddFollow
  <2> QED  BY <2>1, <1>1, <1>2, <1>4, AppendProperties
<1> QED  BY <1>3, <1>4

-----------------------------------------------------------------------------
(* The loops of processPostMessage: a thread that is at a slot still has   *)
(* that slot to visit, and the follower whose slot it is.                  *)

AtSlot   == {"check", "fd", "send", "sending", "unlock"}
PushLoop ==
  \A c \in Conns :
    /\ pc[c] \in AtSlot => slots[c] # {}
    /\ pc[c] \in AtSlot \cup {"lock"} => to_notify[c] # <<>>

TypeInv == TypeOK /\ PushLoop

LEMMA TypeInvInit == Init => TypeInv
<1> SUFFICES ASSUME Init PROVE TypeInv  OBVIOUS
<1> USE DEF Init
<1>1. ClientsTypeOK
  <2>1. inbox \in [Conns -> Seq(Message)]  BY ScriptsAssumption
  <2>2. rcvd \in [Conns -> Seq(Item)]  BY EmptySeq
  <2> QED  BY <2>1, <2>2 DEF ClientsTypeOK
<1>2. KernelTypeOK  BY DEF KernelTypeOK
<1>3. SlotsTypeOK  BY DEF SlotsTypeOK, String
<1>4. FeedTypeOK
  <2>1. msg_id_counter \in 0 .. IdModulus - 1  BY IdAssumption
  <2>2. feed_messages \in [Indices -> Post]  BY NoPostType DEF EmptyFeed
  <2>3. log \in Seq([post : Post, by : Conns])  BY EmptySeq
  <2> QED  BY <2>1, <2>2, <2>3 DEF FeedTypeOK
<1>5. FollowsTypeOK
  BY EmptySeq, MaxFollowsAssumption DEF FollowsTypeOK
<1>6. MainTypeOK
  BY ServerAssumption DEF MainTypeOK, Slots
<1>7. ThreadsTypeOK
  <2>1. NoMessage \in Message  BY IdAssumption DEF NoMessage, Message, String
  <2>2. 0 \in Slots  BY ServerAssumption DEF Slots
  <2> QED  BY <2>1, <2>2 DEF ThreadsTypeOK, Places, String
<1>8. PostsTypeOK
  <2>1. to_notify \in [Conns -> Seq(String)]  BY EmptySeq
  <2> QED  BY <2>1 DEF PostsTypeOK, NoAim
<1>9. ReadsTypeOK
  <2>1. feed_to_send \in [Conns -> Seq(Post)]  BY EmptySeq
  <2> QED  BY <2>1 DEF ReadsTypeOK
<1>10. PushLoop  BY DEF PushLoop, AtSlot
<1> QED
  BY <1>1, <1>2, <1>3, <1>4, <1>5, <1>6, <1>7, <1>8, <1>9, <1>10 DEF TypeOK, TypeInv

(* Writing one field of a slot or of a message.                            *)
Slot == [active : BOOLEAN, client_fd : Fds \cup {0}, username : String]

LEMMA SlotUpdateType ==
  ASSUME SlotsTypeOK, NEW s \in Slots
  PROVE  /\ \A b \in BOOLEAN : [clients EXCEPT ![s].active = b] \in [Slots -> Slot]
         /\ \A f \in Fds \cup {0} : [clients EXCEPT ![s].client_fd = f] \in [Slots -> Slot]
         /\ \A u \in String : [clients EXCEPT ![s].username = u] \in [Slots -> Slot]
<1>1. clients \in [Slots -> Slot]  BY DEF SlotsTypeOK, Slot
<1>2. /\ \A b \in BOOLEAN : [clients[s] EXCEPT !.active = b] \in Slot
      /\ \A f \in Fds \cup {0} : [clients[s] EXCEPT !.client_fd = f] \in Slot
      /\ \A u \in String : [clients[s] EXCEPT !.username = u] \in Slot
  BY <1>1 DEF Slot
<1>3. \A r \in Slot : [clients EXCEPT ![s] = r] \in [Slots -> Slot]  BY <1>1
<1> QED  BY <1>2, <1>3

LEMMA MessageUpdateType ==
  ASSUME ThreadsTypeOK, NEW c \in Conns
  PROVE  /\ \A id \in 0 .. IdModulus - 1 :
              [msg_received EXCEPT ![c].msg_id = id] \in [Conns -> Message]
         /\ \A u \in String : [msg_received EXCEPT ![c].username = u] \in [Conns -> Message]
<1>1. msg_received \in [Conns -> Message]  BY DEF ThreadsTypeOK
<1>2. /\ \A id \in 0 .. IdModulus - 1 : [msg_received[c] EXCEPT !.msg_id = id] \in Message
      /\ \A u \in String : [msg_received[c] EXCEPT !.username = u] \in Message
  BY <1>1 DEF Message
<1>3. \A m \in Message : [msg_received EXCEPT ![c] = m] \in [Conns -> Message]  BY <1>1
<1> QED  BY <1>2, <1>3

(* idx is a slot whenever it is used.                                      *)
LEMMA IdxType ==
  ASSUME TypeInv, NEW c \in Conns, pc[c] \in AtSlot
  PROVE  Idx(c) \in Slots
<1>1. slots[c] \in SUBSET Slots /\ slots[c] # {}
  BY DEF TypeInv, TypeOK, PostsTypeOK, PushLoop
<1> QED  BY <1>1, LowestIn DEF Idx

(* A send only adds to what a client was sent, and may find it gone.       *)
LEMMA SendType ==
  ASSUME TypeOK, NEW d \in Conns \cup {NoConn}, NEW item \in Item, Send(d, item)
  PROVE  ClientsTypeOK' /\ KernelTypeOK'
<1> USE DEF TypeOK, ClientsTypeOK, KernelTypeOK
<1>1. rcvd' \in [Conns -> Seq(Item)]
  <2>1. CASE d \in Conns /\ peer[d] = "reading"
    <3>1. Append(rcvd[d], item) \in Seq(Item)  BY <2>1, AppendProperties
    <3> QED  BY <2>1, <3>1 DEF Send
  <2>2. CASE ~(d \in Conns /\ peer[d] = "reading")  BY <2>2 DEF Send
  <2> QED  BY <2>1, <2>2
<1>2. peer' \in [Conns -> {"new", "reading", "stalled", "closed", "reset"}]
  BY DEF Send
<1> QED  BY <1>1, <1>2 DEF Send

-----------------------------------------------------------------------------
(* The steps.                                                              *)

(* The exits of a thread.                                                   *)
LEMMA LeaveSlotKeepsTypes ==
  ASSUME TypeInv, NEW c \in Conns, LeaveSlot(c)
  PROVE  TypeInv'
<1> USE DEF TypeInv, TypeOK, ClientsTypeOK, KernelTypeOK, SlotsTypeOK, FeedTypeOK,
            FollowsTypeOK, MainTypeOK, ThreadsTypeOK, PostsTypeOK, ReadsTypeOK,
            peerVars, kernelVars, slotVars, feedVars, mainVars, threadVars, postVars,
            readVars, pushHistory, PushLoop, AtSlot, Goto, Places
<1>1. SlotsTypeOK'  BY SlotUpdateType DEF Slot, LeaveSlot
<1> QED  BY <1>1 DEF LeaveSlot

(* main.                                                                   *)
LEMMA MainKeepsTypes ==
  ASSUME TypeInv,
         \/ Accept \/ ClaimSlot \/ RejectClient \/ StoreFd \/ InitSlot
         \/ CreateThread \/ CreateThreadFails \/ CloseRefused
  PROVE  TypeInv'
<1> USE DEF TypeInv, TypeOK, ClientsTypeOK, KernelTypeOK, SlotsTypeOK, FeedTypeOK,
            FollowsTypeOK, MainTypeOK, ThreadsTypeOK, PostsTypeOK, ReadsTypeOK,
            peerVars, kernelVars, slotVars, feedVars, mainVars, threadVars, postVars,
            readVars, pushHistory, PushLoop, AtSlot, Goto, Places
<1>1. CASE Accept
  <2>1. PICK d \in Conns, f \in Fds :
          /\ fdTable' = [fdTable EXCEPT ![f] = d] /\ client_socket' = f
          /\ peer' = [peer EXCEPT ![d] = "reading"]
    BY <1>1 DEF Accept
  <2> QED  BY <1>1, <2>1 DEF Accept
<1>2. CASE ClaimSlot
  <2>1. Lowest(FreeSlots) \in Slots  BY <1>2, LowestIn DEF ClaimSlot, FreeSlots
  <2>2. SlotsTypeOK'  BY <1>2, <2>1, SlotUpdateType DEF Slot, ClaimSlot
  <2>3. MainTypeOK'  BY <1>2, <2>1 DEF ClaimSlot
  <2> QED  BY <1>2, <2>2, <2>3 DEF ClaimSlot
<1>3. CASE RejectClient  BY <1>3 DEF RejectClient
<1>4. CASE StoreFd
  <2>1. SlotsTypeOK'  BY <1>4, SlotUpdateType DEF Slot, StoreFd
  <2> QED  BY <1>4, <2>1 DEF StoreFd
<1>5. CASE InitSlot
  <2>1. SlotsTypeOK'
    <3>1. Empty \in String  BY DEF String
    <3> QED  BY <1>5, <3>1, SlotUpdateType DEF Slot, InitSlot
  <2> QED  BY <1>5, <2>1 DEF InitSlot
<1>6. CASE CreateThread  BY <1>6 DEF CreateThread
<1>7. CASE CreateThreadFails
  <2>1. SlotsTypeOK'  BY <1>7, SlotUpdateType DEF Slot, CreateThreadFails
  <2> QED  BY <1>7, <2>1 DEF CreateThreadFails
<1>8. CASE CloseRefused  BY <1>8 DEF CloseRefused
<1> QED  BY <1>1, <1>2, <1>3, <1>4, <1>5, <1>6, <1>7, <1>8

(* handleClientConnection.                                                 *)
LEMMA SessionKeepsTypes ==
  ASSUME TypeInv, NEW c \in Conns,
         \/ Start(c) \/ ReceiveMessage(c) \/ Disconnect(c) \/ Close(c)
         \/ RefuseUnregistered(c) \/ Dispatch(c) \/ RefuseEmptyName(c)
         \/ Register(c) \/ Follow(c)
  PROVE  TypeInv'
<1> USE DEF TypeInv, TypeOK, ClientsTypeOK, KernelTypeOK, SlotsTypeOK, FeedTypeOK,
            FollowsTypeOK, MainTypeOK, ThreadsTypeOK, PostsTypeOK, ReadsTypeOK,
            peerVars, kernelVars, slotVars, feedVars, mainVars, threadVars, postVars,
            readVars, pushHistory, PushLoop, AtSlot, Goto, Places
<1>1. CASE Start(c)
  <2>1. client_fd' \in [Conns -> Fds \cup {0}]  BY <1>1 DEF Start, Mine
  <2>2. \E p \in {"waiting", "done"} : pc' = [pc EXCEPT ![c] = p]
    BY <1>1 DEF Start
  <2>3. UNCHANGED <<peerVars, kernelVars, slotVars, feedVars, follow_list, mainVars,
                    client_index, msg_received, postVars, readVars, pushHistory, name>>
    BY <1>1 DEF Start
  <2>4. ThreadsTypeOK'  BY <2>1, <2>2, <2>3
  <2>5. PushLoop'  BY <2>2, <2>3
  <2> QED  BY <1>1, <2>3, <2>4, <2>5 DEF Start
<1>2. CASE ReceiveMessage(c)
  <2>1. Head(inbox[c]) \in Message /\ Tail(inbox[c]) \in Seq(Message)
    BY <1>2, HeadTailProperties DEF ReceiveMessage
  <2> QED  BY <1>2, <2>1 DEF ReceiveMessage
<1>3. CASE Disconnect(c)  BY <1>3, LeaveSlotKeepsTypes DEF Disconnect
<1>4. CASE Close(c)  BY <1>4 DEF Close
<1>5. CASE RefuseUnregistered(c)  BY <1>5, LeaveSlotKeepsTypes DEF RefuseUnregistered
<1>6. CASE Dispatch(c)
  <2>1. msg_received' \in [Conns -> Message]
    <3>1. Mine(c).username \in String  BY DEF Mine
    <3> QED  BY <1>6, <3>1, IdAssumption, MessageUpdateType DEF Dispatch
  <2>2. \E p \in {"connect", "post", "follow", "read", "received"} :
          pc' = [pc EXCEPT ![c] = p]
    BY <1>6 DEF Dispatch
  <2> QED  BY <1>6, <2>1, <2>2 DEF Dispatch
<1>7. CASE RefuseEmptyName(c)  BY <1>7, LeaveSlotKeepsTypes DEF RefuseEmptyName
<1>8. CASE Register(c)
  <2> DEFINE User == IF Mine(c).username = Empty THEN Stored[msg_received[c].username]
                                                 ELSE Mine(c).username
  <2>1. User \in String
    <3>1. Mine(c).username \in String /\ msg_received[c].username \in String
      BY DEF Mine, Message
    <3> QED  BY <3>1, StoredType
  <2> HIDE DEF User
  <2>2. \/ /\ clients' = [clients EXCEPT ![client_index[c]].username = User]
           /\ msg_received' = [msg_received EXCEPT ![c].username = User]
           /\ name' = [name EXCEPT ![c] = User]
        \/ UNCHANGED <<clients, msg_received, name>>
    BY <1>8 DEF Register, User
  <2>3. [clients EXCEPT ![client_index[c]].username = User] \in [Slots -> Slot]
    BY <2>1, SlotUpdateType
  <2>4. [msg_received EXCEPT ![c].username = User] \in [Conns -> Message]
    BY <2>1, MessageUpdateType
  <2>5. /\ UNCHANGED <<send_mutex, clobbered, client_index, client_fd>>
        /\ pc' = [pc EXCEPT ![c] = "waiting"]
    BY <1>8 DEF Register
  <2>6. SlotsTypeOK'  BY <2>2, <2>3, <2>5 DEF Slot
  <2>7. pc' \in [Conns -> Places]  BY <2>5
  <2>8. msg_received' \in [Conns -> Message]  BY <2>2, <2>4
  <2>9. name' \in [Conns -> String]  BY <2>1, <2>2
  <2>10. ThreadsTypeOK'  BY <2>5, <2>7, <2>8, <2>9
  <2> QED  BY <1>8, <2>6, <2>10 DEF Register
<1>9. CASE Follow(c)
  <2>1. /\ follow_list' \in Seq([follower : String, followed : String])
        /\ Len(follow_list') <= MaxFollows
    <3>1. msg_received[c].username \in String /\ msg_received[c].content \in String
      BY DEF Message
    <3> QED  BY <1>9, <3>1, AddFollowType DEF Follow
  <2> QED  BY <1>9, <2>1 DEF Follow
<1> QED  BY <1>1, <1>2, <1>3, <1>4, <1>5, <1>6, <1>7, <1>8, <1>9

(* processPostMessage.                                                     *)
LEMMA PostKeepsTypes ==
  ASSUME TypeInv, NEW c \in Conns,
         \/ AssignId(c) \/ AddToFeed(c) \/ CollectFollowers(c)
         \/ CollectSlots(c) \/ LockForPush(c) \/ CheckSlot(c) \/ ReadFd(c)
         \/ EnterSend(c) \/ SendPush(c) \/ UnlockPush(c) \/ NextFollower(c)
         \/ FinishPost(c)
  PROVE  TypeInv'
<1> USE DEF TypeInv, TypeOK, ClientsTypeOK, KernelTypeOK, SlotsTypeOK, FeedTypeOK,
            FollowsTypeOK, MainTypeOK, ThreadsTypeOK, PostsTypeOK, ReadsTypeOK,
            peerVars, kernelVars, slotVars, feedVars, mainVars, threadVars, postVars,
            readVars, pushHistory, PushLoop, AtSlot, Goto, Places
<1>1. CASE AssignId(c)
  <2>1. NextId(msg_id_counter) \in 0 .. IdModulus - 1  BY NextIdType
  <2>2. msg_received' \in [Conns -> Message]  BY <1>1, <2>1, MessageUpdateType DEF AssignId
  <2> QED  BY <1>1, <2>1, <2>2 DEF AssignId
<1>2. CASE AddToFeed(c)
  <2>1. PostOf(msg_received[c]) \in Post  BY DEF PostOf, Post, Message
  <2>2. feed_messages' \in [Indices -> Post]  BY <1>2, <2>1, ShiftInType DEF AddToFeed
  <2>3. log' \in Seq([post : Post, by : Conns])
    <3>1. [post |-> PostOf(msg_received[c]), by |-> c] \in [post : Post, by : Conns]
      BY <2>1
    <3> QED  BY <1>2, <3>1, AppendProperties DEF AddToFeed
  <2> QED  BY <1>2, <2>2, <2>3 DEF AddToFeed
<1>3. CASE CollectFollowers(c)
  <2>1. FollowersOf(follow_list, msg_received[c].username, MaxClients) \in Seq(String)
    BY ServerAssumption, FollowersOfType
  <2>2. to_notify' \in [Conns -> Seq(String)]  BY <1>3, <2>1 DEF CollectFollowers
  <2>3. due' \in [Conns -> SUBSET Conns]  BY <1>3 DEF CollectFollowers
  <2> QED  BY <1>3, <2>2, <2>3 DEF CollectFollowers
<1>4. CASE CollectSlots(c)
  <2>1. slots' \in [Conns -> SUBSET Slots]  BY <1>4 DEF CollectSlots, SlotsOf
  <2>2. aim' \in [Conns -> [Slots -> Conns \cup {NoConn}]]  BY <1>4 DEF CollectSlots
  <2>3. PostsTypeOK'  BY <1>4, <2>1, <2>2 DEF CollectSlots
  <2>4. PushLoop'  BY <1>4 DEF CollectSlots
  <2> QED  BY <1>4, <2>3, <2>4 DEF CollectSlots
<1>5. CASE LockForPush(c)  BY <1>5 DEF LockForPush
<1>6. CASE CheckSlot(c)  BY <1>6 DEF CheckSlot
<1>7. CASE ReadFd(c)
  <2>1. Idx(c) \in Slots  BY <1>7, IdxType DEF ReadFd
  <2> QED  BY <1>7, <2>1 DEF ReadFd
<1>8. CASE EnterSend(c)
  <2>1. OpenAt(sock[c]) \in Conns \cup {NoConn}  BY DEF OpenAt
  <2> QED  BY <1>8, <2>1 DEF EnterSend
<1>9. CASE SendPush(c)
  <2>1. Push(c) \in Item
    <3>1. Idx(c) \in Slots  BY <1>9, IdxType DEF SendPush
    <3> QED  BY <3>1 DEF Push, Item, Message
  <2>2. ClientsTypeOK' /\ KernelTypeOK'  BY <1>9, <2>1, SendType DEF SendPush
  <2> QED  BY <1>9, <2>2 DEF SendPush
<1>10. CASE UnlockPush(c)
  <2>1. PostsTypeOK'  BY <1>10 DEF UnlockPush
  <2>2. PushLoop'  BY <1>10 DEF UnlockPush
  <2> QED  BY <1>10, <2>1, <2>2 DEF UnlockPush
<1>11. CASE NextFollower(c)
  <2>1. Tail(to_notify[c]) \in Seq(String)
    BY <1>11, HeadTailProperties DEF NextFollower
  <2> QED  BY <1>11, <2>1 DEF NextFollower, NoAim
<1>12. CASE FinishPost(c)  BY <1>12 DEF FinishPost
<1> QED  BY <1>1, <1>2, <1>3, <1>4, <1>5, <1>6, <1>7, <1>8, <1>9, <1>10, <1>11, <1>12

(* processReadMessage.                                                     *)
LEMMA ReadKeepsTypes ==
  ASSUME TypeInv, NEW c \in Conns,
         \/ GetFeedMessages(c) \/ LockForFeed(c) \/ SendFeedItem(c)
         \/ SendEnd(c) \/ UnlockFeed(c)
  PROVE  TypeInv'
<1> USE DEF TypeInv, TypeOK, ClientsTypeOK, KernelTypeOK, SlotsTypeOK, FeedTypeOK,
            FollowsTypeOK, MainTypeOK, ThreadsTypeOK, PostsTypeOK, ReadsTypeOK,
            peerVars, kernelVars, slotVars, feedVars, mainVars, threadVars, postVars,
            readVars, pushHistory, PushLoop, AtSlot, Goto, Places
<1>1. CASE GetFeedMessages(c)
  <2>1. FeedItems(feed_messages) \in Seq(Post)  BY FeedItemsType
  <2> QED  BY <1>1, <2>1 DEF GetFeedMessages
<1>2. CASE LockForFeed(c)  BY <1>2 DEF LockForFeed
<1>3. CASE SendFeedItem(c)
  <2> DEFINE item == [kind |-> "feed", msg_id |-> feed_to_send[c][next_item[c]].msg_id,
                      by |-> c, to |-> c]
  <2>1. item \in Item
    <3>1. next_item[c] \in 1 .. Len(feed_to_send[c])
      BY <1>3, LenProperties DEF SendFeedItem
    <3>2. feed_to_send[c][next_item[c]] \in Post  BY <3>1, ElementOfSeq
    <3> QED  BY <3>2 DEF Item, Post
  <2>2. OpenAt(Mine(c).client_fd) \in Conns \cup {NoConn}  BY DEF OpenAt
  <2>3. ClientsTypeOK' /\ KernelTypeOK'  BY <1>3, <2>1, <2>2, SendType DEF SendFeedItem
  <2>4. ReadsTypeOK'  BY <1>3 DEF SendFeedItem
  <2> QED  BY <1>3, <2>3, <2>4 DEF SendFeedItem
<1>4. CASE SendEnd(c)
  <2>1. [kind |-> "end", msg_id |-> 0, by |-> c, to |-> c] \in Item
    BY IdAssumption DEF Item
  <2>2. OpenAt(Mine(c).client_fd) \in Conns \cup {NoConn}  BY DEF OpenAt
  <2>3. ClientsTypeOK' /\ KernelTypeOK'  BY <1>4, <2>1, <2>2, SendType DEF SendEnd
  <2> QED  BY <1>4, <2>3 DEF SendEnd
<1>5. CASE UnlockFeed(c)  BY <1>5 DEF UnlockFeed
<1> QED  BY <1>1, <1>2, <1>3, <1>4, <1>5

(* The clients.                                                            *)
LEMMA PeersKeepTypes ==
  ASSUME TypeInv, NEW c \in Conns,
         \/ Leave(c) \/ StallOrResume(c)
  PROVE  TypeInv'
<1> USE DEF TypeInv, TypeOK, ClientsTypeOK, KernelTypeOK, SlotsTypeOK, FeedTypeOK,
            FollowsTypeOK, MainTypeOK, ThreadsTypeOK, PostsTypeOK, ReadsTypeOK,
            peerVars, kernelVars, slotVars, feedVars, mainVars, threadVars, postVars,
            readVars, pushHistory, PushLoop, AtSlot, Goto, Places
<1>1. CASE Leave(c)
  <2>1. PICK how \in {"closed", "reset"}, n \in 0 .. Len(inbox[c]) :
          /\ peer' = [peer EXCEPT ![c] = how]
          /\ inbox' = [inbox EXCEPT ![c] = SubSeq(inbox[c], 1, n)]
    BY <1>1 DEF Leave
  <2>2. SubSeq(inbox[c], 1, n) \in Seq(Message)
    <3>1. \A i \in 1 .. n : inbox[c][i] \in Message
      BY LenProperties, ElementOfSeq
    <3> QED  BY <3>1, LenProperties, SubSeqProperties
  <2> QED  BY <1>1, <2>1, <2>2 DEF Leave
<1>2. CASE StallOrResume(c)  BY <1>2 DEF StallOrResume
<1> QED  BY <1>1, <1>2

LEMMA TypeInvNext == TypeInv /\ [Next]_vars => TypeInv'
<1> SUFFICES ASSUME TypeInv, [Next]_vars PROVE TypeInv'  OBVIOUS
<1>1. CASE MainStep  BY <1>1, MainKeepsTypes DEF MainStep
<1>2. ASSUME NEW c \in Conns, HandlerStep(c) PROVE TypeInv'
  BY <1>2, SessionKeepsTypes, PostKeepsTypes, ReadKeepsTypes DEF HandlerStep
<1>3. ASSUME NEW c \in Conns, Leave(c) \/ StallOrResume(c) PROVE TypeInv'
  BY <1>3, PeersKeepTypes
<1>4. CASE UNCHANGED vars
  BY <1>4 DEF vars, peerVars, kernelVars, slotVars, feedVars, mainVars, threadVars,
              postVars, readVars, pushHistory, TypeInv, TypeOK, ClientsTypeOK,
              KernelTypeOK, SlotsTypeOK, FeedTypeOK, FollowsTypeOK, MainTypeOK,
              ThreadsTypeOK, PostsTypeOK, ReadsTypeOK, PushLoop
<1> QED  BY <1>1, <1>2, <1>3, <1>4 DEF Next

(* The variables of the server keep the types of their C declarations, and *)
(* the follow list fits follow_list[MAX_FOLLOWS].                          *)
THEOREM ServerTypeCorrect == Spec => []TypeOK
<1>1. TypeInv => TypeOK  BY DEF TypeInv
<1> QED  BY TypeInvInit, TypeInvNext, <1>1, PTL DEF Spec

-----------------------------------------------------------------------------
(* Which steps write what.                                                 *)

(* A variable that a thread writes, it writes in these steps only, and of  *)
(* the locals of threads only its own.                                     *)
LEMMA ThreadWrites ==
  ASSUME NEW c \in Conns, HandlerStep(c)
  PROVE  /\ UNCHANGED <<mainVars, client_index, clobbered>>
         /\ Start(c) \/ UNCHANGED client_fd
         /\ ReceiveMessage(c) \/ UNCHANGED inbox
         /\ \/ ReceiveMessage(c) \/ Dispatch(c) \/ Register(c) \/ AssignId(c)
            \/ UNCHANGED msg_received
         /\ Register(c) \/ UNCHANGED name
         /\ Follow(c) \/ UNCHANGED follow_list
         /\ Close(c) \/ UNCHANGED fdTable
         /\ AssignId(c) \/ UNCHANGED msg_id_counter
         /\ AddToFeed(c) \/ UNCHANGED <<feed_messages, log>>
         /\ SendPush(c) \/ SendFeedItem(c) \/ SendEnd(c) \/ UNCHANGED <<peer, rcvd, up>>
         /\ CollectFollowers(c) \/ NextFollower(c) \/ UNCHANGED to_notify
         /\ CollectFollowers(c) \/ SendPush(c) \/ UNCHANGED due
         /\ CollectSlots(c) \/ NextFollower(c) \/ UNCHANGED aim
         /\ CollectSlots(c) \/ UnlockPush(c) \/ UNCHANGED slots
         /\ ReadFd(c) \/ UnlockPush(c) \/ UNCHANGED sock
         /\ EnterSend(c) \/ UnlockPush(c) \/ UNCHANGED target
         /\ GetFeedMessages(c) \/ UNCHANGED feed_to_send
         /\ GetFeedMessages(c) \/ SendFeedItem(c) \/ UNCHANGED next_item
<1> USE DEF peerVars, kernelVars, slotVars, feedVars, mainVars, threadVars, postVars,
            readVars, pushHistory
<1>1. CASE Start(c) \/ ReceiveMessage(c) \/ Close(c) \/ Dispatch(c) \/ Register(c) \/ Follow(c)
  BY <1>1 DEF Start, ReceiveMessage, Close, Dispatch, Register, Follow
<1>2. CASE Disconnect(c) \/ RefuseUnregistered(c) \/ RefuseEmptyName(c)
  BY <1>2 DEF Disconnect, RefuseUnregistered, RefuseEmptyName, LeaveSlot
<1>3. CASE AssignId(c) \/ AddToFeed(c) \/ CollectFollowers(c) \/ CollectSlots(c)
  BY <1>3 DEF AssignId, AddToFeed, CollectFollowers, CollectSlots
<1>4. CASE LockForPush(c) \/ CheckSlot(c) \/ ReadFd(c) \/ EnterSend(c)
  BY <1>4 DEF LockForPush, CheckSlot, ReadFd, EnterSend
<1>5. CASE SendPush(c) \/ SendFeedItem(c) \/ SendEnd(c)
  BY <1>5 DEF SendPush, SendFeedItem, SendEnd, Send
<1>6. CASE UnlockPush(c) \/ NextFollower(c) \/ FinishPost(c)
  BY <1>6 DEF UnlockPush, NextFollower, FinishPost
<1>7. CASE GetFeedMessages(c) \/ LockForFeed(c) \/ UnlockFeed(c)
  BY <1>7 DEF GetFeedMessages, LockForFeed, UnlockFeed
<1> QED  BY <1>1, <1>2, <1>3, <1>4, <1>5, <1>6, <1>7 DEF HandlerStep

LEMMA MainWrites ==
  ASSUME MainStep
  PROVE  /\ UNCHANGED <<inbox, rcvd, up, feedVars, follow_list, client_fd, msg_received,
                        postVars, readVars, pushHistory, name>>
         /\ Accept \/ UNCHANGED peer
         /\ Accept \/ RejectClient \/ CloseRefused \/ UNCHANGED fdTable
         /\ InitSlot \/ UNCHANGED <<send_mutex, clobbered>>
         /\ CreateThread \/ UNCHANGED <<pc, client_index>>
<1> USE DEF peerVars, kernelVars, slotVars, feedVars, mainVars, threadVars, postVars,
            readVars, pushHistory
<1>1. CASE Accept \/ ClaimSlot \/ RejectClient \/ StoreFd
  BY <1>1 DEF Accept, ClaimSlot, RejectClient, StoreFd
<1>2. CASE InitSlot \/ CreateThread \/ CreateThreadFails \/ CloseRefused
  BY <1>2 DEF InitSlot, CreateThread, CreateThreadFails, CloseRefused
<1> QED  BY <1>1, <1>2 DEF MainStep

LEMMA PeersWrite ==
  ASSUME NEW c \in Conns, Leave(c) \/ StallOrResume(c)
  PROVE  /\ UNCHANGED <<rcvd, kernelVars, slotVars, feedVars, follow_list, mainVars, pc,
                        threadVars, postVars, readVars, pushHistory, name, clobbered>>
         /\ Leave(c) \/ UNCHANGED inbox
BY DEF Leave, StallOrResume

(* A thread's own locals: a step of one thread leaves those of the others. *)
LEMMA OwnLocals ==
  ASSUME TypeInv, NEW c \in Conns, HandlerStep(c), NEW d \in Conns \ {c}
  PROVE  /\ pc'[d] = pc[d] /\ client_fd'[d] = client_fd[d] /\ inbox'[d] = inbox[d]
         /\ msg_received'[d] = msg_received[d] /\ name'[d] = name[d]
         /\ to_notify'[d] = to_notify[d] /\ due'[d] = due[d] /\ aim'[d] = aim[d]
         /\ slots'[d] = slots[d] /\ sock'[d] = sock[d] /\ target'[d] = target[d]
         /\ feed_to_send'[d] = feed_to_send[d] /\ next_item'[d] = next_item[d]
<1>1. /\ inbox \in [Conns -> Seq(Message)]
      /\ pc \in [Conns -> Places] /\ client_fd \in [Conns -> Fds \cup {0}]
      /\ msg_received \in [Conns -> Message] /\ name \in [Conns -> String]
      /\ to_notify \in [Conns -> Seq(String)] /\ slots \in [Conns -> SUBSET Slots]
      /\ sock \in [Conns -> Fds \cup {0}] /\ target \in [Conns -> Conns \cup {NoConn}]
      /\ due \in [Conns -> SUBSET Conns]
      /\ aim \in [Conns -> [Slots -> Conns \cup {NoConn}]]
      /\ feed_to_send \in [Conns -> Seq(Post)] /\ next_item \in [Conns -> Nat \ {0}]
  BY DEF TypeInv, TypeOK, ClientsTypeOK, ThreadsTypeOK, PostsTypeOK, ReadsTypeOK
<1>2. pc'[d] = pc[d]
  <2>1. pc' = pc \/ \E place : Goto(c, place)
    BY DEF HandlerStep, Start, ReceiveMessage, Disconnect, Close, RefuseUnregistered,
           Dispatch, RefuseEmptyName, Register, Follow, LeaveSlot, AssignId, AddToFeed,
           CollectFollowers, CollectSlots, LockForPush, CheckSlot, ReadFd, EnterSend,
           SendPush, UnlockPush, NextFollower, FinishPost, GetFeedMessages, LockForFeed,
           SendFeedItem, SendEnd, UnlockFeed
  <2> QED  BY <2>1, <1>1 DEF Goto
<1>3. client_fd'[d] = client_fd[d] /\ inbox'[d] = inbox[d]
  BY <1>1, ThreadWrites DEF Start, ReceiveMessage
<1>4. msg_received'[d] = msg_received[d]
  <2>1. CASE ReceiveMessage(c) \/ AssignId(c)  BY <2>1, <1>1 DEF ReceiveMessage, AssignId
  <2>2. CASE Dispatch(c) \/ Register(c)  BY <2>2, <1>1 DEF Dispatch, Register
  <2> QED  BY <2>1, <2>2, ThreadWrites
<1>5. name'[d] = name[d]  BY <1>1, ThreadWrites DEF Register
<1>6. to_notify'[d] = to_notify[d] /\ due'[d] = due[d] /\ aim'[d] = aim[d]
  <2>1. to_notify'[d] = to_notify[d]  BY <1>1, ThreadWrites DEF CollectFollowers, NextFollower
  <2>2. due'[d] = due[d]  BY <1>1, ThreadWrites DEF CollectFollowers, SendPush
  <2>3. aim'[d] = aim[d]  BY <1>1, ThreadWrites DEF CollectSlots, NextFollower
  <2> QED  BY <2>1, <2>2, <2>3
<1>7. slots'[d] = slots[d] /\ sock'[d] = sock[d] /\ target'[d] = target[d]
  <2>1. slots'[d] = slots[d]
    <3>1. CollectSlots(c) \/ UnlockPush(c) \/ UNCHANGED slots  BY ThreadWrites
    <3> QED  BY <3>1, <1>1 DEF CollectSlots, UnlockPush
  <2>2. sock'[d] = sock[d]
    <3>1. ReadFd(c) \/ UnlockPush(c) \/ UNCHANGED sock  BY ThreadWrites
    <3> QED  BY <3>1, <1>1 DEF ReadFd, UnlockPush
  <2>3. target'[d] = target[d]
    <3>1. EnterSend(c) \/ UnlockPush(c) \/ UNCHANGED target  BY ThreadWrites
    <3> QED  BY <3>1, <1>1 DEF EnterSend, UnlockPush
  <2> QED  BY <2>1, <2>2, <2>3
<1>8. feed_to_send'[d] = feed_to_send[d] /\ next_item'[d] = next_item[d]
  BY <1>1, ThreadWrites DEF GetFeedMessages, SendFeedItem
<1> QED  BY <1>2, <1>3, <1>4, <1>5, <1>6, <1>7, <1>8

-----------------------------------------------------------------------------
(* Ownership.  SlotOwnership speaks of threads in session only; what makes *)
(* it inductive is what main has in hand for the next session and what a   *)
(* thread still holds when its session is over.                            *)

MainHolds ==
  /\ main_pc # "accept" =>
       /\ client_socket \in Fds
       /\ fdTable[client_socket] \in Conns
       /\ pc[fdTable[client_socket]] = "none"
  /\ main_pc \in {"store_fd", "init_slot", "create"} => clients[new_index].active
  /\ main_pc \in {"init_slot", "create"} =>
       clients[new_index].client_fd = client_socket

ClosingHolds ==
  \A c \in Conns : pc[c] = "close" =>
    /\ OpenAt(client_fd[c]) = c
    /\ ~MainHasFd(client_fd[c])

NewIsUnknown ==
  /\ \A c \in Conns : peer[c] = "new" => pc[c] = "none"
  /\ \A f \in Fds : fdTable[f] \in Conns => peer[fdTable[f]] # "new"

OwnInv == SlotOwnership /\ NothingLeaks /\ MainHolds /\ ClosingHolds /\ NewIsUnknown

LEMMA OwnInit == Init => OwnInv
BY ServerAssumption DEF Init, OwnInv, SlotOwnership, NothingLeaks, MainHolds,
                        ClosingHolds, NewIsUnknown, InSession

(* Most steps of a thread change none of this: the thread stays in session *)
(* and no slot or descriptor changes hands.                                *)
Quiet(c) ==
  /\ UNCHANGED <<fdTable, mainVars, client_index, client_fd>>
  /\ \A s \in Slots : /\ clients'[s].active = clients[s].active
                      /\ clients'[s].client_fd = clients[s].client_fd
  /\ \A d \in Conns : peer'[d] = "new" => peer[d] = "new"
  /\ \A d \in Conns \ {c} : pc'[d] = pc[d]
  /\ pc'[c] = pc[c] \/ (/\ InSession(c) /\ pc[c] # "start"
                        /\ pc'[c] \notin {"none", "start", "close", "done"})

LEMMA QuietStep ==
  ASSUME TypeInv, OwnInv, NEW c \in Conns, Quiet(c)
  PROVE  OwnInv'
<1> USE DEF Quiet, mainVars
<1>1. \A d \in Conns : client_index[d] \in Slots
  BY DEF TypeInv, TypeOK, ThreadsTypeOK
<1>2. \A d \in Conns : InSession(d)' <=> InSession(d)  BY DEF InSession
<1>3. \A d \in Conns : /\ pc'[d] = "start" <=> pc[d] = "start"
                       /\ pc'[d] = "none" <=> pc[d] = "none"
                       /\ pc'[d] = "close" <=> pc[d] = "close"
                       /\ pc'[d] = "done" <=> pc[d] = "done"
  BY DEF InSession
<1>4. \A d \in Conns : /\ Mine(d)'.active = Mine(d).active
                       /\ Mine(d)'.client_fd = Mine(d).client_fd
                       /\ FdOf(d)' = FdOf(d)
  BY <1>1, <1>3 DEF Mine, FdOf
<1>5. /\ \A f : MainHasFd(f)' <=> MainHasFd(f)
      /\ \A f : OpenAt(f)' = OpenAt(f)
      /\ \A s : MainHasSlot(s)' <=> MainHasSlot(s)
  BY DEF MainHasFd, OpenAt, MainHasSlot
<1>6. SlotOwnership'
  BY <1>2, <1>4, <1>5 DEF OwnInv, SlotOwnership
<1>7. NothingLeaks'
  <2>1. \A f \in Fds : fdTable[f] \in Conns \cup {NoConn}
    BY DEF TypeInv, TypeOK, KernelTypeOK
  <2> QED  BY <2>1, <1>2, <1>3, <1>4, <1>5 DEF OwnInv, NothingLeaks
<1>8. MainHolds'
  <2>1. new_index \in Slots  BY DEF TypeInv, TypeOK, MainTypeOK
  <2> QED  BY <2>1, <1>3 DEF OwnInv, MainHolds
<1>9. ClosingHolds'  BY <1>3, <1>5 DEF OwnInv, ClosingHolds
<1>10. NewIsUnknown'  BY <1>3 DEF OwnInv, NewIsUnknown
<1> QED  BY <1>6, <1>7, <1>8, <1>9, <1>10 DEF OwnInv

LEMMA QuietActions ==
  ASSUME TypeInv, NEW c \in Conns,
         \/ ReceiveMessage(c) \/ Dispatch(c) \/ Register(c) \/ Follow(c)
         \/ AssignId(c) \/ AddToFeed(c) \/ CollectFollowers(c) \/ CollectSlots(c)
         \/ LockForPush(c) \/ CheckSlot(c) \/ ReadFd(c) \/ EnterSend(c) \/ SendPush(c)
         \/ UnlockPush(c) \/ NextFollower(c) \/ FinishPost(c)
         \/ GetFeedMessages(c) \/ LockForFeed(c) \/ SendFeedItem(c) \/ SendEnd(c)
         \/ UnlockFeed(c)
         \/ Leave(c) \/ StallOrResume(c)
  PROVE  Quiet(c)
<1> USE DEF Quiet, InSession, Goto, peerVars, kernelVars, slotVars, mainVars, threadVars
<1>1. pc \in [Conns -> Places]  BY DEF TypeInv, TypeOK, ThreadsTypeOK
<1>2. peer \in [Conns -> {"new", "reading", "stalled", "closed", "reset"}]
  BY DEF TypeInv, TypeOK, ClientsTypeOK
<1>3. CASE ReceiveMessage(c)  BY <1>1, <1>3 DEF ReceiveMessage
<1>4. CASE Dispatch(c)  BY <1>1, <1>4 DEF Dispatch
<1>5. CASE Register(c)
  <2>1. \A s \in Slots : /\ clients'[s].active = clients[s].active
                         /\ clients'[s].client_fd = clients[s].client_fd
    <3>1. clients \in [Slots -> Slot]  BY DEF TypeInv, TypeOK, SlotsTypeOK, Slot
    <3>3. \/ UNCHANGED clients
          \/ \E u : clients' = [clients EXCEPT ![client_index[c]].username = u]
      BY <1>5 DEF Register
    <3>4. ASSUME NEW i, NEW u, clients' = [clients EXCEPT ![i].username = u],
                 NEW s \in Slots
          PROVE  /\ clients'[s].active = clients[s].active
                 /\ clients'[s].client_fd = clients[s].client_fd
      <4>1. clients[s] \in Slot  BY <3>1
      <4>2. CASE s = i  BY <3>1, <3>4, <4>1, <4>2 DEF Slot
      <4>3. CASE s # i  BY <3>1, <3>4, <4>3
      <4> QED  BY <4>2, <4>3
    <3> QED  BY <3>3, <3>4
  <2> QED  BY <1>1, <1>5, <2>1 DEF Register
<1>6. CASE Follow(c)  BY <1>1, <1>6 DEF Follow
<1>7. CASE AssignId(c) \/ AddToFeed(c) \/ CollectFollowers(c) \/ CollectSlots(c)
  BY <1>1, <1>7 DEF AssignId, AddToFeed, CollectFollowers, CollectSlots
<1>8. CASE LockForPush(c) \/ CheckSlot(c) \/ ReadFd(c) \/ EnterSend(c)
  BY <1>1, <1>8 DEF LockForPush, CheckSlot, ReadFd, EnterSend
<1>9. CASE SendPush(c)  BY <1>1, <1>2, <1>9 DEF SendPush, Send
<1>10. CASE UnlockPush(c) \/ NextFollower(c) \/ FinishPost(c)
  BY <1>1, <1>10 DEF UnlockPush, NextFollower, FinishPost
<1>11. CASE GetFeedMessages(c) \/ LockForFeed(c) \/ UnlockFeed(c)
  BY <1>1, <1>11 DEF GetFeedMessages, LockForFeed, UnlockFeed
<1>12. CASE SendFeedItem(c)  BY <1>1, <1>2, <1>12 DEF SendFeedItem, Send
<1>13. CASE SendEnd(c)  BY <1>1, <1>2, <1>13 DEF SendEnd, Send
<1>14. CASE Leave(c) \/ StallOrResume(c)
  BY <1>1, <1>2, <1>14 DEF Leave, StallOrResume, Here
<1> QED
  BY <1>3, <1>4, <1>5, <1>6, <1>7, <1>8, <1>9, <1>10, <1>11, <1>12, <1>13, <1>14

(* A new connection: its descriptor was nobody's.                          *)
LEMMA OwnAccept == TypeInv /\ OwnInv /\ Accept => OwnInv'
<1> SUFFICES ASSUME TypeInv, OwnInv, Accept PROVE OwnInv'  OBVIOUS
<1> USE DEF OwnInv, InSession, slotVars
<1>1. PICK c \in Conns, f \in Fds :
        /\ peer[c] = "new" /\ fdTable[f] = NoConn
        /\ fdTable' = [fdTable EXCEPT ![f] = c] /\ client_socket' = f
        /\ peer' = [peer EXCEPT ![c] = "reading"]
  BY DEF Accept
<1>2. /\ main_pc = "accept" /\ main_pc' = "find_slot"
      /\ UNCHANGED <<clients, new_index, pc, client_index, client_fd>>
  BY DEF Accept, threadVars
<1>3. /\ fdTable \in [Fds -> Conns \cup {NoConn}] /\ NoConn \notin Conns
      /\ peer \in [Conns -> {"new", "reading", "stalled", "closed", "reset"}]
  BY ServerAssumption DEF TypeInv, TypeOK, KernelTypeOK, ClientsTypeOK
<1>4. \A d : Mine(d)' = Mine(d) /\ FdOf(d)' = FdOf(d)  BY <1>2 DEF Mine, FdOf
<1>5. \A g : g # f => OpenAt(g)' = OpenAt(g)  BY <1>1, <1>3 DEF OpenAt
<1>6. OpenAt(f) = NoConn  BY <1>1 DEF OpenAt
<1>7. SlotOwnership'
  <2>1. \A d \in Conns : InSession(d) => FdOf(d) # f
    BY <1>3, <1>6 DEF SlotOwnership
  <2> QED
    BY <1>1, <1>2, <1>4, <1>5, <2>1 DEF SlotOwnership, MainHasSlot, MainHasFd
<1>8. NothingLeaks'
  BY <1>1, <1>2, <1>3, <1>4 DEF NothingLeaks, MainHasSlot, MainHasFd
<1>9. MainHolds'  BY <1>1, <1>2, <1>3 DEF MainHolds, NewIsUnknown
<1>10. ClosingHolds'
  BY <1>1, <1>2, <1>3, <1>5, <1>6 DEF ClosingHolds, MainHasFd
<1>11. NewIsUnknown'  BY <1>1, <1>2, <1>3 DEF NewIsUnknown
<1> QED  BY <1>7, <1>8, <1>9, <1>10, <1>11

(* main refuses a connection: it closes a descriptor only it has.          *)
LEMMA OwnRefuse == TypeInv /\ OwnInv /\ (RejectClient \/ CloseRefused) => OwnInv'
<1> SUFFICES ASSUME TypeInv, OwnInv, RejectClient \/ CloseRefused PROVE OwnInv'
  OBVIOUS
<1> USE DEF OwnInv, InSession, slotVars, peerVars, threadVars
<1>1. /\ main_pc \in {"find_slot", "close"} /\ main_pc' = "accept"
      /\ fdTable' = [fdTable EXCEPT ![client_socket] = NoConn]
      /\ UNCHANGED <<peer, clients, client_socket, new_index, pc, client_index, client_fd>>
  BY DEF RejectClient, CloseRefused
<1>2. fdTable \in [Fds -> Conns \cup {NoConn}]
  BY DEF TypeInv, TypeOK, KernelTypeOK
<1>3. \A d : Mine(d)' = Mine(d) /\ FdOf(d)' = FdOf(d)  BY <1>1 DEF Mine, FdOf
<1>4. \A f : ~MainHasFd(f) => OpenAt(f)' = OpenAt(f)
  BY <1>1, <1>2 DEF MainHasFd, OpenAt
<1>5. /\ \A f : ~MainHasFd(f)'
      /\ \A s : ~MainHasSlot(s) /\ ~MainHasSlot(s)'
  BY <1>1 DEF MainHasFd, MainHasSlot
<1>6. SlotOwnership'  BY <1>1, <1>3, <1>4, <1>5 DEF SlotOwnership
<1>7. NothingLeaks'
  <2>1. \A f \in Fds : MainHasFd(f) => fdTable'[f] = NoConn
    BY <1>1, <1>2 DEF MainHasFd
  <2>2. \A f \in Fds : ~MainHasFd(f) => fdTable'[f] = fdTable[f]
    BY <1>1, <1>2 DEF MainHasFd
  <2> QED  BY <1>1, <1>3, <1>5, <2>1, <2>2 DEF NothingLeaks
<1>8. MainHolds'  BY <1>1 DEF MainHolds
<1>9. ClosingHolds'  BY <1>1, <1>4, <1>5 DEF ClosingHolds
<1>10. NewIsUnknown'  BY <1>1, <1>2, ServerAssumption DEF NewIsUnknown
<1> QED  BY <1>6, <1>7, <1>8, <1>9, <1>10

(* main takes an inactive slot, so no session's.                           *)
LEMMA OwnClaim == TypeInv /\ OwnInv /\ ClaimSlot => OwnInv'
<1> SUFFICES ASSUME TypeInv, OwnInv, ClaimSlot PROVE OwnInv'  OBVIOUS
<1> USE DEF OwnInv, InSession, kernelVars, peerVars, threadVars
<1> DEFINE n == Lowest(FreeSlots)
<1>1. n \in Slots /\ ~clients[n].active  BY LowestIn DEF ClaimSlot, FreeSlots
<1> HIDE DEF n
<1>2. /\ main_pc = "find_slot" /\ main_pc' = "store_fd" /\ new_index' = n
      /\ clients' = [clients EXCEPT ![n].active = TRUE]
      /\ UNCHANGED <<peer, fdTable, client_socket, pc, client_index, client_fd>>
  BY DEF ClaimSlot, n
<1>3. clients \in [Slots -> Slot] /\ client_index \in [Conns -> Slots]
  BY DEF TypeInv, TypeOK, SlotsTypeOK, ThreadsTypeOK, Slot
<1>4. /\ clients'[n].active
      /\ \A s \in Slots : clients'[s].client_fd = clients[s].client_fd
      /\ \A s \in Slots \ {n} : clients'[s].active = clients[s].active
  <2>1. \A s \in Slots : clients[s] \in Slot  BY <1>3
  <2> QED  BY <1>1, <1>2, <1>3, <2>1 DEF Slot
<1>5. \A d \in Conns : FdOf(d)' = FdOf(d)  BY <1>2, <1>3, <1>4 DEF Mine, FdOf
<1>6. \A f : /\ OpenAt(f)' = OpenAt(f)
             /\ MainHasFd(f)' <=> MainHasFd(f)
  BY <1>2 DEF OpenAt, MainHasFd
<1>7. SlotOwnership'
  <2>1. \A d \in Conns : InSession(d) => client_index[d] # n
    BY <1>1 DEF SlotOwnership, Mine
  <2> QED
    BY <1>2, <1>3, <1>4, <1>5, <1>6, <2>1 DEF SlotOwnership, Mine, MainHasSlot
<1>8. NothingLeaks'
  <2>1. \A s \in Slots : clients'[s].active => s = n \/ clients[s].active
    BY <1>4
  <2>2. \A f \in Fds : fdTable[f] \in Conns \cup {NoConn}
    BY DEF TypeInv, TypeOK, KernelTypeOK
  <2> QED  BY <1>2, <1>5, <1>6, <2>1, <2>2 DEF NothingLeaks, MainHasSlot
<1>9. MainHolds'  BY <1>1, <1>2, <1>4 DEF MainHolds
<1>10. ClosingHolds'  BY <1>2, <1>6 DEF ClosingHolds
<1>11. NewIsUnknown'  BY <1>2 DEF NewIsUnknown
<1> QED  BY <1>7, <1>8, <1>9, <1>10, <1>11

(* main stores the descriptor in the slot it took.                         *)
LEMMA OwnStoreFd == TypeInv /\ OwnInv /\ StoreFd => OwnInv'
<1> SUFFICES ASSUME TypeInv, OwnInv, StoreFd PROVE OwnInv'  OBVIOUS
<1> USE DEF OwnInv, InSession, kernelVars, peerVars, threadVars
<1>1. /\ main_pc = "store_fd" /\ main_pc' = "init_slot"
      /\ clients' = [clients EXCEPT ![new_index].client_fd = client_socket]
      /\ UNCHANGED <<peer, fdTable, client_socket, new_index, pc, client_index, client_fd>>
  BY DEF StoreFd
<1>2. /\ clients \in [Slots -> Slot] /\ client_index \in [Conns -> Slots]
      /\ new_index \in Slots
  BY DEF TypeInv, TypeOK, SlotsTypeOK, ThreadsTypeOK, MainTypeOK, Slot
<1>3. /\ clients'[new_index].client_fd = client_socket
      /\ \A s \in Slots : clients'[s].active = clients[s].active
      /\ \A s \in Slots \ {new_index} : clients'[s].client_fd = clients[s].client_fd
  <2>1. \A s \in Slots : clients[s] \in Slot  BY <1>2
  <2> QED  BY <1>1, <1>2, <2>1 DEF Slot
<1>4. /\ \A f : OpenAt(f)' = OpenAt(f)
      /\ \A f : MainHasFd(f)' <=> MainHasFd(f)
      /\ \A s : MainHasSlot(s)' <=> MainHasSlot(s)
  BY <1>1 DEF OpenAt, MainHasFd, MainHasSlot
<1>5. \A d \in Conns : InSession(d) => client_index[d] # new_index
  BY <1>1 DEF SlotOwnership, MainHasSlot
<1>6. \A d \in Conns : pc[d] \notin {"none", "done"} => FdOf(d)' = FdOf(d)
  BY <1>1, <1>2, <1>3, <1>5 DEF Mine, FdOf
<1>7. SlotOwnership'
  BY <1>1, <1>2, <1>3, <1>4, <1>5, <1>6 DEF SlotOwnership, Mine
<1>8. NothingLeaks'
  <2>1. \A f \in Fds : fdTable[f] \in Conns \cup {NoConn}
    BY DEF TypeInv, TypeOK, KernelTypeOK
  <2> QED  BY <1>1, <1>3, <1>4, <1>6, <2>1 DEF NothingLeaks
<1>9. MainHolds'  BY <1>1, <1>2, <1>3 DEF MainHolds
<1>10. ClosingHolds'  BY <1>1, <1>4 DEF ClosingHolds
<1>11. NewIsUnknown'  BY <1>1 DEF NewIsUnknown
<1> QED  BY <1>7, <1>8, <1>9, <1>10, <1>11

(* main clears the name: nobody's descriptor or slot changes.              *)
LEMMA OwnInitSlot == TypeInv /\ OwnInv /\ InitSlot => OwnInv'
<1> SUFFICES ASSUME TypeInv, OwnInv, InitSlot PROVE OwnInv'  OBVIOUS
<1> USE DEF OwnInv, InSession, kernelVars, peerVars, threadVars
<1>1. /\ main_pc = "init_slot" /\ main_pc' = "create"
      /\ clients' = [clients EXCEPT ![new_index].username = Empty]
      /\ UNCHANGED <<peer, fdTable, client_socket, new_index, pc, client_index, client_fd>>
  BY DEF InitSlot
<1>2. /\ clients \in [Slots -> Slot] /\ client_index \in [Conns -> Slots]
      /\ new_index \in Slots
  BY DEF TypeInv, TypeOK, SlotsTypeOK, ThreadsTypeOK, MainTypeOK, Slot
<1>3. \A s \in Slots : /\ clients'[s].active = clients[s].active
                       /\ clients'[s].client_fd = clients[s].client_fd
  <2>1. \A s \in Slots : clients[s] \in Slot  BY <1>2
  <2> QED  BY <1>1, <1>2, <2>1 DEF Slot
<1>4. /\ \A f : OpenAt(f)' = OpenAt(f)
      /\ \A f : MainHasFd(f)' <=> MainHasFd(f)
      /\ \A s : MainHasSlot(s)' <=> MainHasSlot(s)
  BY <1>1 DEF OpenAt, MainHasFd, MainHasSlot
<1>5. \A d \in Conns : FdOf(d)' = FdOf(d)  BY <1>1, <1>2, <1>3 DEF Mine, FdOf
<1>6. SlotOwnership'  BY <1>1, <1>2, <1>3, <1>4, <1>5 DEF SlotOwnership, Mine
<1>7. NothingLeaks'
  <2>1. \A f \in Fds : fdTable[f] \in Conns \cup {NoConn}
    BY DEF TypeInv, TypeOK, KernelTypeOK
  <2> QED  BY <1>1, <1>3, <1>4, <1>5, <2>1 DEF NothingLeaks
<1>8. MainHolds'  BY <1>1, <1>2, <1>3 DEF MainHolds
<1>9. ClosingHolds'  BY <1>1, <1>4 DEF ClosingHolds
<1>10. NewIsUnknown'  BY <1>1 DEF NewIsUnknown
<1> QED  BY <1>6, <1>7, <1>8, <1>9, <1>10

(* What main has in hand goes to the new thread.                           *)
LEMMA OwnCreate == TypeInv /\ OwnInv /\ CreateThread => OwnInv'
<1> SUFFICES ASSUME TypeInv, OwnInv, CreateThread PROVE OwnInv'  OBVIOUS
<1> USE DEF OwnInv, InSession, kernelVars, peerVars, slotVars
<1>1. PICK c \in Conns : c = fdTable[client_socket]
  BY DEF MainHolds, CreateThread
<1>2. /\ client_socket \in Fds /\ c = fdTable[client_socket] /\ pc[c] = "none"
      /\ clients[new_index].active
      /\ clients[new_index].client_fd = client_socket
      /\ main_pc = "create"
  BY <1>1 DEF MainHolds, CreateThread
<1>3. /\ pc' = [pc EXCEPT ![c] = "start"]
      /\ client_index' = [client_index EXCEPT ![c] = new_index]
      /\ main_pc' = "accept"
      /\ UNCHANGED <<peer, fdTable, clients, client_socket, new_index, client_fd>>
  BY <1>2 DEF CreateThread
<1>4. /\ pc \in [Conns -> Places] /\ client_index \in [Conns -> Slots]
      /\ new_index \in Slots
  BY DEF TypeInv, TypeOK, ThreadsTypeOK, MainTypeOK
<1>5. OpenAt(client_socket) = c /\ \A f : OpenAt(f)' = OpenAt(f)
  BY <1>2, <1>3 DEF OpenAt
<1>6. /\ \A f : ~MainHasFd(f)' /\ (MainHasFd(f) <=> f = client_socket)
      /\ \A s : ~MainHasSlot(s)' /\ (MainHasSlot(s) <=> s = new_index)
  BY <1>2, <1>3 DEF MainHasFd, MainHasSlot
<1>7. /\ Mine(c)'.active /\ FdOf(c)' = client_socket
      /\ Mine(c)'.client_fd = client_socket
      /\ client_index'[c] = new_index /\ pc'[c] = "start"
  BY <1>2, <1>3, <1>4 DEF Mine, FdOf
<1>8. \A d \in Conns \ {c} : /\ Mine(d)' = Mine(d) /\ FdOf(d)' = FdOf(d)
                             /\ pc'[d] = pc[d] /\ client_index'[d] = client_index[d]
  <2> TAKE d \in Conns \ {c}
  <2>1. pc'[d] = pc[d] /\ client_index'[d] = client_index[d]  BY <1>3, <1>4
  <2> QED  BY <2>1, <1>3 DEF Mine, FdOf
<1>9. SlotOwnership'
  <2>1. \A d \in Conns : InSession(d) => client_index[d] # new_index
    BY <1>6 DEF SlotOwnership
  <2>2. ASSUME NEW d \in Conns \ {c}, InSession(d)'
        PROVE  /\ Mine(d)'.active
               /\ Mine(d)'.client_fd = FdOf(d)'
               /\ OpenAt(FdOf(d))' = d
               /\ \A e \in Conns \ {d} : InSession(e)' => client_index'[e] # client_index'[d]
    BY <2>1, <2>2, <1>5, <1>7, <1>8 DEF SlotOwnership
  <2>3. \A e \in Conns \ {c} : InSession(e)' => client_index'[e] # client_index'[c]
    BY <2>1, <1>7, <1>8
  <2>4. OpenAt(FdOf(c))' = c  BY <1>5, <1>7
  <2>5. ASSUME NEW d \in Conns, InSession(d)'
        PROVE  /\ Mine(d)'.active
               /\ Mine(d)'.client_fd = FdOf(d)'
               /\ OpenAt(FdOf(d))' = d
               /\ \A e \in Conns \ {d} : InSession(e)' => client_index'[e] # client_index'[d]
    <3>1. CASE d = c  BY <3>1, <2>3, <2>4, <1>7
    <3>2. CASE d # c  BY <3>2, <2>2, <2>5
    <3> QED  BY <3>1, <3>2
  <2> HIDE DEF InSession
  <2> QED  BY <2>5, <1>6 DEF SlotOwnership
<1>10. NothingLeaks'
  <2>1. \A s \in Slots : clients[s].active =>
          s = new_index \/ \E d \in Conns \ {c} : InSession(d) /\ client_index[d] = s
    BY <1>2, <1>6 DEF NothingLeaks
  <2>2. \A f \in Fds : fdTable[f] # NoConn =>
          \/ f = client_socket
          \/ /\ fdTable[f] # c
             /\ pc[fdTable[f]] \notin {"none", "done"} /\ FdOf(fdTable[f]) = f
    BY <1>2, <1>6 DEF NothingLeaks
  <2>3. \A f \in Fds : fdTable[f] \in Conns \cup {NoConn}
    BY DEF TypeInv, TypeOK, KernelTypeOK
  <2>5. \A s \in Slots : clients'[s].active =>
          \E d \in Conns : InSession(d)' /\ client_index'[d] = s
    BY <2>1, <1>2, <1>3, <1>7, <1>8
  <2>6. \A f \in Fds : fdTable'[f] # NoConn =>
          pc'[fdTable'[f]] \notin {"none", "done"} /\ (FdOf(fdTable[f]))' = f
    <3> TAKE f \in Fds
    <3> HAVE fdTable'[f] # NoConn
    <3>1. CASE f = client_socket  BY <3>1, <1>2, <1>3, <1>7
    <3>2. CASE f # client_socket
      <4>1. fdTable[f] \in Conns \ {c}  BY <3>2, <2>2, <2>3, <1>3
      <4>2. FdOf(fdTable[f])' = FdOf(fdTable[f])  BY <4>1, <1>3, <1>8
      <4> QED  BY <3>2, <4>1, <4>2, <2>2, <1>3, <1>8
    <3> QED  BY <3>1, <3>2
  <2> QED  BY <2>5, <2>6 DEF NothingLeaks
<1>11. MainHolds'  BY <1>3 DEF MainHolds
<1>12. ClosingHolds'
  BY <1>3, <1>5, <1>6, <1>7, <1>8 DEF ClosingHolds
<1>13. NewIsUnknown'
  <2>1. peer[c] # "new"  BY <1>2 DEF NewIsUnknown
  <2> QED  BY <2>1, <1>3, <1>8 DEF NewIsUnknown
<1> QED  BY <1>9, <1>10, <1>11, <1>12, <1>13

(* main gives the slot back that it has in hand.                           *)
LEMMA OwnCreateFails == TypeInv /\ OwnInv /\ CreateThreadFails => OwnInv'
<1> SUFFICES ASSUME TypeInv, OwnInv, CreateThreadFails PROVE OwnInv'  OBVIOUS
<1> USE DEF OwnInv, InSession, kernelVars, peerVars, threadVars
<1>1. /\ main_pc = "create" /\ main_pc' = "close"
      /\ clients' = [clients EXCEPT ![new_index].active = FALSE]
      /\ UNCHANGED <<peer, fdTable, client_socket, new_index, pc, client_index, client_fd>>
  BY DEF CreateThreadFails
<1>2. /\ clients \in [Slots -> Slot] /\ client_index \in [Conns -> Slots]
      /\ new_index \in Slots
  BY DEF TypeInv, TypeOK, SlotsTypeOK, ThreadsTypeOK, MainTypeOK, Slot
<1>3. /\ ~clients'[new_index].active
      /\ \A s \in Slots \ {new_index} : clients'[s].active = clients[s].active
      /\ \A s \in Slots : clients'[s].client_fd = clients[s].client_fd
  <2>1. \A s \in Slots : clients[s] \in Slot  BY <1>2
  <2> QED  BY <1>1, <1>2, <2>1 DEF Slot
<1>4. /\ \A f : OpenAt(f)' = OpenAt(f)
      /\ \A f : MainHasFd(f)' <=> MainHasFd(f)
      /\ \A s : ~MainHasSlot(s)' /\ (MainHasSlot(s) <=> s = new_index)
  BY <1>1 DEF OpenAt, MainHasFd, MainHasSlot
<1>5. \A d \in Conns : FdOf(d)' = FdOf(d)  BY <1>1, <1>2, <1>3 DEF Mine, FdOf
<1>6. SlotOwnership'
  <2>1. \A d \in Conns : InSession(d) => client_index[d] # new_index
    BY <1>4 DEF SlotOwnership
  <2> QED  BY <1>1, <1>2, <1>3, <1>4, <1>5, <2>1 DEF SlotOwnership, Mine
<1>7. NothingLeaks'
  <2>1. \A f \in Fds : fdTable[f] \in Conns \cup {NoConn}
    BY DEF TypeInv, TypeOK, KernelTypeOK
  <2> QED  BY <1>1, <1>3, <1>4, <1>5, <2>1 DEF NothingLeaks
<1>8. MainHolds'  BY <1>1 DEF MainHolds
<1>9. ClosingHolds'  BY <1>1, <1>4 DEF ClosingHolds
<1>10. NewIsUnknown'  BY <1>1 DEF NewIsUnknown
<1> QED  BY <1>6, <1>7, <1>8, <1>9, <1>10

(* A thread finds its slot active, and takes the descriptor that is its.   *)
LEMMA OwnStart ==
  ASSUME TypeInv, OwnInv, NEW c \in Conns, Start(c)
  PROVE  OwnInv'
<1> USE DEF OwnInv, InSession, kernelVars, peerVars, slotVars, mainVars
<1>1. pc[c] = "start" /\ Mine(c).active  BY DEF Start, SlotOwnership
<1>2. /\ client_fd' = [client_fd EXCEPT ![c] = Mine(c).client_fd]
      /\ pc' = [pc EXCEPT ![c] = "waiting"]
      /\ UNCHANGED <<peer, fdTable, clients, client_index, main_pc, client_socket, new_index>>
  BY <1>1 DEF Start, Goto
<1>3. /\ pc \in [Conns -> Places] /\ client_fd \in [Conns -> Fds \cup {0}]
      /\ fdTable \in [Fds -> Conns \cup {NoConn}]
  BY DEF TypeInv, TypeOK, ThreadsTypeOK, KernelTypeOK
<1>4. /\ \A d \in Conns : Mine(d)' = Mine(d)
      /\ \A f : OpenAt(f)' = OpenAt(f)
      /\ \A f : MainHasFd(f)' <=> MainHasFd(f)
      /\ \A s : MainHasSlot(s)' <=> MainHasSlot(s)
  BY <1>2 DEF Mine, OpenAt, MainHasFd, MainHasSlot
<1>5. \A d \in Conns : FdOf(d)' = FdOf(d)
  <2> TAKE d \in Conns
  <2>1. CASE d = c  BY <2>1, <1>1, <1>2, <1>3, <1>4 DEF FdOf
  <2>2. CASE d # c  BY <2>2, <1>2, <1>3, <1>4 DEF FdOf
  <2> QED  BY <2>1, <2>2
<1>6. \A d \in Conns : /\ InSession(d)' <=> InSession(d)
                       /\ pc'[d] = "close" => pc[d] = "close" /\ client_fd'[d] = client_fd[d]
                       /\ pc'[d] = "none" <=> pc[d] = "none"
                       /\ pc'[d] = "done" <=> pc[d] = "done"
  BY <1>1, <1>2, <1>3
<1>7. SlotOwnership'  BY <1>2, <1>4, <1>5, <1>6 DEF SlotOwnership
<1>8. NothingLeaks'  BY <1>2, <1>3, <1>4, <1>5, <1>6 DEF NothingLeaks
<1>9. MainHolds'  BY <1>2, <1>3, <1>6 DEF MainHolds
<1>10. ClosingHolds'  BY <1>4, <1>6 DEF ClosingHolds
<1>11. NewIsUnknown'  BY <1>2, <1>6 DEF NewIsUnknown
<1> QED  BY <1>7, <1>8, <1>9, <1>10, <1>11

(* A thread gives its slot back, and keeps the descriptor.                 *)
LEMMA OwnLeaveSlot ==
  ASSUME TypeInv, OwnInv, NEW c \in Conns, LeaveSlot(c), InSession(c), pc[c] # "start"
  PROVE  OwnInv'
<1> USE DEF OwnInv, InSession, kernelVars, peerVars, mainVars, threadVars
<1> DEFINE n == client_index[c]
<1>1. /\ clients' = [clients EXCEPT ![n].active = FALSE]
      /\ pc' = [pc EXCEPT ![c] = "close"]
      /\ UNCHANGED <<peer, fdTable, client_index, client_fd, main_pc, client_socket, new_index>>
  BY DEF LeaveSlot, Goto
<1>2. /\ clients \in [Slots -> Slot] /\ client_index \in [Conns -> Slots]
      /\ pc \in [Conns -> Places] /\ fdTable \in [Fds -> Conns \cup {NoConn}]
      /\ n \in Slots
  BY DEF TypeInv, TypeOK, SlotsTypeOK, ThreadsTypeOK, KernelTypeOK, Slot
<1>3. /\ ~clients'[n].active
      /\ \A s \in Slots \ {n} : clients'[s].active = clients[s].active
      /\ \A s \in Slots : clients'[s].client_fd = clients[s].client_fd
  <2>1. \A s \in Slots : clients[s] \in Slot  BY <1>2
  <2> HIDE DEF n
  <2> QED  BY <1>1, <1>2, <2>1 DEF Slot
<1>4. /\ \A f : OpenAt(f)' = OpenAt(f)
      /\ \A f : MainHasFd(f)' <=> MainHasFd(f)
      /\ \A s : MainHasSlot(s)' <=> MainHasSlot(s)
  BY <1>1 DEF OpenAt, MainHasFd, MainHasSlot
<1>5. \A d \in Conns \ {c} : pc'[d] = pc[d]  BY <1>1, <1>2
<1>6. pc'[c] = "close"  BY <1>1, <1>2
<1>7. \A d \in Conns : FdOf(d)' = FdOf(d)
  BY <1>1, <1>2, <1>3, <1>5, <1>6 DEF Mine, FdOf
<1>8. \A d \in Conns : InSession(d)' <=> InSession(d) /\ d # c
  BY <1>5, <1>6
<1>9. \A d \in Conns \ {c} : InSession(d) => client_index[d] # n
  BY DEF SlotOwnership
<1>10. SlotOwnership'
  <2> HIDE DEF InSession, n
  <2> QED
    BY <1>1, <1>2, <1>3, <1>4, <1>7, <1>8, <1>9 DEF SlotOwnership, Mine
<1>11. NothingLeaks'
  <2>1. \A s \in Slots : clients'[s].active => s # n /\ clients[s].active
    BY <1>2, <1>3
  <2>2. \A s \in Slots : clients'[s].active =>
          MainHasSlot(s)' \/ \E d \in Conns : InSession(d)' /\ client_index'[d] = s
    BY <2>1, <1>1, <1>4, <1>8 DEF NothingLeaks
  <2>3. \A d \in Conns : pc[d] \notin {"none", "done"} => pc'[d] \notin {"none", "done"}
    BY <1>5, <1>6
  <2> QED  BY <2>2, <2>3, <1>1, <1>2, <1>4, <1>7 DEF NothingLeaks
<1>12. MainHolds'
  <2>1. main_pc \in {"store_fd", "init_slot", "create"} => new_index # n
    BY DEF SlotOwnership, MainHasSlot
  <2>2. new_index \in Slots  BY DEF TypeInv, TypeOK, MainTypeOK
  <2>3. main_pc # "accept" => fdTable[client_socket] # c
    BY DEF MainHolds
  <2> QED  BY <2>1, <2>2, <2>3, <1>1, <1>3, <1>5 DEF MainHolds
<1>13. ClosingHolds'
  <2>1. OpenAt(client_fd[c]) = c /\ ~MainHasFd(client_fd[c])
    BY DEF SlotOwnership, FdOf
  <2> QED  BY <2>1, <1>1, <1>4, <1>5 DEF ClosingHolds
<1>14. NewIsUnknown'  BY <1>1, <1>5 DEF NewIsUnknown
<1> QED  BY <1>10, <1>11, <1>12, <1>13, <1>14

(* A thread closes the descriptor that only it has.                        *)
LEMMA OwnClose ==
  ASSUME TypeInv, OwnInv, NEW c \in Conns, Close(c)
  PROVE  OwnInv'
<1> USE DEF OwnInv, InSession, peerVars, slotVars, mainVars, threadVars
<1>1. /\ pc[c] = "close" /\ pc' = [pc EXCEPT ![c] = "done"]
      /\ fdTable' = [fdTable EXCEPT ![client_fd[c]] = NoConn]
      /\ UNCHANGED <<peer, clients, client_index, client_fd, main_pc, client_socket, new_index>>
  BY DEF Close, Goto
<1>2. /\ pc \in [Conns -> Places] /\ fdTable \in [Fds -> Conns \cup {NoConn}]
      /\ NoConn \notin Conns
  BY ServerAssumption DEF TypeInv, TypeOK, ThreadsTypeOK, KernelTypeOK
<1>3. OpenAt(client_fd[c]) = c /\ ~MainHasFd(client_fd[c])
  BY <1>1 DEF ClosingHolds
<1>4. /\ \A f : f # client_fd[c] => OpenAt(f)' = OpenAt(f)
      /\ \A f \in Fds : f # client_fd[c] => fdTable'[f] = fdTable[f]
      /\ client_fd[c] \in Fds => fdTable'[client_fd[c]] = NoConn
  BY <1>1, <1>2 DEF OpenAt
<1>5. /\ \A f : MainHasFd(f)' <=> MainHasFd(f)
      /\ \A s : MainHasSlot(s)' <=> MainHasSlot(s)
  BY <1>1 DEF MainHasFd, MainHasSlot
<1>6. /\ \A d \in Conns \ {c} : pc'[d] = pc[d]
      /\ pc'[c] = "done"
  BY <1>1, <1>2
<1>7. \A d \in Conns : FdOf(d)' = FdOf(d) /\ Mine(d)' = Mine(d)
  BY <1>1, <1>6 DEF Mine, FdOf
<1>8. \A d \in Conns : InSession(d)' <=> InSession(d)  BY <1>1, <1>6
<1>9. SlotOwnership'
  <2>1. \A d \in Conns : InSession(d) => FdOf(d) # client_fd[c]
    BY <1>1, <1>3 DEF SlotOwnership
  <2> HIDE DEF InSession
  <2> QED  BY <2>1, <1>1, <1>4, <1>5, <1>7, <1>8 DEF SlotOwnership
<1>10. NothingLeaks'
  <2>1. \A s \in Slots : clients'[s].active =>
          MainHasSlot(s)' \/ \E d \in Conns : InSession(d)' /\ client_index'[d] = s
    BY <1>1, <1>5, <1>8 DEF NothingLeaks
  <2>2. ASSUME NEW f \in Fds, fdTable'[f] # NoConn
        PROVE  \/ MainHasFd(f)'
               \/ pc'[fdTable'[f]] \notin {"none", "done"} /\ FdOf(fdTable[f])' = f
    <3>1. f # client_fd[c] /\ fdTable'[f] = fdTable[f] /\ fdTable[f] \in Conns
      BY <2>2, <1>2, <1>4
    <3>2. CASE MainHasFd(f)  BY <3>2, <1>5
    <3>3. CASE ~MainHasFd(f)
      <4>1. pc[fdTable[f]] \notin {"none", "done"} /\ FdOf(fdTable[f]) = f
        BY <3>1, <3>3, <1>2 DEF NothingLeaks
      <4>2. fdTable[f] # c  BY <4>1, <3>1, <1>1 DEF FdOf
      <4> QED  BY <4>1, <4>2, <3>1, <1>6, <1>7
    <3> QED  BY <3>2, <3>3
  <2> HIDE DEF InSession
  <2> QED  BY <2>1, <2>2 DEF NothingLeaks
<1>11. MainHolds'
  <2>1. main_pc # "accept" => client_socket # client_fd[c] /\ fdTable[client_socket] # c
    BY <1>1, <1>3 DEF MainHolds, MainHasFd
  <2> QED  BY <2>1, <1>1, <1>4, <1>6 DEF MainHolds
<1>12. ClosingHolds'
  <2>1. \A d \in Conns \ {c} : pc[d] = "close" => client_fd[d] # client_fd[c]
    BY <1>3 DEF ClosingHolds
  <2> QED  BY <2>1, <1>1, <1>4, <1>5, <1>6 DEF ClosingHolds
<1>13. NewIsUnknown'  BY <1>1, <1>2, <1>4, <1>6 DEF NewIsUnknown
<1> QED  BY <1>9, <1>10, <1>11, <1>12, <1>13

LEMMA OwnNext == TypeInv /\ OwnInv /\ [Next]_vars => OwnInv'
<1> SUFFICES ASSUME TypeInv, OwnInv, [Next]_vars PROVE OwnInv'  OBVIOUS
<1>1. CASE MainStep
  BY <1>1, OwnAccept, OwnClaim, OwnRefuse, OwnStoreFd, OwnInitSlot, OwnCreate,
     OwnCreateFails DEF MainStep
<1>2. ASSUME NEW c \in Conns, HandlerStep(c) PROVE OwnInv'
  <2>1. CASE Start(c)  BY <2>1, OwnStart
  <2>2. CASE Close(c)  BY <2>2, OwnClose
  <2>3. CASE Disconnect(c) \/ RefuseUnregistered(c) \/ RefuseEmptyName(c)
    <3>1. LeaveSlot(c) /\ InSession(c) /\ pc[c] # "start"
      BY <2>3 DEF Disconnect, RefuseUnregistered, RefuseEmptyName, InSession
    <3> QED  BY <3>1, OwnLeaveSlot
  <2> QED  BY <1>2, <2>1, <2>2, <2>3, QuietActions, QuietStep DEF HandlerStep
<1>3. ASSUME NEW c \in Conns, Leave(c) \/ StallOrResume(c) PROVE OwnInv'
  BY <1>3, QuietActions, QuietStep
<1>4. CASE UNCHANGED vars
  BY <1>4 DEF vars, peerVars, kernelVars, slotVars, mainVars, threadVars, OwnInv,
              SlotOwnership, NothingLeaks, MainHolds, ClosingHolds, NewIsUnknown,
              InSession, Mine, FdOf, OpenAt, MainHasSlot, MainHasFd
<1> QED  BY <1>1, <1>2, <1>3, <1>4 DEF Next

(* A thread's slot and descriptor are its own from its start to the step   *)
(* that gives the slot back, however connections come, fail to come and    *)
(* go, so the code need not look again (waitForClientConnection,           *)
(* handleClientConnection).                                                *)
THEOREM SlotsAreOwned == Spec => []SlotOwnership
<1>1. OwnInv => SlotOwnership  BY DEF OwnInv
<1> QED  BY TypeInvInit, TypeInvNext, OwnInit, OwnNext, <1>1, PTL DEF Spec

(* No slot and no descriptor is lost in any of the exits of the threads    *)
(* and of main.                                                            *)
THEOREM NothingIsLost == Spec => []NothingLeaks
<1>1. OwnInv => NothingLeaks  BY DEF OwnInv
<1> QED  BY TypeInvInit, TypeInvNext, OwnInit, OwnNext, <1>1, PTL DEF Spec

-----------------------------------------------------------------------------
(* The mutexes of the slots.                                               *)

FeedPlaces == {"send_feed", "read_unlock"}

(* A step that takes and releases no mutex.                                *)
MutexQuiet(c) ==
  /\ UNCHANGED <<send_mutex, clobbered>>
  /\ \A d \in Conns \ {c} :
       pc'[d] = pc[d] /\ slots'[d] = slots[d] /\ client_index'[d] = client_index[d]
  /\ \/ pc[c] \notin AtSlot \cup FeedPlaces /\ pc'[c] \notin AtSlot \cup FeedPlaces
     \/ /\ slots'[c] = slots[c] /\ client_index'[c] = client_index[c]
        /\ pc[c] \in AtSlot <=> pc'[c] \in AtSlot
        /\ pc[c] \in FeedPlaces <=> pc'[c] \in FeedPlaces

LEMMA MutexQuietStep ==
  ASSUME SendMutexExclusive, NEW c \in Conns, MutexQuiet(c)
  PROVE  SendMutexExclusive'
<1>1. \A d \in Conns : \A s \in Slots : Holds(d, s)' <=> Holds(d, s)
  BY DEF MutexQuiet, Holds, Idx, AtSlot, FeedPlaces
<1>2. UNCHANGED <<send_mutex, clobbered>>  BY DEF MutexQuiet
<1> HIDE DEF Holds
<1> QED  BY <1>1, <1>2 DEF SendMutexExclusive

LEMMA MutexQuietActions ==
  ASSUME TypeInv, NEW c \in Conns,
         \/ Start(c) \/ ReceiveMessage(c) \/ Disconnect(c) \/ Close(c)
         \/ RefuseUnregistered(c) \/ Dispatch(c) \/ RefuseEmptyName(c) \/ Register(c)
         \/ Follow(c)
         \/ AssignId(c) \/ AddToFeed(c) \/ CollectFollowers(c) \/ CollectSlots(c)
         \/ CheckSlot(c) \/ ReadFd(c) \/ EnterSend(c) \/ SendPush(c)
         \/ NextFollower(c) \/ FinishPost(c)
         \/ GetFeedMessages(c) \/ SendFeedItem(c) \/ SendEnd(c)
         \/ Leave(c) \/ StallOrResume(c)
  PROVE  MutexQuiet(c)
<1> USE DEF MutexQuiet, AtSlot, FeedPlaces, Goto, slotVars, threadVars, postVars
<1>1. pc \in [Conns -> Places] /\ slots \in [Conns -> SUBSET Slots]
  BY DEF TypeInv, TypeOK, ThreadsTypeOK, PostsTypeOK
<1>2. CASE Start(c) \/ ReceiveMessage(c) \/ Close(c)
  BY <1>1, <1>2 DEF Start, ReceiveMessage, Close
<1>3. CASE Disconnect(c) \/ RefuseUnregistered(c) \/ RefuseEmptyName(c)
  BY <1>1, <1>3 DEF Disconnect, RefuseUnregistered, RefuseEmptyName, LeaveSlot
<1>4. CASE Dispatch(c) \/ Register(c) \/ Follow(c)
  BY <1>1, <1>4 DEF Dispatch, Register, Follow
<1>5. CASE AssignId(c) \/ AddToFeed(c) \/ CollectFollowers(c) \/ CollectSlots(c)
  BY <1>1, <1>5 DEF AssignId, AddToFeed, CollectFollowers, CollectSlots
<1>6. CASE CheckSlot(c) \/ ReadFd(c) \/ EnterSend(c) \/ SendPush(c)
  BY <1>1, <1>6 DEF CheckSlot, ReadFd, EnterSend, SendPush
<1>7. CASE NextFollower(c) \/ FinishPost(c)
  BY <1>1, <1>7 DEF NextFollower, FinishPost
<1>8. CASE GetFeedMessages(c) \/ SendFeedItem(c) \/ SendEnd(c)
  BY <1>1, <1>8 DEF GetFeedMessages, SendFeedItem, SendEnd
<1>9. CASE Leave(c) \/ StallOrResume(c)
  BY <1>9 DEF Leave, StallOrResume
<1> QED  BY <1>2, <1>3, <1>4, <1>5, <1>6, <1>7, <1>8, <1>9

(* Taking the mutex of a slot that is free makes the thread its holder.    *)
LEMMA MutexTaken ==
  ASSUME TypeInv, SendMutexExclusive, NEW c \in Conns, NEW s \in Slots,
         ~send_mutex[s], send_mutex' = [send_mutex EXCEPT ![s] = TRUE],
         UNCHANGED clobbered,
         \A d \in Conns : \A t \in Slots : Holds(d, t)' <=> Holds(d, t) \/ (d = c /\ t = s)
  PROVE  SendMutexExclusive'
<1>1. send_mutex \in [Slots -> BOOLEAN]  BY DEF TypeInv, TypeOK, SlotsTypeOK
<1>2. /\ send_mutex'[s]
      /\ \A t \in Slots \ {s} : send_mutex'[t] <=> send_mutex[t]
  BY <1>1
<1>3. s \notin clobbered => \A d \in Conns : ~Holds(d, s)  BY DEF SendMutexExclusive
<1> HIDE DEF Holds
<1> QED  BY <1>2, <1>3 DEF SendMutexExclusive

(* Releasing it leaves it with no holder.                                  *)
LEMMA MutexReleased ==
  ASSUME TypeInv, SendMutexExclusive, NEW c \in Conns, NEW s \in Slots,
         Holds(c, s), send_mutex' = [send_mutex EXCEPT ![s] = FALSE],
         UNCHANGED clobbered,
         \A d \in Conns : \A t \in Slots : Holds(d, t)' <=> Holds(d, t) /\ d # c,
         \A t \in Slots : Holds(c, t) => t = s
  PROVE  SendMutexExclusive'
<1>1. send_mutex \in [Slots -> BOOLEAN]  BY DEF TypeInv, TypeOK, SlotsTypeOK
<1>2. /\ ~send_mutex'[s]
      /\ \A t \in Slots \ {s} : send_mutex'[t] <=> send_mutex[t]
  BY <1>1
<1>3. s \notin clobbered => \A d \in Conns : Holds(d, s) => d = c
  BY DEF SendMutexExclusive
<1> HIDE DEF Holds
<1> QED  BY <1>2, <1>3 DEF SendMutexExclusive

LEMMA MutexHandler ==
  ASSUME TypeInv, SendMutexExclusive, NEW c \in Conns,
         \/ LockForPush(c) \/ UnlockPush(c) \/ LockForFeed(c) \/ UnlockFeed(c)
  PROVE  SendMutexExclusive'
<1> USE DEF Goto, Holds, Idx, threadVars, postVars
<1>1. /\ pc \in [Conns -> Places] /\ slots \in [Conns -> SUBSET Slots]
      /\ client_index \in [Conns -> Slots]
  BY DEF TypeInv, TypeOK, ThreadsTypeOK, PostsTypeOK
<1>2. CASE LockForPush(c)
  <2>1. Idx(c) \in Slots  BY <1>1, <1>2, LowestIn DEF LockForPush
  <2>2. /\ pc[c] = "lock" /\ pc' = [pc EXCEPT ![c] = "check"]
        /\ UNCHANGED <<slots, client_index, clobbered>>
        /\ ~send_mutex[Idx(c)] /\ send_mutex' = [send_mutex EXCEPT ![Idx(c)] = TRUE]
    BY <1>2 DEF LockForPush
  <2>3. \A d \in Conns : \A t \in Slots :
          Holds(d, t)' <=> Holds(d, t) \/ (d = c /\ t = Idx(c))
    BY <1>1, <2>2
  <2> HIDE DEF Holds, Idx
  <2> QED  BY <2>1, <2>2, <2>3, MutexTaken
<1>3. CASE UnlockPush(c)
  <2>1. /\ pc[c] = "unlock" /\ pc' = [pc EXCEPT ![c] = "lock"]
        /\ slots' = [slots EXCEPT ![c] = slots[c] \ {Idx(c)}]
        /\ UNCHANGED <<client_index, clobbered>>
        /\ send_mutex' = [send_mutex EXCEPT ![Idx(c)] = FALSE]
    BY <1>3 DEF UnlockPush
  <2>2. Idx(c) \in Slots
    <3> HIDE DEF Idx
    <3> QED  BY <2>1, IdxType DEF AtSlot
  <2>3. Holds(c, Idx(c)) /\ \A t \in Slots : Holds(c, t) => t = Idx(c)
    BY <2>1
  <2>4. \A d \in Conns : \A t \in Slots : Holds(d, t)' <=> Holds(d, t) /\ d # c
    BY <1>1, <2>1
  <2> HIDE DEF Holds, Idx
  <2> QED  BY <2>1, <2>2, <2>3, <2>4, MutexReleased
<1>4. CASE LockForFeed(c)
  <2>1. client_index[c] \in Slots  BY <1>1
  <2>2. /\ pc[c] = "read_lock" /\ pc' = [pc EXCEPT ![c] = "send_feed"]
        /\ UNCHANGED <<slots, client_index, clobbered>>
        /\ ~send_mutex[client_index[c]]
        /\ send_mutex' = [send_mutex EXCEPT ![client_index[c]] = TRUE]
    BY <1>4 DEF LockForFeed
  <2>3. \A d \in Conns : \A t \in Slots :
          Holds(d, t)' <=> Holds(d, t) \/ (d = c /\ t = client_index[c])
    BY <1>1, <2>2
  <2> HIDE DEF Holds, Idx
  <2> QED  BY <2>1, <2>2, <2>3, MutexTaken
<1>5. CASE UnlockFeed(c)
  <2>1. client_index[c] \in Slots  BY <1>1
  <2>2. /\ pc[c] = "read_unlock" /\ pc' = [pc EXCEPT ![c] = "waiting"]
        /\ UNCHANGED <<slots, client_index, clobbered>>
        /\ send_mutex' = [send_mutex EXCEPT ![client_index[c]] = FALSE]
    BY <1>5 DEF UnlockFeed
  <2>3. Holds(c, client_index[c]) /\ \A t \in Slots : Holds(c, t) => t = client_index[c]
    BY <2>2
  <2>4. \A d \in Conns : \A t \in Slots : Holds(d, t)' <=> Holds(d, t) /\ d # c
    BY <1>1, <2>2
  <2> HIDE DEF Holds, Idx
  <2> QED  BY <2>1, <2>2, <2>3, <2>4, MutexReleased
<1> QED  BY <1>2, <1>3, <1>4, <1>5

(* main initialises a mutex: it was free, or its slot counts no more.      *)
LEMMA MutexMain ==
  ASSUME TypeInv, OwnInv, SendMutexExclusive, MainStep
  PROVE  SendMutexExclusive'
<1> USE DEF slotVars, threadVars, postVars
<1>1. CASE InitSlot
  <2>1. /\ send_mutex' = [send_mutex EXCEPT ![new_index] = FALSE]
        /\ clobbered' = IF send_mutex[new_index] THEN clobbered \cup {new_index} ELSE clobbered
        /\ UNCHANGED <<pc, slots, client_index>>
    BY <1>1 DEF InitSlot
  <2>2. send_mutex \in [Slots -> BOOLEAN]  BY DEF TypeInv, TypeOK, SlotsTypeOK
  <2>3. \A d : \A s : Holds(d, s)' <=> Holds(d, s)  BY <2>1 DEF Holds, Idx
  <2>4. \A s \in Slots \ clobbered' : s \notin clobbered /\ (send_mutex'[s] <=> send_mutex[s])
    BY <2>1, <2>2
  <2> QED  BY <2>3, <2>4 DEF SendMutexExclusive
<1>2. CASE CreateThread
  <2>1. PICK c \in Conns : c = fdTable[client_socket] /\ pc[c] = "none"
    BY <1>2 DEF CreateThread, OwnInv, MainHolds
  <2>2. pc \in [Conns -> Places] /\ client_index \in [Conns -> Slots]
    BY DEF TypeInv, TypeOK, ThreadsTypeOK
  <2>3. MutexQuiet(c)
    BY <1>2, <2>1, <2>2 DEF CreateThread, MutexQuiet, AtSlot, FeedPlaces
  <2> QED  BY <2>3, MutexQuietStep
<1>3. CASE ~InitSlot /\ ~CreateThread
  <2>1. UNCHANGED <<send_mutex, clobbered, pc, slots, client_index>>
    BY <1>3 DEF MainStep, Accept, ClaimSlot, RejectClient, StoreFd, CreateThreadFails,
                CloseRefused
  <2>2. \A d : \A s : Holds(d, s)' <=> Holds(d, s)  BY <2>1 DEF Holds, Idx
  <2> QED  BY <2>1, <2>2 DEF SendMutexExclusive
<1> QED  BY <1>1, <1>2, <1>3

LEMMA MutexInit == Init => SendMutexExclusive
BY DEF Init, SendMutexExclusive, Holds

LEMMA MutexNext == TypeInv /\ OwnInv /\ SendMutexExclusive /\ [Next]_vars => SendMutexExclusive'
<1> SUFFICES ASSUME TypeInv, OwnInv, SendMutexExclusive, [Next]_vars
             PROVE  SendMutexExclusive'
  OBVIOUS
<1>1. CASE MainStep  BY <1>1, MutexMain
<1>2. ASSUME NEW c \in Conns, HandlerStep(c) \/ Leave(c) \/ StallOrResume(c)
      PROVE  SendMutexExclusive'
  BY <1>2, MutexHandler, MutexQuietActions, MutexQuietStep DEF HandlerStep
<1>3. CASE UNCHANGED vars
  BY <1>3 DEF vars, slotVars, threadVars, postVars, SendMutexExclusive, Holds, Idx
<1> QED  BY <1>1, <1>2, <1>3 DEF Next

(* At most one thread at a time sends to a slot whose mutex was not        *)
(* replaced while it was held (processPostMessage, sendFeedToClient).      *)
THEOREM OneSenderPerSlot == Spec => []SendMutexExclusive
BY TypeInvInit, TypeInvNext, OwnInit, OwnNext, MutexInit, MutexNext, PTL DEF Spec
=============================================================================

----------------------- MODULE ServerConnectionProofs -----------------------
(***************************************************************************)
(* Server implements Connection, to every connection, for any number of    *)
(* connections, slots, descriptors and follows, and whatever the clients   *)
(* send: each step of the server is a step of Connection or changes        *)
(* nothing that Connection sees.                                           *)
(***************************************************************************)
EXTENDS ServerSendProofs

-----------------------------------------------------------------------------
(* What Connection sees of c: the mapping of ConnectionOf, by name.        *)

ClientUp(c) == peer[c] \in {"new", "reading", "stalled"}

ToServer(c) ==
  IF ServerOf(c) \in {"leaving", "closed", "ended"} THEN <<>> ELSE Untaken(c)

ItemOf(item) ==
  [type |-> IF item.kind = "end" THEN "END" ELSE "PUSH", live |-> item.kind = "push"]

FromServer(c) == [k \in DOMAIN rcvd[c] |-> ItemOf(rcvd[c][k])]

ItemsLeft(c) ==
  IF ServerOf(c) = "answering" THEN Len(feed_to_send[c]) + 1 - next_item[c] ELSE 0

Known(c) == name[c] # Empty

(* What c sent and the server has not received.                            *)
Coming(box) == [k \in DOMAIN box |-> TypeSent(box[k])]

SentTypes == {"CONNECT", "NAMELESS", "POST", "FOLLOW", "READ", "OTHER"}

(* Sequences of what is coming, and of what was sent.                      *)
LEMMA ComingType ==
  ASSUME NEW box \in Seq(Message)
  PROVE  /\ Coming(box) \in Seq(SentTypes) /\ Len(Coming(box)) = Len(box)
         /\ DOMAIN Coming(box) = 1 .. Len(box)
         /\ \A k \in 1 .. Len(box) : Coming(box)[k] = TypeSent(box[k])
<1>1. DOMAIN box = 1 .. Len(box) /\ Len(box) \in Nat  BY LenProperties
<1>2. \A k \in 1 .. Len(box) : box[k] \in Message  BY ElementOfSeq
<1>3. \A m \in Message : TypeSent(m) \in SentTypes  BY DEF TypeSent, SentTypes, Message
<1>4. Coming(box) \in [1 .. Len(box) -> SentTypes]  BY <1>1, <1>2, <1>3 DEF Coming
<1>5. Coming(box) \in Seq(SentTypes)  BY <1>1, <1>4, SeqDef
<1>6. Len(Coming(box)) = Len(box)  BY <1>1, <1>4, <1>5, LenProperties
<1> QED  BY <1>1, <1>4, <1>5, <1>6 DEF Coming

(* A sequence with one element put in front.                               *)
LEMMA Prepended ==
  ASSUME NEW T, NEW m \in T, NEW s \in Seq(T)
  PROVE  /\ Len(s) \in Nat /\ <<m>> \o s \in Seq(T) /\ Len(<<m>> \o s) = Len(s) + 1
         /\ (<<m>> \o s)[1] = m
         /\ \A k \in 1 .. Len(s) : (<<m>> \o s)[k + 1] = s[k]
<1> DEFINE one == <<m>>
<1>1. one \in Seq(T) /\ Len(one) = 1 /\ one[1] = m /\ Len(s) \in Nat  BY LenProperties
<1> HIDE DEF one
<1>2. /\ one \o s \in Seq(T) /\ Len(one \o s) = Len(one) + Len(s)
      /\ \A k \in 1 .. Len(one) + Len(s) :
           (one \o s)[k] = IF k <= Len(one) THEN one[k] ELSE s[k - Len(one)]
  BY <1>1, ConcatProperties
<1>3. Len(one \o s) = Len(s) + 1 /\ (one \o s)[1] = m  BY <1>1, <1>2
<1>4. ASSUME NEW k \in 1 .. Len(s) PROVE (one \o s)[k + 1] = s[k]
  <2>1. k + 1 \in 1 .. Len(one) + Len(s) /\ ~(k + 1 <= Len(one)) /\ k + 1 - Len(one) = k
    BY <1>1
  <2> QED  BY <1>2, <2>1
<1> QED  BY <1>1, <1>2, <1>3, <1>4 DEF one

(* Two sequences of one length, the same at the front and after it.        *)
LEMMA SameFrontAndRest ==
  ASSUME NEW T, NEW s \in Seq(T), NEW t \in Seq(T), NEW n \in Nat,
         Len(s) = n + 1, Len(t) = n + 1, s[1] = t[1], \A k \in 1 .. n : s[k + 1] = t[k + 1]
  PROVE  s = t
<1>1. ASSUME NEW j \in 1 .. Len(s) PROVE s[j] = t[j]
  <2>1. CASE j = 1  BY <2>1
  <2>2. CASE j # 1
    <3>1. j - 1 \in 1 .. n /\ (j - 1) + 1 = j  BY <2>2
    <3> QED  BY <3>1
  <2> QED  BY <2>1, <2>2
<1> QED  BY <1>1, SeqEqual

(* A message that is received is the first of what is coming.              *)
LEMMA ComingTail ==
  ASSUME NEW box \in Seq(Message), box # <<>>
  PROVE  <<TypeSent(Head(box))>> \o Coming(Tail(box)) = Coming(box)
<1> DEFINE n == Len(Tail(box))
<1>1. /\ Head(box) \in Message /\ Tail(box) \in Seq(Message)
      /\ n \in Nat /\ Len(box) = n + 1
      /\ \A i \in 1 .. n : Tail(box)[i] = box[i + 1]
      /\ Head(box) = box[1]
  BY HeadTailProperties, LenProperties, EmptySeq
<1>2. TypeSent(Head(box)) \in SentTypes  BY <1>1 DEF TypeSent, SentTypes, Message
<1>3. /\ Coming(Tail(box)) \in Seq(SentTypes) /\ Len(Coming(Tail(box))) = n
      /\ \A k \in 1 .. n : Coming(Tail(box))[k] = TypeSent(Tail(box)[k])
  BY <1>1, ComingType
<1>4. /\ Coming(box) \in Seq(SentTypes) /\ Len(Coming(box)) = n + 1
      /\ \A k \in 1 .. Len(box) : Coming(box)[k] = TypeSent(box[k])
  BY <1>1, ComingType
<1> HIDE DEF n
<1>5. /\ Coming(box)[1] = TypeSent(Head(box))
      /\ \A k \in 1 .. n : Coming(box)[k + 1] = Coming(Tail(box))[k]
  <2>1. 1 \in 1 .. Len(box) /\ \A k \in 1 .. n : k + 1 \in 1 .. Len(box)  BY <1>1
  <2> QED  BY <1>1, <1>3, <1>4, <2>1
<1>6. LET s == <<TypeSent(Head(box))>> \o Coming(Tail(box))
      IN  /\ s \in Seq(SentTypes) /\ Len(s) = n + 1 /\ s[1] = Coming(box)[1]
          /\ \A k \in 1 .. n : s[k + 1] = Coming(box)[k + 1]
  BY <1>2, <1>3, <1>5, Prepended
<1> QED  BY <1>1, <1>4, <1>6, SameFrontAndRest

(* What is lost of what was sent is lost of what is coming.                *)
LEMMA ComingCut ==
  ASSUME NEW box \in Seq(Message), NEW n \in 0 .. Len(box)
  PROVE  /\ Coming(SubSeq(box, 1, n)) = SubSeq(Coming(box), 1, n)
         /\ n \in 0 .. Len(Coming(box))
<1>1. /\ Coming(box) \in Seq(SentTypes) /\ Len(Coming(box)) = Len(box)
      /\ \A k \in 1 .. Len(box) : Coming(box)[k] = TypeSent(box[k])
      /\ Len(box) \in Nat
  BY ComingType, LenProperties
<1>2. \A i \in 1 .. n : box[i] \in Message /\ Coming(box)[i] \in SentTypes
  BY <1>1, ElementOfSeq
<1>3. /\ SubSeq(box, 1, n) \in Seq(Message) /\ Len(SubSeq(box, 1, n)) = n
      /\ \A i \in 1 .. n : SubSeq(box, 1, n)[i] = box[i]
  BY <1>2, SubSeqProperties
<1>4. /\ SubSeq(Coming(box), 1, n) \in Seq(SentTypes)
      /\ Len(SubSeq(Coming(box), 1, n)) = n
      /\ \A i \in 1 .. n : SubSeq(Coming(box), 1, n)[i] = Coming(box)[i]
  BY <1>2, SubSeqProperties
<1>5. /\ Coming(SubSeq(box, 1, n)) \in Seq(SentTypes)
      /\ Len(Coming(SubSeq(box, 1, n))) = n
      /\ \A i \in 1 .. n : Coming(SubSeq(box, 1, n))[i] = TypeSent(box[i])
  BY <1>3, ComingType
<1>6. \A i \in 1 .. n : Coming(SubSeq(box, 1, n))[i] = SubSeq(Coming(box), 1, n)[i]
  BY <1>1, <1>4, <1>5
<1> QED  BY <1>1, <1>4, <1>5, <1>6, SeqEqual

(* A sequence that begins with m.                                          *)
LEMMA FrontAndRest ==
  ASSUME NEW T, NEW m \in T, NEW s \in Seq(T)
  PROVE  /\ <<m>> \o s # <<>> /\ Head(<<m>> \o s) = m /\ Tail(<<m>> \o s) = s
         /\ \A n \in 0 .. Len(s) : /\ n + 1 \in 0 .. Len(<<m>> \o s)
                                   /\ SubSeq(<<m>> \o s, 1, n + 1) = <<m>> \o SubSeq(s, 1, n)
<1> DEFINE t == <<m>> \o s
<1>1. /\ Len(s) \in Nat /\ t \in Seq(T) /\ Len(t) = Len(s) + 1 /\ t[1] = m
      /\ \A k \in 1 .. Len(s) : t[k + 1] = s[k]
  BY Prepended
<1> HIDE DEF t
<1>2. t # <<>>  BY <1>1, EmptySeq
<1>3. Head(t) = m  BY <1>1, <1>2
<1>4. Tail(t) = s
  <2>1. /\ Tail(t) \in Seq(T) /\ Len(Tail(t)) = Len(s)
        /\ \A i \in 1 .. Len(Tail(t)) : Tail(t)[i] = t[i + 1]
    BY <1>1, <1>2, HeadTailProperties
  <2> QED  BY <1>1, <2>1, SeqEqual
<1>5. ASSUME NEW n \in 0 .. Len(s)
      PROVE  n + 1 \in 0 .. Len(t) /\ SubSeq(t, 1, n + 1) = <<m>> \o SubSeq(s, 1, n)
  <2> DEFINE a == SubSeq(t, 1, n + 1)
             b == SubSeq(s, 1, n)
  <2>1. n \in Nat /\ n + 1 \in 0 .. Len(t)  BY <1>1
  <2>2. /\ \A i \in 1 .. n + 1 : t[i] \in T
        /\ \A i \in 1 .. n : s[i] \in T /\ i \in 1 .. Len(s)
    BY <1>1, <2>1, ElementOfSeq
  <2>3. a \in Seq(T) /\ Len(a) = n + 1 /\ \A i \in 1 .. n + 1 : a[i] = t[i]
    BY <2>1, <2>2, SubSeqProperties
  <2>4. b \in Seq(T) /\ Len(b) = n /\ \A i \in 1 .. n : b[i] = s[i]
    BY <2>1, <2>2, SubSeqProperties
  <2> HIDE DEF a, b
  <2>5. /\ <<m>> \o b \in Seq(T) /\ Len(<<m>> \o b) = n + 1 /\ (<<m>> \o b)[1] = m
        /\ \A k \in 1 .. n : (<<m>> \o b)[k + 1] = b[k]
    BY <2>4, Prepended
  <2>6. a[1] = m  BY <1>1, <2>1, <2>3
  <2>7. \A k \in 1 .. n : a[k + 1] = (<<m>> \o b)[k + 1]
    <3> TAKE k \in 1 .. n
    <3>1. k + 1 \in 1 .. n + 1 /\ k \in 1 .. Len(s)  BY <2>1, <2>2
    <3> QED  BY <1>1, <2>3, <2>4, <2>5, <3>1
  <2>8. a = <<m>> \o b  BY <2>1, <2>3, <2>5, <2>6, <2>7, SameFrontAndRest
  <2> QED  BY <2>1, <2>8 DEF a, b
<1> QED  BY <1>2, <1>3, <1>4, <1>5 DEF t

ItemsSeen == [type : {"PUSH", "END"}, live : BOOLEAN]

(* An item that is sent is the last of what the client gets.               *)
LEMMA DeliveredLast ==
  ASSUME NEW got \in Seq(Item), NEW x \in Item
  PROVE  [k \in DOMAIN Append(got, x) |-> ItemOf(Append(got, x)[k])]
         = Append([k \in DOMAIN got |-> ItemOf(got[k])], ItemOf(x))
<1> DEFINE more == Append(got, x)
           a == [k \in DOMAIN more |-> ItemOf(more[k])]
           b == [k \in DOMAIN got |-> ItemOf(got[k])]
<1>1. \A item \in Item : ItemOf(item) \in ItemsSeen  BY DEF ItemOf, ItemsSeen
<1>2. /\ Len(got) \in Nat /\ DOMAIN got = 1 .. Len(got)
      /\ \A k \in 1 .. Len(got) : got[k] \in Item
  BY LenProperties, ElementOfSeq
<1>3. /\ DOMAIN more = 1 .. Len(got) + 1
      /\ \A k \in 1 .. Len(got) : more[k] = got[k]
      /\ more[Len(got) + 1] = x
  BY <1>2, Appended
<1> HIDE DEF more
<1>4. a \in [1 .. Len(got) + 1 -> ItemsSeen] /\ b \in [1 .. Len(got) -> ItemsSeen]
  BY <1>1, <1>2, <1>3
<1>5. a \in Seq(ItemsSeen) /\ b \in Seq(ItemsSeen)
  <2> HIDE DEF a, b
  <2> QED  BY <1>2, <1>4, SeqDef
<1>6. Len(a) = Len(got) + 1 /\ Len(b) = Len(got)
  <2> HIDE DEF a, b
  <2> QED  BY <1>2, <1>4, <1>5, LenProperties
<1>7. /\ Append(b, ItemOf(x)) \in Seq(ItemsSeen) /\ Len(Append(b, ItemOf(x))) = Len(got) + 1
      /\ \A k \in 1 .. Len(got) : Append(b, ItemOf(x))[k] = b[k]
      /\ Append(b, ItemOf(x))[Len(got) + 1] = ItemOf(x)
  <2> HIDE DEF b
  <2> QED  BY <1>1, <1>5, <1>6, AppendProperties
<1>8. \A k \in 1 .. Len(got) : a[k] = b[k]  BY <1>2, <1>3
<1>9. a[Len(got) + 1] = ItemOf(x)  BY <1>2, <1>3
<1>10. \A k \in 1 .. Len(got) + 1 : a[k] = Append(b, ItemOf(x))[k]
  <2> HIDE DEF a, b
  <2> QED  BY <1>2, <1>7, <1>8, <1>9
<1>11. a = Append(b, ItemOf(x))
  <2> HIDE DEF a, b
  <2> QED  BY <1>5, <1>6, <1>7, <1>10, SeqEqual
<1> QED  BY <1>11 DEF more

(* An answer has no more items than the array has elements.                *)
LEMMA FeedItemsFit ==
  ASSUME NEW feed \in [Indices -> Post]
  PROVE  Len(FeedItems(feed)) \in 0 .. FeedMaxSize
<1>1. /\ Filled(feed) \in SUBSET Indices /\ Filled(feed) \in SUBSET Nat
      /\ IsFiniteSet(Filled(feed))
  BY FilledFinite
<1>2. IsFiniteSet(Indices) /\ Cardinality(Indices) = FeedMaxSize
  BY FeedSizeAssumption, FS_Interval DEF Indices
<1>3. Cardinality(Filled(feed)) \in Nat /\ Cardinality(Filled(feed)) <= FeedMaxSize
  BY <1>1, <1>2, FS_Subset, FS_CardinalityType
<1>4. DOMAIN FeedItems(feed) = 1 .. Cardinality(Filled(feed))
  BY <1>1, AscendingType DEF FeedItems
<1>5. FeedItems(feed) \in Seq(Post)  BY FeedItemsType
<1> QED  BY <1>3, <1>4, <1>5, FeedSizeAssumption, LenProperties

-----------------------------------------------------------------------------
(* What is being served.                                                   *)

Answering == {"read_lock", "send_feed"}

(* A thread acts on a CONNECT or a READ for as long as it is one, and of   *)
(* an answer there is no more left to send than the end.                   *)
ServingInv ==
  \A c \in Conns :
    /\ pc[c] = "connect" => msg_received[c].type = "CONNECT"
    /\ pc[c] = "read" => msg_received[c].type = "READ"
    /\ pc[c] \in Answering => next_item[c] <= Len(feed_to_send[c]) + 1

LEMMA ServingInit == Init => ServingInv
BY DEF Init, ServingInv, Answering

(* A message is acted upon when it has been looked at.                      *)
LEMMA PlaceOfMessage ==
  ASSUME TypeInv, NEW c \in Conns, HandlerStep(c), pc'[c] \in {"connect", "read"}
  PROVE  Dispatch(c)
<1>1. pc \in [Conns -> Places]  BY DEF TypeInv, TypeOK, ThreadsTypeOK
<1> USE DEF Goto
<1>2. CASE Start(c) \/ ReceiveMessage(c) \/ Close(c) \/ Register(c) \/ Follow(c)
  BY <1>1, <1>2 DEF Start, ReceiveMessage, Close, Register, Follow
<1>3. CASE Disconnect(c) \/ RefuseUnregistered(c) \/ RefuseEmptyName(c)
  BY <1>1, <1>3 DEF Disconnect, RefuseUnregistered, RefuseEmptyName, LeaveSlot
<1>5. CASE AssignId(c) \/ AddToFeed(c) \/ CollectFollowers(c) \/ CollectSlots(c)
  BY <1>1, <1>5 DEF AssignId, AddToFeed, CollectFollowers, CollectSlots
<1>6. CASE LockForPush(c) \/ CheckSlot(c) \/ ReadFd(c) \/ EnterSend(c) \/ SendPush(c)
  BY <1>1, <1>6 DEF LockForPush, CheckSlot, ReadFd, EnterSend, SendPush
<1>7. CASE UnlockPush(c) \/ NextFollower(c) \/ FinishPost(c)
  BY <1>1, <1>7 DEF UnlockPush, NextFollower, FinishPost
<1>8. CASE GetFeedMessages(c) \/ LockForFeed(c) \/ SendFeedItem(c) \/ SendEnd(c) \/ UnlockFeed(c)
  BY <1>1, <1>8 DEF GetFeedMessages, LockForFeed, SendFeedItem, SendEnd, UnlockFeed
<1> QED  BY <1>2, <1>3, <1>5, <1>6, <1>7, <1>8 DEF HandlerStep

LEMMA ServingNext == TypeInv /\ OwnInv /\ ServingInv /\ [Next]_vars => ServingInv'
<1> SUFFICES ASSUME TypeInv, OwnInv, ServingInv, [Next]_vars, NEW c \in Conns
             PROVE  /\ pc'[c] = "connect" => msg_received'[c].type = "CONNECT"
                    /\ pc'[c] = "read" => msg_received'[c].type = "READ"
                    /\ pc'[c] \in Answering => next_item'[c] <= Len(feed_to_send'[c]) + 1
  BY DEF ServingInv
<1>1. /\ pc \in [Conns -> Places] /\ msg_received \in [Conns -> Message]
      /\ feed_to_send \in [Conns -> Seq(Post)] /\ next_item \in [Conns -> Nat \ {0}]
      /\ feed_to_send[c] \in Seq(Post) /\ next_item[c] \in Nat
  BY DEF TypeInv, TypeOK, ThreadsTypeOK, ReadsTypeOK
<1>2. CASE HandlerStep(c)
  <2>1. CASE pc'[c] \in {"connect", "read"}
    <3>1. Dispatch(c)  BY <1>2, <2>1, PlaceOfMessage
    <3>2. /\ pc'[c] = "connect" => msg_received[c].type = "CONNECT"
          /\ pc'[c] = "read" => msg_received[c].type = "READ"
          /\ msg_received'[c].type = msg_received[c].type
      BY <1>1, <3>1 DEF Dispatch, Goto, Message
    <3> QED  BY <2>1, <3>2 DEF Answering
  <2>2. CASE pc'[c] \in Answering
    <3>1. GetFeedMessages(c) \/ LockForFeed(c) \/ SendFeedItem(c)
      BY <1>2, <2>2, PlacesEntered DEF Answering
    <3>2. CASE GetFeedMessages(c)
      <4>1. FeedItems(feed_messages) \in Seq(Post)
        BY FeedItemsType DEF TypeInv, TypeOK, FeedTypeOK
      <4>2. /\ next_item'[c] = 1 /\ feed_to_send'[c] = FeedItems(feed_messages)
        BY <1>1, <3>2 DEF GetFeedMessages
      <4> QED  BY <2>2, <4>1, <4>2, LenProperties DEF Answering
    <3>3. CASE LockForFeed(c)
      BY <2>2, <3>3 DEF LockForFeed, readVars, ServingInv, Answering
    <3>4. CASE SendFeedItem(c)
      <4>1. /\ next_item'[c] = next_item[c] + 1 /\ feed_to_send' = feed_to_send
            /\ next_item[c] <= Len(feed_to_send[c])
        BY <1>1, <3>4 DEF SendFeedItem
      <4> QED  BY <1>1, <2>2, <4>1, LenProperties DEF Answering
    <3> QED  BY <3>1, <3>2, <3>3, <3>4
  <2> QED  BY <2>1, <2>2
<1>3. CASE /\ pc'[c] = pc[c] \/ (pc[c] = "none" /\ pc'[c] = "start")
           /\ msg_received'[c] = msg_received[c]
           /\ feed_to_send'[c] = feed_to_send[c] /\ next_item'[c] = next_item[c]
  BY <1>3 DEF ServingInv, Answering
<1> QED  BY <1>2, <1>3, StepOf

-----------------------------------------------------------------------------
(* The steps of Connection, in terms of what it sees.                      *)

ConnStep(c) == ConnectionOf(c)!ConnNext \/ UNCHANGED ConnectionOf(c)!connVars

(* What is sent to c is Deliver of Connection.                             *)
Delivered(c, item) ==
  FromServer(c)' = IF ClientUp(c) THEN Append(FromServer(c), item) ELSE FromServer(c)

(* One lemma for each: what has to be shown of a step of the server.       *)
LEMMA StutterMaps ==
  ASSUME NEW c \in Conns,
         UNCHANGED <<ClientUp(c), ToServer(c), FromServer(c), ServerOf(c), Known(c),
                     ItemsLeft(c)>>
  PROVE  ConnStep(c)
<1>1. UNCHANGED ConnectionOf(c)!connVars
  BY DEF ConnectionOf!connVars, ClientUp, ToServer, FromServer, ItemOf, Known, ItemsLeft
<1> QED  BY <1>1 DEF ConnStep

LEMMA StartsMaps ==
  ASSUME NEW c \in Conns, ServerOf(c) = "backlog", ServerOf(c)' = "idle",
         UNCHANGED <<ClientUp(c), ToServer(c), FromServer(c), Known(c), ItemsLeft(c)>>
  PROVE  ConnStep(c)
<1>1. ConnectionOf(c)!ServerStarts
  BY DEF ConnectionOf!ServerStarts, ClientUp, ToServer, FromServer, ItemOf, Known, ItemsLeft
<1> QED  BY <1>1 DEF ConnStep, ConnectionOf!ConnNext, ConnectionOf!ServerStep

(* A message is taken, and what was after it is still to come.             *)
LEMMA TakesMaps ==
  ASSUME NEW c \in Conns, ServerOf(c) = "idle",
         NEW m \in SentTypes, NEW rest \in Seq(SentTypes), ToServer(c) = <<m>> \o rest,
         m \notin {"NAMELESS", "OTHER"}, Known(c) \/ m = "CONNECT",
         ToServer(c)' = rest, Known(c)',
         IF m = "READ" THEN ServerOf(c)' = "answering" /\ ItemsLeft(c)' \in 0 .. FeedMaxSize
                       ELSE UNCHANGED <<ServerOf(c), ItemsLeft(c)>>,
         UNCHANGED <<ClientUp(c), FromServer(c)>>
  PROVE  ConnStep(c)
<1>1. <<m>> \o rest # <<>> /\ Head(<<m>> \o rest) = m /\ Tail(<<m>> \o rest) = rest
  BY FrontAndRest
<1>2. Known(c)' = TRUE  BY DEF Known
<1>3. ConnectionOf(c)!ServerReceives
  BY <1>1, <1>2 DEF ConnectionOf!ServerReceives, ConnectionOf!Refused, ClientUp, ToServer,
                    FromServer, ItemOf, Known, ItemsLeft
<1> QED  BY <1>3 DEF ConnStep, ConnectionOf!ConnNext, ConnectionOf!ServerStep

(* A message is refused, and nothing after it is taken.                    *)
LEMMA RefusesMaps ==
  ASSUME NEW c \in Conns, ServerOf(c) = "idle",
         NEW m \in SentTypes, NEW rest \in Seq(SentTypes), ToServer(c) = <<m>> \o rest,
         m = "NAMELESS" \/ (~Known(c) /\ m # "CONNECT"),
         ServerOf(c)' = "leaving", ToServer(c)' = <<>>,
         UNCHANGED <<ClientUp(c), FromServer(c), Known(c), ItemsLeft(c)>>
  PROVE  ConnStep(c)
<1>1. <<m>> \o rest # <<>> /\ Head(<<m>> \o rest) = m  BY FrontAndRest
<1>2. ConnectionOf(c)!ServerReceives
  BY <1>1 DEF ConnectionOf!ServerReceives, ConnectionOf!Refused, ClientUp, ToServer,
              FromServer, ItemOf, Known, ItemsLeft
<1> QED  BY <1>2 DEF ConnStep, ConnectionOf!ConnNext, ConnectionOf!ServerStep

LEMMA SendsItemMaps ==
  ASSUME NEW c \in Conns, ServerOf(c) = "answering", ItemsLeft(c) > 0,
         Delivered(c, [type |-> "PUSH", live |-> FALSE]),
         ItemsLeft(c)' = ItemsLeft(c) - 1,
         UNCHANGED <<ClientUp(c), ToServer(c), ServerOf(c), Known(c)>>
  PROVE  ConnStep(c)
<1>1. ConnectionOf(c)!SendItem
  BY DEF Delivered, ConnectionOf!SendItem, ConnectionOf!Deliver, ConnectionOf!FeedItem,
         ClientUp, ToServer, FromServer, ItemOf, Known, ItemsLeft
<1> QED  BY <1>1 DEF ConnStep, ConnectionOf!ConnNext, ConnectionOf!ServerStep

LEMMA SendsEndMaps ==
  ASSUME NEW c \in Conns, ServerOf(c) = "answering", ItemsLeft(c) = 0,
         Delivered(c, [type |-> "END", live |-> FALSE]), ServerOf(c)' = "idle",
         UNCHANGED <<ClientUp(c), ToServer(c), Known(c), ItemsLeft(c)>>
  PROVE  ConnStep(c)
<1>1. ConnectionOf(c)!SendEnd
  BY DEF Delivered, ConnectionOf!SendEnd, ConnectionOf!Deliver, ConnectionOf!End,
         ClientUp, ToServer, FromServer, ItemOf, Known, ItemsLeft
<1> QED  BY <1>1 DEF ConnStep, ConnectionOf!ConnNext, ConnectionOf!ServerStep

LEMMA PushesMaps ==
  ASSUME NEW c \in Conns, ServerOf(c) \notin {"closed", "ended"},
         Delivered(c, [type |-> "PUSH", live |-> TRUE]),
         UNCHANGED <<ClientUp(c), ToServer(c), ServerOf(c), Known(c), ItemsLeft(c)>>
  PROVE  ConnStep(c)
<1>1. ConnectionOf(c)!ServerPushes
  BY DEF Delivered, ConnectionOf!ServerPushes, ConnectionOf!Gone, ConnectionOf!Deliver,
         ConnectionOf!LivePush, ClientUp, ToServer, FromServer, ItemOf, Known, ItemsLeft
<1> QED  BY <1>1 DEF ConnStep, ConnectionOf!ConnNext, ConnectionOf!ServerStep

LEMMA LeavesMaps ==
  ASSUME NEW c \in Conns, ServerOf(c) = "idle", ~ClientUp(c), ToServer(c) = <<>>,
         ServerOf(c)' = "leaving",
         UNCHANGED <<ClientUp(c), ToServer(c), FromServer(c), Known(c), ItemsLeft(c)>>
  PROVE  ConnStep(c)
<1>1. ConnectionOf(c)!ServerLeaves
  BY DEF ConnectionOf!ServerLeaves, ClientUp, ToServer, FromServer, ItemOf, Known, ItemsLeft
<1> QED  BY <1>1 DEF ConnStep, ConnectionOf!ConnNext, ConnectionOf!ServerStep

LEMMA ClosesMaps ==
  ASSUME NEW c \in Conns, ServerOf(c) \in {"backlog", "leaving"}, ServerOf(c)' = "closed",
         Delivered(c, [type |-> "PUSH", live |-> TRUE]) \/ UNCHANGED FromServer(c),
         UNCHANGED <<ClientUp(c), Known(c)>>
  PROVE  ConnStep(c)
<1>1. ToServer(c)' = <<>> /\ UNCHANGED ItemsLeft(c)  BY DEF ToServer, ItemsLeft
<1>2. ConnectionOf(c)!ServerCloses
  BY <1>1 DEF Delivered, ConnectionOf!ServerCloses, ConnectionOf!Deliver,
              ConnectionOf!LivePush, ClientUp, ToServer, FromServer, ItemOf, Known, ItemsLeft
<1> QED  BY <1>2 DEF ConnStep, ConnectionOf!ConnNext, ConnectionOf!ServerStep

LEMMA EndsMaps ==
  ASSUME NEW c \in Conns, ServerOf(c) # "ended", ServerOf(c)' = "ended",
         UNCHANGED <<ClientUp(c), FromServer(c), Known(c)>>
  PROVE  ConnStep(c)
<1>1. ToServer(c)' = <<>> /\ ItemsLeft(c)' = 0  BY DEF ToServer, ItemsLeft
<1>2. ConnectionOf(c)!ServerEnds
  BY <1>1 DEF ConnectionOf!ServerEnds, ClientUp, ToServer, FromServer, ItemOf, Known, ItemsLeft
<1> QED  BY <1>2 DEF ConnStep, ConnectionOf!ConnNext, ConnectionOf!ServerStep

LEMMA ClientLeavesMaps ==
  ASSUME NEW c \in Conns, ClientUp(c), ~ClientUp(c)',
         NEW n \in 0 .. Len(ToServer(c)), ToServer(c)' = SubSeq(ToServer(c), 1, n),
         UNCHANGED <<FromServer(c), ServerOf(c), Known(c), ItemsLeft(c)>>
  PROVE  ConnStep(c)
<1>1. ClientUp(c)' = FALSE  BY DEF ClientUp
<1>2. ConnectionOf(c)!ClientLeaves
  BY <1>1 DEF ConnectionOf!ClientLeaves, ClientUp, ToServer, FromServer, ItemOf, Known, ItemsLeft
<1> QED  BY <1>2 DEF ConnStep, ConnectionOf!ConnNext

-----------------------------------------------------------------------------
(* What Connection sees, by the place of the thread.                       *)

(* The connection waits to be accepted, or its socket is open.             *)
Open(c) == peer[c] = "new" \/ SocketOpen(c)

(* What the server does with a connection whose thread is at a place.      *)
Serves(alive, place, open) ==
  IF ~alive THEN "ended"
  ELSE IF place = "none" THEN IF open THEN "backlog" ELSE "closed"
  ELSE IF place \in {"close", "done"} THEN IF open THEN "leaving" ELSE "closed"
  ELSE IF place \in Answering THEN "answering"
  ELSE "idle"

Pending(place, m) ==
  IF place \in {"received", "connect", "read"} THEN <<TypeSent(m)>> ELSE <<>>

Got(items) == [k \in DOMAIN items |-> ItemOf(items[k])]

Over == {"leaving", "closed", "ended"}

(* ServerOf, as a function of what it depends on; before and after a step. *)
LEMMA ServerIs ==
  ASSUME TypeInv, OwnInv, NEW c \in Conns
  PROVE  ServerOf(c) = Serves(up, pc[c], Open(c))
<1>1. up \in BOOLEAN /\ (peer[c] = "new" => pc[c] = "none")
  BY DEF TypeInv, TypeOK, KernelTypeOK, OwnInv, NewIsUnknown
<1>2. CASE ~up  BY <1>2 DEF ServerOf, Serves
<1>3. CASE up /\ pc[c] = "none"  BY <1>3 DEF ServerOf, Serves, Open
<1>4. CASE up /\ pc[c] \in {"close", "done"}  BY <1>1, <1>4 DEF ServerOf, Serves, Open
<1>5. CASE up /\ pc[c] \in Answering  BY <1>5 DEF ServerOf, Serves, Answering
<1>6. CASE up /\ pc[c] \notin {"none", "close", "done"} \cup Answering
  BY <1>6 DEF ServerOf, Serves, Answering
<1> QED  BY <1>1, <1>2, <1>3, <1>4, <1>5, <1>6

LEMMA ServerIsNext ==
  ASSUME TypeInv', OwnInv', NEW c \in Conns
  PROVE  ServerOf(c)' = Serves(up', pc'[c], Open(c)')
<1>1. up' \in BOOLEAN /\ (peer'[c] = "new" => pc'[c] = "none")
  BY DEF TypeInv, TypeOK, KernelTypeOK, OwnInv, NewIsUnknown
<1>2. CASE ~up'  BY <1>2 DEF ServerOf, Serves
<1>3. CASE up' /\ pc'[c] = "none"  BY <1>3 DEF ServerOf, Serves, Open
<1>4. CASE up' /\ pc'[c] \in {"close", "done"}  BY <1>1, <1>4 DEF ServerOf, Serves, Open
<1>5. CASE up' /\ pc'[c] \in Answering  BY <1>5 DEF ServerOf, Serves, Answering
<1>6. CASE up' /\ pc'[c] \notin {"none", "close", "done"} \cup Answering
  BY <1>6 DEF ServerOf, Serves, Answering
<1> QED  BY <1>1, <1>2, <1>3, <1>4, <1>5, <1>6

(* The other fields, in the same terms.                                    *)
LEMMA ViewIs ==
  ASSUME TypeInv, OwnInv, NEW c \in Conns
  PROVE  /\ ToServer(c) = IF Serves(up, pc[c], Open(c)) \in Over
                          THEN <<>> ELSE Pending(pc[c], msg_received[c]) \o Coming(inbox[c])
         /\ FromServer(c) = Got(rcvd[c])
         /\ ItemsLeft(c) = IF Serves(up, pc[c], Open(c)) = "answering"
                           THEN Len(feed_to_send[c]) + 1 - next_item[c] ELSE 0
<1>1. ServerOf(c) = Serves(up, pc[c], Open(c))  BY ServerIs
<1>2. Untaken(c) = Pending(pc[c], msg_received[c]) \o Coming(inbox[c])
  BY DEF Untaken, Pending, Coming
<1> QED  BY <1>1, <1>2 DEF ToServer, FromServer, ItemsLeft, Got, Over

LEMMA ViewIsNext ==
  ASSUME TypeInv', OwnInv', NEW c \in Conns
  PROVE  /\ ToServer(c)' = IF Serves(up', pc'[c], Open(c)') \in Over
                           THEN <<>> ELSE Pending(pc'[c], msg_received'[c]) \o Coming(inbox'[c])
         /\ FromServer(c)' = Got(rcvd'[c])
         /\ ItemsLeft(c)' = IF Serves(up', pc'[c], Open(c)') = "answering"
                            THEN Len(feed_to_send'[c]) + 1 - next_item'[c] ELSE 0
<1>1. ServerOf(c)' = Serves(up', pc'[c], Open(c)')  BY ServerIsNext
<1>2. Untaken(c)' = Pending(pc'[c], msg_received'[c]) \o Coming(inbox'[c])
  BY DEF Untaken, Pending, Coming
<1> QED  BY <1>1, <1>2 DEF ToServer, FromServer, ItemsLeft, Got, Over

(* send() of a push is left by its return only.                            *)
LEMMA SendingEnds ==
  ASSUME NEW c \in Conns, HandlerStep(c), pc[c] = "sending"
  PROVE  SendPush(c)
<1>1. ~(Start(c) \/ ReceiveMessage(c) \/ Close(c) \/ Register(c) \/ Follow(c))
  BY DEF Start, ReceiveMessage, Close, Register, Follow
<1>2. ~(Disconnect(c) \/ RefuseUnregistered(c) \/ RefuseEmptyName(c) \/ Dispatch(c))
  BY DEF Disconnect, RefuseUnregistered, RefuseEmptyName, Dispatch
<1>3. ~(AssignId(c) \/ AddToFeed(c) \/ CollectFollowers(c) \/ CollectSlots(c))
  BY DEF AssignId, AddToFeed, CollectFollowers, CollectSlots
<1>4. ~(LockForPush(c) \/ CheckSlot(c) \/ ReadFd(c) \/ EnterSend(c))
  BY DEF LockForPush, CheckSlot, ReadFd, EnterSend
<1>5. ~(UnlockPush(c) \/ NextFollower(c) \/ FinishPost(c))
  BY DEF UnlockPush, NextFollower, FinishPost
<1>6. ~(GetFeedMessages(c) \/ LockForFeed(c) \/ SendFeedItem(c) \/ SendEnd(c) \/ UnlockFeed(c))
  BY DEF GetFeedMessages, LockForFeed, SendFeedItem, SendEnd, UnlockFeed
<1> QED  BY <1>1, <1>2, <1>3, <1>4, <1>5, <1>6 DEF HandlerStep

(* Only a client that is accepted is no longer new.                        *)
LEMMA NewStays ==
  ASSUME TypeInv, [Next]_vars, NEW c \in Conns
  PROVE  /\ peer'[c] = "new" => peer[c] = "new"
         /\ peer[c] = "new" /\ peer'[c] # "new" => Accept /\ \E f \in Fds : fdTable'[f] = c
<1>1. /\ peer \in [Conns -> {"new", "reading", "stalled", "closed", "reset"}]
      /\ fdTable \in [Fds -> Conns \cup {NoConn}]
  BY DEF TypeInv, TypeOK, ClientsTypeOK, KernelTypeOK
<1>2. CASE Accept  BY <1>1, <1>2 DEF Accept
<1>3. ASSUME NEW e, NEW item, Send(e, item) PROVE peer'[c] = "new" <=> peer[c] = "new"
  BY <1>1, <1>3 DEF Send
<1>4. ASSUME NEW d \in Conns, HandlerStep(d)
      PROVE  (\E e, item : Send(e, item)) \/ UNCHANGED peer
  <2>1. SendPush(d) => Send(target[d], Push(d))  BY DEF SendPush
  <2>2. SendFeedItem(d) => \E e, item : Send(e, item)  BY DEF SendFeedItem
  <2>3. SendEnd(d) => \E e, item : Send(e, item)  BY DEF SendEnd
  <2> QED  BY <1>4, <2>1, <2>2, <2>3, ThreadWrites
<1>5. ASSUME NEW d \in Conns, Leave(d) \/ StallOrResume(d)
      PROVE  peer'[c] = "new" <=> peer[c] = "new"
  BY <1>1, <1>5 DEF Leave, StallOrResume, Here
<1>6. CASE UNCHANGED peer  BY <1>6
<1> QED  BY <1>2, <1>3, <1>4, <1>5, <1>6, MainWrites DEF Next, vars, peerVars

(* A socket that is open was, and it is closed by main, by the thread of   *)
(* the connection, or by the end of the last send().                       *)
LEMMA OpenChanges ==
  ASSUME TypeInv, OwnInv, [Next]_vars, NEW c \in Conns
  PROVE  /\ Open(c)' => Open(c)
         /\ \/ Open(c)' = Open(c)
            \/ pc[c] = "none" /\ (RejectClient \/ CloseRefused)
            \/ Close(c)
            \/ \E d \in Conns : SendPush(d) /\ target[d] = c
<1>1. /\ fdTable \in [Fds -> Conns \cup {NoConn}] /\ NoConn \notin Conns
      /\ pc \in [Conns -> Places] /\ target \in [Conns -> Conns \cup {NoConn}]
      /\ peer \in [Conns -> {"new", "reading", "stalled", "closed", "reset"}]
  BY ServerAssumption
     DEF TypeInv, TypeOK, KernelTypeOK, ThreadsTypeOK, PostsTypeOK, ClientsTypeOK
<1> DEFINE Sends(d) == pc[d] = "sending" /\ target[d] = c
           Fd(f)    == fdTable[f] = c
<1>2. Open(c) <=> peer[c] = "new" \/ (\E f \in Fds : Fd(f)) \/ (\E d \in Conns : Sends(d))
  BY DEF Open, SocketOpen
<1>3. Open(c)' <=> peer'[c] = "new" \/ (\E f \in Fds : Fd(f)') \/ (\E d \in Conns : Sends(d)')
  BY DEF Open, SocketOpen
<1>4. ASSUME NEW d \in Conns
      PROVE  /\ Sends(d)' => Sends(d) \/ \E f \in Fds : Fd(f)
             /\ Sends(d) /\ ~Sends(d)' => SendPush(d)
  <2>1. CASE HandlerStep(d)
    <3>1. Sends(d)' => EnterSend(d)  BY <2>1, PlacesEntered
    <3>2. EnterSend(d) /\ Sends(d)' => \E f \in Fds : Fd(f)
      BY <1>1 DEF EnterSend, OpenAt
    <3>3. Sends(d) => SendPush(d)  BY <2>1, SendingEnds
    <3> QED  BY <3>1, <3>2, <3>3
  <2>2. CASE /\ pc'[d] = pc[d] \/ (pc[d] = "none" /\ pc'[d] = "start")
             /\ target'[d] = target[d]
    BY <2>2
  <2> QED  BY <2>1, <2>2, StepOf
<1>5. ASSUME NEW f \in Fds
      PROVE  /\ Fd(f)' => Fd(f) \/ peer[c] = "new"
             /\ Fd(f) /\ ~Fd(f)' =>
                  \/ pc[c] = "none" /\ (RejectClient \/ CloseRefused)
                  \/ Close(c)
  <2>1. CASE UNCHANGED fdTable  BY <2>1
  <2>2. CASE Accept
    <3>1. PICK d \in Conns, g \in Fds :
            peer[d] = "new" /\ fdTable[g] = NoConn /\ fdTable' = [fdTable EXCEPT ![g] = d]
      BY <2>2 DEF Accept
    <3> QED  BY <1>1, <3>1
  <2>3. CASE RejectClient \/ CloseRefused
    <3>1. /\ main_pc # "accept" /\ fdTable' = [fdTable EXCEPT ![client_socket] = NoConn]
      BY <2>3 DEF RejectClient, CloseRefused
    <3>2. client_socket \in Fds /\ pc[fdTable[client_socket]] = "none"
      BY <3>1 DEF OwnInv, MainHolds
    <3> QED  BY <1>1, <2>3, <3>1, <3>2
  <2>4. ASSUME NEW d \in Conns, Close(d)
        PROVE  (Fd(f)' => Fd(f)) /\ (Fd(f) /\ ~Fd(f)' => d = c)
    <3>1. pc[d] = "close" /\ fdTable' = [fdTable EXCEPT ![client_fd[d]] = NoConn]
      BY <2>4 DEF Close
    <3>2. client_fd[d] \in Fds /\ fdTable[client_fd[d]] = d
      BY <1>1, <3>1 DEF OwnInv, ClosingHolds, OpenAt
    <3> QED  BY <1>1, <3>1, <3>2
  <2>5. ASSUME NEW d \in Conns, HandlerStep(d) PROVE Close(d) \/ UNCHANGED fdTable
    BY <2>5, ThreadWrites
  <2>6. ASSUME NEW d \in Conns, Leave(d) \/ StallOrResume(d) PROVE UNCHANGED fdTable
    BY <2>6, PeersWrite DEF kernelVars
  <2>7. CASE UNCHANGED vars  BY <2>1, <2>7 DEF vars, kernelVars
  <2> QED  BY <2>1, <2>2, <2>3, <2>4, <2>5, <2>6, <2>7, MainWrites DEF Next
<1>6. Open(c)' => Open(c)  BY <1>2, <1>3, <1>4, <1>5, NewStays
<1>7. CASE peer[c] = "new"
  <2>1. Open(c) /\ Open(c)'  BY <1>2, <1>3, <1>7, NewStays
  <2> QED  BY <2>1, <1>2, <1>7
<1>8. CASE Open(c) /\ ~Open(c)' /\ peer[c] # "new"
  BY <1>2, <1>3, <1>4, <1>5, <1>8
<1>9. Open(c) \in BOOLEAN /\ Open(c)' \in BOOLEAN  BY DEF Open, SocketOpen
<1> QED  BY <1>6, <1>7, <1>8, <1>9

-----------------------------------------------------------------------------
(* The steps of the server, as c sees them.                                *)

(* Nothing that Connection sees of c changes.                              *)
LEMMA QuietMaps ==
  ASSUME TypeInv, OwnInv, TypeInv', OwnInv', NEW c \in Conns,
         ClientUp(c)' = ClientUp(c), rcvd'[c] = rcvd[c], name'[c] = name[c],
         Serves(up', pc'[c], Open(c)') = Serves(up, pc[c], Open(c)),
         \/ Serves(up, pc[c], Open(c)) \in Over
         \/ Pending(pc'[c], msg_received'[c]) \o Coming(inbox'[c])
            = Pending(pc[c], msg_received[c]) \o Coming(inbox[c]),
         Serves(up, pc[c], Open(c)) = "answering" =>
           feed_to_send'[c] = feed_to_send[c] /\ next_item'[c] = next_item[c]
  PROVE  ConnStep(c)
<1>1. ServerOf(c)' = ServerOf(c)  BY ServerIs, ServerIsNext
<1>2. ToServer(c)' = ToServer(c)
  BY ViewIs, ViewIsNext
<1>3. FromServer(c)' = FromServer(c) /\ ItemsLeft(c)' = ItemsLeft(c)  BY ViewIs, ViewIsNext
<1>4. Known(c)' = Known(c)  BY DEF Known
<1> QED  BY <1>1, <1>2, <1>3, <1>4, StutterMaps

(* c and its thread are left alone.                                        *)
LEMMA UntouchedMaps ==
  ASSUME TypeInv, OwnInv, TypeInv', OwnInv', NEW c \in Conns,
         up' = up, pc'[c] = pc[c], Open(c)' = Open(c), ClientUp(c)' = ClientUp(c),
         rcvd'[c] = rcvd[c], name'[c] = name[c], msg_received'[c] = msg_received[c],
         inbox'[c] = inbox[c], feed_to_send'[c] = feed_to_send[c],
         next_item'[c] = next_item[c]
  PROVE  ConnStep(c)
BY QuietMaps

(* The socket of c is closed, and with it may go a push.                   *)
LEMMA ShutMaps ==
  ASSUME TypeInv, OwnInv, TypeInv', OwnInv', NEW c \in Conns,
         up, up', Open(c), ~Open(c)', pc[c] \in {"none", "close", "done"},
         pc'[c] \in {"none", "close", "done"},
         ClientUp(c)' = ClientUp(c), name'[c] = name[c],
         rcvd'[c] = rcvd[c] \/ Delivered(c, [type |-> "PUSH", live |-> TRUE])
  PROVE  ConnStep(c)
<1>1. ServerOf(c) \in {"backlog", "leaving"} /\ ServerOf(c)' = "closed"
  BY ServerIs, ServerIsNext DEF Serves
<1>2. rcvd'[c] = rcvd[c] => FromServer(c)' = FromServer(c)  BY ViewIs, ViewIsNext
<1>3. Known(c)' = Known(c)  BY DEF Known
<1> QED  BY <1>1, <1>2, <1>3, ClosesMaps

(* A step of main is no step of a thread.                                  *)
LEMMA MainOnly ==
  ASSUME MainStep
  PROVE  /\ \A d \in Conns : ~Close(d) /\ ~SendPush(d)
         /\ CreateThread => ~RejectClient /\ ~CloseRefused
<1>1. main_pc' # main_pc
  BY DEF MainStep, Accept, ClaimSlot, RejectClient, StoreFd, InitSlot, CreateThread,
         CreateThreadFails, CloseRefused
<1>2. \A d \in Conns : Close(d) \/ SendPush(d) => main_pc' = main_pc
  BY DEF Close, SendPush, mainVars
<1>3. CreateThread => ~RejectClient /\ ~CloseRefused
  BY DEF CreateThread, RejectClient, CloseRefused
<1> QED  BY <1>1, <1>2, <1>3

(* main accepts connections, gives them a thread, or closes them.          *)
LEMMA MainMaps ==
  ASSUME TypeInv, OwnInv, TypeInv', OwnInv', [Next]_vars, up, MainStep, NEW c \in Conns
  PROVE  ConnStep(c)
<1>1. /\ pc \in [Conns -> Places] /\ client_index \in [Conns -> Slots]
      /\ peer \in [Conns -> {"new", "reading", "stalled", "closed", "reset"}]
      /\ inbox[c] \in Seq(Message)
  BY DEF TypeInv, TypeOK, ThreadsTypeOK, ClientsTypeOK
<1>2. /\ up' = up /\ rcvd'[c] = rcvd[c] /\ name'[c] = name[c]
      /\ msg_received'[c] = msg_received[c] /\ inbox'[c] = inbox[c]
      /\ feed_to_send'[c] = feed_to_send[c] /\ next_item'[c] = next_item[c]
  BY MainWrites DEF readVars
<1>3. ClientUp(c)' = ClientUp(c)
  <2>1. CASE Accept  BY <1>1, <2>1 DEF Accept, ClientUp
  <2> QED  BY <2>1, MainWrites DEF ClientUp
<1>4. CASE CreateThread
  <2>1. PICK d \in Conns : /\ d = fdTable[client_socket] /\ pc[d] = "none"
                           /\ client_socket \in Fds
    BY <1>4 DEF CreateThread, OwnInv, MainHolds
  <2>2. pc' = [pc EXCEPT ![d] = "start"]  BY <1>4, <2>1 DEF CreateThread
  <2>3. Open(d)  BY <2>1 DEF Open, SocketOpen
  <2>4. Open(c)' = Open(c)
    BY <1>4, OpenChanges, MainOnly
  <2>5. CASE c = d
    <3>1. pc[c] = "none" /\ pc'[c] = "start"  BY <1>1, <2>1, <2>2, <2>5
    <3>2. ServerOf(c) = "backlog" /\ ServerOf(c)' = "idle"
      BY <1>2, <2>3, <2>5, <3>1, ServerIs, ServerIsNext DEF Serves, Answering
    <3>3. UNCHANGED <<ToServer(c), FromServer(c), ItemsLeft(c), Known(c)>>
      BY <1>2, <2>3, <2>5, <3>1, ViewIs, ViewIsNext DEF Serves, Answering, Over, Pending, Known
    <3> QED  BY <1>3, <3>2, <3>3, StartsMaps
  <2>6. CASE c # d
    <3>1. pc'[c] = pc[c]  BY <1>1, <2>2, <2>6
    <3> QED  BY <1>2, <1>3, <2>4, <3>1, UntouchedMaps
  <2> QED  BY <2>5, <2>6
<1>5. CASE ~CreateThread
  <2>1. pc' = pc  BY <1>5, MainWrites
  <2>2. CASE Open(c)' = Open(c)  BY <1>2, <1>3, <2>1, <2>2, UntouchedMaps
  <2>3. CASE Open(c)' # Open(c)
    <3>1. Open(c) /\ ~Open(c)'  BY <2>3, OpenChanges DEF Open, SocketOpen
    <3>2. pc[c] = "none"  BY <2>3, OpenChanges, MainOnly
    <3> QED  BY <1>2, <1>3, <2>1, <3>1, <3>2, ShutMaps
  <2> QED  BY <2>2, <2>3
<1> QED  BY <1>4, <1>5

(* t is what is left of s when its end is lost.                            *)
Cut(s, t) == \E k \in 0 .. Len(s) : t = SubSeq(s, 1, k)

(* What is lost of what c sent is lost at the end.                         *)
LEMMA CutOff ==
  ASSUME NEW place, NEW m \in Message, NEW box \in Seq(Message), NEW n \in 0 .. Len(box)
  PROVE  Cut(Pending(place, m) \o Coming(box),
             Pending(place, m) \o Coming(SubSeq(box, 1, n)))
<1>1. /\ Coming(box) \in Seq(SentTypes) /\ n \in 0 .. Len(Coming(box))
      /\ Coming(SubSeq(box, 1, n)) = SubSeq(Coming(box), 1, n)
  BY ComingType, ComingCut
<1>2. CASE Pending(place, m) = <<>>
  <2>1. \A i \in 1 .. n : box[i] \in Message  BY ElementOfSeq, LenProperties
  <2>2. SubSeq(box, 1, n) \in Seq(Message)  BY <2>1, SubSeqProperties, LenProperties
  <2>3. Coming(SubSeq(box, 1, n)) \in Seq(SentTypes)  BY <2>2, ComingType
  <2>4. /\ <<>> \o Coming(box) = Coming(box)
        /\ <<>> \o Coming(SubSeq(box, 1, n)) = Coming(SubSeq(box, 1, n))
    BY <1>1, <2>3, ConcatEmptySeq
  <2> QED  BY <1>1, <1>2, <2>4 DEF Cut
<1>3. CASE Pending(place, m) = <<TypeSent(m)>>
  <2>1. TypeSent(m) \in SentTypes  BY DEF TypeSent, SentTypes, Message
  <2>2. /\ n + 1 \in 0 .. Len(<<TypeSent(m)>> \o Coming(box))
        /\ SubSeq(<<TypeSent(m)>> \o Coming(box), 1, n + 1)
           = <<TypeSent(m)>> \o SubSeq(Coming(box), 1, n)
    BY <1>1, <2>1, FrontAndRest
  <2> QED  BY <1>1, <1>3, <2>2 DEF Cut
<1> QED  BY <1>2, <1>3 DEF Pending

(* A client leaves, or stops reading, or reads on.                         *)
LEMMA PeersMap ==
  ASSUME TypeInv, OwnInv, TypeInv', OwnInv', [Next]_vars, up, NEW d \in Conns,
         Leave(d) \/ StallOrResume(d), NEW c \in Conns
  PROVE  ConnStep(c)
<1>1. /\ peer \in [Conns -> {"new", "reading", "stalled", "closed", "reset"}]
      /\ inbox \in [Conns -> Seq(Message)] /\ inbox[c] \in Seq(Message)
      /\ msg_received[c] \in Message /\ pc[c] \in Places
  BY DEF TypeInv, TypeOK, ClientsTypeOK, ThreadsTypeOK
<1>2. UNCHANGED <<rcvd, fdTable, up, pc, target, msg_received, name, feed_to_send, next_item>>
  BY PeersWrite DEF kernelVars, threadVars, postVars, readVars
<1>3. peer[d] \in {"reading", "stalled"} /\ peer'[d] # "new"
      /\ \A e \in Conns \ {d} : peer'[e] = peer[e]
  BY <1>1 DEF Leave, StallOrResume, Here
<1>4. Open(c)' = Open(c)  BY <1>2, <1>3 DEF Open, SocketOpen
<1>5. CASE c # d \/ StallOrResume(d)
  <2>1. inbox'[c] = inbox[c]  BY <1>1, <1>5 DEF Leave, StallOrResume
  <2>2. ClientUp(c)' = ClientUp(c)
    BY <1>1, <1>3, <1>5 DEF ClientUp, StallOrResume
  <2> QED  BY <1>2, <1>4, <2>1, <2>2, UntouchedMaps
<1>6. CASE c = d /\ Leave(d)
  <2>1. ClientUp(c) /\ ~ClientUp(c)'  BY <1>1, <1>3, <1>6 DEF Leave, ClientUp
  <2>2. PICK n \in 0 .. Len(inbox[c]) : inbox'[c] = SubSeq(inbox[c], 1, n)
    BY <1>1, <1>6 DEF Leave
  <2>3. UNCHANGED <<FromServer(c), ServerOf(c), Known(c), ItemsLeft(c)>>
    BY <1>2, <1>4, ServerIs, ServerIsNext, ViewIs, ViewIsNext DEF Known
  <2>4. \E k \in 0 .. Len(ToServer(c)) : ToServer(c)' = SubSeq(ToServer(c), 1, k)
    <3>1. CASE Serves(up, pc[c], Open(c)) \in Over
      <4>1. ToServer(c) = <<>> /\ ToServer(c)' = <<>>
        BY <1>2, <1>4, <3>1, ViewIs, ViewIsNext
      <4>2. Len(<<>>) = 0 /\ SubSeq(<<>>, 1, 0) = <<>>  BY EmptySeq, SubSeqEmpty
      <4> QED  BY <4>1, <4>2
    <3>2. CASE Serves(up, pc[c], Open(c)) \notin Over
      <4>1. /\ ToServer(c) = Pending(pc[c], msg_received[c]) \o Coming(inbox[c])
            /\ ToServer(c)' = Pending(pc[c], msg_received[c]) \o Coming(inbox'[c])
        BY <1>2, <1>4, <3>2, ViewIs, ViewIsNext
      <4>2. PICK place \in Places, m \in Message, box \in Seq(Message) :
              place = pc[c] /\ m = msg_received[c] /\ box = inbox[c]
        BY <1>1
      <4>3. n \in 0 .. Len(box)  BY <4>2
      <4>4. Cut(Pending(place, m) \o Coming(box),
                Pending(place, m) \o Coming(SubSeq(box, 1, n)))
        BY <4>3, CutOff
      <4> QED  BY <2>2, <4>1, <4>2, <4>4 DEF Cut
    <3> QED  BY <3>1, <3>2
  <2> QED  BY <2>1, <2>3, <2>4, ClientLeavesMaps
<1> QED  BY <1>5, <1>6

(* A signal ends the process for every connection.                         *)
LEMMA SignalMaps ==
  ASSUME TypeInv, OwnInv, TypeInv', OwnInv', [Next]_vars, up, ~up', NEW c \in Conns
  PROVE  ConnStep(c)
<1>1. PICK d \in Conns : HandlerStep(d)
  <2>1. \A d \in Conns : ~(Leave(d) \/ StallOrResume(d))  BY PeersWrite DEF kernelVars
  <2>2. ~MainStep  BY MainWrites
  <2>3. ~(UNCHANGED vars)  BY DEF vars, kernelVars
  <2> QED  BY <2>1, <2>2, <2>3 DEF Next
<1>2. SendPush(d) \/ SendFeedItem(d) \/ SendEnd(d)  BY <1>1, ThreadWrites
<1>3. \E e, item : Send(e, item)  BY <1>2 DEF SendPush, SendFeedItem, SendEnd
<1>4. UNCHANGED <<peer, rcvd>>
  <2>1. ASSUME NEW e, NEW item, Send(e, item) PROVE UNCHANGED <<peer, rcvd>>
    BY <2>1 DEF Send
  <2> QED  BY <1>3, <2>1
<1>5. UNCHANGED name  BY <1>2 DEF SendPush, SendFeedItem, SendEnd
<1>6. ServerOf(c) # "ended" /\ ServerOf(c)' = "ended"
  BY ServerIs, ServerIsNext DEF Serves
<1>7. UNCHANGED <<ClientUp(c), FromServer(c), Known(c)>>
  BY <1>4, <1>5 DEF ClientUp, FromServer, Known
<1> QED  BY <1>6, <1>7, EndsMaps

(* A step is of one thread.                                                *)
LEMMA ThreadOnly ==
  ASSUME TypeInv, NEW d \in Conns, HandlerStep(d)
  PROVE  /\ ~RejectClient /\ ~CloseRefused
         /\ \A e \in Conns \ {d} : ~Close(e) /\ ~SendPush(e)
<1>1. main_pc' = main_pc  BY ThreadWrites DEF mainVars
<1>2. ~RejectClient /\ ~CloseRefused  BY <1>1 DEF RejectClient, CloseRefused
<1>3. ASSUME NEW e \in Conns, e # d PROVE ~Close(e) /\ ~SendPush(e)
  <2>1. pc'[e] = pc[e] /\ pc \in [Conns -> Places]
    BY <1>3, OwnLocals DEF TypeInv, TypeOK, ThreadsTypeOK
  <2> QED  BY <2>1 DEF Close, SendPush, Goto
<1> QED  BY <1>2, <1>3

(* What is sent to a client that reads is delivered.                       *)
LEMMA ItemDelivered ==
  ASSUME TypeInv, OwnInv, TypeInv', OwnInv', NEW c \in Conns, NEW item \in Item,
         peer[c] = "reading", rcvd'[c] = Append(rcvd[c], item)
  PROVE  Delivered(c, ItemOf(item))
<1>1. rcvd[c] \in Seq(Item) /\ ClientUp(c)
  BY DEF TypeInv, TypeOK, ClientsTypeOK, ClientUp
<1>2. Got(Append(rcvd[c], item)) = Append(Got(rcvd[c]), ItemOf(item))
  BY <1>1, DeliveredLast DEF Got
<1> QED  BY <1>1, <1>2, ViewIs, ViewIsNext DEF Delivered

(* send() neither brings a client nor takes one away.                      *)
LEMMA SendKeepsUp ==
  ASSUME TypeInv, NEW e, NEW item, Send(e, item), NEW c \in Conns
  PROVE  /\ ClientUp(c)' = ClientUp(c)
         /\ c # e => rcvd'[c] = rcvd[c]
<1>1. /\ peer \in [Conns -> {"new", "reading", "stalled", "closed", "reset"}]
      /\ rcvd \in [Conns -> Seq(Item)]
  BY DEF TypeInv, TypeOK, ClientsTypeOK
<1>2. peer'[c] = peer[c] \/ (peer[c] = "closed" /\ peer'[c] = "reset")
  BY <1>1 DEF Send
<1>3. c # e => rcvd'[c] = rcvd[c]  BY <1>1 DEF Send
<1> QED  BY <1>2, <1>3 DEF ClientUp

(* A push is delivered, or the client is gone; and a socket that only the  *)
(* sender still held is closed.                                            *)
LEMMA PushMaps ==
  ASSUME TypeInv, OwnInv, TypeInv', OwnInv', [Next]_vars, up, up', NEW d \in Conns,
         SendPush(d), NEW c \in Conns
  PROVE  ConnStep(c)
<1>1. /\ pc \in [Conns -> Places] /\ target \in [Conns -> Conns \cup {NoConn}]
      /\ pc[d] = "sending" /\ pc' = [pc EXCEPT ![d] = "unlock"]
      /\ Send(target[d], Push(d))
      /\ UNCHANGED <<inbox, name, msg_received, feed_to_send, next_item>>
  BY DEF TypeInv, TypeOK, ThreadsTypeOK, PostsTypeOK, SendPush, Goto, Send, threadVars, readVars
<1>2. HandlerStep(d)  BY DEF HandlerStep
<1>3. ClientUp(c)' = ClientUp(c)  BY <1>1, SendKeepsUp
<1>4. pc'[c] = pc[c] \/ (pc[c] = "sending" /\ pc'[c] = "unlock")  BY <1>1
<1>5. \A open : Serves(up', pc'[c], open) = Serves(up, pc[c], open)
  BY <1>4 DEF Serves, Answering
<1>6. Pending(pc'[c], msg_received'[c]) \o Coming(inbox'[c])
      = Pending(pc[c], msg_received[c]) \o Coming(inbox[c])
  BY <1>1, <1>4 DEF Pending
<1>7. CASE target[d] # c
  <2>1. rcvd'[c] = rcvd[c]  BY <1>1, <1>7, SendKeepsUp
  <2>2. Open(c)' = Open(c)
    <3>1. ~Close(c)  BY <1>1, <1>2, ThreadOnly DEF Close
    <3>2. \A e \in Conns : SendPush(e) => target[e] # c  BY <1>2, <1>7, ThreadOnly
    <3> QED  BY <1>2, <3>1, <3>2, ThreadOnly, OpenChanges
  <2> QED  BY <1>1, <1>3, <1>5, <1>6, <2>1, <2>2, QuietMaps
<1>8. CASE target[d] = c
  <2>1. Open(c)  BY <1>1, <1>8 DEF Open, SocketOpen
  <2>2. rcvd'[c] = rcvd[c] \/ Delivered(c, [type |-> "PUSH", live |-> TRUE])
    <3>1. SUFFICES ASSUME rcvd'[c] # rcvd[c]
                   PROVE  Delivered(c, [type |-> "PUSH", live |-> TRUE])
      OBVIOUS
    <3>2. ~SendFeedItem(c) /\ ~SendEnd(c)
      BY <1>1 DEF SendFeedItem, SendEnd, Goto
    <3>3. PICK item \in Item : /\ peer[c] = "reading" /\ rcvd'[c] = Append(rcvd[c], item)
                               /\ \E e \in Conns : item = Push(e)
      BY <3>1, <3>2, ItemsArrive
    <3>4. ItemOf(item) = [type |-> "PUSH", live |-> TRUE]
      <4>1. item.kind = "push"  BY <3>3 DEF Push
      <4>2. (item.kind = "push") = TRUE /\ item.kind # "end"  BY <4>1
      <4> QED  BY <4>2 DEF ItemOf
    <3> QED  BY <3>3, <3>4, ItemDelivered
  <2>3. Open(c)' \in BOOLEAN  BY DEF Open, SocketOpen
  <2>4. CASE Serves(up', pc'[c], Open(c)') = Serves(up, pc[c], Open(c))
    <3>1. CASE rcvd'[c] = rcvd[c]
      BY <1>1, <1>3, <1>6, <2>4, <3>1, QuietMaps
    <3>2. CASE Delivered(c, [type |-> "PUSH", live |-> TRUE])
      <4>1. ServerOf(c) \notin {"closed", "ended"}
        BY <2>1, ServerIs DEF Serves
      <4>2. UNCHANGED <<ToServer(c), ServerOf(c), ItemsLeft(c), Known(c)>>
        BY <1>1, <1>6, <2>4, ServerIs, ServerIsNext, ViewIs, ViewIsNext DEF Known
      <4> QED  BY <1>3, <3>2, <4>1, <4>2, PushesMaps
    <3> QED  BY <2>2, <3>1, <3>2
  <2>5. CASE Serves(up', pc'[c], Open(c)') # Serves(up, pc[c], Open(c))
    <3>1. ~Open(c)' /\ pc[c] \in {"none", "close", "done"} /\ pc'[c] = pc[c]
      BY <1>4, <1>5, <2>1, <2>3, <2>5 DEF Serves
    <3> QED  BY <1>1, <1>3, <2>1, <2>2, <3>1, ShutMaps
  <2> QED  BY <2>4, <2>5
<1> QED  BY <1>7, <1>8

(* A step of another thread that is no push.                               *)
LEMMA OthersMap ==
  ASSUME TypeInv, OwnInv, TypeInv', OwnInv', [Next]_vars, up, up', NEW d \in Conns,
         HandlerStep(d), ~SendPush(d), NEW c \in Conns \ {d}
  PROVE  ConnStep(c)
<1>1. /\ pc'[c] = pc[c] /\ inbox'[c] = inbox[c] /\ msg_received'[c] = msg_received[c]
      /\ name'[c] = name[c] /\ feed_to_send'[c] = feed_to_send[c]
      /\ next_item'[c] = next_item[c]
  BY OwnLocals
<1>2. Open(c)' = Open(c)
  <2>1. \A e \in Conns : ~SendPush(e)  BY ThreadOnly
  <2> QED  BY <2>1, ThreadOnly, OpenChanges
<1>3. ClientUp(c)' = ClientUp(c) /\ rcvd'[c] = rcvd[c]
  <2>1. CASE SendFeedItem(d) \/ SendEnd(d)
    <3>1. OpenAt(Mine(d).client_fd) = d
      BY <2>1 DEF OwnInv, SlotOwnership, FdOf, SendFeedItem, SendEnd, InSession
    <3>2. \E item : Send(d, item)  BY <2>1, <3>1 DEF SendFeedItem, SendEnd
    <3> QED  BY <3>2, SendKeepsUp
  <2>2. CASE UNCHANGED <<peer, rcvd>>  BY <2>2 DEF ClientUp
  <2> QED  BY <2>1, <2>2, ThreadWrites
<1> QED  BY <1>1, <1>2, <1>3, UntouchedMaps

(* What a step of the thread of c, other than a push, leaves alone.        *)
LEMMA OwnKeeps ==
  ASSUME TypeInv, OwnInv, [Next]_vars, NEW c \in Conns, HandlerStep(c), ~SendPush(c)
  PROVE  /\ ClientUp(c)' = ClientUp(c)
         /\ SendFeedItem(c) \/ SendEnd(c) \/ rcvd'[c] = rcvd[c]
         /\ Close(c) \/ Open(c)' = Open(c)
         /\ InSession(c) => Open(c)
<1>1. Close(c) \/ Open(c)' = Open(c)
  <2>1. \A e \in Conns : ~SendPush(e)  BY ThreadOnly
  <2> QED  BY <2>1, ThreadOnly, OpenChanges
<1>2. ClientUp(c)' = ClientUp(c)
  <2>1. CASE SendFeedItem(c) \/ SendEnd(c)
    <3>1. \E e, item : Send(e, item)  BY <2>1 DEF SendFeedItem, SendEnd
    <3> QED  BY <3>1, SendKeepsUp
  <2>2. CASE UNCHANGED peer  BY <2>2 DEF ClientUp
  <2> QED  BY <2>1, <2>2, ThreadWrites
<1>3. InSession(c) => Open(c)
  BY ServerAssumption DEF OwnInv, SlotOwnership, OpenAt, Open, SocketOpen
<1> QED  BY <1>1, <1>2, <1>3, ThreadWrites

(* The places of a thread at which Connection sees nothing happen.         *)
Aside == {"start", "waiting", "follow", "post", "add", "collect", "notify", "lock", "check",
          "fd", "send", "sending", "unlock", "read_unlock"}

(* Between a request and the next, and while the thread posts.             *)
LEMMA AsideMaps ==
  ASSUME TypeInv, OwnInv, TypeInv', OwnInv', [Next]_vars, up, up', NEW c \in Conns,
         HandlerStep(c), ~SendPush(c), pc[c] \in Aside, pc'[c] \in Aside
  PROVE  ConnStep(c)
<1>1. ~ReceiveMessage(c) /\ ~Register(c) /\ ~SendFeedItem(c) /\ ~SendEnd(c)
  <2>1. pc \in [Conns -> Places]  BY DEF TypeInv, TypeOK, ThreadsTypeOK
  <2> QED  BY <2>1 DEF ReceiveMessage, Register, SendFeedItem, SendEnd, Goto, Aside
<1>2. UNCHANGED <<inbox, name>>  BY <1>1, ThreadWrites
<1>3. rcvd'[c] = rcvd[c] /\ ClientUp(c)' = ClientUp(c)  BY <1>1, OwnKeeps
<1>4. /\ Pending(pc[c], msg_received[c]) = <<>> /\ Pending(pc'[c], msg_received'[c]) = <<>>
      /\ Serves(up, pc[c], Open(c)) = "idle" /\ Serves(up', pc'[c], Open(c)') = "idle"
  BY DEF Pending, Serves, Aside, Answering
<1> QED  BY <1>2, <1>3, <1>4, QuietMaps

(* A message that was received is still the first of those to be taken.    *)
LEMMA ReceiveMessageMaps ==
  ASSUME TypeInv, OwnInv, TypeInv', OwnInv', [Next]_vars, up, up', NEW c \in Conns,
         ReceiveMessage(c)
  PROVE  ConnStep(c)
<1>1. /\ pc \in [Conns -> Places] /\ msg_received \in [Conns -> Message]
      /\ inbox \in [Conns -> Seq(Message)] /\ inbox[c] \in Seq(Message)
  BY DEF TypeInv, TypeOK, ThreadsTypeOK, ClientsTypeOK
<1>2. /\ pc[c] = "waiting" /\ pc'[c] = "received" /\ inbox[c] # <<>>
      /\ msg_received'[c] = Head(inbox[c]) /\ inbox'[c] = Tail(inbox[c])
      /\ name' = name
  BY <1>1 DEF ReceiveMessage, Goto
<1>3. HandlerStep(c) /\ ~SendPush(c) /\ ~SendFeedItem(c) /\ ~SendEnd(c)
  BY <1>2 DEF HandlerStep, SendPush, SendFeedItem, SendEnd
<1>4. rcvd'[c] = rcvd[c] /\ ClientUp(c)' = ClientUp(c)  BY <1>3, OwnKeeps
<1>5. Pending(pc'[c], msg_received'[c]) \o Coming(inbox'[c])
      = Pending(pc[c], msg_received[c]) \o Coming(inbox[c])
  <2>1. Coming(inbox[c]) \in Seq(SentTypes)  BY <1>1, ComingType
  <2>2. <<>> \o Coming(inbox[c]) = Coming(inbox[c])  BY <2>1, ConcatEmptySeq
  <2>3. <<TypeSent(Head(inbox[c]))>> \o Coming(Tail(inbox[c])) = Coming(inbox[c])
    BY <1>1, <1>2, ComingTail
  <2> QED  BY <1>2, <2>2, <2>3 DEF Pending
<1>6. Serves(up, pc[c], Open(c)) = "idle" /\ Serves(up', pc'[c], Open(c)') = "idle"
  BY <1>2 DEF Serves, Answering
<1> QED  BY <1>2, <1>4, <1>5, <1>6, QuietMaps

(* A message that is taken or refused comes before what is still coming.   *)
LEMMA FirstOf ==
  ASSUME TypeInv, OwnInv, up, NEW c \in Conns, pc[c] \in {"received", "connect", "read"}
  PROVE  /\ ServerOf(c) = "idle" /\ ItemsLeft(c) = 0
         /\ TypeSent(msg_received[c]) \in SentTypes
         /\ Coming(inbox[c]) \in Seq(SentTypes)
         /\ ToServer(c) = <<TypeSent(msg_received[c])>> \o Coming(inbox[c])
<1>1. msg_received[c] \in Message /\ inbox[c] \in Seq(Message)
  BY DEF TypeInv, TypeOK, ThreadsTypeOK, ClientsTypeOK
<1>2. Serves(up, pc[c], Open(c)) = "idle"  BY DEF Serves, Answering
<1>3. TypeSent(msg_received[c]) \in SentTypes  BY <1>1 DEF TypeSent, SentTypes, Message
<1> QED  BY <1>1, <1>2, <1>3, ComingType, ServerIs, ViewIs DEF Pending, Over

(* The messages of clients that have registered, and of no other, are      *)
(* taken but for CONNECTs.                                                 *)
LEMMA RegisteredIsKnown ==
  ASSUME OwnInv, NamesInv, NEW c \in Conns, InSession(c)
  PROVE  Registered(c) <=> Known(c)
BY DEF OwnInv, SlotOwnership, NamesInv, SlotNames, Registered, Known

(* A POST or FOLLOW is taken here; a CONNECT or READ a step later.         *)
LEMMA DispatchMaps ==
  ASSUME TypeInv, OwnInv, NamesInv, TypeInv', OwnInv', [Next]_vars, up, up', NEW c \in Conns,
         Dispatch(c)
  PROVE  ConnStep(c)
<1>1. /\ pc \in [Conns -> Places] /\ msg_received \in [Conns -> Message]
      /\ msg_received[c] \in Message /\ inbox[c] \in Seq(Message)
  BY DEF TypeInv, TypeOK, ThreadsTypeOK, ClientsTypeOK
<1>2. /\ pc[c] = "received" /\ inbox'[c] = inbox[c] /\ name' = name
      /\ Registered(c) \/ msg_received[c].type = "CONNECT"
      /\ msg_received'[c].type = msg_received[c].type
      /\ msg_received[c].type = "CONNECT" => msg_received' = msg_received
      /\ msg_received[c].type = "CONNECT" => pc'[c] = "connect"
      /\ msg_received[c].type = "POST" => pc'[c] = "post"
      /\ msg_received[c].type = "FOLLOW" => pc'[c] = "follow"
      /\ msg_received[c].type = "READ" => pc'[c] = "read"
      /\ msg_received[c].type = "OTHER" => pc'[c] = "received"
  BY <1>1 DEF Dispatch, Goto, Message, peerVars
<1>3. HandlerStep(c) /\ ~SendPush(c) /\ ~SendFeedItem(c) /\ ~SendEnd(c)
  BY <1>2 DEF HandlerStep, SendPush, SendFeedItem, SendEnd
<1>4. rcvd'[c] = rcvd[c] /\ ClientUp(c)' = ClientUp(c)  BY <1>3, OwnKeeps
<1>5. TypeSent(msg_received'[c]) = TypeSent(msg_received[c])  BY <1>2 DEF TypeSent
<1>6. CASE msg_received[c].type \in {"CONNECT", "READ", "OTHER"}
  <2>1. pc'[c] \in {"received", "connect", "read"}  BY <1>2, <1>6
  <2>2. /\ Serves(up, pc[c], Open(c)) = "idle" /\ Serves(up', pc'[c], Open(c)') = "idle"
        /\ Pending(pc'[c], msg_received'[c]) = Pending(pc[c], msg_received[c])
    BY <1>2, <1>5, <2>1 DEF Serves, Answering, Pending
  <2> QED  BY <1>2, <1>4, <2>2, QuietMaps
<1>7. CASE msg_received[c].type \in {"POST", "FOLLOW"}
  <2>1. InSession(c) /\ Known(c)  BY <1>2, <1>7, RegisteredIsKnown DEF InSession
  <2>2. Known(c)'  BY <1>2, <2>1 DEF Known
  <2>3. TypeSent(msg_received[c]) \in {"POST", "FOLLOW"}  BY <1>7 DEF TypeSent
  <2>4. pc'[c] \in {"post", "follow"}  BY <1>2, <1>7
  <2>5. Serves(up', pc'[c], Open(c)') = "idle" /\ Pending(pc'[c], msg_received'[c]) = <<>>
    BY <2>4 DEF Serves, Answering, Pending
  <2>6. Coming(inbox[c]) \in Seq(SentTypes) /\ <<>> \o Coming(inbox[c]) = Coming(inbox[c])
    BY <1>1, ComingType, ConcatEmptySeq
  <2>7. /\ ServerOf(c)' = "idle" /\ ItemsLeft(c)' = 0 /\ ToServer(c)' = Coming(inbox[c])
        /\ FromServer(c)' = FromServer(c)
    BY <1>2, <1>4, <2>5, <2>6, ServerIsNext, ViewIs, ViewIsNext DEF Over
  <2> QED  BY <1>2, <1>4, <2>1, <2>2, <2>3, <2>7, FirstOf, TakesMaps
<1> QED  BY <1>1, <1>6, <1>7 DEF Message

(* A thread that gives up its slot.                                        *)
LEMMA LeavingMaps ==
  ASSUME TypeInv, OwnInv, TypeInv', OwnInv', [Next]_vars, up, up', NEW c \in Conns,
         InSession(c), HandlerStep(c), LeaveSlot(c)
  PROVE  /\ ServerOf(c)' = "leaving" /\ ToServer(c)' = <<>> /\ ItemsLeft(c)' = 0
         /\ UNCHANGED <<ClientUp(c), FromServer(c), Known(c)>>
<1>1. pc \in [Conns -> Places]  BY DEF TypeInv, TypeOK, ThreadsTypeOK
<1>2. pc'[c] = "close" /\ rcvd' = rcvd /\ name' = name
  BY <1>1 DEF LeaveSlot, Goto, peerVars
<1>3. ~SendPush(c) /\ ~Close(c)  BY <1>1, <1>2 DEF SendPush, Close, Goto
<1>4. Open(c)'  BY <1>3, OwnKeeps DEF Open, SocketOpen
<1>5. Serves(up', pc'[c], Open(c)') = "leaving"  BY <1>2, <1>4 DEF Serves
<1>6. ClientUp(c)' = ClientUp(c)  BY <1>3, OwnKeeps
<1> QED  BY <1>2, <1>5, <1>6, ServerIsNext, ViewIs, ViewIsNext DEF Over, Known

(* The thread leaves a client that is gone or that it refuses.             *)
LEMMA DepartureMaps ==
  ASSUME TypeInv, OwnInv, NamesInv, ServingInv, TypeInv', OwnInv', [Next]_vars, up, up',
         NEW c \in Conns, Disconnect(c) \/ RefuseUnregistered(c) \/ RefuseEmptyName(c)
  PROVE  ConnStep(c)
<1>1. HandlerStep(c) /\ LeaveSlot(c) /\ pc[c] \in {"waiting", "received", "connect"}
  BY DEF HandlerStep, Disconnect, RefuseUnregistered, RefuseEmptyName
<1>2. InSession(c)  BY <1>1 DEF InSession
<1>3. /\ ServerOf(c)' = "leaving" /\ ToServer(c)' = <<>> /\ ItemsLeft(c)' = 0
      /\ UNCHANGED <<ClientUp(c), FromServer(c), Known(c)>>
  BY <1>1, <1>2, LeavingMaps
<1>4. CASE Disconnect(c)
  <2>1. pc[c] = "waiting" /\ inbox[c] = <<>> /\ peer[c] \in {"closed", "reset"}
    BY <1>4 DEF Disconnect
  <2>2. Serves(up, pc[c], Open(c)) = "idle" /\ Pending(pc[c], msg_received[c]) = <<>>
    BY <2>1 DEF Serves, Answering, Pending
  <2>3. Coming(<<>>) = <<>> /\ <<>> \o <<>> = <<>>
    <3>1. <<>> \in Seq(Message) /\ Len(<<>>) = 0  BY EmptySeq
    <3>2. Coming(<<>>) \in Seq(SentTypes) /\ Len(Coming(<<>>)) = 0  BY <3>1, ComingType
    <3>3. Coming(<<>>) = <<>>  BY <3>2, EmptySeq
    <3> QED  BY <3>1, <3>3, ConcatEmptySeq
  <2>4. ServerOf(c) = "idle" /\ ToServer(c) = <<>> /\ ItemsLeft(c) = 0
    BY <2>1, <2>2, <2>3, ServerIs, ViewIs DEF Over
  <2>5. ~ClientUp(c)  BY <2>1 DEF ClientUp
  <2> QED  BY <1>3, <2>4, <2>5, LeavesMaps
<1>5. CASE RefuseUnregistered(c)
  <2>1. pc[c] = "received" /\ ~Registered(c) /\ msg_received[c].type # "CONNECT"
    BY <1>5 DEF RefuseUnregistered
  <2>2. ~Known(c) /\ TypeSent(msg_received[c]) # "CONNECT"
    BY <1>2, <2>1, RegisteredIsKnown DEF TypeSent
  <2>3. /\ ServerOf(c) = "idle" /\ ItemsLeft(c) = 0
        /\ TypeSent(msg_received[c]) \in SentTypes /\ Coming(inbox[c]) \in Seq(SentTypes)
        /\ ToServer(c) = <<TypeSent(msg_received[c])>> \o Coming(inbox[c])
    BY <2>1, FirstOf
  <2> QED  BY <1>3, <2>2, <2>3, RefusesMaps
<1>6. CASE RefuseEmptyName(c)
  <2>1. pc[c] = "connect" /\ msg_received[c].username = Empty
    BY <1>6 DEF RefuseEmptyName
  <2>2. TypeSent(msg_received[c]) = "NAMELESS"  BY <2>1 DEF ServingInv, TypeSent
  <2>3. /\ ServerOf(c) = "idle" /\ ItemsLeft(c) = 0
        /\ TypeSent(msg_received[c]) \in SentTypes /\ Coming(inbox[c]) \in Seq(SentTypes)
        /\ ToServer(c) = <<TypeSent(msg_received[c])>> \o Coming(inbox[c])
    BY <2>1, FirstOf
  <2> QED  BY <1>3, <2>2, <2>3, RefusesMaps
<1> QED  BY <1>4, <1>5, <1>6

(* A CONNECT with a name is taken, and the client is known from then on.   *)
LEMMA RegisterMaps ==
  ASSUME TypeInv, OwnInv, NamesInv, ServingInv, TypeInv', OwnInv', [Next]_vars, up, up',
         NEW c \in Conns, Register(c)
  PROVE  ConnStep(c)
<1>1. /\ pc \in [Conns -> Places] /\ name \in [Conns -> String]
      /\ msg_received[c] \in Message /\ inbox[c] \in Seq(Message)
  BY DEF TypeInv, TypeOK, ThreadsTypeOK, ClientsTypeOK
<1>2. /\ pc[c] = "connect" /\ pc'[c] = "waiting" /\ inbox' = inbox
      /\ msg_received[c].username # Empty
  BY <1>1 DEF Register, Goto, peerVars
<1>3. HandlerStep(c) /\ ~SendPush(c) /\ ~SendFeedItem(c) /\ ~SendEnd(c)
  BY <1>2 DEF HandlerStep, SendPush, SendFeedItem, SendEnd
<1>4. rcvd'[c] = rcvd[c] /\ ClientUp(c)' = ClientUp(c)  BY <1>3, OwnKeeps
<1>5. Known(c)'
  <2>1. Mine(c).active  BY <1>2 DEF OwnInv, SlotOwnership, InSession
  <2>2. Stored[msg_received[c].username] # Empty
    <3>1. msg_received[c].username \in String  BY <1>1 DEF Message
    <3> QED  BY <1>2, <3>1, StoredType
  <2>3. name'[c] # Empty  BY <1>1, <2>1, <2>2 DEF Register
  <2> QED  BY <2>3 DEF Known
<1>6. TypeSent(msg_received[c]) = "CONNECT"  BY <1>2 DEF ServingInv, TypeSent
<1>7. Serves(up', pc'[c], Open(c)') = "idle" /\ Pending(pc'[c], msg_received'[c]) = <<>>
  BY <1>2 DEF Serves, Answering, Pending
<1>8. Coming(inbox[c]) \in Seq(SentTypes) /\ <<>> \o Coming(inbox[c]) = Coming(inbox[c])
  BY <1>1, ComingType, ConcatEmptySeq
<1>9. /\ ServerOf(c)' = "idle" /\ ItemsLeft(c)' = 0 /\ ToServer(c)' = Coming(inbox[c])
      /\ FromServer(c)' = FromServer(c)
  BY <1>2, <1>4, <1>7, <1>8, ServerIsNext, ViewIs, ViewIsNext DEF Over
<1> QED  BY <1>2, <1>4, <1>5, <1>6, <1>9, FirstOf, TakesMaps

(* A READ is taken, and its answer is settled.                             *)
LEMMA GetFeedMessagesMaps ==
  ASSUME TypeInv, OwnInv, NamesInv, ServingInv, TypeInv', OwnInv', [Next]_vars, up, up',
         NEW c \in Conns, GetFeedMessages(c)
  PROVE  ConnStep(c)
<1>1. /\ pc \in [Conns -> Places] /\ feed_to_send \in [Conns -> Seq(Post)]
      /\ next_item \in [Conns -> Nat \ {0}] /\ feed_messages \in [Indices -> Post]
      /\ msg_received[c] \in Message /\ inbox[c] \in Seq(Message)
  BY DEF TypeInv, TypeOK, ThreadsTypeOK, ClientsTypeOK, ReadsTypeOK, FeedTypeOK
<1>2. /\ pc[c] = "read" /\ pc'[c] = "read_lock" /\ inbox' = inbox /\ name' = name
      /\ feed_to_send'[c] = FeedItems(feed_messages) /\ next_item'[c] = 1
  BY <1>1 DEF GetFeedMessages, Goto, peerVars
<1>3. HandlerStep(c) /\ ~SendPush(c) /\ ~SendFeedItem(c) /\ ~SendEnd(c)
  BY <1>2 DEF HandlerStep, SendPush, SendFeedItem, SendEnd
<1>4. rcvd'[c] = rcvd[c] /\ ClientUp(c)' = ClientUp(c)  BY <1>3, OwnKeeps
<1>5. Known(c) /\ Known(c)'  BY <1>2 DEF NamesInv, ActingNames, Acting, Known
<1>6. TypeSent(msg_received[c]) = "READ"  BY <1>2 DEF ServingInv, TypeSent
<1>7. Serves(up', pc'[c], Open(c)') = "answering" /\ Pending(pc'[c], msg_received'[c]) = <<>>
  BY <1>2 DEF Serves, Answering, Pending
<1>8. Coming(inbox[c]) \in Seq(SentTypes) /\ <<>> \o Coming(inbox[c]) = Coming(inbox[c])
  BY <1>1, ComingType, ConcatEmptySeq
<1>9. /\ ServerOf(c)' = "answering" /\ ToServer(c)' = Coming(inbox[c])
      /\ ItemsLeft(c)' = Len(FeedItems(feed_messages)) + 1 - 1
      /\ FromServer(c)' = FromServer(c)
  BY <1>2, <1>4, <1>7, <1>8, ServerIsNext, ViewIs, ViewIsNext DEF Over
<1>10. Len(FeedItems(feed_messages)) \in 0 .. FeedMaxSize  BY <1>1, FeedItemsFit
<1>11. ItemsLeft(c)' \in 0 .. FeedMaxSize  BY <1>9, <1>10
<1> QED  BY <1>2, <1>4, <1>5, <1>6, <1>9, <1>11, FirstOf, TakesMaps

(* The wait for the mutex of the slot is not seen.                         *)
LEMMA LockForFeedMaps ==
  ASSUME TypeInv, OwnInv, TypeInv', OwnInv', [Next]_vars, up, up', NEW c \in Conns,
         LockForFeed(c)
  PROVE  ConnStep(c)
<1>1. pc \in [Conns -> Places]  BY DEF TypeInv, TypeOK, ThreadsTypeOK
<1>2. /\ pc[c] = "read_lock" /\ pc'[c] = "send_feed" /\ inbox' = inbox /\ name' = name
      /\ feed_to_send' = feed_to_send /\ next_item' = next_item
  BY <1>1 DEF LockForFeed, Goto, peerVars, readVars
<1>3. HandlerStep(c) /\ ~SendPush(c) /\ ~SendFeedItem(c) /\ ~SendEnd(c)
  BY <1>2 DEF HandlerStep, SendPush, SendFeedItem, SendEnd
<1>4. rcvd'[c] = rcvd[c] /\ ClientUp(c)' = ClientUp(c)  BY <1>3, OwnKeeps
<1>5. /\ Serves(up', pc'[c], Open(c)') = Serves(up, pc[c], Open(c))
      /\ Pending(pc'[c], msg_received'[c]) = Pending(pc[c], msg_received[c])
  BY <1>2 DEF Serves, Answering, Pending
<1> QED  BY <1>2, <1>4, <1>5, QuietMaps

(* The thread closes the socket, unless a push still holds it open.        *)
LEMMA CloseMaps ==
  ASSUME TypeInv, OwnInv, TypeInv', OwnInv', [Next]_vars, up, up', NEW c \in Conns, Close(c)
  PROVE  ConnStep(c)
<1>1. pc \in [Conns -> Places]  BY DEF TypeInv, TypeOK, ThreadsTypeOK
<1>2. pc[c] = "close" /\ pc'[c] = "done" /\ name' = name
  BY <1>1 DEF Close, Goto
<1>3. HandlerStep(c) /\ ~SendPush(c) /\ ~SendFeedItem(c) /\ ~SendEnd(c)
  BY <1>2 DEF HandlerStep, SendPush, SendFeedItem, SendEnd
<1>4. rcvd'[c] = rcvd[c] /\ ClientUp(c)' = ClientUp(c)  BY <1>3, OwnKeeps
<1>5. Open(c)
  BY <1>2, ServerAssumption DEF OwnInv, ClosingHolds, OpenAt, Open, SocketOpen
<1>6. CASE Open(c)'
  <2>1. /\ Serves(up', pc'[c], Open(c)') = "leaving" /\ Serves(up, pc[c], Open(c)) = "leaving"
    BY <1>2, <1>5, <1>6 DEF Serves
  <2> QED  BY <1>2, <1>4, <2>1, QuietMaps DEF Over
<1>7. CASE ~Open(c)'  BY <1>2, <1>4, <1>5, <1>7, ShutMaps
<1> QED  BY <1>6, <1>7

(* The thread of c sends an item of an answer, or its end.                 *)
LEMMA AnswerDelivered ==
  ASSUME TypeInv, OwnInv, TypeInv', OwnInv', [Next]_vars, NEW c \in Conns,
         SendFeedItem(c) \/ SendEnd(c), ~SendPush(c)
  PROVE  /\ SendFeedItem(c) => Delivered(c, [type |-> "PUSH", live |-> FALSE])
         /\ SendEnd(c) => Delivered(c, [type |-> "END", live |-> FALSE])
<1>1. /\ peer \in [Conns -> {"new", "reading", "stalled", "closed", "reset"}]
      /\ rcvd \in [Conns -> Seq(Item)]
      /\ OpenAt(Mine(c).client_fd) = c /\ peer[c] # "new"
  BY DEF TypeInv, TypeOK, ClientsTypeOK, OwnInv, SlotOwnership, NewIsUnknown, FdOf,
         SendFeedItem, SendEnd, InSession
<1> DEFINE feed == [kind |-> "feed", msg_id |-> feed_to_send[c][next_item[c]].msg_id,
                    by |-> c, to |-> c]
           end == [kind |-> "end", msg_id |-> 0, by |-> c, to |-> c]
<1>2. CASE peer[c] = "reading"
  <2>1. SendFeedItem(c) => rcvd'[c] = Append(rcvd[c], feed)
    BY <1>1, <1>2 DEF SendFeedItem, Send
  <2>2. SendEnd(c) => rcvd'[c] = Append(rcvd[c], end)
    BY <1>1, <1>2 DEF SendEnd, Send
  <2>3. SendEnd(c) => end \in Item  BY IdAssumption DEF Item
  <2>4. SendFeedItem(c) => feed \in Item
    <3>1. SUFFICES ASSUME SendFeedItem(c) PROVE feed \in Item  OBVIOUS
    <3>2. feed_to_send[c] \in Seq(Post) /\ next_item[c] \in 1 .. Len(feed_to_send[c])
      BY <3>1, LenProperties DEF SendFeedItem, TypeInv, TypeOK, ReadsTypeOK
    <3>3. feed_to_send[c][next_item[c]] \in Post  BY <3>2, ElementOfSeq
    <3> QED  BY <3>3 DEF Item, Post
  <2>5. /\ ItemOf(feed) = [type |-> "PUSH", live |-> FALSE]
        /\ ItemOf(end) = [type |-> "END", live |-> FALSE]
    <3>1. (feed.kind = "push") = FALSE /\ (end.kind = "push") = FALSE
          /\ feed.kind # "end" /\ end.kind = "end"
      OBVIOUS
    <3> HIDE DEF feed, end
    <3> QED  BY <3>1 DEF ItemOf
  <2> HIDE DEF feed, end
  <2> QED  BY <1>2, <2>1, <2>2, <2>3, <2>4, <2>5, ItemDelivered
<1>3. CASE peer[c] # "reading"
  <2>1. peer[c] # "stalled" /\ rcvd' = rcvd  BY <1>1, <1>3 DEF SendFeedItem, SendEnd, Send
  <2>2. ~ClientUp(c) /\ FromServer(c)' = FromServer(c)
    BY <1>1, <1>3, <2>1, ViewIs, ViewIsNext DEF ClientUp
  <2> QED  BY <2>2 DEF Delivered
<1> QED  BY <1>2, <1>3

(* The items of an answer, and its end.                                    *)
LEMMA AnswerMaps ==
  ASSUME TypeInv, OwnInv, ServingInv, TypeInv', OwnInv', [Next]_vars, up, up',
         NEW c \in Conns, SendFeedItem(c) \/ SendEnd(c)
  PROVE  ConnStep(c)
<1>1. /\ pc \in [Conns -> Places] /\ next_item \in [Conns -> Nat \ {0}]
      /\ feed_to_send[c] \in Seq(Post) /\ inbox[c] \in Seq(Message)
  BY DEF TypeInv, TypeOK, ThreadsTypeOK, ReadsTypeOK, ClientsTypeOK
<1>2. pc[c] = "send_feed" /\ inbox' = inbox /\ name' = name
  BY DEF SendFeedItem, SendEnd, Send
<1>3. HandlerStep(c) /\ ~SendPush(c) /\ ~Close(c)
  BY <1>2 DEF HandlerStep, SendPush, Close
<1>4. ClientUp(c)' = ClientUp(c) /\ Open(c)' = Open(c)  BY <1>3, OwnKeeps
<1>5. Known(c)' = Known(c)  BY <1>2 DEF Known
<1>6. next_item[c] \in Nat /\ Len(feed_to_send[c]) \in Nat
      /\ next_item[c] <= Len(feed_to_send[c]) + 1
  BY <1>1, <1>2, LenProperties DEF ServingInv, Answering
<1>7. Serves(up, pc[c], Open(c)) = "answering" /\ Pending(pc[c], msg_received[c]) = <<>>
  BY <1>2 DEF Serves, Answering, Pending
<1>8. /\ ServerOf(c) = "answering" /\ ItemsLeft(c) = Len(feed_to_send[c]) + 1 - next_item[c]
      /\ ToServer(c) = <<>> \o Coming(inbox[c])
  BY <1>7, ServerIs, ViewIs DEF Over
<1>9. CASE SendFeedItem(c)
  <2>1. /\ pc'[c] = "send_feed" /\ next_item'[c] = next_item[c] + 1
        /\ feed_to_send'[c] = feed_to_send[c] /\ next_item[c] <= Len(feed_to_send[c])
    BY <1>1, <1>9 DEF SendFeedItem
  <2>2. Serves(up', pc'[c], Open(c)') = "answering" /\ Pending(pc'[c], msg_received'[c]) = <<>>
    BY <2>1 DEF Serves, Answering, Pending
  <2>3. /\ ServerOf(c)' = "answering" /\ ToServer(c)' = ToServer(c)
        /\ ItemsLeft(c)' = Len(feed_to_send[c]) + 1 - (next_item[c] + 1)
    BY <1>2, <1>8, <2>1, <2>2, ServerIsNext, ViewIsNext DEF Over
  <2>4. ItemsLeft(c) > 0 /\ ItemsLeft(c)' = ItemsLeft(c) - 1  BY <1>6, <1>8, <2>1, <2>3
  <2>5. Delivered(c, [type |-> "PUSH", live |-> FALSE])  BY <1>3, <1>9, AnswerDelivered
  <2> QED  BY <1>4, <1>5, <1>8, <2>3, <2>4, <2>5, SendsItemMaps
<1>10. CASE SendEnd(c)
  <2>1. pc'[c] = "read_unlock" /\ next_item[c] > Len(feed_to_send[c])
    BY <1>1, <1>10 DEF SendEnd, Goto
  <2>2. Serves(up', pc'[c], Open(c)') = "idle" /\ Pending(pc'[c], msg_received'[c]) = <<>>
    BY <2>1 DEF Serves, Answering, Pending
  <2>3. ServerOf(c)' = "idle" /\ ToServer(c)' = ToServer(c) /\ ItemsLeft(c)' = 0
    BY <1>2, <1>8, <2>2, ServerIsNext, ViewIsNext DEF Over
  <2>4. ItemsLeft(c) = 0  BY <1>6, <1>8, <2>1
  <2>5. Delivered(c, [type |-> "END", live |-> FALSE])  BY <1>3, <1>10, AnswerDelivered
  <2> QED  BY <1>4, <1>5, <1>8, <2>3, <2>4, <2>5, SendsEndMaps
<1> QED  BY <1>9, <1>10

(* Every other step of the thread of c.                                    *)
LEMMA OwnMaps ==
  ASSUME TypeInv, OwnInv, NamesInv, ServingInv, TypeInv', OwnInv', [Next]_vars, up, up',
         NEW c \in Conns, HandlerStep(c), ~SendPush(c)
  PROVE  ConnStep(c)
<1>1. pc \in [Conns -> Places]  BY DEF TypeInv, TypeOK, ThreadsTypeOK
<1>2. CASE ReceiveMessage(c) \/ Dispatch(c)  BY <1>2, ReceiveMessageMaps, DispatchMaps
<1>3. CASE Disconnect(c) \/ RefuseUnregistered(c) \/ RefuseEmptyName(c)
  BY <1>3, DepartureMaps
<1>4. CASE Register(c) \/ Close(c)  BY <1>4, RegisterMaps, CloseMaps
<1>5. CASE GetFeedMessages(c) \/ LockForFeed(c)  BY <1>5, GetFeedMessagesMaps, LockForFeedMaps
<1>6. CASE SendFeedItem(c) \/ SendEnd(c)  BY <1>6, AnswerMaps
<1>7. CASE Start(c)
  <2>1. pc[c] = "start" /\ Mine(c).active
    BY <1>7 DEF Start, OwnInv, SlotOwnership, InSession
  <2>2. pc'[c] = "waiting"  BY <1>1, <1>7, <2>1 DEF Start, Goto
  <2> QED  BY <2>1, <2>2, AsideMaps DEF Aside
<1>8. CASE Follow(c) \/ AssignId(c) \/ AddToFeed(c) \/ CollectFollowers(c) \/ CollectSlots(c)
  <2>1. pc[c] \in Aside /\ pc'[c] \in Aside
    BY <1>1, <1>8 DEF Follow, AssignId, AddToFeed, CollectFollowers, CollectSlots, Goto, Aside
  <2> QED  BY <2>1, AsideMaps
<1>9. CASE LockForPush(c) \/ CheckSlot(c) \/ ReadFd(c) \/ EnterSend(c)
  <2>1. pc[c] \in Aside /\ pc'[c] \in Aside
    BY <1>1, <1>9 DEF LockForPush, CheckSlot, ReadFd, EnterSend, Goto, Aside
  <2> QED  BY <2>1, AsideMaps
<1>10. CASE UnlockPush(c) \/ NextFollower(c) \/ FinishPost(c) \/ UnlockFeed(c)
  <2>1. pc[c] \in Aside /\ pc'[c] \in Aside
    BY <1>1, <1>10 DEF UnlockPush, NextFollower, FinishPost, UnlockFeed, Goto, Aside
  <2> QED  BY <2>1, AsideMaps
<1> QED  BY <1>2, <1>3, <1>4, <1>5, <1>6, <1>7, <1>8, <1>9, <1>10 DEF HandlerStep

(* The invariant under which the steps map: the types, who owns what, the  *)
(* names of slots and messages, and what is being served.                  *)
ConnInv == TypeInv /\ OwnInv /\ NamesInv /\ ServingInv

LEMMA ConnInvInit == Init => ConnInv
BY TypeInvInit, OwnInit, NamesInit, ServingInit DEF ConnInv

LEMMA ConnInvNext == ConnInv /\ [Next]_vars => ConnInv'
BY TypeInvNext, OwnNext, NamesNext, ServingNext DEF ConnInv

(* Each step of the server is, to each connection, one that Connection     *)
(* allows or nothing.                                                      *)
LEMMA ConnectionMapsNext ==
  ASSUME ConnInv, [Next]_vars, NEW c \in Conns
  PROVE  ConnStep(c)
<1>1. TypeInv /\ OwnInv /\ NamesInv /\ ServingInv /\ TypeInv' /\ OwnInv'
  BY ConnInvNext DEF ConnInv
<1>2. CASE UNCHANGED vars
  <2>1. UNCHANGED <<peer, inbox, rcvd, fdTable, up, pc, target, msg_received, name,
                    feed_to_send, next_item>>
    BY <1>2 DEF vars, peerVars, kernelVars, threadVars, postVars, readVars
  <2>2. Open(c)' = Open(c) /\ ClientUp(c)' = ClientUp(c)
    BY <2>1 DEF Open, SocketOpen, ClientUp
  <2> QED  BY <1>1, <2>1, <2>2, UntouchedMaps
<1>3. CASE Next /\ ~up'  BY <1>1, <1>3, SignalMaps DEF Next
<1>4. CASE Next /\ up'
  <2>1. up  BY <1>4 DEF Next
  <2>2. CASE MainStep  BY <1>1, <2>1, <2>2, MainMaps
  <2>3. ASSUME NEW d \in Conns, Leave(d) \/ StallOrResume(d) PROVE ConnStep(c)
    BY <1>1, <2>1, <2>3, PeersMap
  <2>4. ASSUME NEW d \in Conns, HandlerStep(d) PROVE ConnStep(c)
    <3>1. CASE SendPush(d)  BY <1>1, <1>4, <2>1, <3>1, PushMaps
    <3>2. CASE ~SendPush(d) /\ c = d  BY <1>1, <1>4, <2>1, <2>4, <3>2, OwnMaps
    <3>3. CASE ~SendPush(d) /\ c # d  BY <1>1, <1>4, <2>1, <2>4, <3>3, OthersMap
    <3> QED  BY <3>1, <3>2, <3>3
  <2> QED  BY <1>4, <2>2, <2>3, <2>4 DEF Next
<1> QED  BY <1>2, <1>3, <1>4

(* Each connection begins in the backlog, with all it sends still to come. *)
LEMMA ConnectionMapsInit ==
  ASSUME Init, NEW c \in Conns
  PROVE  ConnectionOf(c)!ConnInit
<1>1. TypeInv /\ OwnInv /\ inbox[c] \in Seq(Message)
  BY TypeInvInit, OwnInit DEF TypeInv, TypeOK, ClientsTypeOK
<1>2. up /\ pc[c] = "none" /\ peer[c] = "new" /\ rcvd[c] = <<>> /\ name[c] = Empty
  BY DEF Init
<1>3. Serves(up, pc[c], Open(c)) = "backlog" /\ Pending(pc[c], msg_received[c]) = <<>>
  BY <1>2 DEF Serves, Pending, Open
<1>4. Coming(inbox[c]) \in Seq(SentTypes) /\ <<>> \o Coming(inbox[c]) = Coming(inbox[c])
  BY <1>1, ComingType, ConcatEmptySeq
<1>5. ServerOf(c) = "backlog" /\ ToServer(c) \in Seq(SentTypes) /\ ItemsLeft(c) = 0
  BY <1>1, <1>3, <1>4, ServerIs, ViewIs DEF Over
<1>6. FromServer(c) = <<>>
  <2>1. FromServer(c) = Got(<<>>)  BY <1>1, <1>2, ViewIs
  <2>2. DOMAIN <<>> = {}  OBVIOUS
  <2>3. Got(<<>>) = <<>>
    <3>1. Got(<<>>) \in Seq({}) /\ Len(Got(<<>>)) = 0  BY <2>2, EmptySeq DEF Got
    <3> QED  BY <3>1, EmptySeq
  <2> QED  BY <2>1, <2>3
<1>7. ClientUp(c) = TRUE /\ Known(c) = FALSE  BY <1>2 DEF ClientUp, Known
<1> QED  BY <1>5, <1>6, <1>7
         DEF ConnectionOf!ConnInit, ConnectionOf!Sent, SentTypes, ClientUp, ToServer,
             FromServer, ItemOf, Known, ItemsLeft

(* To each of its connections, however slots, descriptors and mutexes are  *)
(* reused, the server keeps what Connection says: requests in order,       *)
(* answers to their end, and only those left who are gone or refused       *)
(* (handleClientConnection).                                               *)
THEOREM ConnectionsAreServed == Spec => ImplementsConnection
<1>1. Init => \A c \in Conns : ConnectionOf(c)!ConnInit  BY ConnectionMapsInit
<1>2. ConnInv /\ [Next]_vars =>
        [\A c \in Conns : ConnectionOf(c)!ConnNext \/ UNCHANGED ConnectionOf(c)!connVars]_vars
  BY ConnectionMapsNext DEF ConnStep
<1> QED  BY ConnInvInit, ConnInvNext, <1>1, <1>2, PTL DEF Spec, ImplementsConnection
=============================================================================

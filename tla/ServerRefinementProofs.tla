----------------------- MODULE ServerRefinementProofs -----------------------
(***************************************************************************)
(* What Server implements, for any number of connections and posts: the    *)
(* ids that the counter gives out, the order in which a client is sent the *)
(* posts of one connection, and the posts and reads of Feed.               *)
(***************************************************************************)
EXTENDS ServerSendProofs

-----------------------------------------------------------------------------
(* The ids.                                                                *)

(* The threads between the two critical sections of a POST, and the ids    *)
(* that have been given out: to posts in the log and to theirs.            *)
Numbering == {c \in Conns : pc[c] = "add"}

Issued == Len(log) + Cardinality(Numbering)

(* The POSTs that have yet to get an id: the thread has the message, or it *)
(* is in the k-th place of what the client has sent.                       *)
InHand(c) ==
  pc[c] = "post" \/ (pc[c] = "received" /\ msg_received[c].type = "POST")

Ahead(c, k) ==
  IF k = 0 THEN InHand(c) ELSE k \in DOMAIN inbox[c] /\ inbox[c][k].type = "POST"

Remaining == {x \in Conns \X Nat : Ahead(x[1], x[2])}

BudgetInv ==
  /\ IsFiniteSet(Numbering) /\ IsFiniteSet(Remaining)
  /\ Issued + Cardinality(Remaining) <= MaxPosts

LEMMA BudgetInit == Init => BudgetInv
<1> SUFFICES ASSUME Init PROVE BudgetInv  OBVIOUS
<1>1. Numbering = {} /\ Len(log) = 0  BY DEF Init, Numbering
<1>2. inbox \in Scripts /\ inbox \in [Conns -> Seq(Message)]
  BY ScriptsAssumption DEF Init
<1>3. Remaining \in SUBSET PostsIn(inbox)
  <2> SUFFICES ASSUME NEW x \in Remaining PROVE x \in PostsIn(inbox)  OBVIOUS
  <2>1. PICK c \in Conns, k \in Nat : x = <<c, k>> /\ Ahead(c, k)  BY DEF Remaining
  <2>2. k \in DOMAIN inbox[c] /\ inbox[c][k].type = "POST"
    BY <2>1 DEF Ahead, InHand, Init
  <2> QED  BY <2>1, <2>2 DEF PostsIn
<1>4. /\ IsFiniteSet(Remaining) /\ Cardinality(Remaining) <= Cardinality(PostsIn(inbox))
      /\ IsFiniteSet(PostsIn(inbox)) /\ Cardinality(PostsIn(inbox)) <= MaxPosts
  BY <1>2, <1>3, PostsAssumption, FS_Subset
<1>5. Cardinality(Numbering) = 0 /\ IsFiniteSet(Numbering)  BY <1>1, FS_EmptySet
<1>6. Cardinality(Remaining) \in Nat /\ Cardinality(PostsIn(inbox)) \in Nat /\ MaxPosts \in Nat
  BY <1>4, FS_CardinalityType, ServerAssumption
<1>7. Issued = 0  BY <1>1, <1>5 DEF Issued
<1> QED  BY <1>4, <1>5, <1>6, <1>7 DEF BudgetInv

(* A thread gets to the second critical section of a POST by the first,    *)
(* and leaves it by the second.                                            *)
LEMMA NumberedStays ==
  ASSUME TypeInv, OwnInv, [Next]_vars, NEW c \in Conns, ~AssignId(c), ~AddToFeed(c)
  PROVE  pc'[c] = "add" <=> pc[c] = "add"
<1>1. CASE HandlerStep(c)
  <2>1. pc'[c] # "add"  BY <1>1, PlacesEntered
  <2>2. pc[c] # "add"
    BY <1>1 DEF HandlerStep, Start, ReceiveMessage, Disconnect, Close,
       RefuseUnregistered, Dispatch, RefuseEmptyName, Register, Follow,
       CollectFollowers, CollectSlots, LockForPush, CheckSlot, ReadFd,
       EnterSend, SendPush, UnlockPush, NextFollower, FinishPost, GetFeedMessages,
       LockForFeed, SendFeedItem, SendEnd, UnlockFeed
  <2> QED  BY <2>1, <2>2
<1> QED  BY <1>1, StepOf

(* What the steps of a POST do to the ids given out.                       *)
LEMMA IssuedNext ==
  ASSUME TypeInv, OwnInv, [Next]_vars, IsFiniteSet(Numbering)
  PROVE  /\ IsFiniteSet(Numbering)' /\ Issued \in Nat
         /\ \/ \E c \in Conns : AssignId(c) /\ Issued' = Issued + 1
            \/ Issued' = Issued /\ ~(\E c \in Conns : AssignId(c))
<1>1. pc \in [Conns -> Places] /\ log \in Seq([post : Post, by : Conns])
  BY DEF TypeInv, TypeOK, ThreadsTypeOK, FeedTypeOK
<1>2. Cardinality(Numbering) \in Nat /\ Len(log) \in Nat
  BY <1>1, FS_CardinalityType, LenProperties
<1>3. Issued \in Nat  BY <1>2 DEF Issued
<1>4. ASSUME NEW c \in Conns, AssignId(c)
      PROVE  IsFiniteSet(Numbering') /\ Issued' = Issued + 1
  <2>1. Numbering' = Numbering \cup {c} /\ c \notin Numbering /\ log' = log
    BY <1>1, <1>4 DEF AssignId, Goto, Numbering
  <2>2. IsFiniteSet(Numbering \cup {c})
        /\ Cardinality(Numbering \cup {c}) = Cardinality(Numbering) + 1
    BY <2>1, FS_AddElement
  <2> QED  BY <1>2, <2>1, <2>2 DEF Issued
<1>5. ASSUME NEW c \in Conns, AddToFeed(c)
      PROVE  IsFiniteSet(Numbering') /\ Issued' = Issued
  <2>1. Numbering' = Numbering \ {c} /\ c \in Numbering
    BY <1>1, <1>5 DEF AddToFeed, Goto, Numbering
  <2>2. IsFiniteSet(Numbering \ {c})
        /\ Cardinality(Numbering \ {c}) = Cardinality(Numbering) - 1
    BY <2>1, FS_RemoveElement
  <2>3. Len(log') = Len(log) + 1
    <3> DEFINE entry == [post |-> PostOf(msg_received[c]), by |-> c]
    <3>1. entry \in [post : Post, by : Conns]
      BY DEF PostOf, Post, Message, TypeInv, TypeOK, ThreadsTypeOK
    <3>2. log' = Append(log, entry)  BY <1>5 DEF AddToFeed
    <3> HIDE DEF entry
    <3> QED  BY <1>1, <3>1, <3>2, Appended
  <2> QED  BY <1>2, <2>1, <2>2, <2>3 DEF Issued
<1>6. ASSUME \A c \in Conns : ~AssignId(c) /\ ~AddToFeed(c)
      PROVE  Numbering' = Numbering /\ log' = log
  <2>1. ASSUME NEW c \in Conns PROVE pc'[c] = "add" <=> pc[c] = "add"
    BY <1>6, NumberedStays
  <2>2. log' = log
    <3>1. ASSUME NEW c \in Conns, HandlerStep(c) PROVE log' = log
      BY <1>6, <3>1, ThreadWrites
    <3>2. ASSUME NEW c \in Conns, Leave(c) \/ StallOrResume(c) PROVE log' = log
      BY <3>2, PeersWrite DEF feedVars
    <3>3. CASE MainStep  BY <3>3, MainWrites DEF feedVars
    <3>4. CASE UNCHANGED vars  BY <3>4 DEF vars, feedVars
    <3> QED  BY <3>1, <3>2, <3>3, <3>4 DEF Next
  <2> QED  BY <2>1, <2>2 DEF Numbering
<1>7. ASSUME NEW c \in Conns, NEW d \in Conns, AddToFeed(c) PROVE ~AssignId(d)
  <2>1. log' # log
    <3> DEFINE entry == [post |-> PostOf(msg_received[c]), by |-> c]
    <3>1. entry \in [post : Post, by : Conns]
      BY DEF PostOf, Post, Message, TypeInv, TypeOK, ThreadsTypeOK
    <3>2. log' = Append(log, entry)  BY <1>7 DEF AddToFeed
    <3> HIDE DEF entry
    <3>3. Len(log') = Len(log) + 1  BY <1>1, <3>1, <3>2, Appended
    <3> QED  BY <1>2, <3>3
  <2> QED  BY <2>1 DEF AssignId
<1>8. CASE \A c \in Conns : ~AssignId(c) /\ ~AddToFeed(c)
  BY <1>3, <1>6, <1>8 DEF Issued
<1> QED  BY <1>3, <1>4, <1>5, <1>7, <1>8

(* A POST that has yet to get an id was one before the step, in this place *)
(* or, when its thread receives a message, in the next.                    *)
LEMMA AheadBefore ==
  ASSUME TypeInv, OwnInv, [Next]_vars, NEW c \in Conns, NEW k \in Nat, Ahead(c, k)'
  PROVE  /\ ~AssignId(c) \/ k # 0
         /\ ReceiveMessage(c) => Ahead(c, k + 1)
         /\ ~ReceiveMessage(c) => Ahead(c, k)
<1>1. /\ pc \in [Conns -> Places] /\ inbox \in [Conns -> Seq(Message)]
      /\ msg_received \in [Conns -> Message]
  BY DEF TypeInv, TypeOK, ThreadsTypeOK, ClientsTypeOK
<1>2. ~AssignId(c) \/ k # 0  BY <1>1 DEF AssignId, Goto, Ahead, InHand
<1>3. CASE ReceiveMessage(c)
  <2>1. /\ inbox[c] # <<>> /\ inbox[c] \in Seq(Message)
        /\ inbox'[c] = Tail(inbox[c]) /\ msg_received'[c] = Head(inbox[c])
        /\ pc'[c] = "received"
    BY <1>1, <1>3 DEF ReceiveMessage, Goto
  <2>2. /\ DOMAIN inbox[c] = 1 .. Len(inbox[c]) /\ Len(inbox[c]) \in Nat \ {0}
        /\ Head(inbox[c]) = inbox[c][1]
        /\ DOMAIN Tail(inbox[c]) = 1 .. Len(inbox[c]) - 1
        /\ \A i \in 1 .. Len(inbox[c]) - 1 : Tail(inbox[c])[i] = inbox[c][i + 1]
    <3>1. /\ Tail(inbox[c]) \in Seq(Message)
          /\ Len(Tail(inbox[c])) = Len(inbox[c]) - 1
          /\ \A i \in 1 .. Len(Tail(inbox[c])) : Tail(inbox[c])[i] = inbox[c][i + 1]
      BY <2>1, HeadTailProperties
    <3>2. Len(inbox[c]) \in Nat \ {0}  BY <2>1, EmptySeq, LenProperties
    <3> QED  BY <2>1, <3>1, <3>2, LenProperties
  <2>3. k + 1 \in 1 .. Len(inbox[c]) /\ inbox[c][k + 1].type = "POST"
    <3>1. CASE k = 0
      <4>1. msg_received'[c].type = "POST"  BY <2>1, <3>1 DEF Ahead, InHand
      <4> QED  BY <2>1, <2>2, <3>1, <4>1
    <3>2. CASE k # 0
      <4>1. k \in 1 .. Len(inbox[c]) - 1 /\ Tail(inbox[c])[k].type = "POST"
        BY <2>1, <2>2, <3>2 DEF Ahead
      <4> QED  BY <2>2, <4>1
    <3> QED  BY <3>1, <3>2
  <2>4. Ahead(c, k + 1)  BY <2>2, <2>3 DEF Ahead
  <2> QED  BY <1>2, <1>3, <2>4
<1>4. CASE ~ReceiveMessage(c)
  <2>1. CASE k = 0
    <3>1. InHand(c)'  BY <2>1 DEF Ahead
    <3>2. CASE HandlerStep(c)
      <4>1. Dispatch(c)
        BY <1>1, <1>4, <3>1, <3>2 DEF InHand, HandlerStep, Start, Disconnect, Close, LeaveSlot,
           RefuseUnregistered, RefuseEmptyName, Register, Follow, AssignId, AddToFeed,
           CollectFollowers, CollectSlots, LockForPush, CheckSlot, ReadFd,
           EnterSend, SendPush, UnlockPush, NextFollower, FinishPost, GetFeedMessages,
           LockForFeed, SendFeedItem, SendEnd, UnlockFeed, Goto
      <4>2. msg_received[c].type = "POST" /\ pc[c] = "received"
        BY <1>1, <3>1, <4>1 DEF InHand, Dispatch, Goto, Message
      <4> QED  BY <2>1, <4>2, <1>2, <1>4 DEF Ahead, InHand
    <3>3. InHand(c)
      BY <1>4, <2>1, <3>1, <3>2, StepOf DEF InHand, Ahead
    <3> QED  BY <1>2, <1>4, <2>1, <3>3 DEF Ahead
  <2>2. CASE k # 0
    <3>1. CASE inbox'[c] = inbox[c]  BY <1>2, <1>4, <2>2, <3>1 DEF Ahead
    <3>2. ASSUME Leave(c) PROVE Ahead(c, k)
      <4>1. PICK n \in 0 .. Len(inbox[c]) : inbox'[c] = SubSeq(inbox[c], 1, n)
        BY <1>1, <3>2 DEF Leave
      <4>2. /\ DOMAIN inbox[c] = 1 .. Len(inbox[c]) /\ Len(inbox[c]) \in Nat
            /\ \A i \in 1 .. Len(inbox[c]) : inbox[c][i] \in Message
        BY <1>1, LenProperties, ElementOfSeq
      <4>3. /\ SubSeq(inbox[c], 1, n) \in Seq(Message) /\ Len(SubSeq(inbox[c], 1, n)) = n
            /\ \A i \in 1 .. n : SubSeq(inbox[c], 1, n)[i] = inbox[c][i]
        BY <1>1, <4>1, <4>2, SubSeqProperties
      <4>4. k \in 1 .. n  BY <2>2, <4>1, <4>3, LenProperties DEF Ahead
      <4> QED  BY <2>2, <4>1, <4>2, <4>3, <4>4 DEF Ahead
    <3>3. inbox'[c] = inbox[c] \/ Leave(c)
      <4>1. ASSUME NEW d \in Conns, HandlerStep(d) PROVE inbox'[c] = inbox[c]
        <5>1. CASE d = c  BY <1>4, <4>1, <5>1, ThreadWrites
        <5>2. CASE d # c  BY <4>1, <5>2, OwnLocals
        <5> QED  BY <5>1, <5>2
      <4>2. ASSUME NEW d \in Conns, Leave(d) \/ StallOrResume(d)
            PROVE  inbox'[c] = inbox[c] \/ Leave(c)
        BY <1>1, <4>2, PeersWrite DEF Leave
      <4>3. CASE UNCHANGED vars  BY <4>3 DEF vars, peerVars
      <4> QED  BY <4>1, <4>2, <4>3, MainWrites DEF Next
    <3> QED  BY <1>2, <1>4, <3>1, <3>2, <3>3
  <2> QED  BY <2>1, <2>2
<1> QED  BY <1>3, <1>4

LEMMA BudgetNext == TypeInv /\ OwnInv /\ BudgetInv /\ [Next]_vars => BudgetInv'
<1> SUFFICES ASSUME TypeInv, OwnInv, BudgetInv, [Next]_vars PROVE BudgetInv'
  OBVIOUS
<1>1. IsFiniteSet(Numbering) /\ IsFiniteSet(Remaining)  BY DEF BudgetInv
<1>2. /\ IsFiniteSet(Numbering') /\ Issued \in Nat
      /\ \/ \E c \in Conns : AssignId(c) /\ Issued' = Issued + 1
         \/ Issued' = Issued /\ ~(\E c \in Conns : AssignId(c))
  BY <1>1, IssuedNext
<1>3. Cardinality(Remaining) \in Nat  BY <1>1, FS_CardinalityType
<1>4. \A x \in Remaining' : \E c \in Conns, k \in Nat : x = <<c, k>> /\ Ahead(c, k)'
  BY DEF Remaining
<1>5. CASE \E c \in Conns : AssignId(c)
  <2>1. PICK c \in Conns : AssignId(c) /\ Issued' = Issued + 1  BY <1>2, <1>5
  <2>2. \A d \in Conns : ~ReceiveMessage(d)
    <3>1. pc \in [Conns -> Places] /\ pc' = [pc EXCEPT ![c] = "add"]
      BY <2>1 DEF AssignId, Goto, TypeInv, TypeOK, ThreadsTypeOK
    <3> QED  BY <2>1, <3>1 DEF ReceiveMessage, Goto, AssignId
  <2>3. Remaining' \in SUBSET (Remaining \ {<<c, 0>>})
    <3> SUFFICES ASSUME NEW x \in Remaining' PROVE x \in Remaining \ {<<c, 0>>}
      OBVIOUS
    <3>1. PICK d \in Conns, k \in Nat : x = <<d, k>> /\ Ahead(d, k)'  BY <1>4
    <3>2. Ahead(d, k) /\ (~AssignId(d) \/ k # 0)  BY <2>2, <3>1, AheadBefore
    <3> QED  BY <2>1, <3>1, <3>2 DEF Remaining
  <2>4. <<c, 0>> \in Remaining
    BY <2>1 DEF Remaining, Ahead, InHand, AssignId
  <2>5. /\ IsFiniteSet(Remaining \ {<<c, 0>>})
        /\ Cardinality(Remaining \ {<<c, 0>>}) = Cardinality(Remaining) - 1
    BY <1>1, <2>4, FS_RemoveElement
  <2>6. /\ IsFiniteSet(Remaining') /\ Cardinality(Remaining') \in Nat
        /\ Cardinality(Remaining') <= Cardinality(Remaining \ {<<c, 0>>})
    BY <2>3, <2>5, FS_Subset, FS_CardinalityType
  <2> QED  BY <1>2, <1>3, <2>1, <2>5, <2>6, ServerAssumption DEF BudgetInv
<1>6. CASE \E c \in Conns : ReceiveMessage(c)
  <2>1. PICK c \in Conns : ReceiveMessage(c)  BY <1>6
  <2>2. pc \in [Conns -> Places] /\ pc' = [pc EXCEPT ![c] = "received"] /\ pc[c] = "waiting"
    BY <2>1 DEF ReceiveMessage, Goto, TypeInv, TypeOK, ThreadsTypeOK
  <2>3. \A d \in Conns : ReceiveMessage(d) => d = c
    BY <2>2 DEF ReceiveMessage, Goto
  <2>4. Issued' = Issued  BY <1>2, <2>2 DEF AssignId, Goto
  <2> DEFINE before == [x \in Remaining' |-> IF x[1] = c THEN <<c, x[2] + 1>> ELSE x]
  <2>5. before \in Injection(Remaining', Remaining)
    <3>1. \A x \in Remaining' : before[x] \in Remaining
      <4> TAKE x \in Remaining'
      <4>1. PICK d \in Conns, k \in Nat : x = <<d, k>> /\ Ahead(d, k)'  BY <1>4
      <4>2. CASE d = c
        <5>1. Ahead(c, k + 1)  BY <2>1, <4>1, <4>2, AheadBefore
        <5> QED  BY <4>1, <4>2, <5>1 DEF Remaining
      <4>3. CASE d # c
        <5>1. Ahead(d, k)  BY <2>3, <4>1, <4>3, AheadBefore
        <5> QED  BY <4>1, <4>3, <5>1 DEF Remaining
      <4> QED  BY <4>2, <4>3
    <3>2. \A x, y \in Remaining' : before[x] = before[y] => x = y
      <4> TAKE x, y \in Remaining'
      <4>1. PICK d \in Conns, k \in Nat : x = <<d, k>>  BY <1>4
      <4>2. PICK e \in Conns, j \in Nat : y = <<e, j>>  BY <1>4
      <4>3. /\ before[x] = IF d = c THEN <<c, k + 1>> ELSE <<d, k>>
            /\ before[y] = IF e = c THEN <<c, j + 1>> ELSE <<e, j>>
        BY <4>1, <4>2
      <4> HIDE DEF before
      <4> QED  BY <4>1, <4>2, <4>3
    <3> QED  BY <3>1, <3>2, Fun_IsInj
  <2> HIDE DEF before
  <2>6. /\ IsFiniteSet(Remaining')
        /\ Cardinality(Remaining') <= Cardinality(Remaining)
    BY <1>1, <2>5, FS_Injection
  <2>7. Cardinality(Remaining') \in Nat  BY <2>6, FS_CardinalityType
  <2> QED  BY <1>2, <1>3, <2>4, <2>6, <2>7, ServerAssumption DEF BudgetInv
<1>7. CASE ~(\E c \in Conns : AssignId(c)) /\ ~(\E c \in Conns : ReceiveMessage(c))
  <2>1. Remaining' \in SUBSET Remaining
    <3> SUFFICES ASSUME NEW x \in Remaining' PROVE x \in Remaining  OBVIOUS
    <3>1. PICK d \in Conns, k \in Nat : x = <<d, k>> /\ Ahead(d, k)'  BY <1>4
    <3>2. Ahead(d, k)  BY <1>7, <3>1, AheadBefore
    <3> QED  BY <3>1, <3>2 DEF Remaining
  <2>2. /\ IsFiniteSet(Remaining') /\ Cardinality(Remaining') \in Nat
        /\ Cardinality(Remaining') <= Cardinality(Remaining)
    BY <1>1, <2>1, FS_Subset, FS_CardinalityType
  <2> QED  BY <1>2, <1>3, <1>7, <2>2, ServerAssumption DEF BudgetInv
<1> QED  BY <1>5, <1>6, <1>7

(* A POST that is given its id is one of those the clients may still send. *)
LEMMA RoomForPost ==
  ASSUME TypeInv, BudgetInv, NEW c \in Conns, AssignId(c)
  PROVE  Issued \in Nat /\ Issued < MaxPosts
<1>1. <<c, 0>> \in Remaining
  BY DEF Remaining, Ahead, InHand, AssignId
<1>2. Cardinality(Remaining) \in Nat /\ Cardinality(Remaining) # 0
  BY <1>1, FS_CardinalityType, FS_EmptySet DEF BudgetInv
<1>3. Issued \in Nat
  <2>1. Len(log) \in Nat  BY LenProperties DEF TypeInv, TypeOK, FeedTypeOK
  <2> QED  BY <2>1, FS_CardinalityType DEF BudgetInv, Issued
<1>4. Issued < MaxPosts  BY <1>2, <1>3, ServerAssumption DEF BudgetInv
<1> QED  BY <1>3, <1>4

(* The counter is the number of ids given out, as long as it has not       *)
(* wrapped.                                                                *)
CounterInv == msg_id_counter = Issued

LEMMA CounterInit == Init => CounterInv
<1> SUFFICES ASSUME Init PROVE CounterInv  OBVIOUS
<1>1. Numbering = {} /\ Len(log) = 0 /\ msg_id_counter = 0  BY DEF Init, Numbering
<1> QED  BY <1>1, FS_EmptySet DEF CounterInv, Issued

(* The next id is one more than any before it.                             *)
LEMMA NextIdIsNew ==
  ASSUME MaxPosts < IdModulus, TypeInv, BudgetInv, CounterInv, NEW c \in Conns, AssignId(c)
  PROVE  /\ NextId(msg_id_counter) = msg_id_counter + 1
         /\ Issued \in Nat /\ Issued < MaxPosts
<1>1. Issued \in Nat /\ Issued < MaxPosts  BY RoomForPost
<1>2. Issued + 1 \in 0 .. IdModulus - 1  BY <1>1, IdAssumption, ServerAssumption
<1>3. NextId(msg_id_counter) = (Issued + 1) % IdModulus  BY DEF NextId, CounterInv
<1>4. (Issued + 1) % IdModulus = Issued + 1  BY <1>2, IdAssumption
<1> QED  BY <1>1, <1>3, <1>4 DEF CounterInv

(* The counter goes up with each id and does not wrap, as there are fewer  *)
(* POSTs than ids.                                                         *)
LEMMA CounterNext ==
  /\ MaxPosts < IdModulus
  /\ TypeInv /\ OwnInv /\ BudgetInv /\ CounterInv /\ [Next]_vars
  => CounterInv'
<1> SUFFICES ASSUME MaxPosts < IdModulus, TypeInv, OwnInv, BudgetInv, CounterInv, [Next]_vars
             PROVE  CounterInv'
  OBVIOUS
<1>1. \/ \E c \in Conns : AssignId(c) /\ Issued' = Issued + 1
      \/ Issued' = Issued /\ ~(\E c \in Conns : AssignId(c))
  BY IssuedNext DEF BudgetInv
<1>2. ASSUME NEW c \in Conns, AssignId(c), Issued' = Issued + 1 PROVE CounterInv'
  <2>1. msg_id_counter' = NextId(msg_id_counter)  BY <1>2 DEF AssignId
  <2> QED  BY <1>2, <2>1, NextIdIsNew DEF CounterInv
<1>3. ASSUME ~(\E c \in Conns : AssignId(c)) PROVE UNCHANGED msg_id_counter
  <2>1. ASSUME NEW c \in Conns, HandlerStep(c) PROVE UNCHANGED msg_id_counter
    BY <1>3, <2>1, ThreadWrites
  <2>2. ASSUME NEW c \in Conns, Leave(c) \/ StallOrResume(c) PROVE UNCHANGED msg_id_counter
    BY <2>2, PeersWrite DEF feedVars
  <2>3. MainStep => UNCHANGED msg_id_counter  BY MainWrites DEF feedVars
  <2>4. UNCHANGED vars => UNCHANGED msg_id_counter  BY DEF vars, feedVars
  <2> QED  BY <2>1, <2>2, <2>3, <2>4 DEF Next
<1> QED  BY <1>1, <1>2, <1>3 DEF CounterInv

(* The counter only goes up.                                               *)
LEMMA CounterGrows ==
  ASSUME MaxPosts < IdModulus, TypeInv, OwnInv, BudgetInv, CounterInv, [Next]_vars
  PROVE  /\ msg_id_counter \in Nat /\ msg_id_counter' \in Nat
         /\ msg_id_counter <= msg_id_counter'
<1>1. /\ Issued \in Nat
      /\ \/ \E c \in Conns : AssignId(c) /\ Issued' = Issued + 1
         \/ Issued' = Issued /\ ~(\E c \in Conns : AssignId(c))
  BY IssuedNext DEF BudgetInv
<1>2. msg_id_counter' = Issued'  BY CounterNext DEF CounterInv
<1> QED  BY <1>1, <1>2 DEF CounterInv

-----------------------------------------------------------------------------
(* The order of pushes.                                                    *)

(* An item that the thread of c sent as a push.                            *)
PushBy(item, c) == item.kind = "push" /\ item.by = c

(* The ids of a thread's pushes are not above that of the post it is       *)
(* sending, and below that of the post it is about to enter in the feed.   *)
IdsInv ==
  \A c \in Conns :
    /\ pc[c] \in {"add"} \cup InPost => msg_received[c].msg_id <= msg_id_counter
    /\ \A d \in Conns : \A k \in DOMAIN rcvd[d] : PushBy(rcvd[d][k], c) =>
         /\ rcvd[d][k].msg_id <= msg_id_counter
         /\ pc[c] = "add" => rcvd[d][k].msg_id < msg_received[c].msg_id
         /\ pc[c] \in InPost => rcvd[d][k].msg_id <= msg_received[c].msg_id

LEMMA IdsInit == Init => IdsInv
BY DEF Init, IdsInv, InPost, AtLoop, AtSlot

(* What a step does to the post a thread has an id for.                    *)
LEMMA IdSteps ==
  ASSUME TypeInv, OwnInv, [Next]_vars, NEW c \in Conns, pc'[c] \in {"add"} \cup InPost
  PROVE  \/ /\ AssignId(c) /\ pc'[c] = "add"
            /\ msg_received'[c].msg_id = NextId(msg_id_counter)
            /\ msg_id_counter' = NextId(msg_id_counter)
         \/ /\ pc[c] \in {"add"} \cup InPost /\ msg_received'[c] = msg_received[c]
            /\ pc'[c] = "add" => pc[c] = "add"
            /\ pc[c] = "add" /\ pc'[c] # "add" => AddToFeed(c)
<1>1. pc \in [Conns -> Places] /\ msg_received \in [Conns -> Message]
  BY DEF TypeInv, TypeOK, ThreadsTypeOK
<1>2. CASE AssignId(c)  BY <1>1, <1>2 DEF AssignId, Goto, Message
<1>3. CASE AddToFeed(c)
  BY <1>1, <1>3 DEF AddToFeed, Goto, threadVars
<1>4. CASE HandlerStep(c) /\ ~AssignId(c) /\ ~AddToFeed(c)
  <2>1. pc'[c] \in InPost  BY <1>4, PlacesEntered
  <2>2. pc[c] \in InPost /\ msg_received'[c] = msg_received[c]  BY <1>4, <2>1, InPostStays
  <2> QED  BY <2>1, <2>2 DEF InPost, AtLoop, AtSlot
<1>5. CASE ~HandlerStep(c)
  BY <1>5, StepOf DEF InPost, AtLoop, AtSlot
<1> QED  BY <1>2, <1>3, <1>4, <1>5

(* A new post gets an id above all those its thread has pushed.            *)
LEMMA IdsNext ==
  /\ MaxPosts < IdModulus
  /\ TypeInv /\ OwnInv /\ BudgetInv /\ CounterInv /\ IdsInv /\ [Next]_vars
  => IdsInv'
<1> SUFFICES ASSUME MaxPosts < IdModulus, TypeInv, OwnInv, BudgetInv, CounterInv, IdsInv,
                    [Next]_vars, NEW c \in Conns
             PROVE  /\ pc'[c] \in {"add"} \cup InPost =>
                         msg_received'[c].msg_id <= msg_id_counter'
                    /\ \A d \in Conns : \A k \in DOMAIN rcvd'[d] : PushBy(rcvd'[d][k], c) =>
                         /\ rcvd'[d][k].msg_id <= msg_id_counter'
                         /\ pc'[c] = "add" => rcvd'[d][k].msg_id < msg_received'[c].msg_id
                         /\ pc'[c] \in InPost =>
                              rcvd'[d][k].msg_id <= msg_received'[c].msg_id
  BY DEF IdsInv, PushBy
<1>1. /\ rcvd \in [Conns -> Seq(Item)] /\ msg_received[c] \in Message
      /\ msg_received[c].msg_id \in Nat
      /\ \A d \in Conns : rcvd[d] \in Seq(Item)
      /\ \A item \in Item : item.msg_id \in Nat
  <2>1. /\ rcvd \in [Conns -> Seq(Item)] /\ msg_received[c] \in Message
    BY DEF TypeInv, TypeOK, ClientsTypeOK, ThreadsTypeOK
  <2>2. msg_received[c].msg_id \in Nat  BY <2>1, IdAssumption DEF Message
  <2>3. \A item \in Item : item.msg_id \in Nat  BY IdAssumption DEF Item
  <2> QED  BY <2>1, <2>2, <2>3
<1>2. /\ msg_id_counter \in Nat /\ msg_id_counter' \in Nat
      /\ msg_id_counter <= msg_id_counter'
  BY CounterGrows
<1>3. AssignId(c) => NextId(msg_id_counter) = msg_id_counter + 1  BY NextIdIsNew
<1>4. ASSUME pc'[c] \in {"add"} \cup InPost
      PROVE  msg_received'[c].msg_id <= msg_id_counter'
  <2>1. CASE /\ msg_received'[c].msg_id = NextId(msg_id_counter)
             /\ msg_id_counter' = NextId(msg_id_counter)
    BY <1>2, <2>1
  <2>2. CASE pc[c] \in {"add"} \cup InPost /\ msg_received'[c] = msg_received[c]
    <3>1. msg_received[c].msg_id <= msg_id_counter  BY <2>2 DEF IdsInv
    <3> QED  BY <1>1, <1>2, <2>2, <3>1
  <2> QED  BY <1>4, <2>1, <2>2, IdSteps
<1>5. ASSUME NEW id \in Nat, id <= msg_id_counter,
             pc[c] = "add" => id < msg_received[c].msg_id,
             pc[c] \in InPost => id <= msg_received[c].msg_id
      PROVE  /\ id <= msg_id_counter'
             /\ pc'[c] = "add" => id < msg_received'[c].msg_id
             /\ pc'[c] \in InPost => id <= msg_received'[c].msg_id
  <2>1. id <= msg_id_counter'  BY <1>2, <1>5
  <2>2. CASE AssignId(c) /\ pc'[c] = "add" /\ msg_received'[c].msg_id = NextId(msg_id_counter)
    BY <1>2, <1>3, <1>5, <2>1, <2>2 DEF InPost, AtLoop, AtSlot
  <2>3. CASE /\ pc[c] \in {"add"} \cup InPost /\ msg_received'[c] = msg_received[c]
             /\ pc'[c] = "add" => pc[c] = "add"
    <3>1. pc[c] = "add" \/ pc[c] \in InPost  BY <2>3
    <3>2. id <= msg_received[c].msg_id  BY <1>1, <1>5, <3>1
    <3> QED  BY <1>1, <1>5, <2>1, <2>3, <3>2
  <2>4. CASE pc'[c] \notin {"add"} \cup InPost  BY <2>1, <2>4
  <2> QED  BY <2>2, <2>3, <2>4, IdSteps
<1>6. ASSUME NEW d \in Conns, NEW k \in DOMAIN rcvd'[d], PushBy(rcvd'[d][k], c)
      PROVE  \/ /\ k \in DOMAIN rcvd[d] /\ rcvd'[d][k] = rcvd[d][k]
                /\ rcvd'[d][k].msg_id \in Nat
             \/ SendPush(c) /\ rcvd'[d][k] = Push(c)
  <2>1. CASE rcvd'[d] = rcvd[d]  BY <1>1, <2>1, ElementOfSeq, LenProperties
  <2>2. CASE rcvd'[d] # rcvd[d]
    <3>1. PICK new \in Item :
            /\ rcvd'[d] = Append(rcvd[d], new)
            /\ \/ \E e \in Conns : SendPush(e) /\ target[e] = d /\ new = Push(e)
               \/ new.kind # "push"
      BY <2>2, ItemsArrive
    <3>2. \/ k \in DOMAIN rcvd[d] /\ rcvd'[d][k] = rcvd[d][k] /\ k \in 1 .. Len(rcvd[d])
          \/ rcvd'[d][k] = new
      BY <1>1, <3>1, Appended
    <3> QED  BY <1>1, <1>6, <3>1, <3>2, ElementOfSeq DEF PushBy, Push
  <2> QED  BY <2>1, <2>2
<1>7. ASSUME NEW d \in Conns, NEW k \in DOMAIN rcvd'[d], PushBy(rcvd'[d][k], c)
      PROVE  /\ rcvd'[d][k].msg_id <= msg_id_counter'
             /\ pc'[c] = "add" => rcvd'[d][k].msg_id < msg_received'[c].msg_id
             /\ pc'[c] \in InPost => rcvd'[d][k].msg_id <= msg_received'[c].msg_id
  <2>1. PICK id : id = rcvd'[d][k].msg_id  OBVIOUS
  <2>2. CASE k \in DOMAIN rcvd[d] /\ rcvd'[d][k] = rcvd[d][k] /\ id \in Nat
    BY <1>5, <1>7, <2>1, <2>2 DEF IdsInv
  <2>3. CASE SendPush(c) /\ rcvd'[d][k] = Push(c)
    <3>1. id = msg_received[c].msg_id /\ pc[c] = "sending"
      BY <2>1, <2>3 DEF Push, SendPush
    <3>2. id \in Nat /\ id <= msg_id_counter
      BY <1>1, <3>1 DEF IdsInv, InPost, AtLoop, AtSlot
    <3>3. id <= msg_received[c].msg_id /\ pc[c] # "add"  BY <1>1, <3>1
    <3> QED  BY <1>5, <2>1, <3>2, <3>3
  <2> QED  BY <1>6, <1>7, <2>1, <2>2, <2>3
<1> QED  BY <1>4, <1>7

(* A name is twice in to_notify only if it is twice in the list.           *)
LEMMA FollowersOfOnce ==
  ASSUME NEW list \in Seq([follower : String, followed : String]),
         NEW user, NEW limit \in Nat,
         NEW j \in DOMAIN FollowersOf(list, user, limit),
         NEW k \in DOMAIN FollowersOf(list, user, limit),
         FollowersOf(list, user, limit)[j] = FollowersOf(list, user, limit)[k]
  PROVE  j = k \/ Twice(list, FollowersOf(list, user, limit)[j], user)
<1> DEFINE At == Ascending(Followed(list, user))
           n  == Cardinality(Followed(list, user))
<1>1. /\ DOMAIN At = 1 .. n
      /\ \A i \in 1 .. n : At[i] \in Followed(list, user)
      /\ \A i, m \in 1 .. n : At[i] = At[m] => i = m
  BY FollowedFinite, AscendingType, AscendingCollects
<1>2. FollowersOf(list, user, limit) =
        [i \in {m \in DOMAIN At : m <= limit} |-> list[At[i]].follower]
  BY DEF FollowersOf, Followed
<1> HIDE DEF At, n
<1>3. /\ j \in 1 .. n /\ k \in 1 .. n /\ list[At[j]].follower = list[At[k]].follower
      /\ FollowersOf(list, user, limit)[j] = list[At[j]].follower
  BY <1>1, <1>2
<1>4. \A i \in Followed(list, user) :
        list[i] \in [follower : String, followed : String] /\ list[i].followed = user
  BY ElementOfSeq, LenProperties DEF Followed
<1>5. /\ list[At[j]] = Pair(list[At[j]].follower, user)
      /\ list[At[k]] = Pair(list[At[j]].follower, user)
  BY <1>1, <1>3, <1>4 DEF Pair
<1>6. At[j] \in DOMAIN list /\ At[k] \in DOMAIN list  BY <1>1, <1>3 DEF Followed
<1>7. CASE At[j] = At[k]  BY <1>1, <1>3, <1>7
<1>8. CASE At[j] # At[k]  BY <1>3, <1>5, <1>6, <1>8 DEF Twice
<1> QED  BY <1>7, <1>8

(* What is twice in the list stays so.                                     *)
LEMMA TwiceStays ==
  ASSUME TypeInv, [Next]_vars, NEW a, NEW b, Twice(follow_list, a, b)
  PROVE  Twice(follow_list', a, b)
BY ListsGrow DEF Twice

(* No name is twice in a sequence, but the followers who are so in the list. *)
Distinct(names, user) ==
  \A j, k \in DOMAIN names :
    names[j] = names[k] => j = k \/ Twice(follow_list, names[j], user)

(* A thread has no other follower twice in to_notify.                      *)
NamedOnce ==
  \A c \in Conns : pc[c] \in {"notify"} \cup AtLoop => Distinct(to_notify[c], name[c])

LEMMA NamedOnceInit == Init => NamedOnce
BY DEF Init, NamedOnce, AtLoop, AtSlot

(* The names are copied from the list, and from then on only removed.      *)
LEMMA NamedOnceNext ==
  TypeInv /\ OwnInv /\ NamesInv /\ NamedOnce /\ [Next]_vars => NamedOnce'
<1> SUFFICES ASSUME TypeInv, OwnInv, NamesInv, NamedOnce, [Next]_vars,
                    NEW c \in Conns, pc'[c] \in {"notify"} \cup AtLoop,
                    NEW j \in DOMAIN to_notify'[c], NEW k \in DOMAIN to_notify'[c],
                    to_notify'[c][j] = to_notify'[c][k]
             PROVE  j = k \/ Twice(follow_list', to_notify'[c][j], name'[c])
  BY DEF NamedOnce, Distinct, Twice
<1>1. to_notify \in [Conns -> Seq(String)] /\ pc \in [Conns -> Places]
  BY DEF TypeInv, TypeOK, PostsTypeOK, ThreadsTypeOK
<1>2. CASE CollectFollowers(c)
  <2>1. to_notify'[c] = FollowersOf(follow_list, msg_received[c].username, MaxClients)
    BY <1>1, <1>2 DEF CollectFollowers
  <2>2. follow_list \in Seq([follower : String, followed : String]) /\ MaxClients \in Nat
    BY ServerAssumption DEF TypeInv, TypeOK, FollowsTypeOK
  <2>3. UNCHANGED <<follow_list, name>> /\ msg_received[c].username = name[c]
    BY <1>2 DEF CollectFollowers, NamesInv, ActingNames, Acting, InPost
  <2> QED  BY <2>1, <2>2, <2>3, FollowersOfOnce
<1>3. CASE NextFollower(c)
  <2>1. /\ to_notify'[c] = Tail(to_notify[c]) /\ to_notify[c] # <<>> /\ pc[c] = "lock"
        /\ UNCHANGED <<follow_list, name>>
    BY <1>1, <1>3 DEF NextFollower, TypeInv, PushLoop
  <2>2. /\ Tail(to_notify[c]) \in Seq(String) /\ Len(to_notify[c]) \in Nat
        /\ Len(Tail(to_notify[c])) = Len(to_notify[c]) - 1
        /\ \A i \in 1 .. Len(Tail(to_notify[c])) : Tail(to_notify[c])[i] = to_notify[c][i + 1]
        /\ DOMAIN to_notify[c] = 1 .. Len(to_notify[c])
    BY <1>1, <2>1, HeadTailProperties, LenProperties
  <2>3. j \in 1 .. Len(to_notify[c]) - 1 /\ k \in 1 .. Len(to_notify[c]) - 1
    BY <2>1, <2>2, LenProperties
  <2>4. /\ to_notify[c][j + 1] = to_notify[c][k + 1]
        /\ to_notify'[c][j] = to_notify[c][j + 1]
    BY <2>1, <2>2, <2>3
  <2>5. j + 1 \in DOMAIN to_notify[c] /\ k + 1 \in DOMAIN to_notify[c]  BY <2>2, <2>3
  <2>6. j + 1 = k + 1 \/ Twice(follow_list, to_notify[c][j + 1], name[c])
    BY <2>1, <2>4, <2>5 DEF NamedOnce, AtLoop, Distinct
  <2> QED  BY <2>1, <2>3, <2>4, <2>6
<1>4. CASE ~CollectFollowers(c) /\ ~NextFollower(c)
  <2>1. to_notify'[c] = to_notify[c]  BY <1>4, ThreadWrites, StepOf
  <2>2. pc[c] \in {"notify"} \cup AtLoop
    <3>1. CASE HandlerStep(c)
      BY <1>4, <3>1, PlacesEntered DEF AtLoop, AtSlot, CollectSlots, UnlockPush,
         LockForPush, CheckSlot, ReadFd, EnterSend, SendPush
    <3> QED  BY <3>1, StepOf DEF AtLoop, AtSlot
  <2>3. name'[c] = name[c]
    BY <2>2, NameStays DEF NamesInv, ActingNames, Acting, InPost
  <2>4. j = k \/ Twice(follow_list, to_notify[c][j], name[c])
    BY <2>1, <2>2 DEF NamedOnce, Distinct
  <2> QED  BY <2>1, <2>3, <2>4, TwiceStays
<1> QED  BY <1>2, <1>3, <1>4

-----------------------------------------------------------------------------
(* A connection that has been sent the post is not sent it again.          *)

(* It has been sent the post that the thread of c is sending now.          *)
Pushed(c, d) ==
  \E k \in DOMAIN rcvd[d] :
    PushBy(rcvd[d][k], c) /\ rcvd[d][k].to = d /\ rcvd[d][k].msg_id = msg_received[c].msg_id

(* It is neither in a slot still to be visited nor under a name still to   *)
(* be looked up, unless the follow list has it twice.                      *)
OnceInv ==
  \A c, d \in Conns : Pushed(c, d) /\ pc[c] \in InPost =>
    /\ pc[c] # "collect" /\ name[d] # Empty
    /\ Twice(follow_list, name[d], name[c]) \/ ~StillToReach(c, d)

LEMMA OnceInit == Init => OnceInv
BY DEF Init, OnceInv, InPost, AtLoop, AtSlot

(* No step puts a connection back among those still to be reached.         *)
LEMMA ReachShrinks ==
  ASSUME TypeInv, OwnInv, NamesInv, QueueInv, AimInv, [Next]_vars,
         NEW c \in Conns, NEW d \in Conns, pc[c] # "collect", name[d] # Empty,
         StillToReach(c, d)'
  PROVE  StillToReach(c, d)
<1>1. /\ to_notify \in [Conns -> Seq(String)]
      /\ pc \in [Conns -> Places] /\ slots \in [Conns -> SUBSET Slots]
  BY DEF TypeInv, TypeOK, PostsTypeOK, ThreadsTypeOK
<1>2. name'[d] = name[d]  BY NameStays DEF NamesInv
<1>3. CASE /\ pc'[c] = pc[c] /\ UNCHANGED <<to_notify[c], slots[c], aim[c]>>
  BY <1>2, <1>3 DEF StillToReach, Idx
<1>4. CASE CollectSlots(c)
  <2>1. pc[c] = "notify" /\ pc'[c] = "lock" /\ to_notify'[c] = to_notify[c] /\ to_notify[c] # <<>>
    BY <1>1, <1>4 DEF CollectSlots, Goto
  <2>2. CASE \E k \in DOMAIN to_notify'[c] : k # 1 /\ to_notify'[c][k] = name[d]
    BY <2>1, <2>2 DEF StillToReach
  <2>3. CASE \E t \in slots'[c] : aim'[c][t] = d
    <3>1. name[d] = Head(to_notify[c])  BY <1>4, <2>3, CollectAims
    <3>2. Len(to_notify[c]) \in Nat \ {0} /\ DOMAIN to_notify[c] = 1 .. Len(to_notify[c])
      BY <1>1, <2>1, EmptySeq, LenProperties
    <3>3. 1 \in DOMAIN to_notify[c] /\ to_notify[c][1] = name[d]  BY <3>1, <3>2
    <3> QED  BY <2>1, <3>3 DEF StillToReach
  <2> QED  BY <1>2, <2>1, <2>2, <2>3 DEF StillToReach
<1>5. CASE NextFollower(c)
  <2>1. /\ to_notify'[c] = Tail(to_notify[c]) /\ to_notify[c] # <<>>
        /\ pc[c] = "lock" /\ pc'[c] = "notify"
    BY <1>1, <1>5 DEF NextFollower, Goto, TypeInv, PushLoop
  <2>2. PICK k \in DOMAIN Tail(to_notify[c]) : Tail(to_notify[c])[k] = name[d]
    BY <1>2, <2>1 DEF StillToReach, AtLoop, AtSlot
  <2>3. /\ Tail(to_notify[c]) \in Seq(String) /\ Len(to_notify[c]) \in Nat
        /\ Len(Tail(to_notify[c])) = Len(to_notify[c]) - 1
        /\ \A i \in 1 .. Len(Tail(to_notify[c])) : Tail(to_notify[c])[i] = to_notify[c][i + 1]
        /\ DOMAIN to_notify[c] = 1 .. Len(to_notify[c])
    BY <1>1, <2>1, HeadTailProperties, LenProperties
  <2>4. k \in 1 .. Len(to_notify[c]) - 1  BY <2>2, <2>3, LenProperties
  <2>5. k + 1 \in DOMAIN to_notify[c] /\ k + 1 # 1 /\ to_notify[c][k + 1] = name[d]
    BY <2>2, <2>3, <2>4
  <2> QED  BY <2>1, <2>5 DEF StillToReach, AtLoop
<1>6. CASE HandlerStep(c) /\ ~CollectSlots(c) /\ ~NextFollower(c)
  <2>1. pc'[c] # "notify"
    BY <1>6, PlacesEntered DEF CollectFollowers
  <2>2. pc'[c] \in AtLoop  BY <2>1 DEF StillToReach
  <2>3. /\ pc[c] \in AtLoop /\ to_notify'[c] = to_notify[c] /\ aim'[c] = aim[c]
        /\ slots'[c] = slots[c] \/ (UnlockPush(c) /\ slots'[c] = slots[c] \ {Idx(c)})
    BY <1>6, <2>2, LoopStays
  <2>4. CASE \E k \in DOMAIN to_notify[c] : k # 1 /\ to_notify[c][k] = name[d]
    BY <2>3, <2>4 DEF StillToReach
  <2>5. ASSUME NEW t \in slots'[c], aim'[c][t] = d PROVE StillToReach(c, d)
    <3>1. t \in slots[c] /\ aim[c][t] = d  BY <2>3, <2>5
    <3>2. pc[c] = "unlock" => t # Idx(c)
      <4>1. pc[c] = "unlock" => UnlockPush(c)
        BY <1>6 DEF HandlerStep, Start, ReceiveMessage, Disconnect, Close,
         RefuseUnregistered, Dispatch, RefuseEmptyName, Register, Follow, AssignId,
         AddToFeed, CollectFollowers, CollectSlots, LockForPush, CheckSlot, ReadFd,
         EnterSend, SendPush, NextFollower, FinishPost, GetFeedMessages, LockForFeed,
         SendFeedItem, SendEnd, UnlockFeed
      <4>2. UnlockPush(c) => slots'[c] = slots[c] \ {Idx(c)}  BY <1>1 DEF UnlockPush
      <4> QED  BY <2>5, <4>1, <4>2
    <3> QED  BY <2>3, <3>1, <3>2 DEF StillToReach
  <2> QED  BY <1>2, <2>1, <2>3, <2>4, <2>5 DEF StillToReach
<1>7. CASE ~HandlerStep(c)
  <2>1. pc'[c] # "start"  BY DEF StillToReach, AtLoop, AtSlot
  <2> QED  BY <1>3, <1>7, <2>1, StepOf
<1> QED  BY <1>4, <1>5, <1>6, <1>7

(* A step that sends the post to a connection takes it from those still to *)
(* be reached, and no step puts it back.                                   *)
LEMMA OnceNext ==
  /\ TypeInv /\ OwnInv /\ SendInv /\ NamedOnce /\ IdsInv /\ OnceInv
  /\ [Next]_vars
  => OnceInv'
<1> SUFFICES ASSUME TypeInv, OwnInv, SendInv, NamedOnce, IdsInv, OnceInv, [Next]_vars,
                    NEW c \in Conns, NEW d \in Conns, Pushed(c, d)', pc'[c] \in InPost
             PROVE  /\ pc'[c] # "collect" /\ name'[d] # Empty
                    /\ Twice(follow_list', name'[d], name'[c]) \/ ~StillToReach(c, d)'
  BY DEF OnceInv, Twice
<1>1. NamesInv /\ QueueInv /\ AimInv  BY DEF SendInv
<1>2. /\ rcvd[d] \in Seq(Item) /\ pc \in [Conns -> Places]
      /\ to_notify[c] \in Seq(String) /\ slots[c] \subseteq Slots
      /\ msg_received[c].msg_id \in Nat
  BY IdAssumption DEF TypeInv, TypeOK, ClientsTypeOK, ThreadsTypeOK, PostsTypeOK, Message
<1>3. PICK k \in DOMAIN rcvd'[d] :
        /\ PushBy(rcvd'[d][k], c) /\ rcvd'[d][k].to = d
        /\ rcvd'[d][k].msg_id = msg_received'[c].msg_id
  BY DEF Pushed, PushBy
<1>4. CASE k \in DOMAIN rcvd[d] /\ rcvd'[d][k] = rcvd[d][k]
  <2>1. AddToFeed(c) \/ (pc[c] \in InPost /\ msg_received'[c] = msg_received[c])
    BY InPostStays
  <2>2. ~AddToFeed(c)
    <3> SUFFICES ASSUME AddToFeed(c) PROVE FALSE  OBVIOUS
    <3>1. msg_received'[c] = msg_received[c] /\ pc[c] = "add"
      BY DEF AddToFeed, threadVars
    <3>2. rcvd[d][k].msg_id < msg_received[c].msg_id
      BY <1>3, <1>4, <3>1 DEF IdsInv
    <3> QED  BY <1>2, <1>3, <1>4, <3>1, <3>2
  <2>3. Pushed(c, d)  BY <1>3, <1>4, <2>1, <2>2 DEF Pushed
  <2>4. /\ pc[c] # "collect" /\ name[d] # Empty
        /\ Twice(follow_list, name[d], name[c]) \/ ~StillToReach(c, d)
    BY <2>1, <2>2, <2>3 DEF OnceInv
  <2>5. pc'[c] # "collect"
    BY <2>2, <2>4, StepOf, PlacesEntered
  <2>6. name'[d] = name[d] /\ name'[c] = name[c]
    BY <1>1, <2>1, <2>2, <2>4, NameStays DEF NamesInv, ActingNames, Acting
  <2>7. CASE Twice(follow_list, name[d], name[c])
    BY <2>4, <2>5, <2>6, <2>7, TwiceStays
  <2>8. CASE ~StillToReach(c, d)
    BY <1>1, <2>4, <2>5, <2>6, <2>8, ReachShrinks
  <2> QED  BY <2>4, <2>7, <2>8
<1>5. CASE SendPush(c) /\ target[c] = d /\ rcvd'[d][k] = Push(c)
  <2>1. /\ pc[c] = "sending" /\ pc'[c] = "unlock" /\ aim[c][Idx(c)] = d
        /\ UNCHANGED <<slots, aim, to_notify, name, follow_list>>
    BY <1>2, <1>3, <1>5 DEF SendPush, Goto, Push, postVars
  <2>2. pc[c] \in AtLoop /\ to_notify[c] # <<>>
    BY <2>1 DEF AtLoop, AtSlot, TypeInv, PushLoop
  <2>3. /\ name[d] = Head(to_notify[c]) /\ client_index[d] = Idx(c)
        /\ \A t \in slots[c] : aim[c][t] = d => t = Idx(c)
    BY <1>1, <2>1, <2>2, IdxIn DEF AimInv, AimedAt, AtSlot
  <2>4. name[d] # Empty  BY <1>1, <2>2, <2>3, HeadIsName
  <2>5. \A j \in DOMAIN to_notify[c] : to_notify[c][j] = name[d] =>
          j = 1 \/ Twice(follow_list, name[d], name[c])
    <3>1. Len(to_notify[c]) \in Nat \ {0} /\ DOMAIN to_notify[c] = 1 .. Len(to_notify[c])
      BY <1>2, <2>2, EmptySeq, LenProperties
    <3>2. 1 \in DOMAIN to_notify[c] /\ to_notify[c][1] = name[d]  BY <2>3, <3>1
    <3>3. Distinct(to_notify[c], name[c])  BY <2>2 DEF NamedOnce
    <3> QED  BY <3>2, <3>3 DEF Distinct
  <2>6. Idx(c)' = Idx(c)  BY <2>1 DEF Idx
  <2>7. Twice(follow_list, name[d], name[c]) \/ ~StillToReach(c, d)'
    BY <2>1, <2>3, <2>5, <2>6 DEF StillToReach
  <2> QED  BY <2>1, <2>4, <2>7
<1>6. \/ k \in DOMAIN rcvd[d] /\ rcvd'[d][k] = rcvd[d][k]
      \/ SendPush(c) /\ target[c] = d /\ rcvd'[d][k] = Push(c)
  <2>1. CASE rcvd'[d] = rcvd[d]  BY <2>1
  <2>2. CASE rcvd'[d] # rcvd[d]
    <3>1. PICK new \in Item :
            /\ rcvd'[d] = Append(rcvd[d], new)
            /\ \/ \E e \in Conns : SendPush(e) /\ target[e] = d /\ new = Push(e)
               \/ new.kind # "push"
      BY <2>2, ItemsArrive
    <3>2. (k \in DOMAIN rcvd[d] /\ rcvd'[d][k] = rcvd[d][k]) \/ rcvd'[d][k] = new
      BY <1>2, <3>1, Appended
    <3> QED  BY <1>3, <3>1, <3>2 DEF PushBy, Push
  <2> QED  BY <2>1, <2>2
<1> QED  BY <1>4, <1>5, <1>6

(* Only the threads of named clients push.                                 *)
SenderNamed ==
  \A d \in Conns : \A k \in DOMAIN rcvd[d] :
    rcvd[d][k].kind = "push" => rcvd[d][k].by \in Conns /\ name[rcvd[d][k].by] # Empty

LEMMA SenderNamedInit == Init => SenderNamed
BY DEF Init, SenderNamed

(* What is among the items of a client after a step: what was, and a push  *)
(* that is being sent to it.                                               *)
LEMMA PushesArrive ==
  ASSUME TypeInv, OwnInv, [Next]_vars, NEW d \in Conns,
         NEW k \in DOMAIN rcvd'[d], rcvd'[d][k].kind = "push"
  PROVE  \/ k \in DOMAIN rcvd[d] /\ rcvd'[d][k] = rcvd[d][k]
         \/ /\ \E c \in Conns : SendPush(c) /\ target[c] = d /\ rcvd'[d][k] = Push(c)
            /\ \A j \in DOMAIN rcvd'[d] : j < k =>
                 j \in DOMAIN rcvd[d] /\ rcvd'[d][j] = rcvd[d][j]
<1>1. rcvd[d] \in Seq(Item)  BY DEF TypeInv, TypeOK, ClientsTypeOK
<1>2. CASE rcvd'[d] = rcvd[d]  BY <1>2
<1>3. CASE rcvd'[d] # rcvd[d]
  <2>1. PICK new \in Item :
          /\ rcvd'[d] = Append(rcvd[d], new)
          /\ \/ \E c \in Conns : SendPush(c) /\ target[c] = d /\ new = Push(c)
             \/ new.kind # "push"
    BY <1>3, ItemsArrive
  <2>2. /\ Len(rcvd[d]) \in Nat /\ DOMAIN rcvd[d] = 1 .. Len(rcvd[d])
        /\ DOMAIN rcvd'[d] = 1 .. Len(rcvd[d]) + 1
        /\ \A i \in DOMAIN rcvd[d] : rcvd'[d][i] = rcvd[d][i]
        /\ rcvd'[d][Len(rcvd[d]) + 1] = new
    BY <1>1, <2>1, Appended
  <2>3. CASE k \in DOMAIN rcvd[d]  BY <2>2, <2>3
  <2>4. CASE k = Len(rcvd[d]) + 1
    <3>1. \A j \in DOMAIN rcvd'[d] : j < k => j \in DOMAIN rcvd[d] /\ rcvd'[d][j] = rcvd[d][j]
      BY <2>2, <2>4
    <3> QED  BY <2>1, <2>2, <2>4, <3>1
  <2> QED  BY <2>2, <2>3, <2>4
<1> QED  BY <1>2, <1>3

LEMMA SenderNamedNext ==
  TypeInv /\ OwnInv /\ NamesInv /\ SenderNamed /\ [Next]_vars => SenderNamed'
<1> SUFFICES ASSUME TypeInv, OwnInv, NamesInv, SenderNamed, [Next]_vars, NEW d \in Conns,
                    NEW k \in DOMAIN rcvd'[d], rcvd'[d][k].kind = "push"
             PROVE  rcvd'[d][k].by \in Conns /\ name'[rcvd'[d][k].by] # Empty
  BY DEF SenderNamed
<1>1. CASE k \in DOMAIN rcvd[d] /\ rcvd'[d][k] = rcvd[d][k]
  <2>1. rcvd[d][k].by \in Conns /\ name[rcvd[d][k].by] # Empty  BY <1>1 DEF SenderNamed
  <2> QED  BY <1>1, <2>1, NameStays DEF NamesInv
<1>2. ASSUME NEW c \in Conns, SendPush(c), rcvd'[d][k] = Push(c)
      PROVE  rcvd'[d][k].by \in Conns /\ name'[rcvd'[d][k].by] # Empty
  <2>1. name[c] # Empty
    BY <1>2 DEF SendPush, NamesInv, ActingNames, Acting, InPost, AtLoop, AtSlot
  <2>2. UNCHANGED name  BY <1>2 DEF SendPush
  <2> QED  BY <1>2, <2>1, <2>2 DEF Push
<1> QED  BY <1>1, <1>2, PushesArrive

(* The post being sent has a higher id than what its thread sent before,   *)
(* or the same one, and then the connection is not sent it again.          *)
LEMMA OrderNext ==
  /\ TypeInv /\ OwnInv /\ SendInv /\ SenderNamed /\ IdsInv /\ OnceInv
  /\ PushesInPostOrder /\ [Next]_vars
  => PushesInPostOrder'
<1> SUFFICES ASSUME TypeInv, OwnInv, SendInv, SenderNamed, IdsInv, OnceInv,
                    PushesInPostOrder, [Next]_vars, NEW d \in Conns,
                    NEW j \in DOMAIN rcvd'[d], NEW k \in DOMAIN rcvd'[d], j < k,
                    rcvd'[d][j].kind = "push", rcvd'[d][k].kind = "push",
                    rcvd'[d][j].by = rcvd'[d][k].by
             PROVE  \/ rcvd'[d][j].msg_id < rcvd'[d][k].msg_id
                    \/ /\ rcvd'[d][j].msg_id = rcvd'[d][k].msg_id
                       /\ \/ rcvd'[d][j].to # d \/ rcvd'[d][k].to # d
                          \/ Twice(follow_list', name'[d], name'[rcvd'[d][j].by])
  BY DEF PushesInPostOrder, Twice
<1>1. NamesInv  BY DEF SendInv
<1>2. CASE /\ j \in DOMAIN rcvd[d] /\ rcvd'[d][j] = rcvd[d][j]
           /\ k \in DOMAIN rcvd[d] /\ rcvd'[d][k] = rcvd[d][k]
  <2> DEFINE c == rcvd[d][j].by
  <2>1. \/ rcvd[d][j].msg_id < rcvd[d][k].msg_id
        \/ /\ rcvd[d][j].msg_id = rcvd[d][k].msg_id
           /\ \/ rcvd[d][j].to # d \/ rcvd[d][k].to # d
              \/ Twice(follow_list, name[d], name[c])
    BY <1>2 DEF PushesInPostOrder
  <2>2. ASSUME Twice(follow_list, name[d], name[c])
        PROVE  Twice(follow_list', name'[d], name'[c])
    <3>1. name[d] # Empty  BY <1>1, <2>2 DEF Twice, Pair, NamesInv, FollowerNames
    <3>2. c \in Conns /\ name[c] # Empty  BY <1>2 DEF SenderNamed
    <3> HIDE DEF c
    <3>3. name'[d] = name[d] /\ name'[c] = name[c]
      BY <1>1, <3>1, <3>2, NameStays DEF NamesInv
    <3> QED  BY <2>2, <3>3, TwiceStays
  <2> QED  BY <1>2, <2>1, <2>2
<1>3. ASSUME NEW c \in Conns, SendPush(c), rcvd'[d][k] = Push(c),
             j \in DOMAIN rcvd[d], rcvd'[d][j] = rcvd[d][j]
      PROVE  \/ rcvd'[d][j].msg_id < rcvd'[d][k].msg_id
             \/ /\ rcvd'[d][j].msg_id = rcvd'[d][k].msg_id
                /\ \/ rcvd'[d][j].to # d \/ rcvd'[d][k].to # d
                   \/ Twice(follow_list', name'[d], name'[rcvd'[d][j].by])
  <2>1. /\ pc[c] = "sending" /\ Push(c).msg_id = msg_received[c].msg_id
        /\ Push(c).to = aim[c][Idx(c)] /\ PushBy(rcvd[d][j], c)
        /\ UNCHANGED <<follow_list, name>>
    BY <1>3 DEF SendPush, Push, PushBy
  <2>2. pc[c] \in InPost /\ pc[c] \in AtLoop
    BY <2>1 DEF InPost, AtLoop, AtSlot
  <2>3. rcvd[d][j].msg_id <= msg_received[c].msg_id
    BY <1>3, <2>1, <2>2 DEF IdsInv
  <2>4. Idx(c) \in slots[c]  BY <2>1, IdxIn DEF AtSlot
  <2>5. ASSUME aim[c][Idx(c)] = d, rcvd[d][j].to = d,
               rcvd[d][j].msg_id = msg_received[c].msg_id
        PROVE  Twice(follow_list, name[d], name[c])
    <3>1. StillToReach(c, d)  BY <2>1, <2>2, <2>4, <2>5 DEF StillToReach
    <3>2. Pushed(c, d)  BY <1>3, <2>1, <2>5 DEF Pushed
    <3> QED  BY <2>2, <3>1, <3>2 DEF OnceInv
  <2>6. rcvd[d][j].msg_id \in Nat /\ msg_received[c].msg_id \in Nat
    <3>1. rcvd[d] \in Seq(Item)  BY DEF TypeInv, TypeOK, ClientsTypeOK
    <3>2. rcvd[d][j] \in Item  BY <1>3, <3>1, ElementOfSeq, LenProperties
    <3> QED  BY <3>2, IdAssumption DEF Item, TypeInv, TypeOK, ThreadsTypeOK, Message
  <2>7. rcvd[d][j].by = c  BY <2>1 DEF PushBy
  <2> QED  BY <1>3, <2>1, <2>3, <2>5, <2>6, <2>7
<1>4. \/ k \in DOMAIN rcvd[d] /\ rcvd'[d][k] = rcvd[d][k]
      \/ /\ \E c \in Conns : SendPush(c) /\ rcvd'[d][k] = Push(c)
         /\ j \in DOMAIN rcvd[d] /\ rcvd'[d][j] = rcvd[d][j]
  BY PushesArrive
<1>5. CASE k \in DOMAIN rcvd[d] /\ rcvd'[d][k] = rcvd[d][k]
  <2>1. j \in DOMAIN rcvd[d] /\ rcvd'[d][j] = rcvd[d][j]
    <3>1. rcvd[d] \in Seq(Item)  BY DEF TypeInv, TypeOK, ClientsTypeOK
    <3>2. rcvd'[d] = rcvd[d] \/ \E new \in Item : rcvd'[d] = Append(rcvd[d], new)
      BY ItemsArrive
    <3>3. \A i \in DOMAIN rcvd[d] : i \in DOMAIN rcvd'[d] /\ rcvd'[d][i] = rcvd[d][i]
      BY <3>1, <3>2, Appended
    <3>4. DOMAIN rcvd[d] = 1 .. Len(rcvd[d]) /\ Len(rcvd[d]) \in Nat  BY <3>1, LenProperties
    <3>5. DOMAIN rcvd'[d] \in {1 .. Len(rcvd[d]), 1 .. Len(rcvd[d]) + 1}
      BY <3>1, <3>2, <3>4, Appended
    <3>6. j \in DOMAIN rcvd[d]  BY <1>5, <3>4, <3>5
    <3> QED  BY <3>3, <3>6
  <2> QED  BY <1>2, <1>5, <2>1
<1> QED  BY <1>3, <1>4, <1>5

(* All that a client gets of the posts of one connection comes in the      *)
(* order in which they were posted, and a post that was meant for it comes *)
(* once, unless the follow list has the pair of names more than once; all  *)
(* this as long as the counter of ids does not wrap                        *)
(* (incrementMsgIdCounter, processPostMessage).                            *)
THEOREM PushesComeInOrder ==
  ASSUME MaxPosts < IdModulus
  PROVE  Spec => []PushesInPostOrder
<1> DEFINE OrderInv == BudgetInv /\ CounterInv /\ IdsInv /\ NamedOnce /\ OnceInv
                                 /\ SenderNamed /\ PushesInPostOrder
<1>1. Init => OrderInv
  BY BudgetInit, CounterInit, IdsInit, NamedOnceInit, OnceInit, SenderNamedInit
     DEF Init, PushesInPostOrder
<1>2. TypeInv /\ OwnInv /\ SendInv /\ OrderInv /\ [Next]_vars => OrderInv'
  BY BudgetNext, CounterNext, IdsNext, NamedOnceNext, OnceNext, SenderNamedNext, OrderNext
     DEF SendInv
<1>3. OrderInv => PushesInPostOrder  OBVIOUS
<1> HIDE DEF OrderInv
<1> QED  BY TypeInvInit, TypeInvNext, OwnInit, OwnNext, SendInvInit, SendInvNext,
            <1>1, <1>2, <1>3, PTL DEF Spec

-----------------------------------------------------------------------------
(* The feed of the server implements Feed.                                 *)

(* Feed computes with the operators that Server computes with.             *)
LEMMA SameOperators ==
  /\ FeedOfServer!String = String /\ FeedOfServer!NoPost = NoPost
  /\ FeedOfServer!EmptyFeed = EmptyFeed
  /\ \A n : FeedOfServer!NextId(n) = NextId(n)
  /\ \A feed, m : FeedOfServer!ShiftIn(feed, m) = ShiftIn(feed, m)
  /\ \A feed : FeedOfServer!FeedItems(feed) = FeedItems(feed)
<1>1. /\ FeedOfServer!String = String /\ FeedOfServer!NoPost = NoPost
      /\ FeedOfServer!Indices = Indices
  BY DEF String, NoPost, Indices, FeedOfServer!String, FeedOfServer!NoPost,
         FeedOfServer!Indices
<1>2. FeedOfServer!EmptyFeed = EmptyFeed  BY <1>1 DEF EmptyFeed, FeedOfServer!EmptyFeed
<1>3. \A n : FeedOfServer!NextId(n) = NextId(n)  BY DEF NextId, FeedOfServer!NextId
<1>4. \A feed, m : FeedOfServer!ShiftIn(feed, m) = ShiftIn(feed, m)
  BY <1>1 DEF ShiftIn, FeedOfServer!ShiftIn
<1>5. \A feed : FeedOfServer!FeedItems(feed) = FeedItems(feed)
  <2> TAKE feed
  <2>1. FeedOfServer!Filled(feed) = Filled(feed)
    BY <1>1 DEF Filled, FeedOfServer!Filled
  <2>2. ASSUME NEW S PROVE FeedOfServer!Ascending(S) = Ascending(S)
    <3>1. \A T : FeedOfServer!Cardinality(T) = Cardinality(T)
      BY DEF Cardinality, FeedOfServer!Cardinality
    <3>2. \A i : FeedOfServer!Before(S, i) = Before(S, i)
      BY <3>1 DEF Before, FeedOfServer!Before
    <3>3. \A k : (CHOOSE i \in S : FeedOfServer!Before(S, i) = k - 1)
                = (CHOOSE i \in S : Before(S, i) = k - 1)
      BY <3>2
    <3> QED  BY <3>1, <3>3 DEF Ascending, FeedOfServer!Ascending
  <2> QED  BY <2>1, <2>2 DEF FeedItems, FeedOfServer!FeedItems
<1> QED  BY <1>1, <1>2, <1>3, <1>4, <1>5
(* A server that starts has an empty feed and has given out no id.         *)
LEMMA FeedMapsInit == Init => FeedOfServer!Init
<1> SUFFICES ASSUME Init PROVE FeedOfServer!Init  OBVIOUS
<1>1. {c \in Conns : pc[c] = "add"} = {} /\ Len(log) = 0  BY DEF Init
<1>2. Len(log) + Cardinality({c \in Conns : pc[c] = "add"}) = 0
  BY <1>1, FS_EmptySet
<1> QED  BY <1>2, SameOperators DEF Init, FeedOfServer!Init

(* incrementMsgIdCounter in Server is incrementMsgIdCounter in Feed.       *)
LEMMA AssignIdMaps ==
  ASSUME TypeInv, OwnInv, NamesInv, BudgetInv, [Next]_vars, NEW c \in Conns, AssignId(c)
  PROVE  FeedOfServer!IncrementMsgIdCounter(c)
<1>1. /\ pc \in [Conns -> Places] /\ msg_received \in [Conns -> Message]
      /\ msg_received[c] \in Message
  BY DEF TypeInv, TypeOK, ThreadsTypeOK
<1>2. /\ pc[c] = "post" /\ pc' = [pc EXCEPT ![c] = "add"]
      /\ msg_received' = [msg_received EXCEPT ![c].msg_id = NextId(msg_id_counter)]
      /\ msg_id_counter' = NextId(msg_id_counter)
      /\ UNCHANGED <<feed_messages, log, feed_to_send>>
  BY DEF AssignId, Goto, readVars
<1>3. /\ msg_received[c].username \in Text /\ msg_received[c].content \in String
  BY <1>1, <1>2 DEF NamesInv, ActingNames, Acting, Message, String
<1>4. Issued < MaxPosts  BY RoomForPost
<1>5. Issued' = Issued + 1
  <2>1. Issued' = Issued + 1 \/ ~(\E d \in Conns : AssignId(d))
    BY IssuedNext DEF BudgetInv
  <2> QED  BY <2>1
<1> DEFINE stage == [d \in Conns |-> IF pc[d] = "add" THEN "numbered" ELSE "idle"]
           msg   == [d \in Conns |-> IF pc[d] = "add" THEN PostOf(msg_received[d]) ELSE NoPost]
<1>6. stage[c] = "idle" /\ stage' = [stage EXCEPT ![c] = "numbered"]
  BY <1>1, <1>2
<1>7. msg' = [msg EXCEPT ![c] = [msg_id   |-> NextId(msg_id_counter),
                                username |-> msg_received[c].username,
                                content  |-> msg_received[c].content]]
  BY <1>1, <1>2 DEF PostOf, Message
<1>8. \E u \in Text, x \in String :
        msg' = [msg EXCEPT ![c] = [msg_id   |-> NextId(msg_id_counter),
                                  username |-> u, content |-> x]]
  BY <1>3, <1>7
<1> QED  BY <1>2, <1>4, <1>5, <1>6, <1>8, SameOperators
         DEF FeedOfServer!IncrementMsgIdCounter, Issued, Numbering

(* addMsgToFeed.                                                           *)
LEMMA AddToFeedMaps ==
  ASSUME TypeInv, OwnInv, BudgetInv, [Next]_vars, NEW c \in Conns, AddToFeed(c)
  PROVE  FeedOfServer!AddMsgToFeed(c)
<1>1. /\ pc \in [Conns -> Places] /\ msg_received \in [Conns -> Message]
  BY DEF TypeInv, TypeOK, ThreadsTypeOK
<1>2. /\ pc[c] = "add" /\ pc' = [pc EXCEPT ![c] = "collect"]
      /\ UNCHANGED <<msg_received, msg_id_counter, feed_to_send>>
      /\ feed_messages' = ShiftIn(feed_messages, PostOf(msg_received[c]))
      /\ log' = Append(log, [post |-> PostOf(msg_received[c]), by |-> c])
  BY DEF AddToFeed, Goto, threadVars, readVars
<1>3. ASSUME NEW d \in Conns PROVE ~AssignId(d)
  <2>1. AssignId(d) => pc'[d] = "add" /\ pc[d] = "post"  BY <1>1 DEF AssignId, Goto
  <2> QED  BY <1>1, <1>2, <2>1
<1>4. Issued' = Issued  BY <1>3, IssuedNext DEF BudgetInv
<1> DEFINE stage == [d \in Conns |-> IF pc[d] = "add" THEN "numbered" ELSE "idle"]
           msg   == [d \in Conns |-> IF pc[d] = "add" THEN PostOf(msg_received[d]) ELSE NoPost]
<1>5. stage[c] = "numbered" /\ stage' = [stage EXCEPT ![c] = "idle"]
  BY <1>1, <1>2
<1>6. msg[c] = PostOf(msg_received[c]) /\ msg' = [msg EXCEPT ![c] = NoPost]
  BY <1>1, <1>2
<1> QED  BY <1>2, <1>4, <1>5, <1>6, SameOperators
         DEF FeedOfServer!AddMsgToFeed, Issued, Numbering

(* A step that is none of a POST leaves what Feed knows of the POSTs.      *)
LEMMA NoPostMaps ==
  ASSUME TypeInv, OwnInv, BudgetInv, [Next]_vars,
         \A c \in Conns : ~AssignId(c) /\ ~AddToFeed(c)
  PROVE  /\ UNCHANGED <<msg_id_counter, feed_messages, log, Issued>>
         /\ \A c \in Conns : pc'[c] = "add" <=> pc[c] = "add"
         /\ \A c \in Conns : pc[c] = "add" => msg_received'[c] = msg_received[c]
<1>1. \A c \in Conns : pc'[c] = "add" <=> pc[c] = "add"  BY NumberedStays
<1>2. Issued' = Issued  BY IssuedNext DEF BudgetInv
<1>3. UNCHANGED <<msg_id_counter, feed_messages, log>>
  <2>1. ASSUME NEW c \in Conns, HandlerStep(c)
        PROVE  UNCHANGED <<msg_id_counter, feed_messages, log>>
    BY <2>1, ThreadWrites
  <2>2. ASSUME NEW c \in Conns, Leave(c) \/ StallOrResume(c)
        PROVE  UNCHANGED <<msg_id_counter, feed_messages, log>>
    BY <2>2, PeersWrite DEF feedVars
  <2>3. CASE MainStep  BY <2>3, MainWrites DEF feedVars
  <2>4. CASE UNCHANGED vars  BY <2>4 DEF vars, feedVars
  <2> QED  BY <2>1, <2>2, <2>3, <2>4 DEF Next
<1>4. ASSUME NEW c \in Conns, pc[c] = "add" PROVE msg_received'[c] = msg_received[c]
  <2>1. CASE HandlerStep(c)
    BY <1>4, <2>1, ThreadWrites DEF ReceiveMessage, Dispatch, Register, AssignId
  <2> QED  BY <2>1, StepOf
<1> QED  BY <1>1, <1>2, <1>3, <1>4

(* Each step of the server is a step of Feed or leaves the feed alone.     *)
LEMMA FeedMapsNext ==
  TypeInv /\ OwnInv /\ NamesInv /\ BudgetInv /\ [Next]_vars
  => [FeedOfServer!Next]_(FeedOfServer!vars)
<1> SUFFICES ASSUME TypeInv, OwnInv, NamesInv, BudgetInv, [Next]_vars
             PROVE  [FeedOfServer!Next]_(FeedOfServer!vars)
  OBVIOUS
<1>1. CASE \E c \in Conns : AssignId(c) \/ AddToFeed(c)
  <2>1. \E c \in Conns : FeedOfServer!IncrementMsgIdCounter(c) \/ FeedOfServer!AddMsgToFeed(c)
    BY <1>1, AssignIdMaps, AddToFeedMaps
  <2> QED  BY <2>1 DEF FeedOfServer!Next
<1>2. CASE \A c \in Conns : ~AssignId(c) /\ ~AddToFeed(c)
  <2> DEFINE stage == [c \in Conns |-> IF pc[c] = "add" THEN "numbered" ELSE "idle"]
             msg   == [c \in Conns |-> IF pc[c] = "add" THEN PostOf(msg_received[c]) ELSE NoPost]
  <2>1. stage' = stage /\ msg' = msg  BY <1>2, NoPostMaps DEF PostOf
  <2>2. UNCHANGED <<msg_id_counter, feed_messages, log, Issued>>  BY <1>2, NoPostMaps
  <2>3. ASSUME NEW c \in Conns, GetFeedMessages(c) PROVE FeedOfServer!GetFeedMessages(c)
    <3>1. /\ stage[c] = "idle"
          /\ feed_to_send' = [feed_to_send EXCEPT ![c] = FeedItems(feed_messages)]
      BY <2>3 DEF GetFeedMessages
    <3> QED  BY <2>1, <2>2, <3>1, SameOperators
            DEF FeedOfServer!GetFeedMessages, Issued, Numbering
  <2>4. CASE UNCHANGED feed_to_send
    BY <2>1, <2>2, <2>4 DEF FeedOfServer!vars, Issued, Numbering
  <2>5. (\E c \in Conns : GetFeedMessages(c)) \/ UNCHANGED feed_to_send
    <3>1. ASSUME NEW c \in Conns, HandlerStep(c)
          PROVE  GetFeedMessages(c) \/ UNCHANGED feed_to_send
      BY <3>1, ThreadWrites
    <3>2. ASSUME NEW c \in Conns, Leave(c) \/ StallOrResume(c)
          PROVE  UNCHANGED feed_to_send
      BY <3>2, PeersWrite DEF readVars
    <3>3. CASE MainStep  BY <3>3, MainWrites DEF readVars
    <3>4. CASE UNCHANGED vars  BY <3>4 DEF vars, readVars
    <3> QED  BY <3>1, <3>2, <3>3, <3>4 DEF Next
  <2> QED  BY <2>3, <2>4, <2>5 DEF FeedOfServer!Next
<1> QED  BY <1>1, <1>2

(* Among slots, sessions, follows and pushes, the posts of the server are  *)
(* numbered, entered in the feed and read as Feed says                     *)
(* (incrementMsgIdCounter, addMsgToFeed, getFeedMessages).                 *)
THEOREM FeedIsImplemented == Spec => ImplementsFeed
<1>1. FeedOfServer!Spec <=> FeedOfServer!Init /\ [][FeedOfServer!Next]_(FeedOfServer!vars)
  BY DEF FeedOfServer!Spec
<1> QED  BY TypeInvInit, TypeInvNext, OwnInit, OwnNext, NamesInit, NamesNext, BudgetInit,
            BudgetNext, FeedMapsInit, FeedMapsNext, PTL DEF Spec, ImplementsFeed, FeedOfServer!Spec
=============================================================================

---------------------------- MODULE ClientProofs ----------------------------
(***************************************************************************)
(* Proofs about Client, for any input, any command lines and answers of    *)
(* any length: the types, when the flag is up, how an answer is printed,   *)
(* and that the server never refuses the client.                           *)
(***************************************************************************)
EXTENDS Client, FunctionTheorems, FiniteSetTheorems, SequenceTheorems, TLAPS

-----------------------------------------------------------------------------
(* Types.                                                                  *)

LEMMA TailType ==
  ASSUME NEW S, NEW s \in Seq(S), s # <<>>
  PROVE  Head(s) \in S /\ Tail(s) \in Seq(S)
BY HeadTailProperties

LEMMA PrefixType ==
  ASSUME NEW S, NEW s \in Seq(S), NEW n \in 0 .. Len(s)
  PROVE  SubSeq(s, 1, n) \in Seq(S)
BY SubSeqProperties

LEMMA DeliverType ==
  ASSUME ConnTypeOK, NEW m \in Items, Deliver(m)
  PROVE  from_server' \in Seq(Items)
BY AppendProperties DEF ConnTypeOK, Deliver

LEMMA ServerTypes ==
  ASSUME ConnTypeOK, ServerStep
  PROVE  ConnTypeOK'
<1> USE FeedMaxSizeAssumption, EmptySeq DEF ConnTypeOK
<1>1. FeedItem \in Items /\ LivePush \in Items /\ End \in Items  BY DEF Items
<1>2. CASE ServerStarts  BY <1>2 DEF ServerStarts
<1>3. CASE ServerReceives
  <2>1. to_server # <<>> /\ UNCHANGED <<client_up, from_server>>  BY <1>3 DEF ServerReceives
  <2>2. Tail(to_server) \in Seq(Sent)  BY <2>1, TailType
  <2>3. CASE Refused(Head(to_server))  BY <1>3, <2>1, <2>3 DEF ServerReceives
  <2>4. CASE ~Refused(Head(to_server))  BY <1>3, <2>1, <2>2, <2>4 DEF ServerReceives
  <2> QED  BY <2>3, <2>4
<1>4. CASE SendItem
  <2>1. items_left' \in 0 .. FeedMaxSize  BY <1>4 DEF SendItem
  <2> QED  BY <1>1, <1>4, <2>1, DeliverType DEF SendItem
<1>5. CASE SendEnd  BY <1>1, <1>5, DeliverType DEF SendEnd
<1>6. CASE ServerPushes  BY <1>1, <1>6, DeliverType DEF ServerPushes
<1>7. CASE ServerLeaves  BY <1>7 DEF ServerLeaves
<1>8. CASE ServerCloses  BY <1>1, <1>8, DeliverType DEF ServerCloses
<1>9. CASE ServerEnds  BY <1>9 DEF ServerEnds
<1> QED  BY <1>2, <1>3, <1>4, <1>5, <1>6, <1>7, <1>8, <1>9 DEF ServerStep

LEMMA ClientHalfTypes ==
  ASSUME ConnTypeOK
  PROVE  /\ \A m \in Sent : ClientSends(m) => ConnTypeOK'
         /\ ClientReceives => ConnTypeOK' /\ Head(from_server) \in Items
         /\ ClientLeaves => ConnTypeOK'
<1> USE DEF ConnTypeOK
<1>1. ASSUME NEW m \in Sent, ClientSends(m) PROVE ConnTypeOK'
  BY <1>1, AppendProperties DEF ClientSends
<1>2. ASSUME ClientReceives PROVE ConnTypeOK' /\ Head(from_server) \in Items
  BY <1>2, TailType DEF ClientReceives
<1>3. ASSUME ClientLeaves PROVE ConnTypeOK'
  <2>1. PICK n \in 0 .. Len(to_server) : to_server' = SubSeq(to_server, 1, n)
    BY <1>3 DEF ClientLeaves
  <2> QED  BY <1>3, <2>1, PrefixType DEF ClientLeaves
<1> QED  BY <1>1, <1>2, <1>3

LEMMA TypeInit == Init => TypeOK
<1> SUFFICES ASSUME Init PROVE TypeOK  OBVIOUS
<1> USE DEF Init
<1>1. from_server \in Seq(Items)  BY EmptySeq DEF ConnInit
<1>2. 0 \in 0 .. FeedMaxSize /\ 0 \in 0 .. MaxPushes
  BY FeedMaxSizeAssumption, MaxPushesAssumption
<1>3. ConnTypeOK  BY <1>1, <1>2 DEF ConnInit, ConnTypeOK
<1>4. printed \in Seq([as : {"FEED", "NOTIFICATION"}, live : BOOLEAN])  BY EmptySeq
<1>5. input \in Seq(Pieces) /\ user_input \in Pieces  BY InputsAssumption DEF Pieces
<1>6. server_args \in Arguments /\ client_args \in Arguments  BY ArgsAssumption
<1> QED  BY <1>2, <1>3, <1>4, <1>5, <1>6 DEF TypeOK, States, Items

LEMMA TypeNext == TypeOK /\ [Next]_vars => TypeOK'
<1> SUFFICES ASSUME TypeOK, [Next]_vars PROVE TypeOK'  OBVIOUS
<1> USE DEF TypeOK, setupVars, mainVars, readerVars, otherVars, MainAt, ReaderAt
<1>1. CASE SetUpServer
  <2>1. ConnTypeOK'  BY <1>1 DEF SetUpServer, ConnTypeOK, connVars
  <2> QED  BY <1>1, <2>1 DEF SetUpServer
<1>2. CASE Connect
  <2>1. ConnTypeOK'  BY <1>2 DEF Connect, ConnTypeOK, connVars
  <2> QED  BY <1>2, <2>1 DEF Connect, States
<1>3. CASE ConnectFails \/ DetachFails \/ SendFails \/ EndOfInput
  <2>1. Exit  BY <1>3 DEF ConnectFails, DetachFails, SendFails, EndOfInput
  <2> QED  BY <2>1, ClientHalfTypes DEF Exit
<1>4. ASSUME NEW m \in Sent, Transmit(m) PROVE TypeOK'
  <2>1. ConnTypeOK'  BY <1>4, ClientHalfTypes DEF Transmit
  <2> QED  BY <1>4, <2>1 DEF Transmit, States
<1>5. CASE SendConnect  BY <1>4, <1>5 DEF SendConnect, Sent
<1>6. CASE SendMessageToServer  BY <1>4, <1>6 DEF SendMessageToServer, Sent, Commands
<1>7. CASE WaitUserInput
  <2>1. ConnTypeOK'  BY <1>7 DEF WaitUserInput, ConnTypeOK, connVars
  <2>2. input # <<>>  BY <1>7 DEF WaitUserInput
  <2>3. Head(input) \in Pieces /\ Tail(input) \in Seq(Pieces)  BY <2>2, TailType
  <2> QED  BY <1>7, <2>1, <2>3 DEF WaitUserInput, States
<1>8. CASE ValidateUserInput
  <2>1. ConnTypeOK'  BY <1>8 DEF ValidateUserInput, ConnTypeOK, connVars
  <2> QED  BY <1>8, <2>1 DEF ValidateUserInput, States
<1>9. CASE SetFeedFlag
  <2>1. ConnTypeOK'  BY <1>9 DEF SetFeedFlag, ConnTypeOK, connVars
  <2>2. asked' \in Nat  BY <1>9 DEF SetFeedFlag
  <2>3. overlapped' \in BOOLEAN /\ in_feed' \in BOOLEAN  BY <1>9 DEF SetFeedFlag
  <2> QED  BY <1>9, <2>1, <2>2, <2>3 DEF SetFeedFlag, States
<1>10. CASE ReadMessageFromServer
  BY <1>10, ClientHalfTypes DEF ReadMessageFromServer
<1>11. CASE PrintPush
  <2>1. ConnTypeOK'  BY <1>11 DEF PrintPush, ConnTypeOK, connVars
  <2>2. msg.live \in BOOLEAN
    <3>1. msg = FeedItem \/ msg = LivePush \/ msg = End  BY DEF Items
    <3>2. /\ FeedItem.live \in BOOLEAN /\ LivePush.live \in BOOLEAN /\ End.live \in BOOLEAN
      BY DEF FeedItem, LivePush, End
    <3> QED  BY ONLY <3>1, <3>2
  <2>3. [as |-> IF in_feed THEN "FEED" ELSE "NOTIFICATION", live |-> msg.live]
          \in [as : {"FEED", "NOTIFICATION"}, live : BOOLEAN]
    BY <2>2
  <2>4. printed' \in Seq([as : {"FEED", "NOTIFICATION"}, live : BOOLEAN])
    BY <1>11, <2>3, AppendProperties DEF PrintPush
  <2> QED  BY <1>11, <2>1, <2>4 DEF PrintPush
<1>12. CASE EndOfFeed
  <2>1. ConnTypeOK'  BY <1>12 DEF EndOfFeed, ConnTypeOK, connVars
  <2>2. ended' \in Nat  BY <1>12 DEF EndOfFeed
  <2> QED  BY <1>12, <2>1, <2>2 DEF EndOfFeed
<1>13. CASE ReaderEnds
  <2>1. ConnTypeOK'  BY <1>13 DEF ReaderEnds, ConnTypeOK, connVars
  <2> QED  BY <1>13, <2>1 DEF ReaderEnds
<1>14. CASE ServerActs
  <2>1. ConnTypeOK'  BY <1>14, ServerTypes DEF ServerActs
  <2>2. pushes' \in 0 .. MaxPushes
    <3>1. pushes' \in {pushes, pushes + 1} /\ pushes' <= MaxPushes  BY <1>14 DEF ServerActs
    <3> QED  BY <3>1, MaxPushesAssumption
  <2> QED  BY <1>14, <2>1, <2>2 DEF ServerActs
<1>15. CASE HoldUp
  <2>1. ConnTypeOK'  BY <1>15, ServerTypes DEF HoldUp, ServerStep
  <2> QED  BY <1>15, <2>1 DEF HoldUp
<1>16. CASE UNCHANGED vars
  <2>1. ConnTypeOK'  BY <1>16 DEF vars, ConnTypeOK, connVars
  <2> QED  BY <1>16, <2>1 DEF vars
<1> QED
  BY <1>1, <1>2, <1>3, <1>5, <1>6, <1>7, <1>8, <1>9, <1>10, <1>11, <1>12, <1>13, <1>14, <1>15,
     <1>16
  DEF Next, MainStep, ReaderStep

(* The variables keep the types of their C declarations.                   *)
THEOREM ClientTypeCorrect == Spec => []TypeOK
BY TypeInit, TypeNext, PTL DEF Spec
-----------------------------------------------------------------------------
(* Counting in a sequence: how often x is among the first n elements.      *)

Upto(s, n, x) == Cardinality({j \in 1 .. n : s[j] = x})
Count(s, x)   == Upto(s, Len(s), x)
One(condition) == IF condition THEN 1 ELSE 0


LEMMA UptoType ==
  ASSUME NEW s, NEW n \in Nat, NEW x
  PROVE  IsFiniteSet({j \in 1 .. n : s[j] = x}) /\ Upto(s, n, x) \in Nat
<1>1. IsFiniteSet(1 .. n)  BY FS_Interval
<1>2. IsFiniteSet({j \in 1 .. n : s[j] = x})  BY <1>1, FS_Subset
<1> QED  BY <1>2, FS_CardinalityType DEF Upto

LEMMA UptoTypes ==
  ASSUME NEW S, NEW s \in Seq(S), NEW x
  PROVE  Len(s) \in Nat /\ \A k \in 1 .. Len(s) : Upto(s, k, x) \in Nat
<1>1. Len(s) \in Nat  BY LenProperties
<1>2. ASSUME NEW k \in 1 .. Len(s) PROVE Upto(s, k, x) \in Nat
  <2>1. k \in Nat  BY <1>1
  <2> QED  BY <2>1, UptoType
<1> QED  BY <1>1, <1>2

LEMMA UptoNothing ==
  ASSUME NEW s, NEW x
  PROVE  Upto(s, 0, x) = 0
<1>1. {j \in 1 .. 0 : s[j] = x} = {}  OBVIOUS
<1> QED  BY <1>1, FS_EmptySet DEF Upto

LEMMA UptoMore ==
  ASSUME NEW s, NEW n \in Nat, NEW x
  PROVE  Upto(s, n + 1, x) = Upto(s, n, x) + One(s[n + 1] = x)
<1> DEFINE S == {j \in 1 .. n : s[j] = x}
<1>1. IsFiniteSet(S) /\ n + 1 \notin S  BY UptoType
<1>2. {j \in 1 .. n + 1 : s[j] = x} = IF s[n + 1] = x THEN S \cup {n + 1} ELSE S
  <2>1. 1 .. n + 1 = (1 .. n) \cup {n + 1}  OBVIOUS
  <2> QED  BY <2>1
<1>3. Cardinality(S \cup {n + 1}) = Cardinality(S) + 1  BY <1>1, FS_AddElement
<1>4. Cardinality(S) \in Nat  BY <1>1, FS_CardinalityType
<1> QED  BY <1>2, <1>3, <1>4 DEF Upto, One

LEMMA UptoSame ==
  ASSUME NEW s, NEW t, NEW n \in Nat, NEW x, \A j \in 1 .. n : s[j] = t[j]
  PROVE  Upto(s, n, x) = Upto(t, n, x)
<1>1. {j \in 1 .. n : s[j] = x} = {j \in 1 .. n : t[j] = x}  OBVIOUS
<1> QED  BY <1>1 DEF Upto

LEMMA UptoGrows ==
  ASSUME NEW s, NEW n \in Nat, NEW m \in 0 .. n, NEW x
  PROVE  Upto(s, m, x) <= Upto(s, n, x)
<1>1. {j \in 1 .. m : s[j] = x} \in SUBSET {j \in 1 .. n : s[j] = x}  OBVIOUS
<1>2. IsFiniteSet({j \in 1 .. n : s[j] = x})  BY UptoType
<1>3. Cardinality({j \in 1 .. m : s[j] = x}) <= Cardinality({j \in 1 .. n : s[j] = x})
  BY <1>1, <1>2, FS_Subset
<1> QED  BY <1>3 DEF Upto

LEMMA UptoTail ==
  ASSUME NEW S, NEW s \in Seq(S), s # <<>>, NEW n \in Nat, n < Len(s), NEW x
  PROVE  Upto(s, n + 1, x) = Upto(Tail(s), n, x) + One(Head(s) = x)
<1> DEFINE A == {j \in 1 .. n : Tail(s)[j] = x}
           B == {j \in 2 .. n + 1 : s[j] = x}
           f == [j \in A |-> j + 1]
<1>1. \A j \in 1 .. n : Tail(s)[j] = s[j + 1]  BY HeadTailProperties
<1>2. f \in Bijection(A, B)
  <2>1. f \in [A -> B]  BY <1>1
  <2>2. \A j, k \in A : f[j] = f[k] => j = k  OBVIOUS
  <2>3. \A k \in B : \E j \in A : f[j] = k
    <3>1. ASSUME NEW k \in B PROVE k - 1 \in A /\ f[k - 1] = k
      <4>1. k - 1 \in 1 .. n /\ k - 1 + 1 = k /\ s[k] = x  OBVIOUS
      <4>2. k - 1 \in A  BY <1>1, <4>1
      <4> QED  BY <4>1, <4>2
    <3> QED  BY <3>1
  <2>4. f \in Injection(A, B)  BY <2>1, <2>2, Fun_IsInj
  <2>5. f \in Surjection(A, B)  BY <2>1, <2>3, Fun_IsSurj
  <2> QED  BY <2>4, <2>5 DEF Bijection
<1>3. IsFiniteSet(A) /\ Cardinality(A) \in Nat
  <2>1. IsFiniteSet(A)  BY UptoType
  <2> QED  BY <2>1, FS_CardinalityType
<1>4. IsFiniteSet(B) /\ Cardinality(B) = Cardinality(A)
  BY <1>2, <1>3, FS_Bijection DEF ExistsBijection
<1>5. {j \in 1 .. n + 1 : s[j] = x} = IF s[1] = x THEN B \cup {1} ELSE B
  <2>1. 1 .. n + 1 = (2 .. n + 1) \cup {1}  OBVIOUS
  <2> QED  BY <2>1
<1>6. 1 \notin B  OBVIOUS
<1>7. Cardinality(B \cup {1}) = Cardinality(B) + 1  BY <1>4, <1>6, FS_AddElement
<1>8. Head(s) = s[1]  BY HeadTailProperties
<1>9. Upto(Tail(s), n, x) = Cardinality(A)  BY DEF Upto
<1>10. Upto(s, n + 1, x) = IF s[1] = x THEN Cardinality(B) + 1 ELSE Cardinality(B)
  BY <1>5, <1>7 DEF Upto
<1> HIDE DEF A, B, f
<1> QED  BY <1>3, <1>4, <1>8, <1>9, <1>10 DEF One

LEMMA CountAppend ==
  ASSUME NEW S, NEW s \in Seq(S), NEW y \in S, NEW x
  PROVE  /\ Count(Append(s, y), x) = Count(s, x) + One(y = x)
         /\ \A n \in 0 .. Len(s) : Upto(Append(s, y), n, x) = Upto(s, n, x)
<1>1. /\ Len(Append(s, y)) = Len(s) + 1 /\ Len(s) \in Nat
      /\ Append(s, y)[Len(s) + 1] = y
      /\ \A j \in 1 .. Len(s) : Append(s, y)[j] = s[j]
  BY AppendProperties, LenProperties
<1>2. ASSUME NEW n \in 0 .. Len(s) PROVE Upto(Append(s, y), n, x) = Upto(s, n, x)
  <2>1. n \in Nat /\ \A j \in 1 .. n : Append(s, y)[j] = s[j]  BY <1>1
  <2> QED  BY <2>1, UptoSame
<1>3. Upto(Append(s, y), Len(s) + 1, x) = Upto(Append(s, y), Len(s), x) + One(y = x)
  <2> DEFINE t == Append(s, y)
  <2>1. t[Len(s) + 1] = y  BY <1>1
  <2> HIDE DEF t
  <2>2. Upto(t, Len(s) + 1, x) = Upto(t, Len(s), x) + One(t[Len(s) + 1] = x)
    BY <1>1, UptoMore
  <2>3. Upto(t, Len(s) + 1, x) = Upto(t, Len(s), x) + One(y = x)
    BY <2>1, <2>2 DEF One
  <2> QED  BY <2>3 DEF t
<1> QED  BY <1>1, <1>2, <1>3 DEF Count

LEMMA CountTail ==
  ASSUME NEW S, NEW s \in Seq(S), s # <<>>, NEW x
  PROVE  Count(s, x) = Count(Tail(s), x) + One(Head(s) = x)
<1>1. Len(s) \in Nat \ {0} /\ Len(Tail(s)) = Len(s) - 1
  BY EmptySeq, LenProperties, HeadTailProperties
<1>2. Len(Tail(s)) \in Nat /\ Len(Tail(s)) < Len(s) /\ Len(Tail(s)) + 1 = Len(s)  BY <1>1
<1> QED  BY <1>2, UptoTail DEF Count

LEMMA CountPrefix ==
  ASSUME NEW S, NEW s \in Seq(S), NEW n \in 0 .. Len(s), NEW x
  PROVE  Count(SubSeq(s, 1, n), x) <= Count(s, x)
<1>1. Len(s) \in Nat /\ n \in Nat  BY LenProperties
<1>2. Len(SubSeq(s, 1, n)) = n /\ \A j \in 1 .. n : SubSeq(s, 1, n)[j] = s[j]
  BY <1>1, SubSeqProperties
<1>3. Upto(SubSeq(s, 1, n), n, x) = Upto(s, n, x)
  <2> DEFINE t == SubSeq(s, 1, n)
  <2>1. \A j \in 1 .. n : t[j] = s[j]  BY <1>2
  <2> HIDE DEF t
  <2>2. Upto(t, n, x) = Upto(s, n, x)  BY <1>1, <2>1, UptoSame
  <2> QED  BY <2>2 DEF t
<1> QED  BY <1>1, <1>2, <1>3, UptoGrows DEF Count

LEMMA CountType ==
  ASSUME NEW S, NEW s \in Seq(S), NEW x
  PROVE  Count(s, x) \in Nat /\ Count(<<>>, x) = 0
<1>1. Len(<<>>) = 0  OBVIOUS
<1> QED  BY <1>1, LenProperties, UptoType, UptoNothing DEF Count
-----------------------------------------------------------------------------
(* The flag and the answers.                                               *)

(* An answer is due for each READ that is sent or being sent, taken, or    *)
(* answered, until its MSG_END has been acted upon.                        *)
ToAnswer == Count(to_server, "READ") + One(server = "answering")
              + One(state = "SENDING" /\ msg_to_send = "READ")
HeldEnd  == One(reader = "received" /\ msg = End)

(* No answer is unasked; a READ may be lost with the connection.           *)
EndsAreAsked == ended + HeldEnd + Count(from_server, End) + ToAnswer <= asked

(* The end of an item's own answer is still to come, or never will.        *)
ItemsAreAwaited ==
  /\ reader = "received" /\ msg = FeedItem => ended < asked
  /\ \A k \in 1 .. Len(from_server) :
       from_server[k] = FeedItem => ended + HeldEnd + Upto(from_server, k, End) < asked

(* While READs do not overlap the flag says whether one is awaited.        *)
FlagIsExact == ~overlapped => asked <= ended + 1 /\ (in_feed <=> asked > ended)

LEMMA OneType == \A c : One(c) \in {0, 1}
BY DEF One

LEMMA ItemsDiffer ==
  /\ FeedItem # End /\ LivePush # End /\ FeedItem # LivePush
  /\ FeedItem.type = "PUSH" /\ LivePush.type = "PUSH" /\ End.type = "END"
BY DEF FeedItem, LivePush, End

LEMMA Naturals ==
  ASSUME TypeOK
  PROVE  /\ asked \in Nat /\ ended \in Nat /\ HeldEnd \in {0, 1} /\ ToAnswer \in Nat
         /\ Count(from_server, End) \in Nat /\ Count(to_server, "READ") \in Nat
<1>1. from_server \in Seq(Items) /\ to_server \in Seq(Sent)  BY DEF TypeOK, ConnTypeOK
<1>2. Count(from_server, End) \in Nat /\ Count(to_server, "READ") \in Nat
  BY <1>1, CountType
<1> QED  BY <1>2, OneType DEF TypeOK, HeldEnd, ToAnswer

LEMMA NaturalsNext ==
  ASSUME TypeOK'
  PROVE  ToAnswer' \in Nat
<1>1. to_server' \in Seq(Sent)  BY DEF TypeOK, ConnTypeOK
<1>2. Count(to_server', "READ") \in Nat  BY <1>1, CountType
<1> QED  BY <1>2, OneType DEF ToAnswer

FlagInv == EndsAreAsked /\ ItemsAreAwaited /\ FlagIsExact

(* Nothing is asked, nor an end acted upon; something may be sent.         *)
LEMMA NothingAsked ==
  ASSUME TypeOK, TypeOK', FlagInv,
         UNCHANGED <<asked, ended, overlapped, in_feed, msg>>,
         reader' = "received" => reader = "received",
         \/ from_server' = from_server /\ ToAnswer' <= ToAnswer
         \/ \E m \in Items :
              /\ from_server' = Append(from_server, m)
              /\ One(m = End) + ToAnswer' <= ToAnswer
              /\ m = FeedItem => ToAnswer' >= 1
  PROVE  FlagInv'
<1>1. HeldEnd' <= HeldEnd /\ HeldEnd' \in {0, 1} /\ HeldEnd \in {0, 1}
  BY OneType DEF HeldEnd, One
<1>2. FlagIsExact'  BY DEF FlagInv, FlagIsExact
<1>3. (reader = "received" /\ msg = FeedItem => ended < asked)'
  BY DEF FlagInv, ItemsAreAwaited
<1>4. from_server \in Seq(Items) /\ Len(from_server) \in Nat
  BY LenProperties DEF TypeOK, ConnTypeOK
<1>5. /\ asked \in Nat /\ ended \in Nat /\ ToAnswer \in Nat /\ ToAnswer' \in Nat
      /\ Count(from_server, End) \in Nat
  BY Naturals, NaturalsNext
<1>6. \A k \in 1 .. Len(from_server) :
        /\ Upto(from_server, k, End) \in Nat
        /\ from_server[k] = FeedItem => ended + HeldEnd + Upto(from_server, k, End) < asked
  <2>1. \A k \in 1 .. Len(from_server) : Upto(from_server, k, End) \in Nat
    BY <1>4, UptoTypes
  <2>2. \A k \in 1 .. Len(from_server) :
          from_server[k] = FeedItem => ended + HeldEnd + Upto(from_server, k, End) < asked
    BY DEF FlagInv, ItemsAreAwaited
  <2> QED  BY <2>1, <2>2
<1>7. ended + HeldEnd + Count(from_server, End) + ToAnswer <= asked
  BY DEF FlagInv, EndsAreAsked
<1>8. CASE from_server' = from_server /\ ToAnswer' <= ToAnswer
  <2>1. EndsAreAsked'
    <3>1. ended + HeldEnd' + Count(from_server, End) + ToAnswer' <= asked
      BY <1>1, <1>5, <1>7, <1>8
    <3> QED  BY <1>8, <3>1 DEF EndsAreAsked
  <2>2. \A k \in 1 .. Len(from_server) :
          from_server[k] = FeedItem => ended + HeldEnd' + Upto(from_server, k, End) < asked
    BY <1>1, <1>5, <1>6
  <2> QED  BY <1>2, <1>3, <1>8, <2>1, <2>2 DEF FlagInv, ItemsAreAwaited
<1>9. ASSUME NEW m \in Items, from_server' = Append(from_server, m),
             One(m = End) + ToAnswer' <= ToAnswer, m = FeedItem => ToAnswer' >= 1
      PROVE  FlagInv'
  <2>1. Count(Append(from_server, m), End) = Count(from_server, End) + One(m = End)
    BY <1>4, CountAppend
  <2>2. One(m = End) \in {0, 1}  BY OneType
  <2>3. EndsAreAsked'
    <3>1. ended + HeldEnd' + Count(Append(from_server, m), End) + ToAnswer' <= asked
      BY <1>1, <1>5, <1>7, <1>9, <2>1, <2>2
    <3> QED  BY <1>9, <3>1 DEF EndsAreAsked
  <2>4. Len(Append(from_server, m)) = Len(from_server) + 1
    BY <1>4, AppendProperties
  <2>5. ASSUME NEW k \in 1 .. Len(from_server) + 1, Append(from_server, m)[k] = FeedItem
        PROVE  ended + HeldEnd' + Upto(Append(from_server, m), k, End) < asked
    <3>1. CASE k \in 1 .. Len(from_server)
      <4>1. Append(from_server, m)[k] = from_server[k]  BY <1>4, <3>1, AppendProperties
      <4>2. Upto(Append(from_server, m), k, End) = Upto(from_server, k, End)
        BY <1>4, <3>1, CountAppend
      <4>3. Upto(from_server, k, End) \in Nat
            /\ ended + HeldEnd + Upto(from_server, k, End) < asked
        BY <1>6, <2>5, <3>1, <4>1
      <4> QED  BY <1>1, <1>5, <4>2, <4>3
    <3>2. CASE k = Len(from_server) + 1
      <4>1. m = FeedItem  BY <1>4, <2>5, <3>2, AppendProperties
      <4>2. One(m = End) = 0 /\ ToAnswer' >= 1  BY <1>9, <4>1, ItemsDiffer DEF One
      <4>3. Upto(Append(from_server, m), k, End) = Count(from_server, End)
        BY <1>5, <2>1, <2>4, <3>2, <4>2 DEF Count
      <4> QED  BY <1>1, <1>5, <1>7, <1>9, <4>2, <4>3
    <3> QED  BY <1>4, <3>1, <3>2
  <2> QED  BY <1>2, <1>3, <1>9, <2>3, <2>4, <2>5 DEF FlagInv, ItemsAreAwaited
<1> QED  BY <1>8, <1>9

(* What the server does is an answer that is due, or a live push.          *)
LEMMA ServerFlagNext ==
  ASSUME TypeOK, TypeOK', FlagInv, ServerActs \/ HoldUp
  PROVE  FlagInv'
<1> DEFINE sending == One(state = "SENDING" /\ msg_to_send = "READ")
           reads == Count(to_server, "READ")
<1>1. /\ UNCHANGED <<asked, ended, overlapped, in_feed, msg, reader, state, msg_to_send>>
      /\ ServerStep
  BY DEF ServerActs, HoldUp, ServerStep, mainVars, readerVars
<1>2. /\ to_server \in Seq(Sent) /\ sending \in {0, 1} /\ reads \in Nat
      /\ Count(<<>>, "READ") = 0
  BY OneType, CountType DEF TypeOK, ConnTypeOK
<1>3. /\ ToAnswer = reads + One(server = "answering") + sending
      /\ ToAnswer' = reads' + One(server' = "answering") + sending
      /\ One(server = "answering") \in {0, 1}
      /\ reads' = Count(to_server', "READ")
  BY <1>1, OneType DEF ToAnswer
<1> HIDE DEF sending, reads
<1>4. ASSUME from_server' = from_server, ToAnswer' <= ToAnswer PROVE FlagInv'
  BY <1>1, <1>4, NothingAsked
<1>5. ASSUME Deliver(LivePush), ToAnswer' <= ToAnswer PROVE FlagInv'
  <2>1. LivePush \in Items /\ One(LivePush = End) = 0 /\ LivePush # FeedItem
    BY ItemsDiffer DEF Items, One
  <2>2. ToAnswer' \in Nat  BY NaturalsNext
  <2>3. One(LivePush = End) + ToAnswer' <= ToAnswer  BY <1>5, <2>1, <2>2
  <2> QED  BY <1>1, <1>4, <1>5, <2>1, <2>3, NothingAsked DEF Deliver
<1>6. CASE ServerStarts
  <2>1. server' # "answering" /\ to_server' = to_server /\ from_server' = from_server
    BY <1>6 DEF ServerStarts
  <2> QED  BY <1>2, <1>3, <1>4, <2>1 DEF One, reads
<1>7. CASE ServerReceives
  <2> DEFINE m == Head(to_server)
  <2>1. server = "idle" /\ to_server # <<>> /\ from_server' = from_server
    BY <1>7 DEF ServerReceives
  <2>2. reads = Count(Tail(to_server), "READ") + One(m = "READ")
    BY <1>2, <2>1, CountTail DEF reads
  <2>3. Count(Tail(to_server), "READ") \in Nat  BY <1>2, <2>1, TailType, CountType
  <2>4. CASE Refused(m)
    <3>1. to_server' = <<>> /\ server' = "leaving"  BY <1>7, <2>4 DEF ServerReceives
    <3> QED  BY <1>2, <1>3, <1>4, <2>1, <3>1 DEF One
  <2>5. CASE ~Refused(m)
    <3>1. to_server' = Tail(to_server) /\ (server' = "answering" <=> m = "READ")
      BY <1>7, <2>1, <2>5 DEF ServerReceives
    <3>2. One(server' = "answering") = One(m = "READ")  BY <3>1 DEF One
    <3>3. reads' = Count(Tail(to_server), "READ")  BY <1>3, <3>1
    <3>4. One(m = "READ") \in {0, 1}  BY OneType
    <3> HIDE DEF m
    <3>5. ToAnswer' <= ToAnswer  BY <1>2, <1>3, <2>2, <2>3, <3>2, <3>3, <3>4
    <3> QED  BY <1>4, <2>1, <3>5
  <2> QED  BY <2>4, <2>5
<1>8. CASE SendItem
  <2>1. UNCHANGED <<server, to_server>> /\ server = "answering" /\ Deliver(FeedItem)
    BY <1>8 DEF SendItem
  <2>2. ToAnswer' = ToAnswer /\ ToAnswer >= 1
    BY <1>2, <1>3, <2>1 DEF One, reads
  <2>3. FeedItem \in Items /\ One(FeedItem = End) = 0  BY ItemsDiffer DEF Items, One
  <2>4. ToAnswer' \in Nat  BY NaturalsNext
  <2>5. One(FeedItem = End) + ToAnswer' <= ToAnswer /\ ToAnswer' >= 1 /\ ToAnswer' <= ToAnswer
    BY <2>2, <2>3, <2>4
  <2> QED  BY <1>1, <1>4, <2>1, <2>3, <2>5, NothingAsked DEF Deliver
<1>9. CASE SendEnd
  <2>1. server = "answering" /\ server' = "idle" /\ to_server' = to_server /\ Deliver(End)
    BY <1>9 DEF SendEnd
  <2>2. reads' = reads  BY <2>1 DEF reads
  <2>3. One(server = "answering") = 1 /\ One(server' = "answering") = 0  BY <2>1 DEF One
  <2>4. End \in Items /\ One(End = End) = 1 /\ End # FeedItem  BY ItemsDiffer DEF Items, One
  <2>5. One(End = End) + ToAnswer' <= ToAnswer /\ ToAnswer' <= ToAnswer
    BY <1>2, <1>3, <2>2, <2>3, <2>4
  <2> QED  BY <1>1, <1>4, <2>1, <2>4, <2>5, NothingAsked DEF Deliver
<1>10. CASE ServerPushes
  <2>1. UNCHANGED <<server, to_server>> /\ Deliver(LivePush)  BY <1>10 DEF ServerPushes
  <2>2. ToAnswer' <= ToAnswer  BY <1>2, <1>3, <2>1 DEF reads
  <2> QED  BY <1>5, <2>1, <2>2
<1>11. CASE ServerLeaves
  <2>1. server' = "leaving" /\ to_server' = to_server /\ from_server' = from_server
    BY <1>11 DEF ServerLeaves
  <2>2. reads' = reads /\ One(server' = "answering") = 0  BY <2>1 DEF One, reads
  <2> QED  BY <1>2, <1>3, <1>4, <2>1, <2>2
<1>12. CASE ServerCloses
  <2>1. server' = "closed" /\ to_server' = <<>>
        /\ (Deliver(LivePush) \/ from_server' = from_server)
    BY <1>12 DEF ServerCloses
  <2>2. ToAnswer' <= ToAnswer  BY <1>2, <1>3, <2>1 DEF One
  <2> QED  BY <1>4, <1>5, <2>1, <2>2
<1>13. CASE ServerEnds
  <2>1. server' = "ended" /\ to_server' = <<>> /\ from_server' = from_server
    BY <1>13 DEF ServerEnds
  <2>2. ToAnswer' <= ToAnswer  BY <1>2, <1>3, <2>1 DEF One
  <2> QED  BY <1>4, <2>1, <2>2
<1> QED
  BY <1>1, <1>6, <1>7, <1>8, <1>9, <1>10, <1>11, <1>12, <1>13 DEF ServerStep

(* The message that is asked for, or whose sending fails, is counted once. *)
LEMMA MainFlagNext ==
  ASSUME TypeOK, TypeOK', FlagInv, MainStep
  PROVE  FlagInv'
<1> USE DEF MainAt
<1>1. /\ to_server \in Seq(Sent) /\ Count(to_server, "READ") \in Nat
      /\ asked \in Nat /\ ended \in Nat /\ ToAnswer \in Nat
  BY Naturals DEF TypeOK, ConnTypeOK
<1>2. \A c : One(c) \in {0, 1}  BY OneType
<1>3. ASSUME UNCHANGED <<connVars, asked, ended, overlapped, in_feed, msg>>,
             reader' = "received" => reader = "received", state' # "SENDING"
      PROVE  FlagInv'
  <2>1. One((state = "SENDING" /\ msg_to_send = "READ")') = 0  BY <1>3 DEF One
  <2>2. to_server' = to_server /\ server' = server /\ from_server' = from_server
    BY <1>3 DEF connVars
  <2>3. ToAnswer' = Count(to_server, "READ") + One(server = "answering")
    BY <1>1, <1>2, <2>1, <2>2 DEF ToAnswer
  <2>4. ToAnswer' <= ToAnswer  BY <1>1, <1>2, <2>3 DEF ToAnswer
  <2> QED  BY <1>3, <2>2, <2>4, NothingAsked
<1>4. CASE Connect  BY <1>3, <1>4 DEF Connect
<1>5. CASE WaitUserInput  BY <1>3, <1>5 DEF WaitUserInput, readerVars
<1>6. CASE ValidateUserInput  BY <1>3, <1>6 DEF ValidateUserInput, readerVars
<1>7. CASE ConnectFails \/ DetachFails \/ SendFails \/ EndOfInput
  <2>1. /\ ClientLeaves
        /\ UNCHANGED <<state, msg_to_send, asked, ended, overlapped, in_feed, msg, reader>>
    BY <1>7 DEF ConnectFails, DetachFails, SendFails, EndOfInput, Exit, mainVars, readerVars
  <2>2. PICK n \in 0 .. Len(to_server) : to_server' = SubSeq(to_server, 1, n)
    BY <2>1 DEF ClientLeaves
  <2>3. Count(to_server', "READ") <= Count(to_server, "READ")  BY <1>1, <2>2, CountPrefix
  <2>4. server' = server /\ from_server' = from_server  BY <2>1 DEF ClientLeaves
  <2>5. Count(to_server', "READ") \in Nat
    <3>1. to_server' \in Seq(Sent)  BY DEF TypeOK, ConnTypeOK
    <3> QED  BY <3>1, CountType
  <2>6. ToAnswer' = Count(to_server', "READ") + One(server = "answering")
                      + One(state = "SENDING" /\ msg_to_send = "READ")
    BY <2>1, <2>4 DEF ToAnswer
  <2>7. ToAnswer' <= ToAnswer  BY <1>1, <1>2, <2>3, <2>5, <2>6 DEF ToAnswer
  <2> QED  BY <2>1, <2>4, <2>7, NothingAsked
<1>8. ASSUME NEW m \in Sent, Transmit(m),
             m = "READ" => state = "SENDING" /\ msg_to_send = "READ"
      PROVE  FlagInv'
  <2>1. /\ ClientSends(m) /\ state' = "WAIT_USER_INPUT"
        /\ UNCHANGED <<msg_to_send, asked, ended, overlapped, in_feed, msg, reader>>
    BY <1>8 DEF Transmit, readerVars
  <2>2. server' = server /\ from_server' = from_server
        /\ to_server' \in {to_server, Append(to_server, m)}
    BY <2>1 DEF ClientSends
  <2>3. One((state = "SENDING" /\ msg_to_send = "READ")') = 0  BY <2>1 DEF One
  <2>4. One(m = "READ") <= One(state = "SENDING" /\ msg_to_send = "READ")  BY <1>8 DEF One
  <2>5. Count(Append(to_server, m), "READ") = Count(to_server, "READ") + One(m = "READ")
    BY <1>1, CountAppend
  <2>6. Count(to_server', "READ") \in
          {Count(to_server, "READ"), Count(to_server, "READ") + One(m = "READ")}
    BY <2>2, <2>5
  <2>7. ToAnswer' = Count(to_server', "READ") + One(server = "answering")
    <3>1. ToAnswer' = Count(to_server', "READ") + One(server = "answering") + 0
      BY <2>2, <2>3 DEF ToAnswer
    <3> QED  BY <1>1, <1>2, <2>6, <3>1
  <2>8. ToAnswer' <= ToAnswer  BY <1>1, <1>2, <2>4, <2>6, <2>7 DEF ToAnswer
  <2> QED  BY <2>1, <2>2, <2>8, NothingAsked
<1>9. CASE SendConnect  BY <1>8, <1>9 DEF SendConnect, Sent
<1>10. CASE SendMessageToServer
  BY <1>8, <1>10 DEF SendMessageToServer, Sent, TypeOK, Commands
<1>11. CASE SetFeedFlag
  <2> DEFINE read == msg_to_send = "READ"
  <2>1. /\ in_feed' = (in_feed \/ read)
        /\ asked' = asked + One(read)
        /\ overlapped' = (overlapped \/ (read /\ asked > ended))
    BY <1>1, <1>11 DEF SetFeedFlag, One
  <2>2. /\ state = "SEND_MSG_TO_SERVER" /\ state' = "SENDING"
        /\ UNCHANGED <<to_server, from_server, server, msg_to_send, ended, msg, reader>>
    BY <1>11 DEF SetFeedFlag, connVars, readerVars
  <2>3. ToAnswer' = ToAnswer + One(read)
    <3>1. One((state = "SENDING" /\ msg_to_send = "READ")') = One(read)  BY <2>2 DEF One
    <3>2. One(state = "SENDING" /\ msg_to_send = "READ") = 0  BY <2>2 DEF One
    <3> QED  BY <1>1, <1>2, <2>2, <3>1, <3>2 DEF ToAnswer
  <2>4. HeldEnd' = HeldEnd /\ HeldEnd \in {0, 1} /\ Count(from_server, End) \in Nat
    BY <2>2, Naturals DEF HeldEnd
  <2>5. ended + HeldEnd + Count(from_server, End) + ToAnswer <= asked
    BY DEF FlagInv, EndsAreAsked
  <2>6. EndsAreAsked'
    <3>1. ended + HeldEnd + Count(from_server, End) + (ToAnswer + One(read)) <= asked + One(read)
      BY <1>1, <1>2, <2>4, <2>5
    <3> QED  BY <2>1, <2>2, <2>3, <2>4, <3>1 DEF EndsAreAsked
  <2>7. asked' \in Nat /\ asked' >= asked  BY <1>1, <1>2, <2>1
  <2>8. ItemsAreAwaited'
    <3>1. \A k \in 1 .. Len(from_server) : Upto(from_server, k, End) \in Nat
      BY UptoTypes DEF TypeOK, ConnTypeOK
    <3>2. \A k \in 1 .. Len(from_server) :
            from_server[k] = FeedItem => ended + HeldEnd + Upto(from_server, k, End) < asked'
      BY <1>1, <2>4, <2>7, <3>1 DEF FlagInv, ItemsAreAwaited
    <3>3. reader = "received" /\ msg = FeedItem => ended < asked'
      BY <1>1, <2>7 DEF FlagInv, ItemsAreAwaited
    <3> QED  BY <2>2, <2>4, <3>2, <3>3 DEF ItemsAreAwaited
  <2>9. FlagIsExact'
    <3>1. ended <= asked  BY <1>1, <2>4, <2>5
    <3>2. CASE read
      <4>1. asked' = asked + 1 /\ in_feed' = TRUE  BY <2>1, <3>2 DEF One
      <4>2. ~overlapped' => ~(asked > ended)  BY <2>1, <3>2
      <4>3. ~overlapped' => asked = ended  BY <1>1, <3>1, <4>2
      <4> QED  BY <1>1, <2>2, <4>1, <4>3 DEF FlagIsExact
    <3>3. CASE ~read
      <4>1. asked' = asked /\ in_feed' = in_feed /\ overlapped' = overlapped
        BY <1>1, <2>1, <3>3 DEF One, TypeOK
      <4> QED  BY <2>2, <4>1 DEF FlagInv, FlagIsExact
    <3> QED  BY <3>2, <3>3
  <2> QED  BY <2>6, <2>8, <2>9 DEF FlagInv
<1> QED
  BY <1>4, <1>5, <1>6, <1>7, <1>9, <1>10, <1>11 DEF MainStep

(* A message moves into the reader's hands and is acted upon.              *)
LEMMA ReaderFlagNext ==
  ASSUME TypeOK, TypeOK', FlagInv, ReaderStep
  PROVE  FlagInv'
<1> USE DEF ReaderAt
<1>1. /\ from_server \in Seq(Items) /\ asked \in Nat /\ ended \in Nat
      /\ ToAnswer \in Nat /\ HeldEnd \in {0, 1} /\ Count(from_server, End) \in Nat
  BY Naturals DEF TypeOK, ConnTypeOK
<1>2. ended + HeldEnd + Count(from_server, End) + ToAnswer <= asked
  BY DEF FlagInv, EndsAreAsked
<1>3. Len(from_server) \in Nat
      /\ \A k \in 1 .. Len(from_server) : Upto(from_server, k, End) \in Nat
  BY <1>1, UptoTypes
<1>4. \A k \in 1 .. Len(from_server) :
        from_server[k] = FeedItem => ended + HeldEnd + Upto(from_server, k, End) < asked
  BY DEF FlagInv, ItemsAreAwaited
<1>5. ASSUME UNCHANGED <<to_server, server, state, msg_to_send>> PROVE ToAnswer' = ToAnswer
  BY <1>5 DEF ToAnswer
<1>6. CASE ReadMessageFromServer
  <2> DEFINE h == Head(from_server)
             t == Tail(from_server)
  <2>1. /\ reader = "receiving" /\ reader' = "received" /\ msg' = h
        /\ from_server # <<>> /\ from_server' = t
        /\ UNCHANGED <<to_server, server, state, msg_to_send, asked, ended, overlapped, in_feed>>
    BY <1>6 DEF ReadMessageFromServer, ClientReceives, mainVars
  <2>2. HeldEnd = 0 /\ HeldEnd' = One(h = End)  BY <2>1 DEF HeldEnd, One
  <2>3. One(h = End) \in {0, 1}  BY OneType
  <2>4. Count(from_server, End) = Count(t, End) + One(h = End)  BY <1>1, <2>1, CountTail
  <2>5. t \in Seq(Items) /\ Len(t) = Len(from_server) - 1
        /\ (\A k \in 1 .. Len(t) : t[k] = from_server[k + 1]) /\ h = from_server[1]
        /\ Len(from_server) >= 1
    BY <1>1, <2>1, HeadTailProperties, EmptySeq, LenProperties
  <2>6. Count(t, End) \in Nat  BY <2>5, CountType
  <2>7. ASSUME NEW k \in 1 .. Len(t), t[k] = FeedItem
        PROVE  ended + One(h = End) + Upto(t, k, End) < asked
    <3>1. k \in Nat /\ k < Len(from_server) /\ k + 1 \in 1 .. Len(from_server)
      BY <1>3, <2>5
    <3>2. Upto(from_server, k + 1, End) = Upto(t, k, End) + One(h = End)
      BY <1>1, <2>1, <3>1, UptoTail
    <3>3. from_server[k + 1] = FeedItem  BY <2>5, <2>7
    <3>4. ended + 0 + Upto(from_server, k + 1, End) < asked  BY <1>4, <2>2, <3>1, <3>3
    <3>5. Upto(t, k, End) \in Nat  BY <3>1, UptoType
    <3> QED  BY <1>1, <2>3, <3>2, <3>4, <3>5
  <2>8. h = FeedItem => ended < asked
    <3>1. 1 \in 1 .. Len(from_server)  BY <1>3, <2>5
    <3> QED  BY <1>1, <1>3, <1>4, <2>2, <2>5, <3>1
  <2> HIDE DEF h, t
  <2>9. EndsAreAsked'
    <3>1. ended + One(h = End) + Count(t, End) + ToAnswer <= asked
      BY <1>1, <1>2, <2>2, <2>3, <2>4, <2>6
    <3> QED  BY <1>5, <2>1, <2>2, <3>1 DEF EndsAreAsked
  <2>10. ItemsAreAwaited'  BY <2>1, <2>2, <2>7, <2>8 DEF ItemsAreAwaited
  <2>11. FlagIsExact'  BY <2>1 DEF FlagInv, FlagIsExact
  <2> QED  BY <2>9, <2>10, <2>11 DEF FlagInv
<1>7. CASE PrintPush \/ ReaderEnds
  <2>1. /\ reader' # "received"
        /\ UNCHANGED <<to_server, from_server, server, state, msg_to_send, asked, ended,
                       overlapped, in_feed, msg>>
    BY <1>7 DEF PrintPush, ReaderEnds, connVars, mainVars
  <2>2. ToAnswer' <= ToAnswer  BY <1>1, <1>5, <2>1
  <2> QED  BY <2>1, <2>2, NothingAsked
<1>8. CASE EndOfFeed
  <2>1. /\ reader = "received" /\ msg.type = "END" /\ reader' = "receiving"
        /\ in_feed' = FALSE /\ ended' = ended + 1
        /\ UNCHANGED <<to_server, from_server, server, state, msg_to_send, asked, overlapped>>
    BY <1>8 DEF EndOfFeed, connVars, mainVars
  <2>2. msg = End
    <3>1. msg = FeedItem \/ msg = LivePush \/ msg = End  BY DEF TypeOK, Items
    <3> QED  BY <2>1, <3>1, ItemsDiffer
  <2>3. HeldEnd = 1 /\ HeldEnd' = 0  BY <2>1, <2>2 DEF HeldEnd, One
  <2>4. EndsAreAsked'
    <3>1. (ended + 1) + 0 + Count(from_server, End) + ToAnswer <= asked
      BY <1>1, <1>2, <2>3
    <3> QED  BY <1>5, <2>1, <2>3, <3>1 DEF EndsAreAsked
  <2>5. \A k \in 1 .. Len(from_server) :
          from_server[k] = FeedItem => (ended + 1) + 0 + Upto(from_server, k, End) < asked
    BY <1>1, <1>3, <1>4, <2>3
  <2>6. ItemsAreAwaited'  BY <2>1, <2>3, <2>5 DEF ItemsAreAwaited
  <2>7. ended + 1 <= asked  BY <1>1, <1>2, <2>3
  <2>8. FlagIsExact'
    <3>1. ~overlapped => asked <= ended + 1  BY DEF FlagInv, FlagIsExact
    <3>2. ~overlapped => asked <= ended + 1 + 1 /\ ~(asked > ended + 1)  BY <1>1, <2>7, <3>1
    <3> QED  BY <2>1, <3>2 DEF FlagIsExact
  <2> QED  BY <2>4, <2>6, <2>8 DEF FlagInv
<1> QED  BY <1>6, <1>7, <1>8 DEF ReaderStep

LEMMA FlagInit == Init => FlagInv
<1> SUFFICES ASSUME Init PROVE FlagInv  OBVIOUS
<1> USE DEF Init
<1>1. to_server = <<>> /\ from_server = <<>> /\ server = "backlog"  BY DEF ConnInit
<1>2. Count(<<>>, "READ") = 0 /\ Count(<<>>, End) = 0
  BY EmptySeq, CountType
<1>3. HeldEnd = 0 /\ ToAnswer = 0  BY <1>1, <1>2 DEF HeldEnd, ToAnswer, One
<1>4. EndsAreAsked  BY <1>1, <1>2, <1>3 DEF EndsAreAsked
<1>5. ItemsAreAwaited
  <2>1. Len(from_server) = 0  BY <1>1
  <2> QED  BY <2>1 DEF ItemsAreAwaited
<1> QED  BY <1>4, <1>5 DEF FlagInv, FlagIsExact

LEMMA FlagNext == TypeOK /\ FlagInv /\ [Next]_vars => FlagInv'
<1> SUFFICES ASSUME TypeOK, FlagInv, [Next]_vars PROVE FlagInv'  OBVIOUS
<1>1. TypeOK'  BY TypeNext
<1>2. CASE MainStep  BY <1>1, <1>2, MainFlagNext
<1>3. CASE ReaderStep  BY <1>1, <1>3, ReaderFlagNext
<1>4. CASE ServerActs \/ HoldUp  BY <1>1, <1>4, ServerFlagNext
<1>5. CASE SetUpServer \/ UNCHANGED vars
  <2>1. UNCHANGED <<connVars, mainVars, in_feed, readerVars>>
    BY <1>5 DEF SetUpServer, vars
  <2>2. ToAnswer' = ToAnswer /\ ToAnswer \in Nat
    BY <2>1, Naturals DEF ToAnswer, connVars, mainVars
  <2>3. ToAnswer' <= ToAnswer  BY <2>2
  <2> QED  BY <1>1, <2>1, <2>3, NothingAsked DEF connVars, mainVars, readerVars
<1> QED  BY <1>2, <1>3, <1>4, <1>5 DEF Next

(* What the two threads do to the flag and to what was printed.            *)
LEMMA FlagChanges ==
  ASSUME TypeOK, FlagInv, FlagOnlyWhileWaiting, [Next]_vars
  PROVE  FlagOnlyWhileWaiting'
<1> USE DEF FlagOnlyWhileWaiting, Waiting
<1>1. CASE SetFeedFlag
  <2>1. ended <= asked  BY Naturals DEF FlagInv, EndsAreAsked
  <2>2. asked \in Nat /\ ended \in Nat  BY DEF TypeOK
  <2>3. ended' = ended /\ (in_feed' => in_feed \/ msg_to_send = "READ")
        /\ asked' = IF msg_to_send = "READ" THEN asked + 1 ELSE asked
    BY <1>1 DEF SetFeedFlag, readerVars
  <2> QED  BY <2>1, <2>2, <2>3
<1>2. CASE EndOfFeed  BY <1>2 DEF EndOfFeed
<1>3. CASE UNCHANGED <<in_feed, asked, ended>>  BY <1>3
<1>4. CASE [Next]_vars /\ ~SetFeedFlag /\ ~EndOfFeed
  <2>1. UNCHANGED <<in_feed, asked, ended>>
    BY <1>4
    DEF Next, vars, SetUpServer, MainStep, Connect, ConnectFails, DetachFails, SendConnect,
        SendFails, WaitUserInput, EndOfInput, ValidateUserInput, SendMessageToServer, Transmit, Exit,
        ReaderStep, ReadMessageFromServer, PrintPush, ReaderEnds, ServerActs, HoldUp,
        mainVars, readerVars
  <2> QED  BY <1>3, <2>1
<1> QED  BY <1>1, <1>2, <1>4

(* in_feed is up only while an answer is awaited: an end is acted upon for *)
(* an answer that was asked, and clears the flag.                          *)
THEOREM FlagMeansWaiting == Spec => []FlagOnlyWhileWaiting
<1> DEFINE Inv == TypeOK /\ FlagInv /\ FlagOnlyWhileWaiting
<1>1. Init => Inv  BY TypeInit, FlagInit DEF Init, FlagOnlyWhileWaiting
<1>2. Inv /\ [Next]_vars => Inv'  BY TypeNext, FlagNext, FlagChanges
<1> QED  BY <1>1, <1>2, PTL DEF Spec

LEMMA PrintedNext ==
  ASSUME TypeOK, FlagInv, FeedPrintedAsFeed, [Next]_vars
  PROVE  FeedPrintedAsFeed'
<1> USE DEF FeedPrintedAsFeed
<1>1. CASE PrintPush
  <2> DEFINE line == [as |-> IF in_feed THEN "FEED" ELSE "NOTIFICATION", live |-> msg.live]
  <2>1. /\ reader = "received" /\ msg.type = "PUSH" /\ overlapped' = overlapped
        /\ printed' = Append(printed, line)
    BY <1>1 DEF PrintPush, ReaderAt, mainVars
  <2>2. ~msg.live => msg = FeedItem
    <3>1. msg = FeedItem \/ msg = LivePush \/ msg = End  BY DEF TypeOK, Items
    <3>2. LivePush.live  BY DEF LivePush
    <3> QED  BY <2>1, <3>1, <3>2, ItemsDiffer
  <2>3. ~msg.live => in_feed \/ overlapped
    <3>1. ~msg.live => ended < asked
      BY <2>1, <2>2 DEF FlagInv, ItemsAreAwaited
    <3>2. ended < asked => asked > ended  BY DEF TypeOK
    <3> QED  BY <3>1, <3>2 DEF FlagInv, FlagIsExact
  <2>4. line.live = msg.live /\ (in_feed => line.as = "FEED")  OBVIOUS
  <2> HIDE DEF line
  <2>5. /\ Len(printed) \in Nat /\ Len(printed') = Len(printed) + 1
        /\ printed'[Len(printed) + 1] = line
        /\ \A k \in 1 .. Len(printed) : printed'[k] = printed[k]
        /\ DOMAIN printed = 1 .. Len(printed) /\ DOMAIN printed' = 1 .. Len(printed')
    <3>1. line \in [as : {"FEED", "NOTIFICATION"}, live : BOOLEAN]
      <4>1. msg.live \in BOOLEAN
        <5>1. msg = FeedItem \/ msg = LivePush \/ msg = End  BY DEF TypeOK, Items
        <5>2. /\ FeedItem.live \in BOOLEAN /\ LivePush.live \in BOOLEAN
              /\ End.live \in BOOLEAN
          BY DEF FeedItem, LivePush, End
        <5> QED  BY ONLY <5>1, <5>2
      <4> QED  BY <4>1 DEF line
    <3>2. printed \in Seq([as : {"FEED", "NOTIFICATION"}, live : BOOLEAN])  BY DEF TypeOK
    <3> QED  BY <2>1, <3>1, <3>2, AppendProperties, LenProperties
  <2>6. ASSUME NEW k \in DOMAIN printed', ~printed'[k].live, printed'[k].as # "FEED"
        PROVE  overlapped'
    <3>1. k \in 1 .. Len(printed) \/ k = Len(printed) + 1  BY <2>5
    <3>2. CASE k \in 1 .. Len(printed)
      <4>1. printed'[k] = printed[k] /\ k \in DOMAIN printed  BY <2>5, <3>2
      <4> QED  BY <2>1, <2>6, <4>1
    <3>3. CASE k = Len(printed) + 1
      <4>1. printed'[k] = line  BY <2>5, <3>3
      <4> QED  BY <2>1, <2>3, <2>4, <2>6, <4>1
    <3> QED  BY <3>1, <3>2, <3>3
  <2> QED  BY <2>6
<1>2. CASE [Next]_vars /\ ~PrintPush
  <2>1. printed' = printed
    BY <1>2
    DEF Next, vars, SetUpServer, MainStep, Connect, ConnectFails, DetachFails, SendConnect,
        SendFails, WaitUserInput, EndOfInput, ValidateUserInput, SetFeedFlag, SendMessageToServer,
        Transmit, Exit, ReaderStep, ReadMessageFromServer, EndOfFeed, ReaderEnds,
        ServerActs, HoldUp, readerVars
  <2>2. overlapped => overlapped'
    BY <1>2
    DEF Next, vars, SetUpServer, MainStep, Connect, ConnectFails, DetachFails, SendConnect,
        SendFails, WaitUserInput, EndOfInput, ValidateUserInput, SetFeedFlag, SendMessageToServer,
        Transmit, Exit, ReaderStep, ReadMessageFromServer, EndOfFeed, ReaderEnds,
        ServerActs, HoldUp, mainVars
  <2> QED  BY <2>1, <2>2
<1> QED  BY <1>1, <1>2

(* Whatever the order of the threads, the items of an answer are printed   *)
(* as a feed, unless READs overlap.                                        *)
THEOREM AnswersPrintedAsFeed == Spec => []FeedPrintedAsFeed
<1> DEFINE Inv == TypeOK /\ FlagInv /\ FeedPrintedAsFeed
<1>1. Init => Inv  BY TypeInit, FlagInit DEF Init, FeedPrintedAsFeed
<1>2. Inv /\ [Next]_vars => Inv'  BY TypeNext, FlagNext, PrintedNext
<1> QED  BY <1>1, <1>2, PTL DEF Spec
-----------------------------------------------------------------------------
(* The introduction.                                                       *)

(* What is on its way to the server: a CONNECT with a name comes first.    *)
Introduced ==
  client_up =>
    /\ server # "leaving"
    /\ state # "CONNECT_TO_SERVER" => client_args.name = "valid"
    /\ \A k \in 1 .. Len(to_server) : to_server[k] # "NAMELESS"
    /\ IF state \in {"CONNECT_TO_SERVER", "SEND_CONNECT_MESSAGE"}
       THEN to_server = <<>>
       ELSE Gone \/ registered \/ (to_server # <<>> /\ Head(to_server) = "CONNECT")

(* What is on its way may get more, or lose its head once that is read.    *)
LEMMA AppendKeeps ==
  ASSUME NEW S, NEW s \in Seq(S), NEW m \in S, m # "NAMELESS",
         \A k \in 1 .. Len(s) : s[k] # "NAMELESS"
  PROVE  /\ \A k \in 1 .. Len(Append(s, m)) : Append(s, m)[k] # "NAMELESS"
         /\ Append(s, m) # <<>> /\ Head(Append(s, m)) = IF s = <<>> THEN m ELSE Head(s)
<1>1. /\ Len(Append(s, m)) = Len(s) + 1 /\ Len(s) \in Nat /\ Append(s, m) \in Seq(S)
      /\ Append(s, m)[Len(s) + 1] = m
      /\ \A j \in 1 .. Len(s) : Append(s, m)[j] = s[j]
  BY AppendProperties, LenProperties
<1>2. ASSUME NEW k \in 1 .. Len(s) + 1 PROVE Append(s, m)[k] # "NAMELESS"
  <2>1. k \in 1 .. Len(s) \/ k = Len(s) + 1  BY <1>1
  <2> QED  BY <1>1, <2>1
<1>3. Append(s, m) # <<>>  BY AppendProperties
<1>4. Head(Append(s, m)) = Append(s, m)[1]  BY <1>1, <1>3, HeadTailProperties
<1>5. CASE s = <<>>
  <2>1. Len(s) = 0  BY <1>5
  <2> QED  BY <1>1, <1>2, <1>3, <1>4, <1>5, <2>1
<1>6. CASE s # <<>>
  <2>1. Len(s) # 0 /\ Head(s) = s[1]  BY <1>6, EmptySeq, HeadTailProperties
  <2>2. 1 \in 1 .. Len(s)  BY <1>1, <2>1
  <2> QED  BY <1>1, <1>2, <1>3, <1>4, <1>6, <2>1, <2>2
<1> QED  BY <1>5, <1>6

LEMMA TailKeeps ==
  ASSUME NEW S, NEW s \in Seq(S), s # <<>>, \A k \in 1 .. Len(s) : s[k] # "NAMELESS"
  PROVE  /\ \A k \in 1 .. Len(Tail(s)) : Tail(s)[k] # "NAMELESS"
         /\ Head(s) # "NAMELESS"
<1>1. /\ Len(Tail(s)) = Len(s) - 1 /\ Len(s) \in Nat \ {0} /\ Head(s) = s[1]
      /\ \A k \in 1 .. Len(Tail(s)) : Tail(s)[k] = s[k + 1]
  BY HeadTailProperties, EmptySeq, LenProperties
<1>2. 1 \in 1 .. Len(s) /\ \A k \in 1 .. Len(Tail(s)) : k + 1 \in 1 .. Len(s)  BY <1>1
<1> QED  BY <1>1, <1>2

LEMMA ServerIntroduced ==
  ASSUME TypeOK, Introduced, ServerActs \/ HoldUp
  PROVE  Introduced'
<1> SUFFICES ASSUME client_up' PROVE Introduced'  BY DEF Introduced
<1>1. ServerStep /\ UNCHANGED <<state, client_args>>
  BY DEF ServerActs, HoldUp, ServerStep, setupVars, mainVars
<1>2. client_up' = client_up
  BY <1>1
  DEF ServerStep, ServerStarts, ServerReceives, SendItem, SendEnd, ServerPushes, ServerLeaves,
      ServerCloses, ServerEnds
<1>3. /\ server # "leaving" /\ client_up
      /\ state # "CONNECT_TO_SERVER" => client_args.name = "valid"
      /\ \A k \in 1 .. Len(to_server) : to_server[k] # "NAMELESS"
      /\ IF state \in {"CONNECT_TO_SERVER", "SEND_CONNECT_MESSAGE"}
         THEN to_server = <<>>
         ELSE Gone \/ registered \/ (to_server # <<>> /\ Head(to_server) = "CONNECT")
  BY <1>2 DEF Introduced
<1>4. Len(<<>>) = 0  OBVIOUS
<1>5. CASE UNCHANGED <<to_server, registered>> /\ server' # "leaving" /\ ~Gone
  BY <1>1, <1>3, <1>5 DEF Introduced
<1>6. CASE ServerReceives
  <2>1. /\ server = "idle" /\ to_server # <<>> /\ to_server \in Seq(Sent)
    BY <1>6 DEF ServerReceives, TypeOK, ConnTypeOK
  <2>2. /\ Head(to_server) # "NAMELESS"
        /\ \A k \in 1 .. Len(Tail(to_server)) : Tail(to_server)[k] # "NAMELESS"
    BY <1>3, <2>1, TailKeeps
  <2>3. ~Refused(Head(to_server))  BY <1>3, <2>1, <2>2 DEF Refused, Gone
  <2>4. to_server' = Tail(to_server) /\ registered' = TRUE /\ server' \in {"idle", "answering"}
    BY <1>6, <2>1, <2>3 DEF ServerReceives
  <2>5. state \notin {"CONNECT_TO_SERVER", "SEND_CONNECT_MESSAGE"}  BY <1>3, <2>1
  <2> QED  BY <1>1, <1>3, <2>2, <2>4, <2>5 DEF Introduced
<1>7. CASE ServerCloses \/ ServerEnds
  <2>1. to_server' = <<>> /\ Gone' /\ server' # "leaving"
    BY <1>7 DEF ServerCloses, ServerEnds, Gone
  <2> QED  BY <1>1, <1>3, <1>4, <2>1 DEF Introduced
<1>8. CASE ServerStarts \/ SendItem \/ SendEnd \/ ServerPushes
  BY <1>3, <1>5, <1>8 DEF ServerStarts, SendItem, SendEnd, ServerPushes, Gone
<1>9. CASE ServerLeaves  BY <1>3, <1>9 DEF ServerLeaves
<1> QED  BY <1>1, <1>6, <1>7, <1>8, <1>9 DEF ServerStep

LEMMA ClientIntroduced ==
  ASSUME TypeOK, Introduced, MainStep \/ ReaderStep \/ SetUpServer \/ UNCHANGED vars
  PROVE  Introduced'
<1> SUFFICES ASSUME client_up' PROVE Introduced'  BY DEF Introduced
<1> USE DEF MainAt, ReaderAt
<1>1. client_up => /\ server # "leaving"
                   /\ state # "CONNECT_TO_SERVER" => client_args.name = "valid"
                   /\ \A k \in 1 .. Len(to_server) : to_server[k] # "NAMELESS"
                   /\ IF state \in {"CONNECT_TO_SERVER", "SEND_CONNECT_MESSAGE"}
                      THEN to_server = <<>>
                      ELSE Gone \/ registered \/ (to_server # <<>> /\ Head(to_server) = "CONNECT")
  BY DEF Introduced
<1>2. CASE /\ UNCHANGED <<client_up, to_server, server, registered, client_args>>
           /\ state' \notin {"CONNECT_TO_SERVER", "SEND_CONNECT_MESSAGE"}
           /\ state \notin {"CONNECT_TO_SERVER", "SEND_CONNECT_MESSAGE"}
  BY <1>1, <1>2 DEF Introduced, Gone
<1>3. CASE UNCHANGED <<client_up, to_server, server, registered, client_args, state>>
  BY <1>1, <1>3 DEF Introduced, Gone
<1>4. CASE Connect
  <2>1. /\ UNCHANGED <<client_up, to_server, server, registered, client_args>>
        /\ state = "CONNECT_TO_SERVER" /\ state' = "SEND_CONNECT_MESSAGE"
        /\ client_args.name = "valid"
    BY <1>4 DEF Connect, connVars, setupVars, ValidForClient, ValidAddress
  <2> QED  BY <1>1, <2>1 DEF Introduced, Gone
<1>5. CASE ConnectFails \/ DetachFails \/ SendFails \/ EndOfInput
  BY <1>5 DEF ConnectFails, DetachFails, SendFails, EndOfInput, Exit, ClientLeaves
<1>6. CASE WaitUserInput \/ ValidateUserInput \/ SetFeedFlag
  BY <1>2, <1>6 DEF WaitUserInput, ValidateUserInput, SetFeedFlag, connVars, setupVars
<1>7. CASE ReaderStep \/ SetUpServer \/ UNCHANGED vars
  BY <1>3, <1>7
  DEF ReaderStep, ReadMessageFromServer, ClientReceives, PrintPush, EndOfFeed, ReaderEnds,
      SetUpServer, vars, connVars, setupVars, mainVars
<1>8. CASE SendConnect \/ SendMessageToServer
  <2>1. PICK m \in Sent :
          /\ ClientSends(m) /\ state' = "WAIT_USER_INPUT" /\ UNCHANGED client_args
          /\ IF state = "SEND_CONNECT_MESSAGE" THEN m = "CONNECT"
                                               ELSE state = "SENDING" /\ m # "NAMELESS"
    <3>1. CASE SendConnect
      BY <1>1, <1>8, <3>1 DEF SendConnect, Transmit, Sent, setupVars
    <3>2. CASE SendMessageToServer
      <4>1. msg_to_send \in Sent /\ msg_to_send # "NAMELESS"
        BY DEF TypeOK, Commands, Sent
      <4> QED  BY <3>2, <4>1 DEF SendMessageToServer, Transmit, setupVars
    <3> QED  BY <1>8, <3>1, <3>2
  <2>2. /\ client_up /\ UNCHANGED <<client_up, server, registered>>
        /\ to_server' = IF Gone \/ server = "leaving" THEN to_server ELSE Append(to_server, m)
    BY <2>1 DEF ClientSends
  <2>3. state # "CONNECT_TO_SERVER" /\ to_server \in Seq(Sent)
    BY <1>8 DEF SendConnect, SendMessageToServer, TypeOK, ConnTypeOK
  <2>4. CASE Gone  BY <1>1, <2>1, <2>2, <2>3, <2>4 DEF Introduced, Gone
  <2>5. CASE ~Gone
    <3>1. to_server' = Append(to_server, m) /\ m # "NAMELESS"  BY <1>1, <2>1, <2>2, <2>5
    <3>2. /\ \A k \in 1 .. Len(to_server') : to_server'[k] # "NAMELESS"
          /\ to_server' # <<>>
          /\ Head(to_server') = IF to_server = <<>> THEN m ELSE Head(to_server)
      BY <1>1, <2>2, <2>3, <3>1, AppendKeeps
    <3>3. registered \/ Head(to_server') = "CONNECT"
      BY <1>1, <2>1, <2>2, <2>3, <2>5, <3>2
    <3> QED  BY <1>1, <2>1, <2>2, <2>3, <3>2, <3>3 DEF Introduced
  <2> QED  BY <2>4, <2>5
<1> QED  BY <1>4, <1>5, <1>6, <1>7, <1>8 DEF MainStep

(* The client's checks and the order in which it sends are enough for the  *)
(* server: a CONNECT with a name is in front of all else.                  *)
THEOREM ClientIsNeverRefused == Spec => []NeverRefused
<1> DEFINE Inv == TypeOK /\ Introduced
<1>1. Init => Introduced
  <2>1. Len(<<>>) = 0  OBVIOUS
  <2> QED  BY <2>1 DEF Init, ConnInit, Introduced
<1>2. Init => Inv  BY <1>1, TypeInit
<1>3. Inv /\ [Next]_vars => Inv'
  BY TypeNext, ServerIntroduced, ClientIntroduced DEF Next
<1>4. Inv => NeverRefused  BY DEF Introduced, NeverRefused
<1> QED  BY <1>2, <1>3, <1>4, PTL DEF Spec
=============================================================================

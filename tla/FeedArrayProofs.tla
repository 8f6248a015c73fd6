-------------------------- MODULE FeedArrayProofs --------------------------
(***************************************************************************)
(* Facts about the operators of Positions and of FeedArray, for arrays of  *)
(* any size: collecting the elements that pass a test leaves no hole and   *)
(* takes each of them once; what getFeedMessages copies; and the types of  *)
(* the results.                                                            *)
(***************************************************************************)
EXTENDS FeedArray, Sequences, TLAPS, FiniteSetTheorems, FunctionTheorems, SequenceTheorems

-----------------------------------------------------------------------------
(* Positions in ascending order.                                           *)

(* The numbers of positions before the elements of S are within 0 and its  *)
(* size less one, and no two elements have the same.                       *)
LEMMA RanksDiffer ==
  ASSUME NEW S \in SUBSET Nat, IsFiniteSet(S)
  PROVE  /\ Cardinality(S) \in Nat
         /\ \A i \in S : /\ Before(S, i) \in Nat
                        /\ Before(S, i) + 1 \in 1 .. Cardinality(S)
         /\ \A i, j \in S : Before(S, i) = Before(S, j) => i = j
<1> DEFINE Below(i) == {j \in S : j < i}
<1>1. S \subseteq Nat /\ Cardinality(S) \in Nat  BY FS_CardinalityType
<1>2. \A i : /\ IsFiniteSet(Below(i)) /\ Cardinality(Below(i)) \in Nat
             /\ Below(i) \subseteq S
  <2> TAKE i
  <2>1. Below(i) \in SUBSET S  OBVIOUS
  <2> QED  BY <2>1, <1>1, FS_Subset, FS_CardinalityType
<1>3. \A i \in S : Before(S, i) + 1 \in 1 .. Cardinality(S)
  <2> TAKE i \in S
  <2>1. Cardinality(Below(i) \cup {i}) = Cardinality(Below(i)) + 1
    <3>1. i \notin Below(i)  OBVIOUS
    <3> QED  BY <3>1, <1>2, FS_AddElement
  <2>2. Below(i) \cup {i} \in SUBSET S  OBVIOUS
  <2>3. Cardinality(Below(i) \cup {i}) <= Cardinality(S)  BY <2>2, <1>1, FS_Subset
  <2>4. Before(S, i) = Cardinality(Below(i))  BY DEF Before
  <2> HIDE DEF Below
  <2> QED  BY <2>1, <2>3, <2>4, <1>1, <1>2
<1>4. \A i, j \in S : i < j => Cardinality(Below(i)) < Cardinality(Below(j))
  <2> TAKE i, j \in S
  <2> HAVE i < j
  <2>1. Below(i) \in SUBSET Below(j)
    <3>1. \A x \in Nat : x < i => x < j  BY <1>1
    <3> QED  BY <1>1, <3>1
  <2>2. Below(i) # Below(j)  BY <1>1
  <2>3. /\ Cardinality(Below(i)) <= Cardinality(Below(j))
        /\ Cardinality(Below(i)) # Cardinality(Below(j))
    BY <2>1, <2>2, <1>2, FS_Subset
  <2> QED  BY <2>3, <1>2
<1>5. \A i : Before(S, i) = Cardinality(Below(i))  BY DEF Before
<1>6. \A i, j \in S : Before(S, i) = Before(S, j) => i = j
  <2> HIDE DEF Below
  <2>1. \A i, j \in S : i < j \/ j < i \/ i = j  BY <1>1
  <2> QED  BY <2>1, <1>2, <1>4, <1>5
<1> QED  BY <1>1, <1>2, <1>3, <1>5, <1>6

(* So each of them is taken: the ranks are 0, 1, ... up to the size less   *)
(* one.                                                                    *)
LEMMA EveryRankTaken ==
  ASSUME NEW S \in SUBSET Nat, IsFiniteSet(S), NEW k \in 1 .. Cardinality(S)
  PROVE  \E i \in S : Before(S, i) = k - 1
<1> DEFINE rank == [i \in S |-> Before(S, i) + 1]
<1>1. /\ Cardinality(S) \in Nat
      /\ \A i \in S : Before(S, i) \in Nat /\ Before(S, i) + 1 \in 1 .. Cardinality(S)
      /\ \A i, j \in S : Before(S, i) = Before(S, j) => i = j
  BY RanksDiffer
<1>2. rank \in Injection(S, 1 .. Cardinality(S))
  <2>1. /\ rank \in [S -> 1 .. Cardinality(S)]
        /\ \A i, j \in S : rank[i] = rank[j] => i = j
    BY <1>1
  <2> QED  BY <2>1, Fun_IsInj
<1>3. IsFiniteSet(1 .. Cardinality(S)) /\ Cardinality(1 .. Cardinality(S)) = Cardinality(S)
  BY <1>1, FS_Interval
<1>4. rank \in Surjection(S, 1 .. Cardinality(S))  BY <1>2, <1>3, FS_Injection
<1>5. PICK i \in S : rank[i] = k  BY <1>4 DEF Surjection
<1>6. Before(S, i) + 1 = k /\ Before(S, i) \in Nat  BY <1>1, <1>5
<1> QED  BY <1>6

(* The positions collected are those of S, and each is collected once.     *)
LEMMA AscendingType ==
  ASSUME NEW S \in SUBSET Nat, IsFiniteSet(S)
  PROVE  /\ Cardinality(S) \in Nat
         /\ DOMAIN Ascending(S) = 1 .. Cardinality(S)
         /\ \A k \in 1 .. Cardinality(S) : Ascending(S)[k] \in S
<1>1. Cardinality(S) \in Nat  BY FS_CardinalityType
<1>2. \A k \in 1 .. Cardinality(S) : (CHOOSE i \in S : Before(S, i) = k - 1) \in S
  BY EveryRankTaken
<1> QED  BY <1>1, <1>2 DEF Ascending

LEMMA AscendingCollects ==
  ASSUME NEW S \in SUBSET Nat, IsFiniteSet(S)
  PROVE  /\ \A i \in S : \E k \in 1 .. Cardinality(S) : Ascending(S)[k] = i
         /\ \A j, k \in 1 .. Cardinality(S) : Ascending(S)[j] = Ascending(S)[k] => j = k
<1>1. /\ Cardinality(S) \in Nat
      /\ \A i \in S : Before(S, i) \in Nat /\ Before(S, i) + 1 \in 1 .. Cardinality(S)
      /\ \A i, j \in S : Before(S, i) = Before(S, j) => i = j
  BY RanksDiffer
<1>2. \A k \in 1 .. Cardinality(S) :
        Ascending(S)[k] \in S /\ Before(S, Ascending(S)[k]) = k - 1
  BY EveryRankTaken DEF Ascending
<1>3. \A i \in S : Ascending(S)[Before(S, i) + 1] = i
  <2> TAKE i \in S
  <2>1. Before(S, Ascending(S)[Before(S, i) + 1]) = Before(S, i)  BY <1>1, <1>2
  <2> QED  BY <2>1, <1>1, <1>2
<1> QED  BY <1>1, <1>2, <1>3

(* When the test holds just for the first n elements of an array that      *)
(* starts at 0, they are collected in their order.                         *)
LEMMA AscendingOfPrefix ==
  ASSUME NEW n \in Nat
  PROVE  Ascending(0 .. n - 1) = [k \in 1 .. n |-> k - 1]
<1>1. Cardinality(0 .. n - 1) = n  BY FS_Interval
<1>2. \A i \in 0 .. n - 1 : Before(0 .. n - 1, i) = i
  <2> TAKE i \in 0 .. n - 1
  <2>1. {j \in 0 .. n - 1 : j < i} = 0 .. i - 1  OBVIOUS
  <2>2. Cardinality(0 .. i - 1) = i  BY FS_Interval
  <2> QED  BY <2>1, <2>2 DEF Before
<1>3. \A k \in 1 .. n : (CHOOSE i \in 0 .. n - 1 : Before(0 .. n - 1, i) = k - 1) = k - 1
  BY <1>2
<1> QED  BY <1>1, <1>3 DEF Ascending

-----------------------------------------------------------------------------
(* The elements of the array that getFeedMessages copies.                  *)

(* The filled elements are finitely many.                                  *)
LEMMA FilledFinite ==
  ASSUME NEW f
  PROVE  /\ Filled(f) \subseteq Indices
         /\ Filled(f) \in SUBSET Nat
         /\ IsFiniteSet(Filled(f))
<1>1. Filled(f) \subseteq Indices  BY DEF Filled
<1>2. /\ FeedMaxSize \in Nat
      /\ Indices \subseteq Nat
      /\ IsFiniteSet(Indices)
  BY FeedSizeAssumption, FS_Interval DEF Indices
<1>3. IsFiniteSet(Filled(f))  BY <1>1, <1>2, FS_Subset
<1> QED  BY <1>1, <1>2, <1>3

(* getFeedMessages returns a sequence of posts.                            *)
LEMMA FeedItemsType ==
  ASSUME NEW f \in [Indices -> Post]
  PROVE  FeedItems(f) \in Seq(Post)
<1> DEFINE n == Cardinality(Filled(f))
           At == Ascending(Filled(f))
<1>1. /\ n \in Nat /\ DOMAIN At = 1 .. n
      /\ \A k \in 1 .. n : At[k] \in Indices
  BY FilledFinite, AscendingType
<1> HIDE DEF n, At
<1>2. \A k \in 1 .. n : f[At[k]] \in Post  BY <1>1
<1>3. [k \in 1 .. n |-> f[At[k]]] \in Seq(Post)  BY <1>1, <1>2, IsASeq
<1>4. FeedItems(f) = [k \in DOMAIN At |-> f[At[k]]]  BY DEF FeedItems, At
<1> QED  BY <1>1, <1>3, <1>4

(* When just the first n elements are filled, the copy is these elements   *)
(* in the order of the array.                                              *)
LEMMA FeedItemsOfPrefix ==
  ASSUME NEW f, NEW n \in Nat, Filled(f) = 0 .. n - 1
  PROVE  FeedItems(f) = [k \in 1 .. n |-> f[k - 1]]
<1>1. Ascending(Filled(f)) = [k \in 1 .. n |-> k - 1]  BY AscendingOfPrefix
<1> QED  BY <1>1 DEF FeedItems

-----------------------------------------------------------------------------
(* Types.                                                                  *)

LEMMA NextIdType ==
  ASSUME NEW n \in 0 .. IdModulus - 1
  PROVE  NextId(n) \in 0 .. IdModulus - 1
BY IdAssumption DEF NextId

LEMMA NoPostType == NoPost \in Post
BY IdAssumption DEF NoPost, Post, String

LEMMA ShiftInType ==
  ASSUME NEW f \in [Indices -> Post], NEW m \in Post
  PROVE  ShiftIn(f, m) \in [Indices -> Post]
BY FeedSizeAssumption DEF ShiftIn, Indices
=============================================================================

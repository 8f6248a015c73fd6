----------------------------- MODULE GlobalFeed -----------------------------
(***************************************************************************)
(* What the global feed promises, whatever array it is kept in: posts are  *)
(* published one at a time on a single timeline, and a READ answers with   *)
(* the last FeedMaxSize published ones, the latest published first.        *)
(***************************************************************************)
EXTENDS Naturals, Sequences

CONSTANTS
  Threads,      (* the threads that publish and read                       *)
  Posts,        (* what can be published                                   *)
  FeedMaxSize   (* how many posts a READ answers with                      *)

VARIABLES
  timeline,     (* everything published so far, oldest first               *)
  answer        (* what the last READ of each thread answered              *)

vars == <<timeline, answer>>

Latest(line, n) ==
  [k \in 1 .. (IF Len(line) < n THEN Len(line) ELSE n) |-> line[Len(line) + 1 - k]]

Init ==
  /\ timeline = <<>>
  /\ answer = [t \in Threads |-> <<>>]

Publish ==
  /\ \E p \in Posts : timeline' = Append(timeline, p)
  /\ UNCHANGED answer

Read(t) ==
  /\ answer' = [answer EXCEPT ![t] = Latest(timeline, FeedMaxSize)]
  /\ UNCHANGED timeline

Next == Publish \/ \E t \in Threads : Read(t)

Spec == Init /\ [][Next]_vars
=============================================================================

------------------------------ MODULE MCServer ------------------------------
(* Bounded instances of Server for TLC.  Each is a cast of clients with    *)
(* what they may send; which instance uses which is in the .cfg files.     *)
EXTENDS Server

CONSTANTS
  p, q, r,                  (* connections                                 *)
  ana, bia, caio,           (* user names                                  *)
  long,                     (* a text of which caio are the first 15 letters *)
  oi                        (* what posts say                              *)

ConnectAs(user) == [NoMessage EXCEPT !.type = "CONNECT", !.username = user]
Tell            == [NoMessage EXCEPT !.type = "POST", !.content = oi]
FollowUser(user) == [NoMessage EXCEPT !.type = "FOLLOW", !.content = user]
Read            == [NoMessage EXCEPT !.type = "READ"]
Unknown         == NoMessage

(* Of all texts, long alone does not fit an array of USER_SIZE.            *)
Cut == [t \in String |-> IF t = long THEN caio ELSE t]

(* An author, a follower who may go away, and a third client who takes his *)
(* slot, shares his name, is refused, or names himself twice and sends a   *)
(* message of another type.                                                *)
ReuseOfASlot ==
  {[c \in {p, q, r} |->
      CASE c = p -> <<ConnectAs(ana), Tell>>
        [] c = q -> <<ConnectAs(bia), FollowUser(ana)>>
        [] c = r -> third] :
     third \in {<<ConnectAs(bia), Read>>, <<Read>>,
                <<ConnectAs(caio), ConnectAs(ana), Unknown>>}}

(* An author, whose name is as long as may be; somebody who follows more   *)
(* than this name several times, as no client of the repository would; and *)
(* a third client, of the same name as he.                                 *)
LongTexts(author, third) ==
  [c \in {p, q, r} |->
     CASE c = p -> author
       [] c = q -> <<ConnectAs(bia), FollowUser(long), FollowUser(long), FollowUser(long)>>
       [] c = r -> third]

ReuseOrLongTexts ==
  ReuseOfASlot \cup {LongTexts(<<ConnectAs(caio), Tell>>, <<ConnectAs(bia)>>)}

(* Two authors, one with two posts, and a follower of both, who follows    *)
(* one of them twice and reads while they post.                            *)
TwoAuthors ==
  {[c \in {p, q, r} |->
      CASE c = p -> <<ConnectAs(ana), Tell, Tell>>
        [] c = q -> <<ConnectAs(bia), Tell>>
        [] c = r -> <<ConnectAs(caio), FollowUser(ana), FollowUser(bia), FollowUser(ana), Read>>]}

(* A follower of one author, what else he sends, and a third client.       *)
FollowerAnd(more, third) ==
  [c \in {p, q, r} |->
     CASE c = p -> <<ConnectAs(ana), Tell>>
       [] c = q -> <<ConnectAs(bia), FollowUser(ana)>> \o more
       [] c = r -> third]

(* Two authors; the same name on two connections, which both follow the    *)
(* author; or texts that are cut, the author's own among them.             *)
SeveralAuthors ==
  TwoAuthors \cup
    {FollowerAnd(<<Read>>, <<ConnectAs(bia), FollowUser(ana), FollowUser(bia)>>),
     LongTexts(<<ConnectAs(caio), FollowUser(long), Tell>>, <<ConnectAs(bia), FollowUser(caio)>>)}

(* The same, or a client who is refused for his empty name.                *)
SharedNameOrRefused ==
  {FollowerAnd(<<Read>>, <<ConnectAs(bia)>>), FollowerAnd(<<>>, <<ConnectAs(Empty)>>)}

(* An author, a follower, and a client who reads.                          *)
AuthorFollowerReader ==
  {[c \in {p, q, r} |->
      CASE c = p -> <<ConnectAs(ana), Tell>>
        [] c = q -> <<ConnectAs(bia), FollowUser(ana)>>
        [] c = r -> <<ConnectAs(caio), Read>>]}

(* One client, who registers and sends a message of another type.          *)
OneUnknown ==
  {[c \in {q, r} |-> IF c = q THEN <<ConnectAs(bia), Unknown>> ELSE <<ConnectAs(caio), Read>>]}
=============================================================================

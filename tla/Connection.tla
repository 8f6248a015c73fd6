----------------------------- MODULE Connection -----------------------------
(***************************************************************************)
(* What the server promises to one connection, and all that a client may   *)
(* rely on.  Messages are taken in order; a READ is answered by at most    *)
(* FeedMaxSize items and an end; pushes can come at any moment.  Only a    *)
(* client that is gone, or whose message is refused, is left, unless the   *)
(* whole process ends.                                                     *)
(***************************************************************************)
EXTENDS Naturals, Sequences

CONSTANT FeedMaxSize  (* FEED_MAX_SIZE                                     *)

ASSUME FeedMaxSizeAssumption == FeedMaxSize \in Nat

(* "NAMELESS" is a CONNECT without a name, "OTHER" any type without a case. *)
Sent == {"CONNECT", "NAMELESS", "POST", "FOLLOW", "READ", "OTHER"}

(* A MSG_PUSH is an item of an answer or live; nothing in it says which.   *)
FeedItem == [type |-> "PUSH", live |-> FALSE]
LivePush == [type |-> "PUSH", live |-> TRUE]
End      == [type |-> "END", live |-> FALSE]
Items    == {FeedItem, LivePush, End}

VARIABLES
  client_up,    (* the client has not gone                                 *)
  to_server, from_server,
  server,       (* what the server does with the connection                *)
  registered,   (* the server knows the client's name                      *)
  items_left    (* of the answer it is sending                             *)

connVars == <<client_up, to_server, from_server, server, registered, items_left>>

Gone == server \in {"closed", "ended"}

(* What is sent to a client that is gone, nobody gets.                     *)
Deliver(item) ==
  from_server' = IF client_up THEN Append(from_server, item) ELSE from_server

(* The connection gets a slot and a thread, or is closed for want of one.  *)
ServerStarts ==
  /\ server = "backlog" /\ server' = "idle"
  /\ UNCHANGED <<client_up, to_server, from_server, registered, items_left>>

Refused(m) == m = "NAMELESS" \/ (~registered /\ m # "CONNECT")

(* A message of another type is not taken, nor is what comes after it.     *)
ServerReceives ==
  /\ server = "idle" /\ to_server # <<>>
  /\ LET m == Head(to_server)
     IN  IF Refused(m)
         THEN server' = "leaving" /\ to_server' = <<>> /\ UNCHANGED <<registered, items_left>>
         ELSE /\ m # "OTHER"
              /\ to_server' = Tail(to_server) /\ registered' = TRUE
              /\ IF m = "READ" THEN server' = "answering" /\ items_left' \in 0 .. FeedMaxSize
                              ELSE UNCHANGED <<server, items_left>>
  /\ UNCHANGED <<client_up, from_server>>

SendItem ==
  /\ server = "answering" /\ items_left > 0
  /\ Deliver(FeedItem)
  /\ items_left' = items_left - 1
  /\ UNCHANGED <<client_up, to_server, server, registered>>

SendEnd ==
  /\ server = "answering" /\ items_left = 0
  /\ Deliver(End)
  /\ server' = "idle"
  /\ UNCHANGED <<client_up, to_server, registered, items_left>>

ServerPushes ==
  /\ ~Gone
  /\ Deliver(LivePush)
  /\ UNCHANGED <<client_up, to_server, server, registered, items_left>>

ServerLeaves ==
  /\ server = "idle" /\ ~client_up /\ to_server = <<>>
  /\ server' = "leaving"
  /\ UNCHANGED <<client_up, to_server, from_server, registered, items_left>>

(* A push that another thread is sending keeps the socket open until then. *)
ServerCloses ==
  /\ server \in {"backlog", "leaving"}
  /\ server' = "closed" /\ to_server' = <<>>
  /\ Deliver(LivePush) \/ UNCHANGED from_server
  /\ UNCHANGED <<client_up, registered, items_left>>

ServerEnds ==
  /\ server # "ended"
  /\ server' = "ended" /\ to_server' = <<>> /\ items_left' = 0
  /\ UNCHANGED <<client_up, from_server, registered>>

(* What is sent to a server that takes no more is lost.                    *)
ClientSends(m) ==
  /\ client_up
  /\ to_server' = IF Gone \/ server = "leaving" THEN to_server ELSE Append(to_server, m)
  /\ UNCHANGED <<client_up, from_server, server, registered, items_left>>

ClientReceives ==
  /\ client_up /\ from_server # <<>>
  /\ from_server' = Tail(from_server)
  /\ UNCHANGED <<client_up, to_server, server, registered, items_left>>

(* Some of what the client sent may still arrive.                          *)
ClientLeaves ==
  /\ client_up /\ client_up' = FALSE
  /\ \E n \in 0 .. Len(to_server) : to_server' = SubSeq(to_server, 1, n)
  /\ UNCHANGED <<from_server, server, registered, items_left>>

ConnInit ==
  /\ client_up = TRUE
  /\ to_server \in Seq(Sent) /\ from_server = <<>>
  /\ server = "backlog" /\ registered = FALSE /\ items_left = 0

ServerStep ==
  \/ ServerStarts \/ ServerReceives \/ SendItem \/ SendEnd \/ ServerPushes
  \/ ServerLeaves \/ ServerCloses \/ ServerEnds

ConnNext ==
  \/ ServerStep \/ ClientReceives \/ ClientLeaves
  \/ \E m \in Sent : ClientSends(m)

ConnSpec == ConnInit /\ [][ConnNext]_connVars

ConnTypeOK ==
  /\ client_up \in BOOLEAN /\ registered \in BOOLEAN
  /\ to_server \in Seq(Sent) /\ from_server \in Seq(Items)
  /\ server \in {"backlog", "idle", "answering", "leaving", "closed", "ended"}
  /\ items_left \in 0 .. FeedMaxSize
=============================================================================

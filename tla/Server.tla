------------------------------- MODULE Server -------------------------------
(***************************************************************************)
(* The server: the main thread that accepts connections and gives each a   *)
(* slot of clients[] and a thread, and the threads (handleClientConnection)*)
(* that serve them.  A thread is named by the connection it serves.        *)
(*                                                                         *)
(* The grain: an access to the counter, the feed, the follow list or the   *)
(* slots under their mutex is one step; where the code reads or writes a   *)
(* slot without clients_mutex, or a mutex of a slot is replaced, every     *)
(* access is a step of its own.                                            *)
(***************************************************************************)
EXTENDS FeedArray, FollowList

CONSTANTS
  Conns,          (* the connections clients open, one after or beside another *)
  NoConn,
  MaxClients,     (* MAX_CLIENTS: 128 in the code                          *)
  NumFds,         (* descriptors the process may have open for clients     *)
  Scripts,        (* what the clients may send: sets of [Conns -> Seq]     *)
  LeavingPeers,   (* the clients that may go away                          *)
  SlowPeers,      (* the clients that may stop reading                     *)
  CreateMayFail,  (* whether pthread_create may fail                       *)
  MaxPosts        (* bound: no choice of scripts has more POSTs than this  *)

ASSUME ServerAssumption ==
  /\ NoConn \notin Conns
  /\ MaxClients \in Nat \ {0}
  /\ NumFds \in Nat \ {0}
  /\ LeavingPeers \subseteq Conns
  /\ SlowPeers \subseteq Conns
  /\ CreateMayFail \in BOOLEAN
  /\ MaxPosts \in Nat

Slots == 0 .. MaxClients - 1
Fds   == 1 .. NumFds          (* 0 is what a slot never used holds         *)

(* The types of message a client may send; "OTHER" is any type the switch  *)
(* of RECEIVED_MSG has no case for.                                        *)
Message ==
  [type     : {"CONNECT", "POST", "FOLLOW", "READ", "OTHER"},
   msg_id   : 0 .. IdModulus - 1,
   username : String,
   content  : String]

(* strncpy into an array of USER_SIZE and the 0 after it: a text that was   *)
(* cut is not cut again, and something is left of every text.              *)
ASSUME StoredAssumption ==
  /\ Stored \in [String -> String]
  /\ \A t \in String : Stored[Stored[t]] = Stored[t]
  /\ \A t \in String : Stored[t] = Empty <=> t = Empty

NoMessage == [type |-> "OTHER", msg_id |-> 0, username |-> Empty, content |-> Empty]

ASSUME ScriptsAssumption == Scripts \subseteq [Conns -> Seq(Message)]

(* The POSTs in what clients send: whose, and in which place.              *)
PostsIn(box) == UNION {{c} \X {k \in DOMAIN box[c] : box[c][k].type = "POST"} : c \in Conns}

ASSUME PostsAssumption ==
  \A script \in Scripts :
    IsFiniteSet(PostsIn(script)) /\ Cardinality(PostsIn(script)) <= MaxPosts

VARIABLES
  (* The clients and their sockets.                                        *)
  peer,           (* each client: new, reading, stalled, closed, reset     *)
  inbox,          (* what each client has sent and the server not yet read *)
  rcvd,           (* history: what was sent to each client, in order       *)
  fdTable,        (* which connection each open descriptor is              *)
  up,             (* FALSE once a signal has ended the process             *)
  (* The globals of server.c.                                              *)
  clients, send_mutex, msg_id_counter, feed_messages, follow_list,
  (* main and waitForClientConnection.                                     *)
  main_pc, client_socket, new_index,
  (* The locals of each thread.                                            *)
  pc, client_index, client_fd, msg_received,
  to_notify, slots, sock, target,
  feed_to_send, next_item,
  (* History, to state properties with.                                    *)
  log,            (* the posts in the order they entered the feed          *)
  name,           (* the user name each connection registered              *)
  due,            (* who the post a thread is sending has still to reach   *)
  aim,            (* the connections a thread found in the slots it chose  *)
  clobbered       (* slots whose mutex was initialised while it was held   *)

peerVars    == <<peer, inbox, rcvd>>
kernelVars  == <<fdTable, up>>
slotVars    == <<clients, send_mutex>>
feedVars    == <<msg_id_counter, feed_messages, log>>
mainVars    == <<main_pc, client_socket, new_index>>
threadVars  == <<client_index, client_fd, msg_received>>
postVars    == <<to_notify, slots, sock, target>>
readVars    == <<feed_to_send, next_item>>
pushHistory == <<due, aim>>

vars == <<peerVars, kernelVars, slotVars, feedVars, follow_list, mainVars, pc,
          threadVars, postVars, readVars, pushHistory, name, clobbered>>

NoAim == [s \in Slots |-> NoConn]

Init ==
  /\ peer = [c \in Conns |-> "new"]
  /\ inbox \in Scripts
  /\ rcvd = [c \in Conns |-> <<>>]
  /\ fdTable = [f \in Fds |-> NoConn]
  /\ up = TRUE
  /\ clients = [s \in Slots |-> [active |-> FALSE, client_fd |-> 0, username |-> Empty]]
  /\ send_mutex = [s \in Slots |-> FALSE]
  /\ msg_id_counter = 0
  /\ feed_messages = EmptyFeed
  /\ follow_list = <<>>
  /\ main_pc = "accept"
  /\ client_socket = 0
  /\ new_index = 0
  /\ pc = [c \in Conns |-> "none"]
  /\ client_index = [c \in Conns |-> 0]
  /\ client_fd = [c \in Conns |-> 0]
  /\ msg_received = [c \in Conns |-> NoMessage]
  /\ to_notify = [c \in Conns |-> <<>>]
  /\ slots = [c \in Conns |-> {}]
  /\ sock = [c \in Conns |-> 0]
  /\ target = [c \in Conns |-> NoConn]
  /\ feed_to_send = [c \in Conns |-> <<>>]
  /\ next_item = [c \in Conns |-> 1]
  /\ log = <<>>
  /\ name = [c \in Conns |-> Empty]
  /\ due = [c \in Conns |-> {}]
  /\ aim = [c \in Conns |-> NoAim]
  /\ clobbered = {}

Lowest(S) == CHOOSE x \in S : \A y \in S : x <= y

-----------------------------------------------------------------------------
(* The clients, as the server sees them.                                   *)

Here(c) == peer[c] \in {"reading", "stalled"}

(* A client goes away, at any point of what it was going to send.  The     *)
(* server gets a FIN, or a RST when the client left data unread.           *)
Leave(c) ==
  /\ c \in LeavingPeers /\ Here(c)
  /\ \E how \in {"closed", "reset"} : peer' = [peer EXCEPT ![c] = how]
  /\ \E n \in 0 .. Len(inbox[c]) :
       inbox' = [inbox EXCEPT ![c] = SubSeq(inbox[c], 1, n)]
  /\ UNCHANGED <<rcvd, kernelVars, slotVars, feedVars, follow_list, mainVars, pc,
                 threadVars, postVars, readVars, pushHistory, name, clobbered>>

(* A client stops reading until the buffers of its connection are full, or *)
(* reads again.                                                            *)
StallOrResume(c) ==
  /\ c \in SlowPeers /\ Here(c)
  /\ peer' = [peer EXCEPT ![c] = IF peer[c] = "reading" THEN "stalled" ELSE "reading"]
  /\ UNCHANGED <<inbox, rcvd, kernelVars, slotVars, feedVars, follow_list, mainVars,
                 pc, threadVars, postVars, readVars, pushHistory, name, clobbered>>

(* send() with flags 0, once it does not block.  On a descriptor that is   *)
(* not open it fails.  To a client that is gone it succeeds and is         *)
(* answered by a RST; after the RST it fails, and the first or a later     *)
(* failure also raises SIGPIPE, whose default action ends the process.     *)
Send(d, item) ==
  /\ d \in Conns => peer[d] # "stalled"
  /\ rcvd' = IF d \in Conns /\ peer[d] = "reading"
             THEN [rcvd EXCEPT ![d] = Append(rcvd[d], item)]
             ELSE rcvd
  /\ peer' \in IF d \in Conns /\ peer[d] = "closed"
               THEN {peer, [peer EXCEPT ![d] = "reset"]}
               ELSE {peer}
  /\ up' \in IF d \in Conns /\ peer[d] = "reset" THEN BOOLEAN ELSE {TRUE}
  /\ UNCHANGED <<inbox, fdTable>>

OpenAt(f) == IF f \in Fds THEN fdTable[f] ELSE NoConn

-----------------------------------------------------------------------------
(* main and waitForClientConnection.  clients_mutex is held over more than *)
(* one step only here, while a slot is being initialised.                  *)

ClientsMutexFree == main_pc \notin {"store_fd", "init_slot"}

(* accept(): the kernel gives the lowest free descriptor.  With none free  *)
(* it fails, and main calls it again.                                      *)
Accept ==
  /\ main_pc = "accept"
  /\ \E c \in Conns :
       /\ peer[c] = "new"
       /\ \E f \in Fds :
            /\ fdTable[f] = NoConn
            /\ \A g \in Fds : fdTable[g] = NoConn => f <= g
            /\ fdTable' = [fdTable EXCEPT ![f] = c]
            /\ client_socket' = f
       /\ peer' = [peer EXCEPT ![c] = "reading"]
  /\ main_pc' = "find_slot"
  /\ UNCHANGED <<inbox, rcvd, up, slotVars, feedVars, follow_list, new_index, pc,
                 threadVars, postVars, readVars, pushHistory, name, clobbered>>

(* Mutant: the search takes a slot that is in use.                         *)
FreeSlots_AnySlot == Slots

FreeSlots == {s \in Slots : ~clients[s].active}

(* The first inactive slot becomes active; its descriptor, name and mutex  *)
(* are still those of the connection that used it before.                  *)
ClaimSlot ==
  /\ main_pc = "find_slot"
  /\ FreeSlots # {}
  /\ new_index' = Lowest(FreeSlots)
  /\ clients' = [clients EXCEPT ![Lowest(FreeSlots)].active = TRUE]
  /\ main_pc' = "store_fd"
  /\ UNCHANGED <<peerVars, kernelVars, send_mutex, feedVars, follow_list,
                 client_socket, pc, threadVars, postVars, readVars, pushHistory,
                 name, clobbered>>

(* No slot is inactive: the connection is closed and main accepts again.   *)
RejectClient ==
  /\ main_pc = "find_slot"
  /\ FreeSlots = {}
  /\ fdTable' = [fdTable EXCEPT ![client_socket] = NoConn]
  /\ main_pc' = "accept"
  /\ UNCHANGED <<peerVars, up, slotVars, feedVars, follow_list, client_socket,
                 new_index, pc, threadVars, postVars, readVars, pushHistory, name,
                 clobbered>>

StoreFd ==
  /\ main_pc = "store_fd"
  /\ clients' = [clients EXCEPT ![new_index].client_fd = client_socket]
  /\ main_pc' = "init_slot"
  /\ UNCHANGED <<peerVars, kernelVars, send_mutex, feedVars, follow_list,
                 client_socket, new_index, pc, threadVars, postVars, readVars,
                 pushHistory, name, clobbered>>

(* Mutant: the name of the slot is not cleared.                            *)
InitSlot_KeepsName ==
  /\ main_pc = "init_slot"
  /\ send_mutex' = [send_mutex EXCEPT ![new_index] = FALSE]
  /\ clobbered' = IF send_mutex[new_index] THEN clobbered \cup {new_index} ELSE clobbered
  /\ main_pc' = "create"
  /\ UNCHANGED <<peerVars, kernelVars, clients, feedVars, follow_list, client_socket,
                 new_index, pc, threadVars, postVars, readVars, pushHistory, name>>

(* The name is cleared and the mutex initialised, whoever holds it, and    *)
(* clients_mutex is released.                                              *)
InitSlot ==
  /\ main_pc = "init_slot"
  /\ clients' = [clients EXCEPT ![new_index].username = Empty]
  /\ send_mutex' = [send_mutex EXCEPT ![new_index] = FALSE]
  /\ clobbered' = IF send_mutex[new_index] THEN clobbered \cup {new_index} ELSE clobbered
  /\ main_pc' = "create"
  /\ UNCHANGED <<peerVars, kernelVars, feedVars, follow_list, client_socket,
                 new_index, pc, threadVars, postVars, readVars, pushHistory, name>>

CreateThread ==
  /\ main_pc = "create"
  /\ LET c == fdTable[client_socket]
     IN  /\ pc' = [pc EXCEPT ![c] = "start"]
         /\ client_index' = [client_index EXCEPT ![c] = new_index]
  /\ main_pc' = "accept"
  /\ UNCHANGED <<peerVars, kernelVars, slotVars, feedVars, follow_list,
                 client_socket, new_index, client_fd, msg_received, postVars,
                 readVars, pushHistory, name, clobbered>>

(* Mutant: the slot is not given back.                                     *)
CreateThreadFails_KeepsSlot ==
  /\ main_pc = "create" /\ CreateMayFail
  /\ main_pc' = "close"
  /\ UNCHANGED <<peerVars, kernelVars, slotVars, feedVars, follow_list,
                 client_socket, new_index, pc, threadVars, postVars, readVars,
                 pushHistory, name, clobbered>>

(* pthread_create fails: the slot is given back, then the socket closed.   *)
CreateThreadFails ==
  /\ main_pc = "create" /\ CreateMayFail
  /\ clients' = [clients EXCEPT ![new_index].active = FALSE]
  /\ main_pc' = "close"
  /\ UNCHANGED <<peerVars, kernelVars, send_mutex, feedVars, follow_list,
                 client_socket, new_index, pc, threadVars, postVars, readVars,
                 pushHistory, name, clobbered>>

CloseRefused ==
  /\ main_pc = "close"
  /\ fdTable' = [fdTable EXCEPT ![client_socket] = NoConn]
  /\ main_pc' = "accept"
  /\ UNCHANGED <<peerVars, up, slotVars, feedVars, follow_list, client_socket,
                 new_index, pc, threadVars, postVars, readVars, pushHistory, name,
                 clobbered>>

MainStep ==
  \/ Accept \/ ClaimSlot \/ RejectClient \/ StoreFd \/ InitSlot
  \/ CreateThread \/ CreateThreadFails \/ CloseRefused

-----------------------------------------------------------------------------
(* handleClientConnection, by the connection c it serves.                  *)

(* The steps that leave everything but the thread's place in its code.     *)
Goto(c, place) == pc' = [pc EXCEPT ![c] = place]

Mine(c) == clients[client_index[c]]

(* Mutant: the index is passed by reference, and read when the thread runs. *)
Start_ByReference(c) ==
  /\ pc[c] = "start" /\ ClientsMutexFree
  /\ client_index' = [client_index EXCEPT ![c] = new_index]
  /\ client_fd' = [client_fd EXCEPT ![c] = clients[new_index].client_fd]
  /\ Goto(c, "waiting")
  /\ UNCHANGED <<peerVars, kernelVars, slotVars, feedVars, follow_list, mainVars,
                 msg_received, postVars, readVars, pushHistory, name, clobbered>>

(* The slot is read under clients_mutex: its descriptor is taken once and  *)
(* used by the thread to the end.                                          *)
Start(c) ==
  /\ pc[c] = "start" /\ ClientsMutexFree
  /\ IF Mine(c).active
     THEN /\ client_fd' = [client_fd EXCEPT ![c] = Mine(c).client_fd]
          /\ Goto(c, "waiting")
     ELSE /\ UNCHANGED client_fd
          /\ Goto(c, "done")
  /\ UNCHANGED <<peerVars, kernelVars, slotVars, feedVars, follow_list, mainVars,
                 client_index, msg_received, postVars, readVars, pushHistory, name,
                 clobbered>>

(* readMessageFromClient: a whole message, whatever its pieces.            *)
ReceiveMessage(c) ==
  /\ pc[c] = "waiting" /\ inbox[c] # <<>>
  /\ msg_received' = [msg_received EXCEPT ![c] = Head(inbox[c])]
  /\ inbox' = [inbox EXCEPT ![c] = Tail(inbox[c])]
  /\ Goto(c, "received")
  /\ UNCHANGED <<peer, rcvd, kernelVars, slotVars, feedVars, follow_list, mainVars,
                 client_index, client_fd, postVars, readVars, pushHistory, name,
                 clobbered>>

(* The three exits of a thread make its slot inactive, under clients_mutex *)
(* and leave the name and the descriptor in it; Close comes after.         *)
LeaveSlot(c) ==
  /\ ClientsMutexFree
  /\ clients' = [clients EXCEPT ![client_index[c]].active = FALSE]
  /\ Goto(c, "close")
  /\ UNCHANGED <<peerVars, kernelVars, send_mutex, feedVars, follow_list, mainVars,
                 threadVars, postVars, readVars, pushHistory, name, clobbered>>

(* Mutant: recv() returning 0 is not taken for an end.                     *)
Disconnect_OnErrorOnly(c) ==
  /\ pc[c] = "waiting" /\ inbox[c] = <<>> /\ peer[c] = "reset"
  /\ LeaveSlot(c)

(* recv() says that the client is gone.                                    *)
Disconnect(c) ==
  /\ pc[c] = "waiting" /\ inbox[c] = <<>> /\ peer[c] \in {"closed", "reset"}
  /\ LeaveSlot(c)

Registered(c) == Mine(c).active /\ Mine(c).username # Empty

(* A client must register before it sends anything else.                   *)
RefuseUnregistered(c) ==
  /\ pc[c] = "received"
  /\ ~Registered(c) /\ msg_received[c].type # "CONNECT"
  /\ LeaveSlot(c)

(* RECEIVED_MSG: the name the client put in its message is replaced by the *)
(* registered one.  A type without a case leaves thread_state as it is.    *)
Dispatch(c) ==
  /\ pc[c] = "received" /\ ClientsMutexFree
  /\ Registered(c) \/ msg_received[c].type = "CONNECT"
  /\ msg_received' =
       IF msg_received[c].type = "CONNECT"
       THEN msg_received
       ELSE [msg_received EXCEPT ![c].username = Mine(c).username]
  /\ Goto(c, CASE msg_received[c].type = "CONNECT" -> "connect"
               [] msg_received[c].type = "POST"    -> "post"
               [] msg_received[c].type = "FOLLOW"  -> "follow"
               [] msg_received[c].type = "READ"    -> "read"
               [] OTHER                            -> "received")
  /\ UNCHANGED <<peerVars, kernelVars, slotVars, feedVars, follow_list, mainVars,
                 client_index, client_fd, postVars, readVars, pushHistory, name,
                 clobbered>>

RefuseEmptyName(c) ==
  /\ pc[c] = "connect" /\ msg_received[c].username = Empty
  /\ LeaveSlot(c)

(* Mutant: every CONNECT names the slot.                                   *)
Register_Anew(c) ==
  /\ pc[c] = "connect" /\ msg_received[c].username # Empty /\ ClientsMutexFree
  /\ IF Mine(c).active
     THEN LET User == Stored[msg_received[c].username]
          IN  /\ clients' = [clients EXCEPT ![client_index[c]].username = User]
              /\ msg_received' = [msg_received EXCEPT ![c].username = User]
              /\ name' = [name EXCEPT ![c] = User]
     ELSE UNCHANGED <<clients, msg_received, name>>
  /\ Goto(c, "waiting")
  /\ UNCHANGED <<peerVars, kernelVars, send_mutex, feedVars, follow_list, mainVars,
                 client_index, client_fd, postVars, readVars, pushHistory, clobbered>>

(* The first CONNECT names the slot, a later one changes nothing.          *)
Register(c) ==
  /\ pc[c] = "connect" /\ msg_received[c].username # Empty /\ ClientsMutexFree
  /\ IF Mine(c).active
     THEN LET User == IF Mine(c).username = Empty THEN Stored[msg_received[c].username]
                                                  ELSE Mine(c).username
          IN  /\ clients' = [clients EXCEPT ![client_index[c]].username = User]
              /\ msg_received' = [msg_received EXCEPT ![c].username = User]
              /\ name' = [name EXCEPT ![c] = User]
     ELSE UNCHANGED <<clients, msg_received, name>>
  /\ Goto(c, "waiting")
  /\ UNCHANGED <<peerVars, kernelVars, send_mutex, feedVars, follow_list, mainVars,
                 client_index, client_fd, postVars, readVars, pushHistory, clobbered>>

Close(c) ==
  /\ pc[c] = "close"
  /\ fdTable' = [fdTable EXCEPT ![client_fd[c]] = NoConn]
  /\ Goto(c, "done")
  /\ UNCHANGED <<peerVars, up, slotVars, feedVars, follow_list, mainVars, threadVars,
                 postVars, readVars, pushHistory, name, clobbered>>

(* processFollowMessage                                                    *)
Follow(c) ==
  /\ pc[c] = "follow"
  /\ follow_list' =
       AddFollow(follow_list, msg_received[c].username, msg_received[c].content)
  /\ Goto(c, "waiting")
  /\ UNCHANGED <<peerVars, kernelVars, slotVars, feedVars, mainVars, threadVars,
                 postVars, readVars, pushHistory, name, clobbered>>

-----------------------------------------------------------------------------
(* processPostMessage                                                      *)

PostOf(m) == [msg_id |-> m.msg_id, username |-> m.username, content |-> m.content]

(* Mutant: the id is not stored in the message.                            *)
AssignId_NotStored(c) ==
  /\ pc[c] = "post"
  /\ msg_id_counter' = NextId(msg_id_counter)
  /\ Goto(c, "add")
  /\ UNCHANGED <<peerVars, kernelVars, slotVars, feed_messages, log, follow_list,
                 mainVars, threadVars, postVars, readVars, pushHistory, name, clobbered>>

(* incrementMsgIdCounter                                                   *)
AssignId(c) ==
  /\ pc[c] = "post"
  /\ msg_id_counter' = NextId(msg_id_counter)
  /\ msg_received' = [msg_received EXCEPT ![c].msg_id = NextId(msg_id_counter)]
  /\ Goto(c, "add")
  /\ UNCHANGED <<peerVars, kernelVars, slotVars, feed_messages, log, follow_list,
                 mainVars, client_index, client_fd, postVars, readVars, pushHistory,
                 name, clobbered>>

(* addMsgToFeed                                                            *)
AddToFeed(c) ==
  /\ pc[c] = "add"
  /\ feed_messages' = ShiftIn(feed_messages, PostOf(msg_received[c]))
  /\ log' = Append(log, [post |-> PostOf(msg_received[c]), by |-> c])
  /\ Goto(c, "collect")
  /\ UNCHANGED <<peerVars, kernelVars, slotVars, msg_id_counter, follow_list, mainVars,
                 threadVars, postVars, readVars, pushHistory, name, clobbered>>

(* The connections that are in session: their thread has not given the     *)
(* slot back.                                                              *)
InSession(d) == pc[d] \notin {"none", "close", "done"}

(* The names of the followers, under follow_mutex.                         *)
CollectFollowers(c) ==
  /\ pc[c] = "collect"
  /\ to_notify' = [to_notify EXCEPT ![c] =
       FollowersOf(follow_list, msg_received[c].username, MaxClients)]
  /\ due' = [due EXCEPT ![c] =
       {d \in Conns : InSession(d) /\ Follows(follow_list, name[d], msg_received[c].username)}]
  /\ Goto(c, "notify")
  /\ UNCHANGED <<peerVars, kernelVars, slotVars, feedVars, follow_list, mainVars,
                 threadVars, slots, sock, target, readVars, aim, name, clobbered>>

(* Mutants: the search ends at the first slot found, or one slot early.    *)
SlotsOf_FirstOnly(user) ==
  {s \in Slots : /\ clients[s].active /\ clients[s].username = user
                 /\ \A i \in Slots : i < s => ~(clients[i].active /\ clients[i].username = user)}

SlotsOf_OffByOne(user) ==
  {s \in Slots : s < MaxClients - 1 /\ clients[s].active /\ clients[s].username = user}

SlotsOf(user) == {s \in Slots : clients[s].active /\ clients[s].username = user}

(* The active slots of one follower, under clients_mutex.                  *)
CollectSlots(c) ==
  /\ pc[c] = "notify" /\ to_notify[c] # <<>> /\ ClientsMutexFree
  /\ slots' = [slots EXCEPT ![c] = SlotsOf(Head(to_notify[c]))]
  /\ aim' = [aim EXCEPT ![c] = [s \in Slots |->
       IF \E d \in Conns : InSession(d) /\ client_index[d] = s
       THEN CHOOSE d \in Conns : InSession(d) /\ client_index[d] = s
       ELSE NoConn]]
  /\ Goto(c, "lock")
  /\ UNCHANGED <<peerVars, kernelVars, slotVars, feedVars, follow_list, mainVars,
                 threadVars, to_notify, sock, target, readVars, due, name, clobbered>>

FinishPost(c) ==
  /\ pc[c] = "notify" /\ to_notify[c] = <<>>
  /\ Goto(c, "waiting")
  /\ UNCHANGED <<peerVars, kernelVars, slotVars, feedVars, follow_list, mainVars,
                 threadVars, postVars, readVars, pushHistory, name, clobbered>>

(* idx, the slot the push is being sent to.                                *)
Idx(c) == Lowest(slots[c])

(* Mutant: the push does not wait for the mutex.                           *)
LockForPush_NoWait(c) ==
  /\ pc[c] = "lock" /\ slots[c] # {}
  /\ send_mutex' = [send_mutex EXCEPT ![Idx(c)] = TRUE]
  /\ Goto(c, "check")
  /\ UNCHANGED <<peerVars, kernelVars, clients, feedVars, follow_list, mainVars,
                 threadVars, postVars, readVars, pushHistory, name, clobbered>>

LockForPush(c) ==
  /\ pc[c] = "lock" /\ slots[c] # {}
  /\ ~send_mutex[Idx(c)]
  /\ send_mutex' = [send_mutex EXCEPT ![Idx(c)] = TRUE]
  /\ Goto(c, "check")
  /\ UNCHANGED <<peerVars, kernelVars, clients, feedVars, follow_list, mainVars,
                 threadVars, postVars, readVars, pushHistory, name, clobbered>>

NextFollower(c) ==
  /\ pc[c] = "lock" /\ slots[c] = {}
  /\ to_notify' = [to_notify EXCEPT ![c] = Tail(to_notify[c])]
  /\ aim' = [aim EXCEPT ![c] = NoAim]
  /\ Goto(c, "notify")
  /\ UNCHANGED <<peerVars, kernelVars, slotVars, feedVars, follow_list, mainVars,
                 threadVars, slots, sock, target, readVars, due, name, clobbered>>

(* The second look at the slot, without clients_mutex.                     *)
CheckSlot(c) ==
  /\ pc[c] = "check"
  /\ Goto(c, IF Idx(c) \in SlotsOf(Head(to_notify[c])) THEN "fd" ELSE "unlock")
  /\ UNCHANGED <<peerVars, kernelVars, slotVars, feedVars, follow_list, mainVars,
                 threadVars, postVars, readVars, pushHistory, name, clobbered>>

ReadFd(c) ==
  /\ pc[c] = "fd"
  /\ sock' = [sock EXCEPT ![c] = clients[Idx(c)].client_fd]
  /\ Goto(c, "send")
  /\ UNCHANGED <<peerVars, kernelVars, slotVars, feedVars, follow_list, mainVars,
                 threadVars, to_notify, slots, target, readVars, pushHistory, name,
                 clobbered>>

(* A push as a history entry: the post, the thread that sent it and the    *)
(* connection it was meant for.                                            *)
Push(c) == [kind |-> "push", msg_id |-> msg_received[c].msg_id, by |-> c,
            to |-> aim[c][Idx(c)]]

(* send() of the push.  The system call resolves the descriptor; if the    *)
(* connection cannot take more it blocks, on that connection.              *)
EnterSend(c) ==
  /\ pc[c] = "send"
  /\ target' = [target EXCEPT ![c] = OpenAt(sock[c])]
  /\ Goto(c, "sending")
  /\ UNCHANGED <<peerVars, kernelVars, slotVars, feedVars, follow_list, mainVars,
                 threadVars, to_notify, slots, sock, readVars, pushHistory, name,
                 clobbered>>

SendPush(c) ==
  /\ pc[c] = "sending"
  /\ Send(target[c], Push(c))
  /\ due' = [due EXCEPT ![c] = due[c] \ {target[c]}]
  /\ Goto(c, "unlock")
  /\ UNCHANGED <<slotVars, feedVars, follow_list, mainVars, threadVars, postVars,
                 readVars, aim, name, clobbered>>

(* Mutant: the mutex is not released.                                      *)
UnlockPush_Forgotten(c) ==
  /\ pc[c] = "unlock"
  /\ slots' = [slots EXCEPT ![c] = slots[c] \ {Idx(c)}]
  /\ sock' = [sock EXCEPT ![c] = 0]
  /\ target' = [target EXCEPT ![c] = NoConn]
  /\ Goto(c, "lock")
  /\ UNCHANGED <<peerVars, kernelVars, slotVars, feedVars, follow_list, mainVars,
                 threadVars, to_notify, readVars, pushHistory, name, clobbered>>

(* Mutant: the search goes on from the slot it was at.                     *)
UnlockPush_SameSlot(c) ==
  /\ pc[c] = "unlock"
  /\ send_mutex' = [send_mutex EXCEPT ![Idx(c)] = FALSE]
  /\ sock' = [sock EXCEPT ![c] = 0]
  /\ target' = [target EXCEPT ![c] = NoConn]
  /\ Goto(c, "lock")
  /\ UNCHANGED <<peerVars, kernelVars, clients, feedVars, follow_list, mainVars,
                 threadVars, to_notify, slots, readVars, pushHistory, name, clobbered>>

(* The mutex is a normal one: unlocking frees it whoever holds it.         *)
UnlockPush(c) ==
  /\ pc[c] = "unlock"
  /\ send_mutex' = [send_mutex EXCEPT ![Idx(c)] = FALSE]
  /\ slots' = [slots EXCEPT ![c] = slots[c] \ {Idx(c)}]
  /\ sock' = [sock EXCEPT ![c] = 0]
  /\ target' = [target EXCEPT ![c] = NoConn]
  /\ Goto(c, "lock")
  /\ UNCHANGED <<peerVars, kernelVars, clients, feedVars, follow_list, mainVars,
                 threadVars, to_notify, readVars, pushHistory, name, clobbered>>

-----------------------------------------------------------------------------
(* processReadMessage and sendFeedToClient                                 *)

(* getFeedMessages, before the mutex of the slot is taken.                 *)
GetFeedMessages(c) ==
  /\ pc[c] = "read"
  /\ feed_to_send' = [feed_to_send EXCEPT ![c] = FeedItems(feed_messages)]
  /\ next_item' = [next_item EXCEPT ![c] = 1]
  /\ Goto(c, "read_lock")
  /\ UNCHANGED <<peerVars, kernelVars, slotVars, feedVars, follow_list, mainVars,
                 threadVars, postVars, pushHistory, name, clobbered>>

(* Mutant: the answer is sent without the mutex.                           *)
LockForFeed_NoLock(c) ==
  /\ pc[c] = "read_lock"
  /\ Goto(c, "send_feed")
  /\ UNCHANGED <<peerVars, kernelVars, slotVars, feedVars, follow_list, mainVars,
                 threadVars, postVars, readVars, pushHistory, name, clobbered>>

LockForFeed(c) ==
  /\ pc[c] = "read_lock"
  /\ ~send_mutex[client_index[c]]
  /\ send_mutex' = [send_mutex EXCEPT ![client_index[c]] = TRUE]
  /\ Goto(c, "send_feed")
  /\ UNCHANGED <<peerVars, kernelVars, clients, feedVars, follow_list, mainVars,
                 threadVars, postVars, readVars, pushHistory, name, clobbered>>

(* The slot is the thread's own and is not given back meanwhile: reading   *)
(* its descriptor and sending are one step.                                *)
SendFeedItem(c) ==
  /\ pc[c] = "send_feed" /\ next_item[c] <= Len(feed_to_send[c])
  /\ Send(OpenAt(Mine(c).client_fd),
          [kind |-> "feed", msg_id |-> feed_to_send[c][next_item[c]].msg_id,
           by |-> c, to |-> c])
  /\ next_item' = [next_item EXCEPT ![c] = next_item[c] + 1]
  /\ UNCHANGED <<slotVars, feedVars, follow_list, mainVars, pc, threadVars, postVars,
                 feed_to_send, pushHistory, name, clobbered>>

(* Mutant: an answer without items has no end either.                      *)
SendEnd_AfterItemsOnly(c) ==
  /\ pc[c] = "send_feed" /\ next_item[c] > Len(feed_to_send[c])
  /\ IF feed_to_send[c] = <<>>
     THEN UNCHANGED <<peerVars, kernelVars>>
     ELSE Send(OpenAt(Mine(c).client_fd),
               [kind |-> "end", msg_id |-> 0, by |-> c, to |-> c])
  /\ Goto(c, "read_unlock")
  /\ UNCHANGED <<slotVars, feedVars, follow_list, mainVars, threadVars, postVars,
                 readVars, pushHistory, name, clobbered>>

SendEnd(c) ==
  /\ pc[c] = "send_feed" /\ next_item[c] > Len(feed_to_send[c])
  /\ Send(OpenAt(Mine(c).client_fd),
          [kind |-> "end", msg_id |-> 0, by |-> c, to |-> c])
  /\ Goto(c, "read_unlock")
  /\ UNCHANGED <<slotVars, feedVars, follow_list, mainVars, threadVars, postVars,
                 readVars, pushHistory, name, clobbered>>

UnlockFeed(c) ==
  /\ pc[c] = "read_unlock"
  /\ send_mutex' = [send_mutex EXCEPT ![client_index[c]] = FALSE]
  /\ Goto(c, "waiting")
  /\ UNCHANGED <<peerVars, kernelVars, clients, feedVars, follow_list, mainVars,
                 threadVars, postVars, readVars, pushHistory, name, clobbered>>

HandlerStep(c) ==
  \/ Start(c) \/ ReceiveMessage(c) \/ Disconnect(c) \/ Close(c)
  \/ RefuseUnregistered(c) \/ Dispatch(c) \/ RefuseEmptyName(c) \/ Register(c)
  \/ Follow(c)
  \/ AssignId(c) \/ AddToFeed(c) \/ CollectFollowers(c) \/ CollectSlots(c)
  \/ LockForPush(c) \/ CheckSlot(c) \/ ReadFd(c) \/ EnterSend(c) \/ SendPush(c)
  \/ UnlockPush(c) \/ NextFollower(c) \/ FinishPost(c)
  \/ GetFeedMessages(c) \/ LockForFeed(c) \/ SendFeedItem(c) \/ SendEnd(c)
  \/ UnlockFeed(c)

Next ==
  /\ up
  /\ \/ MainStep
     \/ \E c \in Conns : HandlerStep(c) \/ Leave(c) \/ StallOrResume(c)

Spec == Init /\ [][Next]_vars

(* The threads run: each takes the steps it can take.  A client owes       *)
(* nothing: it need not read, resume or leave.  The mutexes are not fair,  *)
(* but nothing is asked for without end (see README).                      *)
FairSpec ==
  /\ Spec
  /\ WF_vars(up /\ MainStep)
  /\ \A c \in Conns : WF_vars(up /\ HandlerStep(c))

-----------------------------------------------------------------------------
Places ==
  {"none", "start", "waiting", "received", "connect", "follow", "close", "done",
   "post", "add", "collect", "notify", "lock", "check", "fd", "send", "sending",
   "unlock", "read", "read_lock", "send_feed", "read_unlock"}

Item == [kind : {"push", "feed", "end"}, msg_id : 0 .. IdModulus - 1,
         by : Conns, to : Conns \cup {NoConn}]

ClientsTypeOK ==
  /\ peer \in [Conns -> {"new", "reading", "stalled", "closed", "reset"}]
  /\ inbox \in [Conns -> Seq(Message)]
  /\ rcvd \in [Conns -> Seq(Item)]

KernelTypeOK ==
  /\ fdTable \in [Fds -> Conns \cup {NoConn}]
  /\ up \in BOOLEAN

SlotsTypeOK ==
  /\ clients \in [Slots -> [active : BOOLEAN, client_fd : Fds \cup {0}, username : String]]
  /\ send_mutex \in [Slots -> BOOLEAN]
  /\ clobbered \subseteq Slots

FeedTypeOK ==
  /\ msg_id_counter \in 0 .. IdModulus - 1
  /\ feed_messages \in [Indices -> Post]
  /\ log \in Seq([post : Post, by : Conns])

FollowsTypeOK ==
  /\ follow_list \in Seq([follower : String, followed : String])
  /\ Len(follow_list) <= MaxFollows

MainTypeOK ==
  /\ main_pc \in {"accept", "find_slot", "store_fd", "init_slot", "create", "close"}
  /\ client_socket \in Fds \cup {0}
  /\ new_index \in Slots

ThreadsTypeOK ==
  /\ pc \in [Conns -> Places]
  /\ client_index \in [Conns -> Slots]
  /\ client_fd \in [Conns -> Fds \cup {0}]
  /\ msg_received \in [Conns -> Message]
  /\ name \in [Conns -> String]

PostsTypeOK ==
  /\ to_notify \in [Conns -> Seq(String)]
  /\ slots \in [Conns -> SUBSET Slots]
  /\ sock \in [Conns -> Fds \cup {0}]
  /\ target \in [Conns -> Conns \cup {NoConn}]
  /\ due \in [Conns -> SUBSET Conns]
  /\ aim \in [Conns -> [Slots -> Conns \cup {NoConn}]]

ReadsTypeOK ==
  /\ feed_to_send \in [Conns -> Seq(Post)]
  /\ next_item \in [Conns -> Nat \ {0}]

(* The variables have the types the C declarations give them, and the      *)
(* follow list fits its array.                                             *)
TypeOK ==
  /\ ClientsTypeOK /\ KernelTypeOK /\ SlotsTypeOK /\ FeedTypeOK /\ FollowsTypeOK
  /\ MainTypeOK /\ ThreadsTypeOK /\ PostsTypeOK /\ ReadsTypeOK

(* main has a slot or a descriptor in hand that no thread has yet.         *)
MainHasSlot(s) == main_pc \in {"store_fd", "init_slot", "create"} /\ new_index = s
MainHasFd(f)   == main_pc # "accept" /\ client_socket = f

(* The descriptor of a connection: before its thread has read it from the  *)
(* slot, and after.                                                        *)
FdOf(c) == IF pc[c] = "start" THEN Mine(c).client_fd ELSE client_fd[c]

(* The code uses its slot and its descriptor for as long as it runs        *)
(* without looking again whose they are.  It may: from its start to the    *)
(* step that gives the slot back the slot is active, holds the descriptor  *)
(* of the connection, and nobody else has either (waitForClientConnection, *)
(* handleClientConnection).                                                *)
SlotOwnership ==
  \A c \in Conns : InSession(c) =>
    /\ Mine(c).active
    /\ Mine(c).client_fd = FdOf(c)
    /\ ~MainHasSlot(client_index[c])
    /\ ~MainHasFd(FdOf(c))
    /\ OpenAt(FdOf(c)) = c
    /\ \A d \in Conns \ {c} : InSession(d) => client_index[d] # client_index[c]

(* Whatever way connections begin and end, refusals and a failed           *)
(* pthread_create included, nothing is lost: an active slot belongs to a   *)
(* running thread or to main, an open descriptor to a thread that has not  *)
(* closed it yet or to main (the exits of handleClientConnection and       *)
(* waitForClientConnection).                                               *)
NothingLeaks ==
  /\ \A s \in Slots : clients[s].active =>
       MainHasSlot(s) \/ \E c \in Conns : InSession(c) /\ client_index[c] = s
  /\ \A f \in Fds : fdTable[f] # NoConn =>
       \/ MainHasFd(f)
       \/ pc[fdTable[f]] \notin {"none", "done"} /\ FdOf(fdTable[f]) = f

Holds(c, s) ==
  \/ pc[c] \in {"check", "fd", "send", "sending", "unlock"} /\ Idx(c) = s
  \/ pc[c] \in {"send_feed", "read_unlock"} /\ client_index[c] = s

(* One thread at a time sends to a slot, and its mutex is taken just when  *)
(* one does, as long as the slot was not given to a new connection while a *)
(* thread was sending to the old one (processPostMessage,                  *)
(* sendFeedToClient, pthread_mutex_init in waitForClientConnection).       *)
SendMutexExclusive ==
  \A s \in Slots \ clobbered :
    /\ \A c, d \in Conns : Holds(c, s) /\ Holds(d, s) => c = d
    /\ send_mutex[s] <=> \E c \in Conns : Holds(c, s)

(* The answer to a READ is in one piece: no push to the client comes       *)
(* between its first message and its MSG_END.                              *)
Interrupted(d, k) ==
  /\ rcvd[d][k].kind = "feed"
  /\ k + 1 \in DOMAIN rcvd[d]
  /\ rcvd[d][k + 1].kind = "push"

(* An answer is interrupted only by the two effects of the reuse of slots: *)
(* its mutex was initialised while a thread was sending, or the push was   *)
(* for somebody else.                                                      *)
InterruptedOnlyByReuse ==
  \A d \in Conns : \A k \in DOMAIN rcvd[d] :
    Interrupted(d, k) => client_index[d] \in clobbered \/ rcvd[d][k + 1].to # d

(* The answer to a READ goes to the client that asked, and to no other.    *)
AnswersGoToAsker ==
  \A d \in Conns : \A k \in DOMAIN rcvd[d] :
    rcvd[d][k].kind # "push" => rcvd[d][k].by = d

(* The client follows the author of a post that was published by the       *)
(* thread that sent the push.                                              *)
Follower(d, item) ==
  \E k \in DOMAIN log :
    /\ log[k].by = item.by /\ log[k].post.msg_id = item.msg_id
    /\ Follows(follow_list, name[d], log[k].post.username)

(* A push that reaches a connection was meant for it, and it follows the   *)
(* author, or the session it was meant for had ended before (the two looks *)
(* at the slots in processPostMessage).                                    *)
PushForFollowerUnlessGone ==
  \A d \in Conns : \A k \in DOMAIN rcvd[d] :
    LET item == rcvd[d][k]
    IN  item.kind = "push" =>
          IF item.to = d THEN Follower(d, item)
                           ELSE item.to \in Conns /\ ~InSession(item.to)

(* All that reaches a client of the posts of one connection comes in the   *)
(* order in which they were posted, what was meant for others included.    *)
(* The same post comes again only if it was meant for another the first or *)
(* the second time, or if the pair of follower and author is more than     *)
(* once in the follow list (the thread of the author sends one post to the *)
(* end before it takes the next, processPostMessage).                      *)
PushesInPostOrder ==
  \A d \in Conns : \A j, k \in DOMAIN rcvd[d] :
    LET first  == rcvd[d][j]
        second == rcvd[d][k]
    IN  /\ j < k
        /\ first.kind = "push" /\ second.kind = "push" /\ first.by = second.by
        => \/ first.msg_id < second.msg_id
           \/ /\ first.msg_id = second.msg_id
              /\ \/ first.to # d \/ second.to # d
                 \/ Twice(follow_list, name[d], name[first.by])

Missed(c) == {d \in due[c] : InSession(d)}

NumFollowers(user) == Cardinality({k \in DOMAIN follow_list : follow_list[k].followed = user})

(* When a thread has done with a post, every connection that was in        *)
(* session under the name of a follower when the followers were collected, *)
(* two connections of one name included, was sent the push or is no longer *)
(* in session; unless the author has more followers than to_notify holds   *)
(* (processPostMessage).                                                   *)
FollowersReached ==
  \A c \in Conns :
    pc[c] = "waiting" /\ NumFollowers(name[c]) <= MaxClients => Missed(c) = {}

(* However many threads add to the follow list, no pair is twice in it and *)
(* nobody follows himself, unless the followed name is one that a longer   *)
(* text is cut to: processFollowMessage compares the text that was sent    *)
(* and stores 15 characters of it.                                         *)
FollowListSound == Sound(follow_list)

(* Once named, a client has its name to the end of its session, whatever   *)
(* it sends, so its posts and its followers stay with it: a second CONNECT *)
(* does not rename it, and nobody else writes to its slot                  *)
(* (RECEIVED_MSG_CONNECT, waitForClientConnection).                        *)
NameKept ==
  [][\A c \in Conns : name[c] # Empty /\ InSession(c)' => (Mine(c).username)' = name[c]]_vars

(* Among the other traffic of the server, the feed is what Feed says.      *)
FeedOfServer ==
  INSTANCE Feed WITH
    Threads <- Conns,
    stage   <- [c \in Conns |-> IF pc[c] = "add" THEN "numbered" ELSE "idle"],
    msg     <- [c \in Conns |-> IF pc[c] = "add" THEN PostOf(msg_received[c]) ELSE NoPost],
    feed    <- feed_to_send,
    issued  <- Len(log) + Cardinality({c \in Conns : pc[c] = "add"})

ImplementsFeed == FeedOfServer!Spec

(* The socket of c is open while a descriptor is, or while a send() is     *)
(* under way on it.                                                        *)
SocketOpen(c) ==
  \/ \E f \in Fds : fdTable[f] = c
  \/ \E d \in Conns : pc[d] = "sending" /\ target[d] = c

(* What the server does with c, as Connection puts it.                     *)
ServerOf(c) ==
  CASE ~up                                    -> "ended"
    [] up /\ pc[c] = "none"                   -> IF peer[c] = "new" \/ SocketOpen(c)
                                                 THEN "backlog" ELSE "closed"
    [] up /\ pc[c] \in {"close", "done"}      -> IF SocketOpen(c) THEN "leaving" ELSE "closed"
    [] up /\ pc[c] \in {"read_lock", "send_feed"} -> "answering"
    [] OTHER                                  -> "idle"

TypeSent(m) == IF m.type = "CONNECT" /\ m.username = Empty THEN "NAMELESS" ELSE m.type

(* What c sent and the server has not begun to act upon.                   *)
Untaken(c) ==
  LET pending == IF pc[c] \in {"received", "connect", "read"}
                 THEN <<TypeSent(msg_received[c])>> ELSE <<>>
  IN  pending \o [k \in DOMAIN inbox[c] |-> TypeSent(inbox[c][k])]

ConnectionOf(c) ==
  INSTANCE Connection WITH
    client_up   <- peer[c] \in {"new", "reading", "stalled"},
    to_server   <- IF ServerOf(c) \in {"leaving", "closed", "ended"} THEN <<>> ELSE Untaken(c),
    from_server <- [k \in DOMAIN rcvd[c] |->
                      [type |-> IF rcvd[c][k].kind = "end" THEN "END" ELSE "PUSH",
                       live |-> rcvd[c][k].kind = "push"]],
    server      <- ServerOf(c),
    registered  <- name[c] # Empty,
    items_left  <- IF ServerOf(c) = "answering"
                   THEN Len(feed_to_send[c]) + 1 - next_item[c] ELSE 0

(* To each of its connections the server keeps what Connection says, and   *)
(* with it what Client relies on: answers in order and to the end, and no  *)
(* client left that is there and did as the protocol asks, however slots,  *)
(* descriptors and mutexes are reused (handleClientConnection).            *)
ImplementsConnection ==
  /\ \A c \in Conns : ConnectionOf(c)!ConnInit
  /\ [][\A c \in Conns :
          ConnectionOf(c)!ConnNext \/ UNCHANGED ConnectionOf(c)!connVars]_vars

-----------------------------------------------------------------------------
(* A thread inside send() to a client that has stopped reading, and one    *)
(* that wants the mutex which that thread holds.                           *)
Blocked(c) ==
  \/ pc[c] = "sending" /\ target[c] \in Conns /\ peer[target[c]] = "stalled"
  \/ pc[c] = "send_feed" /\ peer[c] = "stalled"

Wants(c, s) ==
  \/ pc[c] = "lock" /\ slots[c] # {} /\ Idx(c) = s
  \/ pc[c] = "read_lock" /\ client_index[c] = s

HeldUp(c) ==
  \/ Blocked(c)
  \/ \E d \in Conns, s \in Slots : Blocked(d) /\ Holds(d, s) /\ Wants(c, s)

(* Every request of a client is done with in the end.  A client that stops *)
(* reading holds up only who is sending to it and who wants its mutex      *)
(* meanwhile: no third thread, and nobody through a lock that is held      *)
(* across a send() to another.  The exceptions are that the process is     *)
(* ended by a signal or a mutex was replaced under its waiters             *)
(* (handleClientConnection, processPostMessage, sendFeedToClient).         *)
RequestsComplete ==
  \A c \in Conns :
    pc[c] \in {"post", "follow", "read"} ~>
      pc[c] = "waiting" \/ ~up \/ clobbered # {} \/ HeldUp(c)

(* A client that goes away is noticed and its slot and descriptor are free *)
(* again, under the same conditions, if it sent known types of message     *)
(* only (handleClientConnection).                                          *)
KnownTypesOnly(c) ==
  /\ pc[c] = "received" => msg_received[c].type # "OTHER"
  /\ \A k \in DOMAIN inbox[c] : inbox[c][k].type # "OTHER"

SessionsEnd ==
  \A c \in Conns :
    pc[c] # "none" /\ peer[c] \in {"closed", "reset"} /\ KnownTypesOnly(c) ~>
      pc[c] = "done" \/ ~up \/ clobbered # {} \/ HeldUp(c)

-----------------------------------------------------------------------------
(* What the documentation says and the code does not do.                   *)

(* Technical documentation, line 133: as a slot may be reused, active and  *)
(* the name are verified again before the push, so it goes to a follower.  *)
PushOnlyToFollowers ==
  \A d \in Conns : \A k \in DOMAIN rcvd[d] :
    rcvd[d][k].kind = "push" => Follower(d, rcvd[d][k])

(* The comment at server.c:440: all of the answer to a READ is protected   *)
(* by send_mutex and does not mix with pushes.                             *)
AnswerInOnePiece == \A d \in Conns : \A k \in DOMAIN rcvd[d] : ~Interrupted(d, k)

(* Technical documentation, line 143: a connection that dropped does not   *)
(* hold up the others.                                                     *)
ServerStaysUp == up

(* README.md:14: when recv() finds that a client has gone its thread ends  *)
(* and what it held is freed.                                              *)
GoneClientsAreCleanedUp ==
  \A c \in Conns :
    pc[c] # "none" /\ peer[c] = "closed" ~> pc[c] = "done" \/ ~up \/ clobbered # {}
=============================================================================

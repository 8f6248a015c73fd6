------------------------------- MODULE Client -------------------------------
(***************************************************************************)
(* The client program: the main thread, which reads commands and sends     *)
(* them, and the reader thread, which prints what arrives.  They share     *)
(* in_feed, without a lock: set before a READ is sent, cleared at MSG_END, *)
(* it decides how a push is printed.  At the other end is a server that    *)
(* starts as server.c does and then keeps what Connection says; while it   *)
(* delivers a POST of the client, others can hold it up for ever.          *)
(***************************************************************************)
EXTENDS Connection, Setup

CONSTANTS
  Inputs,       (* what may be typed: sequences of what fgets returns      *)
  ServerArgs, ClientArgs,  (* the command lines the programs may get       *)
  MaxPushes     (* bound: how many live pushes arrive                      *)

(* A piece of input, by what validateUserInput makes of it.                *)
Commands == {"POST", "FOLLOW", "READ"}
Pieces   == Commands \cup {"EMPTY", "INVALID"}

ASSUME InputsAssumption    == Inputs \subseteq Seq(Pieces)
ASSUME ArgsAssumption      == ServerArgs \subseteq Arguments /\ ClientArgs \subseteq Arguments
ASSUME MaxPushesAssumption == MaxPushes \in Nat

VARIABLES
  server_args, listening,  (* of the server: down, up, or it did not start *)
  client_args,
  input,        (* what is still to be typed                               *)
  state, user_input, msg_to_send, in_feed,
  reader, msg,  (* the reader thread, and its local                        *)
  pushes,
  held,         (* the server's thread for this client waits for ever      *)
  asked, ended, (* history: READs sent or being sent, MSG_ENDs acted upon  *)
  overlapped,   (* history: a READ began before the one before was over    *)
  printed       (* history: what was printed, and how                      *)

setupVars  == <<server_args, listening, client_args>>
mainVars   == <<input, state, user_input, msg_to_send, asked, overlapped>>
readerVars == <<reader, msg, ended, printed>>
otherVars  == <<pushes, held>>
vars == <<connVars, setupVars, mainVars, in_feed, readerVars, otherVars>>

Init ==
  /\ to_server = <<>> /\ ConnInit
  /\ server_args \in ServerArgs /\ listening = "down"
  /\ client_args \in ClientArgs
  /\ input \in Inputs
  /\ state = "CONNECT_TO_SERVER" /\ user_input = "EMPTY" /\ msg_to_send = "CONNECT"
  /\ in_feed = FALSE
  /\ reader = "none" /\ msg = End
  /\ pushes = 0 /\ held = FALSE
  /\ asked = 0 /\ ended = 0 /\ overlapped = FALSE
  /\ printed = <<>>

-----------------------------------------------------------------------------
(* The start of the server: setUpServer.  With valid arguments too, a      *)
(* system call may fail.                                                   *)
SetUpServer ==
  /\ listening = "down"
  /\ listening' \in (IF ValidForServer(server_args, 3) THEN {"up", "failed"} ELSE {"failed"})
  /\ UNCHANGED <<connVars, server_args, client_args, mainVars, in_feed, readerVars, otherVars>>

-----------------------------------------------------------------------------
(* main.                                                                   *)

MainAt(s) == client_up /\ state = s

Exit ==
  /\ ClientLeaves
  /\ UNCHANGED <<setupVars, mainVars, in_feed, readerVars, otherVars>>

(* The reader is there before the server knows the name, or not at all:    *)
(* whether pthread_create worked is not looked at.                         *)
Connect ==
  /\ MainAt("CONNECT_TO_SERVER")
  /\ ValidForClient(client_args, 4)
  /\ listening = "up" /\ Reaches(client_args, server_args)
  /\ reader' \in {"receiving", "failed"}
  /\ state' = "SEND_CONNECT_MESSAGE"
  /\ UNCHANGED <<connVars, setupVars, input, user_input, msg_to_send, asked, overlapped,
                 in_feed, msg, ended, printed, otherVars>>

ConnectFails == MainAt("CONNECT_TO_SERVER") /\ Exit

(* pthread_detach of a thread that was never created may end the program.  *)
DetachFails == MainAt("SEND_CONNECT_MESSAGE") /\ reader = "failed" /\ Exit

Transmit(m) ==
  /\ ClientSends(m)
  /\ state' = "WAIT_USER_INPUT"
  /\ UNCHANGED <<setupVars, input, user_input, msg_to_send, asked, overlapped, in_feed,
                 readerVars, otherVars>>

SendConnect ==
  /\ MainAt("SEND_CONNECT_MESSAGE")
  /\ Transmit(IF client_args.name = "empty" THEN "NAMELESS" ELSE "CONNECT")

(* Once the server has closed the connection a send may fail or raise      *)
(* SIGPIPE: either ends the program.                                       *)
SendFails ==
  /\ MainAt("SEND_CONNECT_MESSAGE") \/ MainAt("SENDING")
  /\ Gone
  /\ Exit

(* fgets: a line, or a piece of one that is longer than user_input.        *)
WaitUserInput ==
  /\ MainAt("WAIT_USER_INPUT") /\ input # <<>>
  /\ user_input' = Head(input)
  /\ input' = Tail(input)
  /\ state' = IF Head(input) = "EMPTY" THEN state ELSE "VALIDATE_USER_INPUT"
  /\ UNCHANGED <<connVars, setupVars, msg_to_send, asked, overlapped, in_feed, readerVars,
                 otherVars>>

EndOfInput == MainAt("WAIT_USER_INPUT") /\ input = <<>> /\ Exit

(* Mutant: what the command must be is not checked.                        *)
ValidateUserInput_Unchecked ==
  /\ MainAt("VALIDATE_USER_INPUT")
  /\ msg_to_send' = user_input
  /\ state' = "SEND_MSG_TO_SERVER"
  /\ UNCHANGED <<connVars, setupVars, input, user_input, asked, overlapped, in_feed,
                 readerVars, otherVars>>

(* The message is cleared first, and type 0 is MSG_CONNECT: after a line   *)
(* that is refused that is what is in it, and it is not sent.              *)
ValidateUserInput ==
  /\ MainAt("VALIDATE_USER_INPUT")
  /\ msg_to_send' = IF user_input \in Commands THEN user_input ELSE "CONNECT"
  /\ state' = IF user_input \in Commands THEN "SEND_MSG_TO_SERVER" ELSE "WAIT_USER_INPUT"
  /\ UNCHANGED <<connVars, setupVars, input, user_input, asked, overlapped, in_feed,
                 readerVars, otherVars>>

(* Mutant: the flag is not set.                                            *)
SetFeedFlag_Forgotten ==
  /\ MainAt("SEND_MSG_TO_SERVER")
  /\ asked' = IF msg_to_send = "READ" THEN asked + 1 ELSE asked
  /\ overlapped' = (overlapped \/ (msg_to_send = "READ" /\ asked > ended))
  /\ state' = "SENDING"
  /\ UNCHANGED <<connVars, setupVars, input, user_input, msg_to_send, in_feed, readerVars,
                 otherVars>>

(* The flag is set before the READ is sent.                                *)
SetFeedFlag ==
  /\ MainAt("SEND_MSG_TO_SERVER")
  /\ in_feed' = (in_feed \/ msg_to_send = "READ")
  /\ asked' = IF msg_to_send = "READ" THEN asked + 1 ELSE asked
  /\ overlapped' = (overlapped \/ (msg_to_send = "READ" /\ asked > ended))
  /\ state' = "SENDING"
  /\ UNCHANGED <<connVars, setupVars, input, user_input, msg_to_send, readerVars, otherVars>>

SendMessageToServer == MainAt("SENDING") /\ Transmit(msg_to_send)

MainStep ==
  \/ Connect \/ ConnectFails \/ DetachFails \/ SendConnect \/ SendFails
  \/ WaitUserInput \/ EndOfInput \/ ValidateUserInput \/ SetFeedFlag
  \/ SendMessageToServer

-----------------------------------------------------------------------------
(* readFromServer.                                                         *)

ReaderAt(s) == client_up /\ reader = s

ReadMessageFromServer ==
  /\ ReaderAt("receiving") /\ ClientReceives
  /\ msg' = Head(from_server)
  /\ reader' = "received"
  /\ UNCHANGED <<setupVars, mainVars, in_feed, ended, printed, otherVars>>

PrintPush ==
  /\ ReaderAt("received") /\ msg.type = "PUSH"
  /\ printed' = Append(printed, [as   |-> IF in_feed THEN "FEED" ELSE "NOTIFICATION",
                                 live |-> msg.live])
  /\ reader' = "receiving"
  /\ UNCHANGED <<connVars, setupVars, mainVars, in_feed, msg, ended, otherVars>>

(* Mutant: the flag is not cleared.                                        *)
EndOfFeed_Forgotten ==
  /\ ReaderAt("received") /\ msg.type = "END"
  /\ ended' = ended + 1
  /\ reader' = "receiving"
  /\ UNCHANGED <<connVars, setupVars, mainVars, in_feed, msg, printed, otherVars>>

EndOfFeed ==
  /\ ReaderAt("received") /\ msg.type = "END"
  /\ in_feed' = FALSE
  /\ ended' = ended + 1
  /\ reader' = "receiving"
  /\ UNCHANGED <<connVars, setupVars, mainVars, msg, printed, otherVars>>

(* recv() returns 0 or an error; main goes on waiting for commands.        *)
ReaderEnds ==
  /\ ReaderAt("receiving") /\ from_server = <<>> /\ Gone
  /\ reader' = "done"
  /\ UNCHANGED <<connVars, setupVars, mainVars, in_feed, msg, ended, printed, otherVars>>

ReaderStep == ReadMessageFromServer \/ PrintPush \/ EndOfFeed \/ ReaderEnds

-----------------------------------------------------------------------------
(* The other end, once there is a connection.                              *)
Connected == reader # "none"

ServerActs ==
  /\ Connected /\ ServerStep
  /\ held => ServerPushes \/ ServerEnds
  /\ pushes' = IF from_server' = Append(from_server, LivePush) THEN pushes + 1 ELSE pushes
  /\ pushes' <= MaxPushes
  /\ UNCHANGED <<setupVars, mainVars, in_feed, readerVars, held>>

(* The thread takes a POST and never ends delivering it: it sleeps on the  *)
(* mutex of a slot, or in a send() to a client that reads no more.         *)
HoldUp ==
  /\ Connected /\ ~held
  /\ registered /\ to_server # <<>> /\ Head(to_server) = "POST"
  /\ ServerReceives
  /\ held' = TRUE
  /\ UNCHANGED <<setupVars, mainVars, in_feed, readerVars, pushes>>

Next == SetUpServer \/ MainStep \/ ReaderStep \/ ServerActs \/ HoldUp

Spec == Init /\ [][Next]_vars

(* The reader runs, and the server, unless it is held up, takes and answers *)
(* what it was asked.  Whoever types owes nothing, but a message once typed *)
(* is sent.                                                                *)
FairSpec ==
  /\ Spec
  /\ WF_vars(ReaderStep)
  /\ WF_vars(ServerActs /\ (ServerStarts \/ ServerReceives \/ SendItem \/ SendEnd))
  /\ WF_vars(SendMessageToServer \/ SendFails)

-----------------------------------------------------------------------------
States ==
  {"CONNECT_TO_SERVER", "SEND_CONNECT_MESSAGE", "WAIT_USER_INPUT", "VALIDATE_USER_INPUT",
   "SEND_MSG_TO_SERVER", "SENDING"}

(* The variables have the types the C declarations give them.              *)
TypeOK ==
  /\ ConnTypeOK
  /\ server_args \in Arguments /\ client_args \in Arguments
  /\ listening \in {"down", "up", "failed"}
  /\ input \in Seq(Pieces) /\ user_input \in Pieces
  /\ state \in States
  /\ msg_to_send \in Commands \cup {"CONNECT"}
  /\ in_feed \in BOOLEAN /\ overlapped \in BOOLEAN
  /\ reader \in {"none", "failed", "receiving", "received", "done"}
  /\ msg \in Items
  /\ pushes \in 0 .. MaxPushes /\ held \in BOOLEAN
  /\ asked \in Nat /\ ended \in Nat
  /\ printed \in Seq([as : {"FEED", "NOTIFICATION"}, live : BOOLEAN])

(* READs whose MSG_END has not been acted upon.                            *)
Waiting == asked > ended

(* in_feed is up only while an answer is awaited: a client that waits for  *)
(* none prints every push as a notification (main sets the flag, the       *)
(* reader clears it).                                                      *)
FlagOnlyWhileWaiting == in_feed => Waiting

(* An item of an answer is printed as such, whatever the threads' order:   *)
(* setting the flag before sending is early enough.  The exception is a    *)
(* READ sent while the answer to another is awaited, since the end of the  *)
(* first answer clears the one flag (SEND_MSG_TO_SERVER_STATE,             *)
(* readFromServer).                                                        *)
FeedPrintedAsFeed ==
  \A k \in DOMAIN printed :
    ~printed[k].live /\ printed[k].as # "FEED" => overlapped

(* The flag does not stay up for good: it is cleared when the answer has   *)
(* been read, unless the program ends, the server goes away or its thread  *)
(* is held up over a POST of the client, or there is no reader             *)
(* (readFromServer, processPostMessage of server.c).                       *)
FlagIsCleared ==
  in_feed ~> (~in_feed \/ ~client_up \/ Gone \/ held \/ reader = "failed")

(* What the client program checks and the order in which it sends are      *)
(* enough for the server, which refuses messages without a name: its       *)
(* thread never gives up a client that is there (a client that finds no    *)
(* free slot is closed without a thread; validateInfoToConnectToServer and *)
(* main of client.c, RECEIVED_MSG of server.c).                            *)
NeverRefused == server = "leaving" => ~client_up
=============================================================================

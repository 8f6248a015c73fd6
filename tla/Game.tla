-------------------------------- MODULE Game --------------------------------
(***************************************************************************)
(* The programs of files_tp1_for_reference: a server that keeps a code and *)
(* a client whose user guesses it.  Each is one thread that goes from      *)
(* state to state; they take turns over one connection.  Instead of the    *)
(* client there may be another program, which sends what it likes.         *)
(***************************************************************************)
EXTENDS Feedback, Setup, Sequences

CONSTANTS
  Games,        (* who plays what: the command lines, the code, the input  *)
  Strange,      (* the messages another program may send                   *)
  MaxStrange    (* bound: how many of them                                 *)

Guesses == [Places -> Digits]

(* A line that is not CodeLength digits, by what isValidGuess makes of it.  *)
Refused == <<>>
Lines   == Guesses \cup {Refused}

ToServer ==
  [type : {"START", "GUESS", "EXIT"}, guess : [Places -> Int]]

ASSUME GameAssumption ==
  /\ \A g \in Games :
       /\ g.server_args \in Arguments /\ g.client_args \in Arguments
       /\ g.code \in Int /\ g.input \in Seq(Lines) /\ g.ours \in BOOLEAN
  /\ Strange \subseteq ToServer
  /\ MaxStrange \in Nat

NoGuess == [p \in Places |-> 0]

Msg(type, g) == [type |-> type, guess |-> g]

VARIABLES
  game,         (* which of Games is played                                *)
  (* The server.                                                           *)
  server_state, attempts_counter,
  (* The client.                                                           *)
  client_state, input,
  strange,      (* how many messages another program has sent              *)
  to_server, to_client,
  played        (* history: the guesses that were answered, and how        *)

serverVars == <<server_state, attempts_counter, feedbackVars, played>>
clientVars == <<client_state, input, strange>>
vars == <<game, serverVars, clientVars, to_server, to_client>>

Init ==
  /\ game \in Games
  /\ FeedbackInit
  /\ server_state = "SETTING_UP" /\ attempts_counter = 0
  /\ client_state = "CONNECT_TO_SERVER" /\ input = game.input
  /\ strange = 0
  /\ to_server = <<>> /\ to_client = <<>>
  /\ played = <<>>

ClientGone == client_state \in {"exited", "failed"}
NoClient   == client_state \in {"CONNECT_TO_SERVER", "not_connected"}
ServerGone == server_state \in {"exited", "failed", "not_started"}

-----------------------------------------------------------------------------
(* The server.  "not_started" and "failed" stand for return ERROR before   *)
(* and after it has a client.                                              *)

(* Mutant: the code is not looked at.                                      *)
ValidCode_Any(c) == c \in Int

(* Base to the n-th.                                                       *)
Power[n \in Nat] == IF n = 0 THEN 1 ELSE Base * Power[n - 1]

(* validateInfoToSetUpServer                                               *)
ValidCode(c) == c >= 0 /\ c < Power[CodeLength]

(* With valid arguments too a system call may fail.                        *)
SetUpServer ==
  /\ server_state = "SETTING_UP"
  /\ \/ /\ ValidForServer(game.server_args, 4) /\ ValidCode(game.code)
        /\ server_state' = "WAIT_FOR_CONNECTION"
     \/ server_state' = "not_started"
  /\ UNCHANGED <<game, attempts_counter, feedbackVars, played, clientVars,
                 to_server, to_client>>

AcceptClient ==
  /\ server_state = "WAIT_FOR_CONNECTION" /\ ~NoClient
  /\ server_state' \in {"WAIT_FOR_START_MESSAGE", "not_started"}
  /\ UNCHANGED <<game, attempts_counter, feedbackVars, played, clientVars,
                 to_server, to_client>>

(* readMessageFromClient                                                   *)
Receives(state) == server_state = state /\ to_server # <<>>

Take(good, next) ==
  /\ to_server' = Tail(to_server)
  /\ server_state' = IF Head(to_server).type = good THEN next ELSE "failed"
  /\ UNCHANGED <<game, played, clientVars, to_client>>

(* A START resets the attempts.                                            *)
ReceiveStart ==
  /\ Receives("WAIT_FOR_START_MESSAGE")
  /\ Take("START", "WAITING_FOR_MESSAGE")
  /\ attempts_counter' = IF Head(to_server).type = "START" THEN 1 ELSE attempts_counter
  /\ UNCHANGED feedbackVars

(* Mutant: anything is a guess.                                            *)
ValidGuess_Any(g) == g \in [Places -> Int]

(* isValidGuess                                                            *)
ValidGuess(g) == \A p \in Places : g[p] \in Digits

(* Of SEND_FEEDBACK this is the check and the call of calculateFeedback,   *)
(* or the answer that there is nothing to calculate.                       *)
ReceiveGuess ==
  /\ Receives("WAITING_FOR_MESSAGE")
  /\ LET m == Head(to_server)
     IN  IF m.type = "GUESS" /\ ValidGuess(m.guess)
         THEN Begin(m.guess, game.code)
         ELSE /\ guess' = m.guess
              /\ UNCHANGED <<loop, rest, i, code_digits, counter, remaining_digits, feedback>>
  /\ Take("GUESS", "SEND_FEEDBACK")
  /\ UNCHANGED attempts_counter

Reply(m) ==
  to_client' = IF ClientGone THEN to_client ELSE Append(to_client, m)

(* A send to a client that is gone may raise SIGPIPE; otherwise the server *)
(* goes on, and finds out when it receives.                                *)
Answers(next) == server_state' \in {next} \cup (IF ClientGone THEN {"failed"} ELSE {})

(* Mutant: the attempt counts.                                             *)
SendError_Counts ==
  /\ server_state = "SEND_FEEDBACK" /\ ~ValidGuess(guess)
  /\ Reply("ERROR")
  /\ Answers("WAITING_FOR_MESSAGE")
  /\ attempts_counter' = attempts_counter + 1
  /\ UNCHANGED <<game, feedbackVars, played, clientVars, to_server>>

(* A guess out of range is no attempt.                                     *)
SendError ==
  /\ server_state = "SEND_FEEDBACK" /\ ~ValidGuess(guess)
  /\ Reply("ERROR")
  /\ Answers("WAITING_FOR_MESSAGE")
  /\ UNCHANGED <<game, attempts_counter, feedbackVars, played, clientVars, to_server>>

Calculate ==
  /\ server_state = "SEND_FEEDBACK" /\ CalculateFeedback
  /\ UNCHANGED <<game, server_state, attempts_counter, played, clientVars,
                 to_server, to_client>>

AnswerGuess ==
  /\ server_state = "SEND_FEEDBACK" /\ loop = "over"
  /\ played' = Append(played,
       [guess |-> guess, hint |-> feedback, attempt |-> attempts_counter])
  /\ attempts_counter' = attempts_counter + 1
  /\ loop' = "none"
  /\ UNCHANGED <<guess, rest, i, code_digits, counter, remaining_digits, feedback>>
  /\ UNCHANGED <<game, clientVars, to_server>>

SendFeedback ==
  /\ AnswerGuess /\ ~Won
  /\ Reply("FEEDBACK")
  /\ Answers("WAITING_FOR_MESSAGE")

(* Mutants: the win is not sent, or the game goes on after it.             *)
SendWin_NotSent ==
  /\ AnswerGuess /\ Won
  /\ Answers("WAIT_FOR_EXIT_MESSAGE")
  /\ UNCHANGED to_client

SendWin_GoesOn ==
  /\ AnswerGuess /\ Won
  /\ Reply("WIN")
  /\ Answers("WAITING_FOR_MESSAGE")

SendWin ==
  /\ AnswerGuess /\ Won
  /\ Reply("WIN")
  /\ Answers("WAIT_FOR_EXIT_MESSAGE")

ReceiveExit ==
  /\ Receives("WAIT_FOR_EXIT_MESSAGE")
  /\ Take("EXIT", "exited")
  /\ UNCHANGED <<attempts_counter, feedbackVars>>

(* recv() says that the client is gone.                                    *)
ReceiveFails ==
  /\ server_state \in {"WAIT_FOR_START_MESSAGE", "WAITING_FOR_MESSAGE", "WAIT_FOR_EXIT_MESSAGE"}
  /\ to_server = <<>> /\ ClientGone
  /\ server_state' = "failed"
  /\ UNCHANGED <<game, attempts_counter, feedbackVars, played, clientVars,
                 to_server, to_client>>

ServerStep ==
  \/ SetUpServer \/ AcceptClient \/ ReceiveStart \/ ReceiveGuess \/ SendError
  \/ Calculate \/ SendFeedback \/ SendWin \/ ReceiveExit \/ ReceiveFails

-----------------------------------------------------------------------------
(* The client.                                                             *)

ClientAt(state) == client_state = state /\ UNCHANGED <<game, serverVars>>

(* connect() succeeds as soon as the server listens.                       *)
ConnectToServer ==
  /\ ClientAt("CONNECT_TO_SERVER")
  /\ \/ /\ ValidAddress(game.client_args, 3)
        /\ server_state \notin {"SETTING_UP", "not_started"}
        /\ Reaches(game.client_args, game.server_args)
        /\ client_state' = IF game.ours THEN "SEND_START_MESSAGE" ELSE "strange"
     \/ client_state' = "not_connected"
  /\ UNCHANGED <<input, strange, to_server, to_client>>

(* What the server does not read any more is lost, and SIGPIPE may end the *)
(* client.                                                                 *)
Sends(m, next) ==
  /\ to_server' = IF ServerGone THEN to_server ELSE Append(to_server, m)
  /\ client_state' \in {next} \cup (IF ServerGone THEN {"failed"} ELSE {})
  /\ UNCHANGED <<strange, to_client>>

SendStart ==
  /\ ClientAt("SEND_START_MESSAGE")
  /\ Sends(Msg("START", NoGuess), "SEND_GUESS")
  /\ UNCHANGED input

(* A line that is refused is asked for again.                              *)
SendGuess ==
  /\ ClientAt("SEND_GUESS") /\ input # <<>>
  /\ input' = Tail(input)
  /\ IF Head(input) = Refused
     THEN UNCHANGED <<client_state, strange, to_server, to_client>>
     ELSE Sends(Msg("GUESS", Head(input)), "WAIT_FOR_FEEDBACK")

EndOfInput ==
  /\ ClientAt("SEND_GUESS") /\ input = <<>>
  /\ client_state' = "failed"
  /\ UNCHANGED <<input, strange, to_server, to_client>>

WaitForFeedback ==
  /\ ClientAt("WAIT_FOR_FEEDBACK") /\ to_client # <<>>
  /\ to_client' = Tail(to_client)
  /\ client_state' = CASE Head(to_client) = "WIN"      -> "RECEIVED_WIN_FEEDBACK"
                       [] Head(to_client) = "FEEDBACK" -> "SEND_GUESS"
                       [] Head(to_client) = "ERROR"    -> "SEND_GUESS"
  /\ UNCHANGED <<input, strange, to_server>>

NoFeedback ==
  /\ ClientAt("WAIT_FOR_FEEDBACK") /\ to_client = <<>> /\ ServerGone
  /\ client_state' = "failed"
  /\ UNCHANGED <<input, strange, to_server, to_client>>

(* Mutant: the client goes without a word.                                 *)
SendExit_CloseOnly ==
  /\ ClientAt("RECEIVED_WIN_FEEDBACK")
  /\ client_state' = "exited"
  /\ UNCHANGED <<input, strange, to_server, to_client>>

SendExit ==
  /\ ClientAt("RECEIVED_WIN_FEEDBACK")
  /\ Sends(Msg("EXIT", NoGuess), "exited")
  /\ UNCHANGED input

(* Another program.                                                        *)
SendStrange ==
  /\ ClientAt("strange") /\ strange < MaxStrange
  /\ \E m \in Strange :
       to_server' = IF ServerGone THEN to_server ELSE Append(to_server, m)
  /\ strange' = strange + 1
  /\ UNCHANGED <<client_state, input, to_client>>

(* Some of what it sent may still arrive.                                  *)
StrangeLeaves ==
  /\ ClientAt("strange")
  /\ client_state' = "exited"
  /\ \E n \in 0 .. Len(to_server) : to_server' = SubSeq(to_server, 1, n)
  /\ UNCHANGED <<input, strange, to_client>>

ClientStep ==
  \/ ConnectToServer \/ SendStart \/ SendGuess \/ EndOfInput \/ WaitForFeedback
  \/ NoFeedback \/ SendExit \/ SendStrange \/ StrangeLeaves

Next == ServerStep \/ ClientStep

Spec == Init /\ [][Next]_vars

(* Both programs run, but whoever types, or the other program, owes        *)
(* nothing.                                                                *)
FairSpec ==
  Spec /\ WF_vars(ServerStep) /\ WF_vars(WaitForFeedback \/ NoFeedback \/ SendExit)

-----------------------------------------------------------------------------
(* The variables have the types the C declarations give them, and what is  *)
(* split from the code are digits.                                         *)
TypeOK ==
  /\ FeedbackTypeOK
  /\ game \in Games /\ attempts_counter \in Nat /\ strange \in 0 .. MaxStrange
  /\ server_state \in
       {"SETTING_UP", "WAIT_FOR_CONNECTION", "WAIT_FOR_START_MESSAGE", "WAITING_FOR_MESSAGE",
        "SEND_FEEDBACK", "WAIT_FOR_EXIT_MESSAGE", "exited", "failed", "not_started"}
  /\ client_state \in
       {"CONNECT_TO_SERVER", "SEND_START_MESSAGE", "SEND_GUESS", "WAIT_FOR_FEEDBACK",
        "RECEIVED_WIN_FEEDBACK", "strange", "exited", "failed", "not_connected"}
  /\ input \in Seq(Lines)
  /\ to_server \in Seq(ToServer) /\ to_client \in Seq({"FEEDBACK", "WIN", "ERROR"})
  /\ played \in Seq([guess : Guesses, hint : [Places -> Marks], attempt : Nat])

(* remaining_digits has an element for each digit and is indexed with what *)
(* was split from the code and with what a client sent, whichever program  *)
(* it is (calculateFeedback).                                              *)
IndexInBounds ==
  /\ loop = "mark"  => code_digits[i] \in Digits
  /\ loop = "match" => guess[i] \in Digits

(* The server ends with an error only if its player has gone before the    *)
(* code was broken: whatever is typed, the client sends what the server    *)
(* waits for (the state machines of both programs).                        *)
PlayerNeverDropped ==
  server_state = "failed" /\ game.ours => client_state = "failed"

(* The digits of the code, the first one in front.                         *)
Secret == [p \in Places |-> (game.code \div Power[CodeLength - 1 - p]) % Base]

Abstract == INSTANCE Mastermind WITH secret <- Secret

(* What a calculation leaves is the hint for the guess: as many marks for  *)
(* a digit as both the guess and the code have of it (calculateFeedback).  *)
HintIsRight == loop = "over" => Abstract!IsHint(feedback, guess, code_digits)

(* The game is played as Mastermind says: each answer is the hint for the  *)
(* guess of its turn, with the number of valid attempts, repeated digits   *)
(* included, and there is none after the code is broken                    *)
(* (SEND_FEEDBACK_STATE, calculateFeedback).                               *)
ImplementsMastermind == Abstract!Spec

(* Client and server do not wait for each other: a client that has sent a  *)
(* guess gets an answer, or finds that the server is gone                  *)
(* (WAIT_FOR_FEEDBACK_STATE).                                              *)
NobodyWaitsForEver ==
  client_state = "WAIT_FOR_FEEDBACK" ~> client_state # "WAIT_FOR_FEEDBACK"

(* When the player has won the server ends as it should, with both sockets *)
(* closed (WAIT_FOR_EXIT_MESSAGE_STATE).                                   *)
WinIsAcknowledged ==
  client_state = "RECEIVED_WIN_FEEDBACK" ~> server_state = "exited"
=============================================================================

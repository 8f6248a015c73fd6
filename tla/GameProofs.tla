----------------------------- MODULE GameProofs -----------------------------
(***************************************************************************)
(* Proofs about Game, for codes of any length in any base, any games and   *)
(* any messages of another program: the types, that no index of            *)
(* calculateFeedback is out of range, that its marks are the hint, that    *)
(* the server never drops the player, and that the two programs play       *)
(* Mastermind.                                                             *)
(***************************************************************************)
EXTENDS Game, FiniteSetTheorems, SequenceTheorems, WellFoundedInduction, TLAPS

-----------------------------------------------------------------------------
(* The numbers and the loops.                                              *)

(* A calculation runs only while an answer is due, for a guess and a code  *)
(* that were looked at, so what is left of the code stays a natural number *)
(* and the counter behind the index.                                       *)
Checked ==
  /\ server_state \notin {"SETTING_UP", "not_started"} => game.code \in Nat
  /\ loop # "none" => server_state = "SEND_FEEDBACK" /\ ValidGuess(guess)
  /\ loop = "split" => rest \in Nat /\ counter = 0
  /\ loop = "mark" => counter <= i

(* The loops find what was cleared.                                        *)
SplitInv ==
  loop = "split" =>
    remaining_digits = [d \in Digits |-> 0] /\ feedback = [p \in Places |-> "absent"]

(* Of the first n places of the code those that hold d and were not        *)
(* guessed.                                                                *)
Missed(n, d) == {p \in 0 .. n - 1 : code_digits[p] = d /\ guess[p] # d}

MarkedWrong(d) == {p \in Places : guess[p] = d /\ feedback[p] = "wrong"}

(* The second loop leaves in remaining_digits what it has seen missed.     *)
MarkInv ==
  loop = "mark" =>
    /\ \A p \in Places :
         feedback[p] = IF p < i /\ guess[p] = code_digits[p] THEN "right" ELSE "absent"
    /\ \A d \in Digits : remaining_digits[d] = Cardinality(Missed(i, d))

(* The third shares it out: what is missed is left or marked, and a place  *)
(* that it passed without a mark found nothing left.                       *)
MatchInv ==
  loop \in {"match", "over"} =>
    /\ \A p \in Places : feedback[p] = "right" <=> guess[p] = code_digits[p]
    /\ \A d \in Digits :
         remaining_digits[d] + Cardinality(MarkedWrong(d)) = Cardinality(Missed(CodeLength, d))
    /\ \A p \in Places :
         IF loop = "over" \/ p < i
         THEN feedback[p] = "absent" => remaining_digits[guess[p]] = 0
         ELSE feedback[p] # "wrong"


-----------------------------------------------------------------------------
(* Types.                                                                  *)

LEMMA QuotientType ==
  ASSUME NEW n \in Nat
  PROVE  Quotient(n) \in Nat /\ Remainder(n) \in Digits
<1>1. n \div Base \in Nat /\ n % Base \in 0 .. Base - 1  BY FeedbackAssumption
<1> QED  BY <1>1 DEF Quotient, Remainder, Digits

LEMMA TailType ==
  ASSUME NEW S, NEW s \in Seq(S), s # <<>>
  PROVE  Head(s) \in S /\ Tail(s) \in Seq(S)
BY HeadTailProperties

LEMMA ClientStepFrame ==
  ClientStep => UNCHANGED <<game, serverVars>>
BY DEF ClientStep, ClientAt, ConnectToServer, SendStart, SendGuess, EndOfInput,
       WaitForFeedback, NoFeedback, SendExit, SendStrange, StrangeLeaves

LEMMA LoopIndex ==
  ASSUME i \in Places, loop \in {"split", "mark", "match"}
  PROVE  /\ Split => /\ i' \in Places /\ loop' \in {"split", "mark"}
                     /\ IF loop' = "mark" THEN i = 0 /\ i' = 0 ELSE i' = i - 1
         /\ Mark  => /\ i' \in Places /\ loop' \in {"mark", "match"}
                     /\ IF loop' = "mark" THEN i' = i + 1 ELSE i = CodeLength - 1 /\ i' = 0
         /\ Match => /\ i' \in Places /\ loop' \in {"match", "over"}
                     /\ IF loop' = "match" THEN i' = i + 1 ELSE i = CodeLength - 1
<1> USE FeedbackAssumption DEF Places
<1>1. ASSUME Split
      PROVE  /\ i' \in Places /\ loop' \in {"split", "mark"}
             /\ IF loop' = "mark" THEN i = 0 /\ i' = 0 ELSE i' = i - 1
  BY <1>1 DEF Split
<1>2. ASSUME NEW next \in {"match", "over"}, Advance(next), loop \in {"mark", "match"},
             loop # next
      PROVE  /\ i' \in Places /\ loop' \in {loop, next}
             /\ IF loop' = loop THEN i' = i + 1 ELSE i = CodeLength - 1 /\ i' = 0
  BY <1>2 DEF Advance
<1>3. Mark => Advance("match") /\ loop = "mark"  BY DEF Mark
<1>4. Match => Advance("over") /\ loop = "match"  BY DEF Match
<1>5. Mark => /\ i' \in Places /\ loop' \in {"mark", "match"}
             /\ IF loop' = "mark" THEN i' = i + 1 ELSE i = CodeLength - 1 /\ i' = 0
  BY ONLY <1>2, <1>3
<1>6. Match => /\ i' \in Places /\ loop' \in {"match", "over"}
              /\ IF loop' = "match" THEN i' = i + 1 ELSE i = CodeLength - 1
  BY ONLY <1>2, <1>4
<1> QED  BY ONLY <1>1, <1>5, <1>6

(* What only the calculation and the step that begins it can change.       *)
LEMMA FeedbackTypes ==
  ASSUME TypeOK, Checked, Next
  PROVE  FeedbackTypeOK' /\ Checked'
<1> USE FeedbackAssumption DEF TypeOK, FeedbackTypeOK, Checked, feedbackVars
<1>1. CASE SetUpServer
  BY <1>1, GameAssumption DEF SetUpServer, ValidCode
<1>2. CASE AcceptClient  BY <1>2 DEF AcceptClient
<1>3. CASE ReceiveStart  BY <1>3 DEF ReceiveStart, Receives, Take
<1>4. CASE ReceiveGuess
  <2> DEFINE m == Head(to_server)
  <2>1. m \in ToServer  BY <1>4, TailType DEF ReceiveGuess, Receives
  <2>2. m.guess \in [Places -> Int]  BY <2>1 DEF ToServer
  <2>3. server_state = "WAITING_FOR_MESSAGE" /\ loop = "none"  BY <1>4 DEF ReceiveGuess, Receives
  <2>4. game' = game  BY <1>4 DEF ReceiveGuess, Take
  <2>5. CASE m.type = "GUESS" /\ ValidGuess(m.guess)
    <3>1. Begin(m.guess, game.code) /\ server_state' = "SEND_FEEDBACK"
      BY <1>4, <2>5 DEF ReceiveGuess, Take
    <3>2. game.code \in Nat  BY <2>3
    <3>3. i' \in Places  BY <3>1 DEF Begin, Places
    <3>4. remaining_digits' \in [Digits -> Nat] /\ feedback' \in [Places -> Marks]
      BY <3>1 DEF Begin, Marks
    <3>5. guess' \in [Places -> Int] /\ ValidGuess(guess')  BY <2>2, <2>5, <3>1 DEF Begin
    <3>6. FeedbackTypeOK'  BY <2>4, <3>1, <3>2, <3>3, <3>4, <3>5 DEF Begin
    <3> QED  BY <2>4, <3>1, <3>2, <3>5, <3>6 DEF Begin, ValidGuess
  <2>6. CASE ~(m.type = "GUESS" /\ ValidGuess(m.guess))
    <3>1. /\ guess' = m.guess
          /\ UNCHANGED <<loop, rest, i, code_digits, counter, remaining_digits, feedback>>
          /\ server_state' \in {"SEND_FEEDBACK", "failed"}
      BY <1>4, <2>6 DEF ReceiveGuess, Take
    <3> QED  BY <2>2, <2>3, <2>4, <3>1
  <2> QED  BY <2>5, <2>6
<1>5. CASE SendError  BY <1>5 DEF SendError, Answers
<1>6. CASE Calculate
  <2>1. server_state = "SEND_FEEDBACK" /\ UNCHANGED <<game, server_state>>
    BY <1>6 DEF Calculate
  <2>2. CASE Split
    <3>1. Quotient(rest) \in Nat /\ Remainder(rest) \in Digits
      BY <2>2, QuotientType DEF Split
    <3>2. i' \in Places /\ loop' \in {"split", "mark"} /\ (loop' = "mark" => i' = 0)
      BY <2>2, LoopIndex DEF Split
    <3>3. rest' \in Nat /\ code_digits' \in [Places -> Digits]  BY <2>2, <3>1 DEF Split
    <3>4. UNCHANGED <<guess, counter, remaining_digits, feedback>> /\ counter = 0
      BY <2>2 DEF Split
    <3> QED  BY <2>1, <2>2, <3>2, <3>3, <3>4 DEF Split, ValidGuess
  <2>3. CASE Mark
    <3>1. i \in 0 .. CodeLength - 1 /\ counter <= i /\ code_digits[i] \in Digits
      BY <2>3 DEF Mark, Places
    <3>2. i' \in Places /\ loop' \in {"mark", "match"} /\ (loop' = "mark" => i' = i + 1)
      BY <2>3, LoopIndex DEF Mark
    <3>3. /\ counter' \in {counter, counter + 1}
          /\ UNCHANGED <<guess, rest, code_digits>>
      BY <2>3 DEF Mark
    <3>4. feedback' \in [Places -> Marks]
      <4>1. feedback' \in {[feedback EXCEPT ![i] = "right"], [feedback EXCEPT ![i] = "absent"]}
        BY <2>3 DEF Mark
      <4> QED  BY <4>1 DEF Marks
    <3>5. remaining_digits' \in [Digits -> Nat]
      <4>1. remaining_digits' \in
              {remaining_digits,
               [remaining_digits EXCEPT ![code_digits[i]] = remaining_digits[code_digits[i]] + 1]}
        BY <2>3 DEF Mark
      <4>2. remaining_digits[code_digits[i]] + 1 \in Nat  BY <3>1
      <4> QED  BY <4>1, <4>2
    <3>6. counter' \in 0 .. CodeLength /\ (loop' = "mark" => counter' <= i')
      BY <3>1, <3>2, <3>3
    <3>7. FeedbackTypeOK'  BY <3>2, <3>3, <3>4, <3>5, <3>6
    <3> QED  BY <2>1, <2>3, <3>2, <3>3, <3>6, <3>7 DEF Mark, ValidGuess
  <2>4. CASE Match
    <3>1. i \in 0 .. CodeLength - 1 /\ guess[i] \in Digits
      BY <2>4 DEF Match, Places, ValidGuess
    <3>2. loop' \in {"match", "over"} /\ i' \in Places
      BY <2>4, LoopIndex DEF Match
    <3>3. feedback' \in [Places -> Marks]
      <4>1. feedback' \in {feedback, [feedback EXCEPT ![i] = "wrong"]}  BY <2>4 DEF Match
      <4> QED  BY <4>1 DEF Marks
    <3>4. remaining_digits' \in [Digits -> Nat]
      <4> DEFINE left == remaining_digits[guess[i]]
      <4>1. \/ remaining_digits' = remaining_digits
            \/ left > 0 /\ remaining_digits' = [remaining_digits EXCEPT ![guess[i]] = left - 1]
        BY <2>4 DEF Match
      <4>2. left \in Nat  BY <3>1
      <4> QED  BY <4>1, <4>2
    <3>5. UNCHANGED <<guess, rest, code_digits, counter>>  BY <2>4 DEF Match
    <3>6. FeedbackTypeOK'  BY <3>2, <3>3, <3>4, <3>5
    <3> QED  BY <2>1, <2>4, <3>2, <3>5, <3>6 DEF Match, ValidGuess
  <2> QED  BY <1>6, <2>2, <2>3, <2>4 DEF Calculate, CalculateFeedback
<1>7. CASE SendFeedback  BY <1>7 DEF SendFeedback, AnswerGuess, Answers
<1>8. CASE SendWin  BY <1>8 DEF SendWin, AnswerGuess, Answers
<1>9. CASE ReceiveExit  BY <1>9 DEF ReceiveExit, Receives, Take
<1>10. CASE ReceiveFails  BY <1>10 DEF ReceiveFails
<1>11. CASE ClientStep  BY <1>11, ClientStepFrame DEF serverVars, ValidGuess
<1> QED
  BY <1>1, <1>2, <1>3, <1>4, <1>5, <1>6, <1>7, <1>8, <1>9, <1>10, <1>11
  DEF Next, ServerStep

LEMMA TypeInit == Init => TypeOK /\ Checked
<1> SUFFICES ASSUME Init PROVE TypeOK /\ Checked  OBVIOUS
<1> USE FeedbackAssumption DEF Init, FeedbackInit
<1>1. FeedbackTypeOK
  <2>1. 0 \in Places /\ 0 \in Digits  BY DEF Places, Digits
  <2> QED  BY <2>1 DEF FeedbackTypeOK, Marks
<1>2. game \in Games /\ input \in Seq(Lines) /\ strange \in 0 .. MaxStrange
  BY GameAssumption
<1>3. /\ to_server \in Seq(ToServer) /\ to_client \in Seq({"FEEDBACK", "WIN", "ERROR"})
      /\ played \in Seq([guess : Guesses, hint : [Places -> Marks], attempt : Nat])
  BY EmptySeq
<1> QED  BY <1>1, <1>2, <1>3 DEF TypeOK, Checked

LEMMA ServerStateType ==
  ASSUME TypeOK, Next
  PROVE  /\ game' \in Games /\ attempts_counter' \in Nat
         /\ server_state' \in
              {"SETTING_UP", "WAIT_FOR_CONNECTION", "WAIT_FOR_START_MESSAGE",
               "WAITING_FOR_MESSAGE", "SEND_FEEDBACK", "WAIT_FOR_EXIT_MESSAGE",
               "exited", "failed", "not_started"}
<1> USE DEF TypeOK
<1>1. CASE SetUpServer  BY <1>1 DEF SetUpServer
<1>2. CASE AcceptClient  BY <1>2 DEF AcceptClient
<1>3. CASE ReceiveStart  BY <1>3 DEF ReceiveStart, Take
<1>4. CASE ReceiveGuess  BY <1>4 DEF ReceiveGuess, Take
<1>5. CASE SendError  BY <1>5 DEF SendError, Answers
<1>6. CASE Calculate  BY <1>6 DEF Calculate
<1>7. CASE SendFeedback  BY <1>7 DEF SendFeedback, AnswerGuess, Answers
<1>8. CASE SendWin  BY <1>8 DEF SendWin, AnswerGuess, Answers
<1>9. CASE ReceiveExit  BY <1>9 DEF ReceiveExit, Take
<1>10. CASE ReceiveFails  BY <1>10 DEF ReceiveFails
<1>11. CASE ClientStep  BY <1>11, ClientStepFrame DEF serverVars
<1> QED
  BY <1>1, <1>2, <1>3, <1>4, <1>5, <1>6, <1>7, <1>8, <1>9, <1>10, <1>11
  DEF Next, ServerStep

LEMMA PlayedType ==
  ASSUME TypeOK, Checked, AnswerGuess
  PROVE  played' \in Seq([guess : Guesses, hint : [Places -> Marks], attempt : Nat])
<1>1. guess \in Guesses
  BY DEF TypeOK, FeedbackTypeOK, Checked, AnswerGuess, ValidGuess, Guesses
<1>2. [guess |-> guess, hint |-> feedback, attempt |-> attempts_counter]
        \in [guess : Guesses, hint : [Places -> Marks], attempt : Nat]
  BY <1>1 DEF TypeOK, FeedbackTypeOK
<1> QED  BY <1>2, AppendProperties DEF TypeOK, AnswerGuess

LEMMA ReplyType ==
  ASSUME TypeOK, NEW m \in {"FEEDBACK", "WIN", "ERROR"}, Reply(m)
  PROVE  to_client' \in Seq({"FEEDBACK", "WIN", "ERROR"})
BY AppendProperties DEF TypeOK, Reply

(* What the server's steps do to the queues, and who is answered.          *)
LEMMA ServerQueueTypes ==
  ASSUME TypeOK, Checked, ServerStep
  PROVE  /\ to_server' \in Seq(ToServer)
         /\ to_client' \in Seq({"FEEDBACK", "WIN", "ERROR"})
         /\ played' \in Seq([guess : Guesses, hint : [Places -> Marks], attempt : Nat])
         /\ UNCHANGED clientVars
<1> USE DEF TypeOK
<1>1. CASE SetUpServer  BY <1>1 DEF SetUpServer
<1>2. CASE AcceptClient  BY <1>2 DEF AcceptClient
<1>3. ASSUME to_server # <<>>, NEW good, NEW next, Take(good, next)
      PROVE  /\ to_server' \in Seq(ToServer)
             /\ UNCHANGED <<to_client, played, clientVars>>
  BY <1>3, TailType DEF Take
<1>4. CASE ReceiveStart  BY <1>3, <1>4 DEF ReceiveStart, Receives
<1>5. CASE ReceiveGuess  BY <1>3, <1>5 DEF ReceiveGuess, Receives
<1>6. CASE SendError  BY <1>6, ReplyType DEF SendError
<1>7. CASE Calculate  BY <1>7 DEF Calculate
<1>8. CASE SendFeedback  BY <1>8, ReplyType, PlayedType DEF SendFeedback, AnswerGuess
<1>9. CASE SendWin  BY <1>9, ReplyType, PlayedType DEF SendWin, AnswerGuess
<1>10. CASE ReceiveExit  BY <1>3, <1>10 DEF ReceiveExit, Receives
<1>11. CASE ReceiveFails  BY <1>11 DEF ReceiveFails
<1> QED
  BY <1>1, <1>2, <1>4, <1>5, <1>6, <1>7, <1>8, <1>9, <1>10, <1>11 DEF ServerStep

LEMMA ClientTypes ==
  ASSUME TypeOK, ClientStep
  PROVE  /\ to_server' \in Seq(ToServer)
         /\ to_client' \in Seq({"FEEDBACK", "WIN", "ERROR"})
         /\ played' = played /\ input' \in Seq(Lines) /\ strange' \in 0 .. MaxStrange
         /\ client_state' \in
              {"CONNECT_TO_SERVER", "SEND_START_MESSAGE", "SEND_GUESS", "WAIT_FOR_FEEDBACK",
               "RECEIVED_WIN_FEEDBACK", "strange", "exited", "failed", "not_connected"}
<1> USE GameAssumption DEF TypeOK
<1>1. played' = played  BY ClientStepFrame DEF serverVars
<1>2. ASSUME NEW type \in {"START", "GUESS", "EXIT"}, NEW g \in [Places -> Int], NEW next,
             Sends(Msg(type, g), next)
      PROVE  /\ to_server' \in Seq(ToServer)
             /\ client_state' \in {next, "failed"} /\ UNCHANGED <<strange, to_client>>
  <2>1. Msg(type, g) \in ToServer  BY DEF Msg, ToServer
  <2> QED  BY <1>2, <2>1, AppendProperties DEF Sends
<1>3. NoGuess \in [Places -> Int]  BY DEF NoGuess
<1>4. CASE ConnectToServer  BY <1>1, <1>4 DEF ConnectToServer, ClientAt
<1>5. CASE SendStart  BY <1>1, <1>2, <1>3, <1>5 DEF SendStart, ClientAt
<1>6. CASE SendGuess
  <2>1. input # <<>> /\ input' = Tail(input) /\ client_state = "SEND_GUESS"
    BY <1>6 DEF SendGuess, ClientAt
  <2>2. Head(input) \in Lines /\ input' \in Seq(Lines)  BY <2>1, TailType
  <2>3. CASE Head(input) = Refused  BY <1>1, <1>6, <2>1, <2>2, <2>3 DEF SendGuess
  <2>4. CASE Head(input) # Refused
    <3>1. Sends(Msg("GUESS", Head(input)), "WAIT_FOR_FEEDBACK")  BY <1>6, <2>4 DEF SendGuess
    <3>2. Head(input) \in [Places -> Int]  BY <2>2, <2>4 DEF Lines, Guesses, Digits
    <3> QED  BY <1>1, <1>2, <2>2, <3>1, <3>2
  <2> QED  BY <2>3, <2>4
<1>7. CASE EndOfInput  BY <1>1, <1>7 DEF EndOfInput, ClientAt
<1>8. CASE WaitForFeedback
  <2>1. to_client # <<>> /\ to_client' = Tail(to_client) /\ UNCHANGED <<input, strange, to_server>>
    BY <1>8 DEF WaitForFeedback
  <2>2. Head(to_client) \in {"FEEDBACK", "WIN", "ERROR"}
        /\ to_client' \in Seq({"FEEDBACK", "WIN", "ERROR"})
    BY <2>1, TailType
  <2>3. client_state' \in {"RECEIVED_WIN_FEEDBACK", "SEND_GUESS"}
    BY <1>8, <2>2 DEF WaitForFeedback
  <2> QED  BY <1>1, <2>1, <2>2, <2>3
<1>9. CASE NoFeedback  BY <1>1, <1>9 DEF NoFeedback, ClientAt
<1>10. CASE SendExit  BY <1>1, <1>2, <1>3, <1>10 DEF SendExit, ClientAt
<1>11. CASE SendStrange
  <2>1. PICK m \in Strange :
          to_server' = IF ServerGone THEN to_server ELSE Append(to_server, m)
    BY <1>11 DEF SendStrange
  <2>2. to_server' \in Seq(ToServer)  BY <2>1, AppendProperties
  <2>3. strange' \in 0 .. MaxStrange  BY <1>11 DEF SendStrange
  <2> QED  BY <1>1, <1>11, <2>2, <2>3 DEF SendStrange, ClientAt
<1>12. CASE StrangeLeaves
  <2>1. PICK n \in 0 .. Len(to_server) : to_server' = SubSeq(to_server, 1, n)
    BY <1>12 DEF StrangeLeaves
  <2>2. to_server' \in Seq(ToServer)  BY <2>1, SubSeqProperties
  <2> QED  BY <1>1, <1>12, <2>2 DEF StrangeLeaves, ClientAt
<1> QED
  BY <1>4, <1>5, <1>6, <1>7, <1>8, <1>9, <1>10, <1>11, <1>12 DEF ClientStep

LEMMA TypeNext == TypeOK /\ Checked /\ [Next]_vars => TypeOK' /\ Checked'
<1> SUFFICES ASSUME TypeOK, Checked, [Next]_vars PROVE TypeOK' /\ Checked'  OBVIOUS
<1>1. CASE ServerStep
  <2>1. Next  BY <1>1 DEF Next
  <2>2. FeedbackTypeOK' /\ Checked'  BY <2>1, FeedbackTypes
  <2>3. input' = input /\ strange' = strange /\ client_state' = client_state
    BY <1>1, ServerQueueTypes DEF clientVars
  <2> QED  BY <1>1, <2>1, <2>2, <2>3, ServerStateType, ServerQueueTypes DEF TypeOK
<1>2. CASE ClientStep
  <2>1. Next  BY <1>2 DEF Next
  <2>2. FeedbackTypeOK' /\ Checked'  BY <2>1, FeedbackTypes
  <2> QED  BY <1>2, <2>1, <2>2, ServerStateType, ClientTypes DEF TypeOK
<1>3. CASE UNCHANGED vars
  BY <1>3 DEF vars, serverVars, clientVars, feedbackVars, TypeOK, FeedbackTypeOK, Checked,
              ValidGuess
<1> QED  BY <1>1, <1>2, <1>3 DEF Next

(* The variables keep the types of their C declarations, and what is split *)
(* from the code are digits.                                               *)
THEOREM GameTypeCorrect == Spec => []TypeOK
<1>1. Init => TypeOK /\ Checked  BY TypeInit
<1>2. (TypeOK /\ Checked) /\ [Next]_vars => (TypeOK /\ Checked)'  BY TypeNext
<1> QED  BY <1>1, <1>2, PTL DEF Spec

(* Whatever program is the client: remaining_digits is indexed with digits *)
(* only (calculateFeedback).                                               *)
THEOREM IndicesInBounds == Spec => []IndexInBounds
<1>1. TypeOK /\ Checked => IndexInBounds
  BY DEF TypeOK, FeedbackTypeOK, Checked, ValidGuess, IndexInBounds
<1>2. Init => TypeOK /\ Checked  BY TypeInit
<1>3. (TypeOK /\ Checked) /\ [Next]_vars => (TypeOK /\ Checked)'  BY TypeNext
<1> QED  BY <1>1, <1>2, <1>3, PTL DEF Spec
-----------------------------------------------------------------------------
(* The marks are the hint.                                                 *)

LEMMA PlacesFinite ==
  ASSUME NEW S \in SUBSET Places
  PROVE  IsFiniteSet(S) /\ Cardinality(S) \in Nat
<1>1. IsFiniteSet(Places)  BY FeedbackAssumption, FS_Interval DEF Places
<1>2. IsFiniteSet(S)  BY <1>1, FS_Subset
<1> QED  BY <1>2, FS_CardinalityType

LEMMA MissedNext ==
  ASSUME NEW n \in Places, NEW d
  PROVE  /\ Missed(n, d) \in SUBSET Places /\ n \notin Missed(n, d)
         /\ Missed(n + 1, d) =
              IF code_digits[n] = d /\ guess[n] # d THEN Missed(n, d) \cup {n} ELSE Missed(n, d)
<1>1. 0 .. n = (0 .. n - 1) \cup {n}  BY DEF Places
<1>2. 0 .. n - 1 \subseteq Places /\ n \notin 0 .. n - 1  BY FeedbackAssumption DEF Places
<1>3. n + 1 - 1 = n  BY DEF Places
<1> QED  BY <1>1, <1>2, <1>3 DEF Missed

(* What the second loop has done after an iteration.                       *)
LEMMA MarkStep ==
  ASSUME TypeOK, Checked, MarkInv, Mark
  PROVE  /\ \A p \in Places :
              feedback'[p] = IF p < i + 1 /\ guess[p] = code_digits[p] THEN "right" ELSE "absent"
         /\ \A d \in Digits : remaining_digits'[d] = Cardinality(Missed(i + 1, d))
<1>1. /\ i \in Places /\ code_digits[i] \in Digits
      /\ feedback \in [Places -> Marks] /\ remaining_digits \in [Digits -> Nat]
  BY DEF TypeOK, FeedbackTypeOK
<1>2. /\ \A p \in Places :
           feedback[p] = IF p < i /\ guess[p] = code_digits[p] THEN "right" ELSE "absent"
      /\ \A d \in Digits : remaining_digits[d] = Cardinality(Missed(i, d))
  BY DEF MarkInv, Mark
<1>3. ASSUME NEW p \in Places
      PROVE  feedback'[p] = IF p < i + 1 /\ guess[p] = code_digits[p] THEN "right" ELSE "absent"
  <2>1. p # i => (p < i <=> p < i + 1)  BY <1>1 DEF Places
  <2>2. i < i + 1 /\ ~(i < i)  BY <1>1 DEF Places
  <2>3. feedback' =
          [feedback EXCEPT ![i] = IF guess[i] = code_digits[i] THEN "right" ELSE "absent"]
    BY DEF Mark
  <2>4. feedback'[p] = IF p = i THEN (IF guess[i] = code_digits[i] THEN "right" ELSE "absent")
                                ELSE feedback[p]
    BY <1>1, <2>3
  <2> QED  BY <1>2, <2>1, <2>2, <2>4
<1>4. ASSUME NEW d \in Digits
      PROVE  remaining_digits'[d] = Cardinality(Missed(i + 1, d))
  <2>1. IsFiniteSet(Missed(i, d))  BY <1>1, MissedNext, PlacesFinite
  <2>2. Cardinality(Missed(i, d) \cup {i}) = Cardinality(Missed(i, d)) + 1
    BY <1>1, <2>1, MissedNext, FS_AddElement
  <2>3. CASE code_digits[i] = d /\ guess[i] # d
    <3>1. remaining_digits'[d] = remaining_digits[d] + 1  BY <1>1, <2>3 DEF Mark
    <3> QED  BY <1>1, <1>2, <2>2, <2>3, <3>1, MissedNext
  <2>4. CASE ~(code_digits[i] = d /\ guess[i] # d)
    <3>1. remaining_digits'[d] = remaining_digits[d]  BY <1>1, <2>4 DEF Mark
    <3> QED  BY <1>1, <1>2, <2>4, <3>1, MissedNext
  <2> QED  BY <2>3, <2>4
<1> QED  BY <1>3, <1>4

(* An iteration of the third loop.                                         *)
LEMMA MatchStep ==
  ASSUME TypeOK, Checked, MatchInv, Match
  PROVE  MatchInv'
<1>1. /\ i \in Places /\ guess[i] \in Digits /\ loop = "match"
      /\ feedback \in [Places -> Marks] /\ remaining_digits \in [Digits -> Nat]
      /\ guess \in [Places -> Digits]
  BY DEF TypeOK, FeedbackTypeOK, Checked, Match, ValidGuess
<1>2. /\ \A p \in Places : feedback[p] = "right" <=> guess[p] = code_digits[p]
      /\ \A d \in Digits :
           remaining_digits[d] + Cardinality(MarkedWrong(d)) = Cardinality(Missed(CodeLength, d))
      /\ \A p \in Places :
           IF p < i THEN feedback[p] = "absent" => remaining_digits[guess[p]] = 0
                    ELSE feedback[p] # "wrong"
  BY <1>1 DEF MatchInv
<1>3. UNCHANGED <<guess, code_digits>>  BY DEF Match
<1>4. \A d : Missed(CodeLength, d)' = Missed(CodeLength, d)  BY <1>3 DEF Missed
<1>5. loop' \in {"match", "over"} /\ IF loop' = "match" THEN i' = i + 1 ELSE i = CodeLength - 1
  BY <1>1, LoopIndex
<1>6. \A p \in Places : (loop' = "over" \/ p < i') <=> (p < i \/ p = i)
  BY <1>1, <1>5, FeedbackAssumption DEF Places
<1>7. ~(i < i)  BY <1>1 DEF Places
<1>8. CASE feedback[i] # "right" /\ remaining_digits[guess[i]] > 0
  <2>1. /\ feedback' = [feedback EXCEPT ![i] = "wrong"]
        /\ remaining_digits' =
             [remaining_digits EXCEPT ![guess[i]] = remaining_digits[guess[i]] - 1]
    BY <1>8 DEF Match
  <2>2. \A p \in Places : feedback'[p] = IF p = i THEN "wrong" ELSE feedback[p]
    BY <1>1, <2>1
  <2>3. \A d \in Digits :
          remaining_digits'[d] =
            IF d = guess[i] THEN remaining_digits[d] - 1 ELSE remaining_digits[d]
    BY <1>1, <2>1
  <2>4. \A p \in Places : feedback'[p] = "right" <=> guess'[p] = code_digits'[p]
    BY <1>2, <1>3, <1>8, <2>2
  <2>5. ASSUME NEW d \in Digits
        PROVE  remaining_digits'[d] + Cardinality(MarkedWrong(d)')
                 = Cardinality(Missed(CodeLength, d))
    <3>1. MarkedWrong(d)' = {p \in Places : guess[p] = d /\ feedback'[p] = "wrong"}
      BY <1>3 DEF MarkedWrong
    <3>2. i \notin MarkedWrong(d)  BY <1>1, <1>2, <1>7 DEF MarkedWrong
    <3>3. MarkedWrong(d) \in SUBSET Places  BY DEF MarkedWrong
    <3>4. IsFiniteSet(MarkedWrong(d)) /\ Cardinality(MarkedWrong(d)) \in Nat
      BY <3>3, PlacesFinite
    <3>5. remaining_digits[d] \in Nat  BY <1>1
    <3>6. CASE d = guess[i]
      <4>1. MarkedWrong(d)' = MarkedWrong(d) \cup {i}
        BY <1>1, <2>2, <3>1, <3>6 DEF MarkedWrong
      <4>2. Cardinality(MarkedWrong(d)') = Cardinality(MarkedWrong(d)) + 1
        BY <3>2, <3>4, <4>1, FS_AddElement
      <4>3. remaining_digits'[d] = remaining_digits[d] - 1  BY <2>3, <3>6
      <4> QED  BY <1>2, <3>4, <3>5, <4>2, <4>3
    <3>7. CASE d # guess[i]
      <4>1. MarkedWrong(d)' = MarkedWrong(d)  BY <2>2, <3>1, <3>7 DEF MarkedWrong
      <4>2. remaining_digits'[d] = remaining_digits[d]  BY <2>3, <3>7
      <4> QED  BY <1>2, <4>1, <4>2
    <3> QED  BY <3>6, <3>7
  <2>6. ASSUME NEW p \in Places
        PROVE  IF p < i \/ p = i
               THEN feedback'[p] = "absent" => remaining_digits'[guess'[p]] = 0
               ELSE feedback'[p] # "wrong"
    <3>1. guess[p] \in Digits /\ guess'[p] = guess[p]  BY <1>1, <1>3
    <3>2. CASE p < i /\ feedback'[p] = "absent"
      <4>1. p # i  BY <1>7, <3>2
      <4>2. remaining_digits[guess[p]] = 0  BY <1>2, <2>2, <3>2, <4>1
      <4>3. guess[p] # guess[i]  BY <1>8, <4>2
      <4> QED  BY <2>3, <3>1, <3>2, <4>2, <4>3
    <3> QED  BY <1>2, <2>2, <3>2
  <2> QED  BY <1>4, <1>6, <2>4, <2>5, <2>6 DEF MatchInv
<1>9. CASE ~(feedback[i] # "right" /\ remaining_digits[guess[i]] > 0)
  <2>1. UNCHANGED <<feedback, remaining_digits>>  BY <1>9 DEF Match
  <2>2. \A d : MarkedWrong(d)' = MarkedWrong(d)  BY <1>3, <2>1 DEF MarkedWrong
  <2>3. feedback[i] = "absent" => remaining_digits[guess[i]] = 0
    <3>1. remaining_digits[guess[i]] \in Nat  BY <1>1
    <3> QED  BY <1>9, <3>1
  <2>4. ASSUME NEW p \in Places
        PROVE  IF p < i \/ p = i
               THEN feedback'[p] = "absent" => remaining_digits'[guess'[p]] = 0
               ELSE feedback'[p] # "wrong"
    BY <1>2, <1>3, <2>1, <2>3
  <2> QED  BY <1>2, <1>3, <1>4, <1>6, <2>1, <2>2, <2>4 DEF MatchInv
<1> QED  BY <1>8, <1>9

HintInv == TypeOK /\ Checked /\ SplitInv /\ MarkInv /\ MatchInv

(* Nothing else touches a calculation: it is begun, used or left alone.    *)
LEMMA NoOtherStep ==
  ASSUME Checked, [Next]_vars
  PROVE  Calculate \/ UNCHANGED feedbackVars \/ loop' = "none" \/ \E g : Begin(g, game.code)
<1>1. CASE ReceiveGuess
  <2> DEFINE m == Head(to_server)
  <2>1. loop = "none"  BY <1>1 DEF Checked, ReceiveGuess, Receives
  <2>2. CASE m.type = "GUESS" /\ ValidGuess(m.guess)  BY <1>1, <2>2 DEF ReceiveGuess
  <2>3. CASE ~(m.type = "GUESS" /\ ValidGuess(m.guess))  BY <1>1, <2>1, <2>3 DEF ReceiveGuess
  <2> QED  BY <2>2, <2>3
<1>2. CASE SendFeedback \/ SendWin  BY <1>2 DEF SendFeedback, SendWin, AnswerGuess
<1>3. CASE SetUpServer \/ AcceptClient \/ ReceiveStart \/ SendError \/ ReceiveExit \/ ReceiveFails
  BY <1>3 DEF SetUpServer, AcceptClient, ReceiveStart, SendError, ReceiveExit, ReceiveFails
<1>4. CASE ClientStep  BY <1>4, ClientStepFrame DEF serverVars
<1>5. CASE UNCHANGED vars  BY <1>5 DEF vars, serverVars
<1> QED  BY <1>1, <1>2, <1>3, <1>4, <1>5 DEF Next, ServerStep

LEMMA HintInit == Init => HintInv
BY TypeInit DEF Init, FeedbackInit, HintInv, SplitInv, MarkInv, MatchInv

LEMMA HintNext == HintInv /\ [Next]_vars => HintInv'
<1> SUFFICES ASSUME HintInv, [Next]_vars PROVE (SplitInv /\ MarkInv /\ MatchInv)'
  BY TypeNext DEF HintInv
<1> USE DEF HintInv
<1>1. CASE Calculate
  <2>1. CASE Split
    <3>1. /\ UNCHANGED <<remaining_digits, feedback>> /\ loop' \in {"split", "mark"}
          /\ loop' = "mark" => i' = 0
          /\ remaining_digits = [d \in Digits |-> 0] /\ feedback = [p \in Places |-> "absent"]
      BY <2>1 DEF Split, SplitInv
    <3>2. ASSUME loop' = "mark" PROVE MarkInv'
      <4>1. ASSUME NEW p \in Places PROVE ~(p < 0)  BY DEF Places
      <4>2. ASSUME NEW d \in Digits PROVE Cardinality(Missed(0, d)') = 0
        <5>1. Missed(0, d)' = {}  BY DEF Missed
        <5> QED  BY <5>1, FS_EmptySet
      <4> QED  BY <3>1, <3>2, <4>1, <4>2 DEF MarkInv
    <3> QED  BY <3>1, <3>2 DEF SplitInv, MarkInv, MatchInv
  <2>2. CASE Mark
    <3>1. /\ i \in Places /\ loop' \in {"mark", "match"}
          /\ IF loop' = "mark" THEN i' = i + 1 ELSE i = CodeLength - 1 /\ i' = 0
      BY <2>2, LoopIndex DEF TypeOK, FeedbackTypeOK, Mark
    <3>2. UNCHANGED <<guess, code_digits>>  BY <2>2 DEF Mark
    <3>3. \A n, d : Missed(n, d)' = {p \in 0 .. n' - 1 : code_digits[p] = d /\ guess[p] # d}
      BY <3>2 DEF Missed
    <3>4. CASE loop' = "mark"
      <4>1. \A d : Missed(i, d)' = Missed(i + 1, d)  BY <3>1, <3>2, <3>4 DEF Missed
      <4> QED  BY <2>2, <3>1, <3>2, <3>4, <4>1, MarkStep DEF SplitInv, MarkInv, MatchInv
    <3>5. CASE loop' = "match"
      <4>1. i + 1 = CodeLength  BY <3>1, <3>5, FeedbackAssumption
      <4>2. ASSUME NEW p \in Places
            PROVE  /\ feedback'[p] = IF guess[p] = code_digits[p] THEN "right" ELSE "absent"
                   /\ ~(p < i')
        BY <2>2, <3>1, <3>5, <4>1, MarkStep DEF Places
      <4>3. ASSUME NEW d \in Digits
            PROVE  remaining_digits'[d] + Cardinality(MarkedWrong(d)')
                     = Cardinality(Missed(CodeLength, d)')
        <5>1. MarkedWrong(d)' = {}  BY <4>2 DEF MarkedWrong
        <5>2. Missed(CodeLength, d)' = Missed(CodeLength, d)  BY <3>2 DEF Missed
        <5>3. remaining_digits'[d] = Cardinality(Missed(CodeLength, d))
          BY <2>2, <4>1, MarkStep
        <5>4. Cardinality(Missed(CodeLength, d)) \in Nat
          <6>1. Missed(CodeLength, d) \in SUBSET Places  BY DEF Missed, Places
          <6> QED  BY <6>1, PlacesFinite
        <5> QED  BY <5>1, <5>2, <5>3, <5>4, FS_EmptySet
      <4> QED  BY <3>2, <3>5, <4>2, <4>3 DEF SplitInv, MarkInv, MatchInv
    <3> QED  BY <3>1, <3>4, <3>5
  <2>3. CASE Match
    <3>1. loop' \in {"match", "over"}  BY <2>3, LoopIndex DEF TypeOK, FeedbackTypeOK, Match
    <3> QED  BY <2>3, <3>1, MatchStep DEF SplitInv, MarkInv
  <2> QED  BY <1>1, <2>1, <2>2, <2>3 DEF Calculate, CalculateFeedback
<1>2. CASE UNCHANGED feedbackVars
  <2> USE <1>2 DEF feedbackVars
  <2>2. \A d : MarkedWrong(d)' = MarkedWrong(d)  BY DEF MarkedWrong
  <2>3. SplitInv'  BY DEF SplitInv
  <2>4. MarkInv'
    <3>1. \A d : Missed(i, d)' = Missed(i, d)  BY DEF Missed
    <3> QED  BY <3>1 DEF MarkInv
  <2>5. MatchInv'
    <3>1. \A d : Missed(CodeLength, d)' = Missed(CodeLength, d)  BY DEF Missed
    <3> QED  BY <2>2, <3>1 DEF MatchInv
  <2> QED  BY <2>3, <2>4, <2>5
<1>3. CASE loop' = "none"  BY <1>3 DEF SplitInv, MarkInv, MatchInv
<1>4. CASE \E g : Begin(g, game.code)  BY <1>4 DEF Begin, SplitInv, MarkInv, MatchInv
<1> QED  BY <1>1, <1>2, <1>3, <1>4, NoOtherStep

(* Mastermind counts as this module does.                                  *)
LEMMA SameCardinality == \A S : Abstract!Cardinality(S) = Cardinality(S)
BY DEF Abstract!Cardinality, Cardinality

(* Of the places with d in the guess, some are right, some marked wrong    *)
(* and the rest absent; of those with d in the code, some are right and    *)
(* the others are missed.  If there is an absent one, nothing is left.     *)
LEMMA MarksAreHint == HintInv => HintIsRight
<1> SUFFICES ASSUME HintInv, loop = "over"
             PROVE  Abstract!IsHint(feedback, guess, code_digits)
  BY DEF HintIsRight
<1> USE DEF HintInv
<1>1. /\ \A p \in Places : feedback[p] = "right" <=> guess[p] = code_digits[p]
      /\ \A d \in Digits :
           remaining_digits[d] + Cardinality(MarkedWrong(d)) = Cardinality(Missed(CodeLength, d))
      /\ \A p \in Places : feedback[p] = "absent" => remaining_digits[guess[p]] = 0
      /\ feedback \in [Places -> Marks] /\ remaining_digits \in [Digits -> Nat]
  BY DEF MatchInv, TypeOK, FeedbackTypeOK
<1>2. ASSUME NEW d \in Digits
      PROVE  Abstract!Count(d, guess, {p \in Places : feedback[p] # "absent"})
               = Abstract!AtMost(Abstract!Count(d, guess, Places),
                                 Abstract!Count(d, code_digits, Places))
  <2> DEFINE R == {p \in Places : guess[p] = d /\ code_digits[p] = d}
             W == MarkedWrong(d)
             A == {p \in Places : guess[p] = d /\ feedback[p] = "absent"}
             M == Missed(CodeLength, d)
  <2>1. {p \in {q \in Places : feedback[q] # "absent"} : guess[p] = d} = R \cup W
    BY <1>1 DEF MarkedWrong, Marks
  <2>2. {p \in Places : guess[p] = d} = (R \cup W) \cup A
    BY <1>1 DEF MarkedWrong, Marks
  <2>3. {p \in Places : code_digits[p] = d} = R \cup M  BY DEF Missed, Places
  <2>4. R \cap W = {} /\ (R \cup W) \cap A = {} /\ R \cap M = {}
    BY <1>1 DEF MarkedWrong, Missed
  <2>5. /\ R \in SUBSET Places /\ W \in SUBSET Places /\ A \in SUBSET Places
        /\ M \in SUBSET Places /\ R \cup W \in SUBSET Places
    BY DEF MarkedWrong, Missed, Places
  <2>6. /\ IsFiniteSet(R) /\ IsFiniteSet(W) /\ IsFiniteSet(A) /\ IsFiniteSet(M)
        /\ IsFiniteSet(R \cup W)
        /\ Cardinality(R) \in Nat /\ Cardinality(W) \in Nat /\ Cardinality(A) \in Nat
        /\ Cardinality(M) \in Nat
    BY <2>5, PlacesFinite
  <2>7. ASSUME NEW S, NEW T, IsFiniteSet(S), IsFiniteSet(T), S \cap T = {},
               Cardinality(S) \in Nat, Cardinality(T) \in Nat
        PROVE  Cardinality(S \cup T) = Cardinality(S) + Cardinality(T)
    <3>1. Cardinality(S \cup T) = Cardinality(S) + Cardinality(T) - Cardinality(S \cap T)
      BY <2>7, FS_Union
    <3>2. Cardinality(S \cap T) = 0  BY <2>7, FS_EmptySet
    <3> QED  BY <2>7, <3>1, <3>2
  <2>8. Cardinality(R \cup W) = Cardinality(R) + Cardinality(W)  BY <2>4, <2>6, <2>7
  <2>9. Cardinality((R \cup W) \cup A) = Cardinality(R) + Cardinality(W) + Cardinality(A)
    BY <2>4, <2>6, <2>7, <2>8
  <2>10. Cardinality(R \cup M) = Cardinality(R) + Cardinality(M)  BY <2>4, <2>6, <2>7
  <2>11. remaining_digits[d] + Cardinality(W) = Cardinality(M) /\ remaining_digits[d] \in Nat
    BY <1>1
  <2>12. Cardinality(A) = 0 \/ remaining_digits[d] = 0
    BY <1>1, <2>6, FS_EmptySet
  <2> HIDE DEF R, W, A, M
  <2>13. Cardinality(R \cup W)
           = Abstract!AtMost(Cardinality((R \cup W) \cup A), Cardinality(R \cup M))
    BY <2>6, <2>8, <2>9, <2>10, <2>11, <2>12 DEF Abstract!AtMost
  <2>14. Abstract!Count(d, guess, {p \in Places : feedback[p] # "absent"}) = Cardinality(R \cup W)
    BY <2>1, SameCardinality DEF Abstract!Count
  <2>15. Abstract!Count(d, guess, Places) = Cardinality((R \cup W) \cup A)
    BY <2>2, SameCardinality DEF Abstract!Count
  <2>16. Abstract!Count(d, code_digits, Places) = Cardinality(R \cup M)
    BY <2>3, SameCardinality DEF Abstract!Count
  <2> QED  BY <2>13, <2>14, <2>15, <2>16
<1> QED  BY <1>1, <1>2 DEF Abstract!IsHint

(* The marks that calculateFeedback leaves tell which digits have their    *)
(* place and how often each of the others is in the code, whatever digits  *)
(* are repeated in either.                                                 *)
THEOREM HintsAreRight == Spec => []HintIsRight
BY HintInit, HintNext, MarksAreHint, PTL DEF Spec
-----------------------------------------------------------------------------
(* The turns: where both programs are, and what is on its way, while the   *)
(* client is this one.                                                     *)
Start   == Msg("START", NoGuess)
Exit    == Msg("EXIT", NoGuess)
Before  == {"WAIT_FOR_CONNECTION", "WAIT_FOR_START_MESSAGE"}

At(client, server, sent, answered) ==
  client_state = client /\ server_state \in server /\ to_server = sent /\ to_client = answered

(* Nobody is there to fail, or the player has failed first.                *)
Apart ==
  \/ client_state = "failed"
  \/ server_state = "not_started" /\ to_client = <<>>
       /\ client_state \in {"not_connected", "CONNECT_TO_SERVER", "SEND_START_MESSAGE",
                            "SEND_GUESS", "WAIT_FOR_FEEDBACK"}
  \/ client_state = "not_connected" /\ server_state \in {"SETTING_UP", "WAIT_FOR_CONNECTION"}
       /\ to_client = <<>>

ClientsTurn ==
  \/ At("CONNECT_TO_SERVER", {"SETTING_UP", "WAIT_FOR_CONNECTION"}, <<>>, <<>>)
  \/ At("SEND_START_MESSAGE", Before, <<>>, <<>>)
  \/ At("SEND_GUESS", Before, <<Start>>, <<>>)
  \/ At("SEND_GUESS", {"WAITING_FOR_MESSAGE"}, <<>>, <<>>)
  \/ At("WAIT_FOR_FEEDBACK", {"WAITING_FOR_MESSAGE"}, <<>>, <<"FEEDBACK">>)
  \/ At("WAIT_FOR_FEEDBACK", {"WAITING_FOR_MESSAGE"}, <<>>, <<"ERROR">>)
  \/ At("WAIT_FOR_FEEDBACK", {"WAIT_FOR_EXIT_MESSAGE"}, <<>>, <<"WIN">>)
  \/ At("RECEIVED_WIN_FEEDBACK", {"WAIT_FOR_EXIT_MESSAGE"}, <<>>, <<>>)

ServersTurn ==
  \/ \E g \in Guesses :
       \/ At("WAIT_FOR_FEEDBACK", Before, <<Start, Msg("GUESS", g)>>, <<>>)
       \/ At("WAIT_FOR_FEEDBACK", {"WAITING_FOR_MESSAGE"}, <<Msg("GUESS", g)>>, <<>>)
  \/ At("WAIT_FOR_FEEDBACK", {"SEND_FEEDBACK"}, <<>>, <<>>)
  \/ At("exited", {"WAIT_FOR_EXIT_MESSAGE"}, <<Exit>>, <<>>)
  \/ At("exited", {"exited"}, <<>>, <<>>)

TurnInv == game.ours => Apart \/ ClientsTurn \/ ServersTurn

LEMMA OneOrTwo ==
  /\ \A m : Append(<<>>, m) = <<m>> /\ Head(<<m>>) = m /\ Tail(<<m>>) = <<>> /\ <<m>> # <<>>
  /\ \A m, n : /\ Append(<<m>>, n) = <<m, n>> /\ <<m, n>> # <<>>
               /\ Head(<<m, n>>) = m /\ Tail(<<m, n>>) = <<n>>
<1>1. \A m : Append(<<>>, m) = <<m>>  OBVIOUS
<1>2. \A m : Head(<<m>>) = m /\ <<m>> # <<>>  OBVIOUS
<1>3. \A m : Tail(<<m>>) = <<>>  OBVIOUS
<1>4. ASSUME NEW m, NEW n PROVE Append(<<m>>, n) = <<m, n>>
  <2>1. <<m>> \in Seq({m, n}) /\ <<m, n>> \in Seq({m, n}) /\ Len(<<m>>) = 1
    OBVIOUS
  <2>2. /\ Append(<<m>>, n) \in Seq({m, n}) /\ Len(Append(<<m>>, n)) = 2
        /\ Append(<<m>>, n)[1] = m /\ Append(<<m>>, n)[2] = n
    BY <2>1, AppendProperties
  <2>3. \A k \in 1 .. Len(Append(<<m>>, n)) : Append(<<m>>, n)[k] = <<m, n>>[k]
    <3>1. \A k \in 1 .. 2 : k = 1 \/ k = 2  OBVIOUS
    <3>2. <<m, n>>[1] = m /\ <<m, n>>[2] = n  OBVIOUS
    <3> QED  BY <2>2, <3>1, <3>2
  <2>4. Len(<<m, n>>) = 2  OBVIOUS
  <2> QED  BY <2>1, <2>2, <2>3, <2>4, SeqEqual
<1>5. \A m, n : <<m, n>> # <<>> /\ Head(<<m, n>>) = m  OBVIOUS
<1>6. \A m, n : Tail(<<m, n>>) = <<n>>  OBVIOUS
<1> QED  BY <1>1, <1>2, <1>3, <1>4, <1>5, <1>6

LEMMA MsgTypes ==
  ASSUME NEW g
  PROVE  Start.type = "START" /\ Exit.type = "EXIT" /\ Msg("GUESS", g).type = "GUESS"
BY DEF Start, Exit, Msg

LEMMA TurnInit == Init => TurnInv
BY DEF Init, TurnInv, ClientsTurn, At

(* A step leaves the game as it is and those who have parted apart.        *)
LEMMA ApartNext ==
  ASSUME Next, Apart, game.ours
  PROVE  Apart'
<1> USE DEF Apart
<1>1. CASE SetUpServer  BY <1>1 DEF SetUpServer, clientVars
<1>2. CASE AcceptClient  BY <1>2 DEF AcceptClient, clientVars, NoClient
<1>3. CASE ReceiveStart  BY <1>3 DEF ReceiveStart, Receives, Take, clientVars
<1>4. CASE ReceiveGuess  BY <1>4 DEF ReceiveGuess, Receives, Take, clientVars
<1>5. CASE SendError  BY <1>5 DEF SendError, clientVars
<1>6. CASE Calculate  BY <1>6 DEF Calculate, clientVars
<1>7. CASE SendFeedback  BY <1>7 DEF SendFeedback, AnswerGuess, clientVars
<1>8. CASE SendWin  BY <1>8 DEF SendWin, AnswerGuess, clientVars
<1>9. CASE ReceiveExit  BY <1>9 DEF ReceiveExit, Receives, Take, clientVars
<1>10. CASE ReceiveFails  BY <1>10 DEF ReceiveFails, clientVars
<1>11. CASE ClientStep
  <2>1. server_state' = server_state  BY <1>11, ClientStepFrame DEF serverVars
  <2>2. CASE client_state \in {"failed", "not_connected"}
    BY <1>11, <2>1, <2>2
    DEF ClientStep, ClientAt, ConnectToServer, SendStart, SendGuess, EndOfInput,
        WaitForFeedback, NoFeedback, SendExit, SendStrange, StrangeLeaves
  <2>3. CASE server_state = "not_started" /\ client_state \notin {"failed", "not_connected"}
    BY <1>11, <2>1, <2>3
    DEF ClientStep, ClientAt, ConnectToServer, SendStart, SendGuess, EndOfInput, Sends,
        WaitForFeedback, NoFeedback, SendExit, SendStrange, StrangeLeaves
  <2> QED  BY <2>2, <2>3
<1> QED
  BY <1>1, <1>2, <1>3, <1>4, <1>5, <1>6, <1>7, <1>8, <1>9, <1>10, <1>11
  DEF Next, ServerStep

LEMMA ServerTurnNext ==
  ASSUME ServerStep, ClientsTurn \/ ServersTurn
  PROVE  (Apart \/ ClientsTurn \/ ServersTurn)'
<1> USE OneOrTwo, MsgTypes DEF ClientsTurn, ServersTurn, At, Before
<1>1. CASE SetUpServer  BY <1>1 DEF SetUpServer, clientVars, Apart
<1>2. CASE AcceptClient  BY <1>2 DEF AcceptClient, clientVars, NoClient, Apart
<1>3. CASE ReceiveStart
  <2>1. server_state = "WAIT_FOR_START_MESSAGE" /\ to_server # <<>>
        /\ Take("START", "WAITING_FOR_MESSAGE")
    BY <1>3 DEF ReceiveStart, Receives
  <2>2. CASE to_server = <<Start>>  BY <2>1, <2>2 DEF Take, clientVars
  <2>3. CASE \E g \in Guesses : to_server = <<Start, Msg("GUESS", g)>>
    <3>1. PICK g \in Guesses : to_server = <<Start, Msg("GUESS", g)>>  BY <2>3
    <3>2. client_state' = "WAIT_FOR_FEEDBACK" /\ to_client' = <<>>
          /\ to_server' = <<Msg("GUESS", g)>> /\ server_state' = "WAITING_FOR_MESSAGE"
      BY <2>1, <3>1 DEF Take, clientVars
    <3> QED  BY <3>2
  <2> QED  BY <2>1, <2>2, <2>3
<1>4. CASE ReceiveGuess
  <2>1. server_state = "WAITING_FOR_MESSAGE" /\ to_server # <<>> /\ Take("GUESS", "SEND_FEEDBACK")
    BY <1>4 DEF ReceiveGuess, Receives
  <2>2. PICK g \in Guesses : At("WAIT_FOR_FEEDBACK", {"WAITING_FOR_MESSAGE"},
                                <<Msg("GUESS", g)>>, <<>>)
    BY <2>1
  <2> QED  BY <2>1, <2>2 DEF Take, clientVars
<1>5. CASE SendError
  BY <1>5 DEF SendError, Reply, Answers, ClientGone, clientVars
<1>6. CASE Calculate  BY <1>6 DEF Calculate, clientVars
<1>7. CASE SendFeedback
  BY <1>7 DEF SendFeedback, AnswerGuess, Reply, Answers, ClientGone, clientVars
<1>8. CASE SendWin
  BY <1>8 DEF SendWin, AnswerGuess, Reply, Answers, ClientGone, clientVars
<1>9. CASE ReceiveExit  BY <1>9 DEF ReceiveExit, Receives, Take, clientVars
<1>10. CASE ReceiveFails  BY <1>10 DEF ReceiveFails, ClientGone, clientVars
<1> QED
  BY <1>1, <1>2, <1>3, <1>4, <1>5, <1>6, <1>7, <1>8, <1>9, <1>10 DEF ServerStep

LEMMA ClientTurnNext ==
  ASSUME TypeOK, ClientStep, ClientsTurn \/ ServersTurn, game.ours
  PROVE  (Apart \/ ClientsTurn \/ ServersTurn)'
<1> USE OneOrTwo DEF ClientsTurn, ServersTurn, At, Before
<1>1. server_state' = server_state  BY ClientStepFrame DEF serverVars
<1>2. CASE ConnectToServer  BY <1>1, <1>2 DEF ConnectToServer, ClientAt, Apart
<1>3. CASE SendStart  BY <1>1, <1>3 DEF SendStart, ClientAt, Sends, ServerGone, Start
<1>4. CASE SendGuess
  <2>1. Head(input) \in Guesses \/ Head(input) = Refused
    BY <1>4, TailType DEF SendGuess, ClientAt, TypeOK, Lines
  <2>2. CASE Head(input) = Refused  BY <1>1, <1>4, <2>2 DEF SendGuess, ClientAt
  <2>3. CASE Head(input) # Refused
    BY <1>1, <1>4, <2>1, <2>3 DEF SendGuess, ClientAt, Sends, ServerGone
  <2> QED  BY <2>2, <2>3
<1>5. CASE EndOfInput  BY <1>5 DEF EndOfInput, Apart
<1>6. CASE WaitForFeedback  
  <2>1. client_state = "WAIT_FOR_FEEDBACK" /\ to_client' = Tail(to_client)
        /\ to_client # <<>> /\ UNCHANGED to_server
    BY <1>6 DEF WaitForFeedback, ClientAt
  <2>2. /\ Head(to_client) = "WIN" => client_state' = "RECEIVED_WIN_FEEDBACK"
        /\ Head(to_client) \in {"FEEDBACK", "ERROR"} => client_state' = "SEND_GUESS"
    BY <1>6 DEF WaitForFeedback
  <2> QED  BY <1>1, <2>1, <2>2
<1>7. CASE NoFeedback  BY <1>7 DEF NoFeedback, Apart
<1>8. CASE SendExit  BY <1>1, <1>8 DEF SendExit, ClientAt, Sends, ServerGone, Exit
<1>9. CASE SendStrange \/ StrangeLeaves  BY <1>9 DEF SendStrange, StrangeLeaves, ClientAt
<1> QED  BY <1>2, <1>3, <1>4, <1>5, <1>6, <1>7, <1>8, <1>9 DEF ClientStep

LEMMA TurnNext == TypeOK /\ TurnInv /\ [Next]_vars => TurnInv'
<1> SUFFICES ASSUME TypeOK, TurnInv, [Next]_vars, game'.ours
             PROVE  (Apart \/ ClientsTurn \/ ServersTurn)'
  BY DEF TurnInv
<1>1. CASE UNCHANGED vars
  BY <1>1 DEF vars, serverVars, clientVars, TurnInv, Apart, ClientsTurn, ServersTurn, At
<1>2. CASE Next
  <2>1. game' = game
    BY <1>2, ClientStepFrame
    DEF Next, ServerStep, SetUpServer, AcceptClient, ReceiveStart, ReceiveGuess, Take,
        SendError, Calculate, SendFeedback, SendWin, AnswerGuess, ReceiveExit, ReceiveFails
  <2> QED
    BY <1>2, <2>1, ApartNext, ServerTurnNext, ClientTurnNext DEF Next, TurnInv
<1> QED  BY <1>1, <1>2

(* The two state machines wait for each other's messages in the same       *)
(* order: the server ends with an error only if its player has failed      *)
(* before.                                                                 *)
THEOREM PlayerIsKept == Spec => []PlayerNeverDropped
<1>1. TurnInv => PlayerNeverDropped
  BY DEF TurnInv, PlayerNeverDropped, Apart, ClientsTurn, ServersTurn, At, Before
<1>2. Init => TypeOK /\ Checked /\ TurnInv  BY TypeInit, TurnInit
<1>3. (TypeOK /\ Checked /\ TurnInv) /\ [Next]_vars => (TypeOK /\ Checked /\ TurnInv)'
  BY TypeNext, TurnNext
<1> QED  BY <1>1, <1>2, <1>3, PTL DEF Spec

-----------------------------------------------------------------------------
(* Induction, from the fact that the finite sets of numbers are well       *)
(* ordered by inclusion.                                                   *)

LEMMA LeastNumber ==
  ASSUME NEW T \in SUBSET Nat, T # {}
  PROVE  \E n \in T : \A m \in T : n <= m
<1> DEFINE X == {1 .. n : n \in T}
<1>1. X \subseteq FiniteSubsetsOf(Nat)  BY FS_Interval DEF FiniteSubsetsOf
<1>2. PICK x \in X : \A y \in X : <<y, x>> \notin StrictSubsetOrdering(Nat)
  <2>1. X # {}  OBVIOUS
  <2> QED  BY <1>1, <2>1, WFMin, FS_StrictSubsetOrderingWellFounded, Zenon
<1>3. PICK n \in T : x = 1 .. n  OBVIOUS
<1>4. ASSUME NEW m \in T PROVE n <= m
  <2>1. <<1 .. m, 1 .. n>> \notin StrictSubsetOrdering(Nat)  BY <1>2, <1>3
  <2> QED  BY <2>1 DEF StrictSubsetOrdering
<1> QED  BY <1>4

LEMMA Induction ==
  ASSUME NEW T \in SUBSET Nat, 0 \in T, \A n \in T : n + 1 \in T
  PROVE  T = Nat
<1>1. ASSUME Nat \ T # {} PROVE FALSE
  <2>1. PICK n \in Nat \ T : \A m \in Nat \ T : n <= m  BY <1>1, LeastNumber
  <2>2. n # 0  OBVIOUS
  <2>3. n - 1 \in Nat /\ ~(n <= n - 1)  BY <2>2
  <2>4. n - 1 \in T  BY <2>1, <2>3
  <2> QED  BY <2>4
<1> QED  BY <1>1

-----------------------------------------------------------------------------
(* Powers: the equation that defines them has a solution.                  *)

PowersUpTo(n, f) ==
  f \in [0 .. n -> Nat] /\ f[0] = 1 /\ \A k \in 1 .. n : f[k] = Base * f[k - 1]

LEMMA PowersExist == \A n \in Nat : \E f : PowersUpTo(n, f)
<1> DEFINE T == {n \in Nat : \E f : PowersUpTo(n, f)}
<1>1. 0 \in T
  <2>1. PowersUpTo(0, [k \in 0 .. 0 |-> 1])  BY DEF PowersUpTo
  <2> QED  BY <2>1
<1>2. ASSUME NEW n \in T PROVE n + 1 \in T
  <2>1. PICK f : PowersUpTo(n, f)  OBVIOUS
  <2> DEFINE g == [k \in 0 .. n + 1 |-> IF k <= n THEN f[k] ELSE Base * f[n]]
  <2>2. f \in [0 .. n -> Nat] /\ f[0] = 1 /\ \A k \in 1 .. n : f[k] = Base * f[k - 1]
    BY <2>1 DEF PowersUpTo
  <2>3. n \in 0 .. n /\ f[n] \in Nat  BY <2>2
  <2>4. Base * f[n] \in Nat  BY <2>3, FeedbackAssumption
  <2>5. g \in [0 .. n + 1 -> Nat]  BY <2>2, <2>4
  <2>6. g[0] = 1  BY <2>2
  <2>7. ASSUME NEW k \in 1 .. n + 1 PROVE g[k] = Base * g[k - 1]
    <3>1. CASE k <= n  BY <2>2, <3>1
    <3>2. CASE k = n + 1  BY <2>3, <3>2
    <3> QED  BY <3>1, <3>2
  <2>8. PowersUpTo(n + 1, g)  BY <2>5, <2>6, <2>7 DEF PowersUpTo
  <2> QED  BY <2>8
<1> HIDE DEF T
<1>3. T = Nat  BY <1>1, <1>2, Induction DEF T
<1> QED  BY <1>3 DEF T

LEMMA PowersAgree ==
  ASSUME NEW n \in Nat, NEW f, NEW g, PowersUpTo(n, f), PowersUpTo(n + 1, g)
  PROVE  f[n] = g[n]
<1> DEFINE T == {k \in Nat : k <= n => f[k] = g[k]}
<1>1. 0 \in T  BY DEF PowersUpTo
<1>2. ASSUME NEW k \in T PROVE k + 1 \in T
  <2>1. CASE k + 1 <= n
    <3>1. /\ k + 1 \in 1 .. n /\ k + 1 \in 1 .. n + 1 /\ k + 1 - 1 = k /\ f[k] = g[k]
      BY <2>1
    <3> QED  BY <3>1 DEF PowersUpTo
  <2> QED  BY <2>1
<1> HIDE DEF T
<1>3. T = Nat  BY <1>1, <1>2, Induction DEF T
<1> QED  BY <1>3 DEF T

LEMMA PowerEquation == Power = [n \in Nat |-> IF n = 0 THEN 1 ELSE Base * Power[n - 1]]
<1> DEFINE upto(n) == CHOOSE f : PowersUpTo(n, f)
           g == [n \in Nat |-> upto(n)[n]]
<1>1. ASSUME NEW n \in Nat PROVE PowersUpTo(n, upto(n))  BY PowersExist
<1>2. ASSUME NEW n \in Nat PROVE g[n] = IF n = 0 THEN 1 ELSE Base * g[n - 1]
  <2> HIDE DEF upto
  <2>1. CASE n = 0  BY <1>1, <2>1 DEF PowersUpTo
  <2>2. CASE n # 0
    <3>1. n - 1 \in Nat /\ n \in 1 .. n /\ n - 1 + 1 = n  BY <2>2
    <3>2. upto(n - 1)[n - 1] = upto(n)[n - 1]  BY <1>1, <3>1, PowersAgree
    <3>3. upto(n)[n] = Base * upto(n)[n - 1]  BY <1>1, <3>1 DEF PowersUpTo
    <3> QED  BY <2>2, <3>1, <3>2, <3>3
  <2> QED  BY <2>1, <2>2
<1> HIDE DEF g
<1>3. g = [n \in Nat |-> IF n = 0 THEN 1 ELSE Base * g[n - 1]]
  <2>1. g = [n \in Nat |-> g[n]]  BY DEF g
  <2> QED  BY <1>2, <2>1
<1> QED  BY <1>3, Zenon DEF Power

LEMMA PowerFacts ==
  /\ Power[0] = 1
  /\ \A n \in Nat : Power[n] \in Nat \ {0} /\ Power[n + 1] = Power[n] * Base
<1>1. Power[0] = 1  BY PowerEquation
<1>2. ASSUME NEW n \in Nat PROVE Power[n + 1] = Base * Power[n]
  <2>1. n + 1 \in Nat /\ n + 1 # 0 /\ n + 1 - 1 = n  OBVIOUS
  <2> QED  BY <2>1, PowerEquation
<1> DEFINE T == {n \in Nat : Power[n] \in Nat \ {0}}
<1>3. ASSUME NEW n \in T PROVE n + 1 \in T
  <2>1. Power[n] \in Nat \ {0} /\ Base \in Nat \ {0}  BY FeedbackAssumption
  <2>2. Base * Power[n] \in Nat \ {0}  BY <2>1
  <2> QED  BY <1>2, <2>2
<1>4. 0 \in T  BY <1>1
<1> HIDE DEF T
<1>5. T = Nat  BY <1>3, <1>4, Induction DEF T
<1>6. ASSUME NEW n \in Nat PROVE Base * Power[n] = Power[n] * Base
  BY <1>5, FeedbackAssumption DEF T
<1> QED  BY <1>1, <1>2, <1>5, <1>6 DEF T

LEMMA DivideTwice ==
  ASSUME NEW n \in Nat, NEW a \in Nat \ {0}, NEW b \in Nat \ {0}
  PROVE  (n \div a) \div b = n \div (a * b)
OBVIOUS

-----------------------------------------------------------------------------
(* What is split from the code are its digits.                             *)

DigitsInv ==
  /\ loop = "split" =>
       /\ rest = game.code \div Power[CodeLength - 1 - i]
       /\ \A p \in Places : p > i => code_digits[p] = Secret[p]
  /\ loop \in {"mark", "match", "over"} => code_digits = Secret

(* Of the first n places those that were guessed.                          *)
Hit(n) == {p \in 0 .. n - 1 : guess[p] = code_digits[p]}

HitsInv ==
  /\ loop = "mark" => counter = Cardinality(Hit(i))
  /\ loop \in {"match", "over"} => counter = Cardinality(Hit(CodeLength))

LEMMA SecretType == ASSUME TypeOK PROVE Secret \in [Places -> Digits]
<1>1. ASSUME NEW p \in Places
      PROVE  (game.code \div Power[CodeLength - 1 - p]) % Base \in Digits
  <2>1. CodeLength - 1 - p \in Nat  BY FeedbackAssumption DEF Places
  <2>2. Power[CodeLength - 1 - p] \in Nat \ {0}  BY <2>1, PowerFacts
  <2>3. game.code \in Int  BY GameAssumption DEF TypeOK
  <2>4. game.code \div Power[CodeLength - 1 - p] \in Int  BY <2>2, <2>3
  <2> QED  BY <2>4, FeedbackAssumption DEF Digits
<1> QED  BY <1>1 DEF Secret

(* The last digit of what is left is the next of the code, from the right. *)
LEMMA SplitDigit ==
  ASSUME TypeOK, Checked, DigitsInv, Split, game' = game
  PROVE  DigitsInv'
<1>1. /\ i \in Places /\ rest \in Nat /\ code_digits \in [Places -> Digits]
      /\ loop = "split"
  BY DEF TypeOK, FeedbackTypeOK, Checked, Split
<1>2. /\ loop' \in {"split", "mark"}
      /\ IF loop' = "mark" THEN i = 0 /\ i' = 0 ELSE i' \in Places /\ i' = i - 1
  BY <1>1, LoopIndex
<1> DEFINE n == CodeLength - 1 - i
<1>3. n \in Nat /\ n + 1 = CodeLength - 1 - (i - 1)  BY <1>1, FeedbackAssumption DEF Places
<1>4. rest = game.code \div Power[n] /\ \A p \in Places : p > i => code_digits[p] = Secret[p]
  BY <1>1 DEF DigitsInv
<1>5. game.code \in Nat  BY <1>1 DEF Checked
<1>6. code_digits' = [code_digits EXCEPT ![i] = rest % Base] /\ rest' = rest \div Base
  BY <1>1 DEF Split, Remainder, Quotient
<1>7. Secret[i] = rest % Base  BY <1>1, <1>4 DEF Secret
<1>8. rest' = game.code \div Power[n + 1]
  <2> HIDE DEF n
  <2>1. Power[n] \in Nat \ {0} /\ Power[n + 1] = Power[n] * Base  BY <1>3, PowerFacts
  <2>2. (game.code \div Power[n]) \div Base = game.code \div (Power[n] * Base)
    BY ONLY <1>5, <2>1, DivideTwice, FeedbackAssumption
  <2> QED  BY <1>4, <1>6, <2>1, <2>2
<1>9. Secret' = Secret  BY DEF Secret
<1>10. ASSUME NEW p \in Places, p > i - 1 PROVE code_digits'[p] = Secret[p]
  <2>1. p = i \/ p > i  BY <1>1, <1>10 DEF Places
  <2> QED  BY <1>1, <1>4, <1>6, <1>7, <2>1
<1>11. CASE loop' = "split"  BY <1>2, <1>3, <1>8, <1>9, <1>10, <1>11 DEF DigitsInv
<1>12. CASE loop' = "mark"
  <2>1. \A p \in Places : p > i - 1  BY <1>2, <1>12 DEF Places
  <2>2. code_digits' \in [Places -> Digits]
    <3>1. rest % Base \in Digits  BY <1>1, FeedbackAssumption DEF Digits
    <3> QED  BY <1>1, <1>6, <3>1
  <2>3. \A p \in Places : code_digits'[p] = Secret[p]  BY <1>10, <2>1
  <2>4. code_digits' = Secret  BY <2>2, <2>3, SecretType
  <2> QED  BY <1>9, <1>12, <2>4 DEF DigitsInv
<1> QED  BY <1>2, <1>11, <1>12

LEMMA HitNext ==
  ASSUME NEW n \in Places
  PROVE  /\ Hit(n) \in SUBSET Places /\ n \notin Hit(n)
         /\ Hit(n + 1) = IF guess[n] = code_digits[n] THEN Hit(n) \cup {n} ELSE Hit(n)
<1>1. 0 .. n = (0 .. n - 1) \cup {n}  BY DEF Places
<1>2. 0 .. n - 1 \subseteq Places /\ n \notin 0 .. n - 1  BY FeedbackAssumption DEF Places
<1>3. n + 1 - 1 = n  BY DEF Places
<1> QED  BY <1>1, <1>2, <1>3 DEF Hit

LEMMA MarkHits ==
  ASSUME TypeOK, HitsInv, Mark
  PROVE  HitsInv'
<1>1. i \in Places /\ counter = Cardinality(Hit(i))  BY DEF TypeOK, FeedbackTypeOK, Mark, HitsInv
<1>2. /\ loop' \in {"mark", "match"}
      /\ IF loop' = "mark" THEN i' = i + 1 ELSE i = CodeLength - 1 /\ i' = 0
  BY <1>1, LoopIndex DEF Mark
<1>3. IsFiniteSet(Hit(i))  BY <1>1, HitNext, PlacesFinite
<1>4. Cardinality(Hit(i + 1)) = IF guess[i] = code_digits[i] THEN counter + 1 ELSE counter
  BY <1>1, <1>3, HitNext, FS_AddElement
<1>5. counter' = Cardinality(Hit(i + 1))  BY <1>4 DEF Mark
<1>6. \A n : Hit(n)' = {p \in 0 .. n' - 1 : guess[p] = code_digits[p]}  BY DEF Mark, Hit
<1>7. CASE loop' = "mark"
  <2>1. Hit(i)' = Hit(i + 1)  BY <1>2, <1>6, <1>7 DEF Hit
  <2> QED  BY <1>5, <1>7, <2>1 DEF HitsInv
<1>8. CASE loop' = "match"
  <2>1. i + 1 = CodeLength  BY <1>2, <1>8, FeedbackAssumption
  <2>2. Hit(CodeLength)' = Hit(i + 1)  BY <1>6, <2>1 DEF Hit
  <2> QED  BY <1>5, <1>8, <2>2 DEF HitsInv
<1> QED  BY <1>2, <1>7, <1>8

(* The player has won just when the guess is the code.                     *)
LEMMA WonMeansGuessed ==
  ASSUME TypeOK, DigitsInv, HitsInv, loop = "over"
  PROVE  Won <=> guess = Secret
<1>1. code_digits = Secret /\ counter = Cardinality(Hit(CodeLength))  BY DEF DigitsInv, HitsInv
<1>2. guess \in [Places -> Int] /\ code_digits \in [Places -> Digits]
  BY DEF TypeOK, FeedbackTypeOK
<1>3. Hit(CodeLength) = {p \in Places : guess[p] = code_digits[p]}  BY DEF Hit, Places
<1>4. IsFiniteSet(Places) /\ Cardinality(Places) = CodeLength
  BY FS_Interval, FeedbackAssumption DEF Places
<1>5. Hit(CodeLength) \in SUBSET Places  BY <1>3
<1>6. Cardinality(Hit(CodeLength)) = CodeLength <=> Hit(CodeLength) = Places
  BY <1>4, <1>5, FS_Subset
<1>7. Hit(CodeLength) = Places <=> guess = code_digits  BY <1>2, <1>3
<1> QED  BY <1>1, <1>6, <1>7 DEF Won

LEMMA GameKept == [Next]_vars => game' = game
<1> SUFFICES ASSUME [Next]_vars PROVE game' = game  OBVIOUS
<1>1. CASE ClientStep  BY <1>1, ClientStepFrame
<1>2. CASE ServerStep
  BY <1>2 DEF ServerStep, SetUpServer, AcceptClient, ReceiveStart, ReceiveGuess, Take, SendError,
     Calculate, SendFeedback, SendWin, AnswerGuess, ReceiveExit, ReceiveFails
<1>3. CASE UNCHANGED vars  BY <1>3 DEF vars
<1> QED  BY <1>1, <1>2, <1>3 DEF Next

LEMMA GuessInit == Init => DigitsInv /\ HitsInv
BY DEF Init, FeedbackInit, DigitsInv, HitsInv

LEMMA GuessNext ==
  TypeOK /\ Checked /\ DigitsInv /\ HitsInv /\ [Next]_vars => (DigitsInv /\ HitsInv)'
<1> SUFFICES ASSUME TypeOK, Checked, DigitsInv, HitsInv, [Next]_vars
             PROVE  (DigitsInv /\ HitsInv)'
  OBVIOUS
<1>1. game' = game /\ Secret' = Secret  BY GameKept DEF Secret
<1>2. CASE Split
  <2>1. loop' \notin {"match", "over"} /\ (loop' = "mark" => i' = 0 /\ counter' = 0)
    BY <1>2 DEF Split, Checked
  <2>2. loop' = "mark" => Hit(i)' = {}  BY <2>1 DEF Hit
  <2>3. HitsInv'  BY <2>1, <2>2, FS_EmptySet DEF HitsInv
  <2> QED  BY <1>1, <1>2, <2>3, SplitDigit
<1>3. CASE Mark
  <2>1. DigitsInv'  BY <1>1, <1>3, LoopIndex DEF DigitsInv, Mark, TypeOK, FeedbackTypeOK
  <2> QED  BY <1>3, <2>1, MarkHits
<1>4. CASE Match
  <2>1. UNCHANGED <<guess, code_digits, counter>> /\ loop = "match" /\ loop' \in {"match", "over"}
    BY <1>4, LoopIndex DEF Match, TypeOK, FeedbackTypeOK
  <2>2. Hit(CodeLength)' = Hit(CodeLength)  BY <2>1 DEF Hit
  <2> QED  BY <1>1, <2>1, <2>2 DEF DigitsInv, HitsInv
<1>5. CASE UNCHANGED feedbackVars
  <2>1. Hit(CodeLength)' = Hit(CodeLength) /\ Hit(i)' = Hit(i)  BY <1>5 DEF feedbackVars, Hit
  <2> QED  BY <1>1, <1>5, <2>1 DEF feedbackVars, DigitsInv, HitsInv
<1>6. CASE loop' = "none"  BY <1>6 DEF DigitsInv, HitsInv
<1>7. CASE \E g : Begin(g, game.code)
  <2>1. loop' = "split" /\ rest' = game.code /\ i' = CodeLength - 1  BY <1>7 DEF Begin
  <2>2. \A p \in Places : ~(p > i')  BY <2>1, FeedbackAssumption DEF Places
  <2>3. CodeLength - 1 - i' = 0 /\ Power[0] = 1  BY <2>1, PowerFacts, FeedbackAssumption
  <2>4. game.code \in Int  BY GameAssumption DEF TypeOK
  <2>5. game.code \div 1 = game.code  BY <2>4
  <2> QED  BY <1>1, <2>1, <2>2, <2>3, <2>5 DEF DigitsInv, HitsInv
<1> QED
  BY <1>2, <1>3, <1>4, <1>5, <1>6, <1>7, NoOtherStep DEF Calculate, CalculateFeedback

-----------------------------------------------------------------------------
(* The game that is played.                                                *)

(* While guesses are taken the next attempt has the next number, and the   *)
(* last guess was wrong.                                                   *)
PlayedInv ==
  /\ server_state \in {"SETTING_UP", "WAIT_FOR_CONNECTION", "WAIT_FOR_START_MESSAGE"} =>
       played = <<>>
  /\ server_state \in {"WAITING_FOR_MESSAGE", "SEND_FEEDBACK"} =>
       attempts_counter = Len(played) + 1 /\ ~Abstract!Won

RefineInv == HintInv /\ DigitsInv /\ HitsInv /\ PlayedInv

LEMMA AnswerPlays ==
  ASSUME RefineInv, server_state = "SEND_FEEDBACK", AnswerGuess, loop = "over"
  PROVE  /\ Abstract!Next
         /\ attempts_counter' = Len(played') + 1
         /\ Abstract!Won' <=> Won
<1> USE DEF RefineInv, HintInv
<1> DEFINE turn == [guess |-> guess, hint |-> feedback, attempt |-> attempts_counter]
<1>1. /\ played \in Seq([guess : Guesses, hint : [Places -> Marks], attempt : Nat])
      /\ guess \in [Places -> Int] /\ feedback \in [Places -> Marks]
  BY DEF TypeOK, FeedbackTypeOK
<1>2. guess \in [Places -> Digits]  BY <1>1 DEF Checked, ValidGuess
<1>3. attempts_counter = Len(played) + 1 /\ ~Abstract!Won  BY DEF PlayedInv
<1>4. played' = Append(played, turn) /\ attempts_counter' = attempts_counter + 1 /\ game' = game
  BY DEF AnswerGuess
<1>5. Len(played) \in Nat /\ Len(played') = Len(played) + 1 /\ played'[Len(played')] = turn
  BY <1>1, <1>4
<1>6. played' # played /\ played' # <<>>  BY <1>1, <1>5
<1>7. code_digits = Secret  BY DEF DigitsInv
<1>8. Abstract!IsHint(feedback, guess, Secret)  BY <1>7, MarksAreHint DEF HintIsRight
<1>9. Secret' = Secret  BY <1>4 DEF Secret
<1>10. Abstract!Play(guess, feedback)  BY <1>3, <1>4, <1>8, <1>9 DEF Abstract!Play
<1>11. Abstract!Next  BY <1>1, <1>2, <1>6, <1>10 DEF Abstract!Next, Marks
<1>12. Abstract!Won' <=> guess = Secret  BY <1>5, <1>6, <1>9 DEF Abstract!Won
<1> QED  BY <1>3, <1>4, <1>5, <1>11, <1>12, WonMeansGuessed

LEMMA RefineInit == Init => RefineInv /\ Abstract!Init
<1> SUFFICES ASSUME Init PROVE RefineInv /\ Abstract!Init  OBVIOUS
<1>1. HintInv /\ TypeOK  BY HintInit DEF HintInv
<1> QED  BY <1>1, GuessInit, SecretType DEF RefineInv, PlayedInv, Init, Abstract!Init

(* Only an answer to a guess is a step of the game.                        *)
LEMMA RefineNext ==
  RefineInv /\ [Next]_vars => RefineInv' /\ [Abstract!Next]_<<Secret, played>>
<1> SUFFICES ASSUME RefineInv, [Next]_vars
             PROVE  PlayedInv' /\ [Abstract!Next]_<<Secret, played>>
  BY HintNext, GuessNext DEF RefineInv, HintInv
<1>1. game' = game /\ Secret' = Secret  BY GameKept DEF Secret
<1>2. CASE SendFeedback \/ SendWin
  <2>1. /\ server_state = "SEND_FEEDBACK" /\ loop = "over" /\ AnswerGuess
        /\ \/ ~Won /\ server_state' \in {"WAITING_FOR_MESSAGE", "failed"}
           \/ Won /\ server_state' \in {"WAIT_FOR_EXIT_MESSAGE", "failed"}
    BY <1>2 DEF SendFeedback, SendWin, AnswerGuess, Answers
  <2> QED  BY <2>1, AnswerPlays DEF PlayedInv
<1>3. CASE ReceiveStart
  <2>1. /\ server_state = "WAIT_FOR_START_MESSAGE" /\ played' = played
        /\ \/ attempts_counter' = 1 /\ server_state' = "WAITING_FOR_MESSAGE"
           \/ server_state' = "failed"
    BY <1>3 DEF ReceiveStart, Receives, Take
  <2>2. played = <<>>  BY <2>1 DEF RefineInv, PlayedInv
  <2>3. ~Abstract!Won'  BY <2>1, <2>2 DEF Abstract!Won
  <2> QED  BY <1>1, <2>1, <2>2, <2>3 DEF PlayedInv
<1>4. ASSUME UNCHANGED <<played, attempts_counter>>,
             \/ server_state' \in {server_state, "failed", "exited", "not_started"}
             \/ server_state \in {"WAITING_FOR_MESSAGE", "SEND_FEEDBACK"}
                /\ server_state' \in {"WAITING_FOR_MESSAGE", "SEND_FEEDBACK"}
             \/ server_state \in {"SETTING_UP", "WAIT_FOR_CONNECTION"}
                /\ server_state' \in {"WAIT_FOR_CONNECTION", "WAIT_FOR_START_MESSAGE"}
      PROVE  PlayedInv' /\ [Abstract!Next]_<<Secret, played>>
  <2>1. Abstract!Won' <=> Abstract!Won  BY <1>1, <1>4 DEF Abstract!Won
  <2> QED  BY <1>1, <1>4, <2>1 DEF RefineInv, PlayedInv
<1>5. CASE ReceiveGuess  BY <1>4, <1>5 DEF ReceiveGuess, Receives, Take
<1>6. CASE SendError  BY <1>4, <1>6 DEF SendError, Answers
<1>7. CASE SetUpServer  BY <1>4, <1>7 DEF SetUpServer
<1>8. CASE AcceptClient  BY <1>4, <1>8 DEF AcceptClient
<1>9. CASE Calculate  BY <1>4, <1>9 DEF Calculate
<1>10. CASE ReceiveExit  BY <1>4, <1>10 DEF ReceiveExit, Receives, Take
<1>11. CASE ReceiveFails  BY <1>4, <1>11 DEF ReceiveFails
<1>12. CASE ClientStep  BY <1>4, <1>12, ClientStepFrame DEF serverVars
<1>13. CASE UNCHANGED vars  BY <1>4, <1>13 DEF vars, serverVars
<1> QED
  BY <1>2, <1>3, <1>5, <1>6, <1>7, <1>8, <1>9, <1>10, <1>11, <1>12, <1>13
  DEF Next, ServerStep

(* Whatever is typed or sent, each answer is the hint for the guess of its *)
(* turn and has the number of valid attempts, and there is none after the  *)
(* code is broken, for codes of any length in any base                     *)
(* (SEND_FEEDBACK_STATE, calculateFeedback).                               *)
THEOREM GameIsMastermind == Spec => ImplementsMastermind
<1>1. RefineInv /\ [Next]_vars => [Abstract!Next]_<<Secret, played>>  BY RefineNext
<1> QED  BY <1>1, RefineInit, RefineNext, PTL DEF Spec, ImplementsMastermind, Abstract!Spec
=============================================================================

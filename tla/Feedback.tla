------------------------------ MODULE Feedback ------------------------------
(***************************************************************************)
(* calculateFeedback of the game (files_tp1_for_reference/server.c): three *)
(* loops over the places of a code, an iteration a step.                   *)
(***************************************************************************)
EXTENDS Integers

CONSTANTS
  CodeLength,   (* places of a code: 5 in the code                         *)
  Base          (* digits: 10 in the code                                  *)

ASSUME FeedbackAssumption == CodeLength \in Nat \ {0} /\ Base \in Nat \ {0, 1}

Places == 0 .. CodeLength - 1
Digits == 0 .. Base - 1

(* RIGHT_POSITION, WRONG_POSITION, NOT_IN_CODE                             *)
Marks == {"right", "wrong", "absent"}

VARIABLES
  loop,         (* where it is: none, split, mark, match, over             *)
  guess, rest,  (* its arguments: the guess that was received, and what is *)
                (* still to be split of the code                           *)
  i, code_digits, counter, remaining_digits,
  feedback      (* of the message it fills                                 *)

feedbackVars ==
  <<loop, guess, rest, i, code_digits, counter, remaining_digits, feedback>>

FeedbackInit ==
  /\ loop = "none" /\ rest = 0 /\ i = 0 /\ counter = 0
  /\ guess = [p \in Places |-> 0] /\ code_digits = [p \in Places |-> 0]
  /\ remaining_digits = [d \in Digits |-> 0]
  /\ feedback = [p \in Places |-> "absent"]

(* The message was cleared before, and 0 is NOT_IN_CODE.                   *)
Begin(g, code) ==
  /\ loop' = "split"
  /\ guess' = g /\ rest' = code
  /\ i' = CodeLength - 1 /\ counter' = 0
  /\ remaining_digits' = [d \in Digits |-> 0]
  /\ feedback' = [p \in Places |-> "absent"]
  /\ UNCHANGED code_digits

(* Division and remainder round to 0 in C.                                 *)
Quotient(n)  == IF n >= 0 THEN n \div Base ELSE -((-n) \div Base)
Remainder(n) == IF n >= 0 THEN n % Base ELSE -((-n) % Base)

(* The last digit first.                                                   *)
Split ==
  /\ loop = "split"
  /\ code_digits' = [code_digits EXCEPT ![i] = Remainder(rest)]
  /\ rest' = Quotient(rest)
  /\ IF i = 0 THEN loop' = "mark" /\ i' = 0
              ELSE i' = i - 1 /\ UNCHANGED loop
  /\ UNCHANGED <<guess, counter, remaining_digits, feedback>>

Advance(next) ==
  IF i = CodeLength - 1 THEN loop' = next /\ i' = 0
                        ELSE i' = i + 1 /\ UNCHANGED loop

(* The digits in their places, and what is left of the code.               *)
Mark ==
  /\ loop = "mark"
  /\ IF guess[i] = code_digits[i]
     THEN /\ feedback' = [feedback EXCEPT ![i] = "right"]
          /\ counter' = counter + 1
          /\ UNCHANGED remaining_digits
     ELSE /\ feedback' = [feedback EXCEPT ![i] = "absent"]
          /\ remaining_digits' = [remaining_digits EXCEPT ![code_digits[i]] = @ + 1]
          /\ UNCHANGED counter
  /\ Advance("match")
  /\ UNCHANGED <<guess, rest, code_digits>>

(* Mutant: a digit of the code is used up by no mark.                      *)
Match_UsesNothingUp ==
  /\ loop = "match"
  /\ IF feedback[i] # "right" /\ remaining_digits[guess[i]] > 0
     THEN feedback' = [feedback EXCEPT ![i] = "wrong"]
     ELSE UNCHANGED feedback
  /\ Advance("over")
  /\ UNCHANGED <<guess, rest, code_digits, counter, remaining_digits>>

(* The others, as long as there are such digits left.                      *)
Match ==
  /\ loop = "match"
  /\ IF feedback[i] # "right" /\ remaining_digits[guess[i]] > 0
     THEN /\ feedback' = [feedback EXCEPT ![i] = "wrong"]
          /\ remaining_digits' = [remaining_digits EXCEPT ![guess[i]] = @ - 1]
     ELSE UNCHANGED <<feedback, remaining_digits>>
  /\ Advance("over")
  /\ UNCHANGED <<guess, rest, code_digits, counter>>

CalculateFeedback == Split \/ Mark \/ Match

Won == counter = CodeLength

FeedbackTypeOK ==
  /\ loop \in {"none", "split", "mark", "match", "over"}
  /\ guess \in [Places -> Int] /\ rest \in Int
  /\ i \in Places
  /\ code_digits \in [Places -> Digits]
  /\ counter \in 0 .. CodeLength
  /\ remaining_digits \in [Digits -> Nat]
  /\ feedback \in [Places -> Marks]
=============================================================================

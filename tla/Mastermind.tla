----------------------------- MODULE Mastermind -----------------------------
(***************************************************************************)
(* What the game promises: guesses at a secret are answered until one is   *)
(* right, and an answer tells which digits have their place and how often  *)
(* each of the others is in the secret, no digit being counted twice.      *)
(***************************************************************************)
EXTENDS Integers, Sequences, FiniteSets

CONSTANTS Places, Digits

VARIABLES
  secret,
  played        (* the guesses and their answers, in order                 *)

Count(digit, code, P) == Cardinality({p \in P : code[p] = digit})

AtMost(m, n) == IF m <= n THEN m ELSE n

IsHint(hint, guess, code) ==
  /\ \A p \in Places : hint[p] = "right" <=> guess[p] = code[p]
  /\ \A d \in Digits :
       Count(d, guess, {p \in Places : hint[p] # "absent"})
         = AtMost(Count(d, guess, Places), Count(d, code, Places))

Won == played # <<>> /\ played[Len(played)].guess = secret

Play(guess, hint) ==
  /\ ~Won
  /\ played' = Append(played, [guess |-> guess, hint |-> hint, attempt |-> Len(played) + 1])
  /\ IsHint(hint, guess, secret)
  /\ UNCHANGED secret

Init == secret \in [Places -> Digits] /\ played = <<>>

(* The first conjunct follows from the second: TLC is faster with it.      *)
Next ==
  /\ played' # played
  /\ \E guess \in [Places -> Digits] :
       \E hint \in [Places -> {"right", "wrong", "absent"}] : Play(guess, hint)

Spec == Init /\ [][Next]_<<secret, played>>
=============================================================================

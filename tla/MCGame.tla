------------------------------- MODULE MCGame -------------------------------
(* Bounded instances of Game for TLC.                                      *)
EXTENDS Game

ServerArgs == [argc |-> 4, family |-> "v4", port |-> 5000, name |-> "valid"]
ClientArgs == [ServerArgs EXCEPT !.argc = 3]

Play(code, lines) ==
  [server_args |-> ServerArgs, client_args |-> ClientArgs, code |-> code, input |-> lines,
   ours |-> TRUE]

G(a, b, c) == [p \in Places |-> CASE p = 0 -> a [] p = 1 -> b [] p = 2 -> c]

(* Every guess at every code; codes that are out of range; a game of some  *)
(* length; and a server that lacks an argument.                            *)
AllGames ==
  {Play(code, <<g>>) : code \in 0 .. 26, g \in Guesses}
    \cup {Play(code, <<G(0, 0, 1)>>) : code \in {-1, 27}}
    \cup {Play(5, <<G(0, 0, 1), Refused, G(2, 2, 2), G(0, 1, 2), G(0, 0, 0)>>)}
    \cup {[Play(5, <<G(0, 1, 2)>>) EXCEPT !.server_args.argc = 3],
          [Play(5, <<>>) EXCEPT !.ours = FALSE]}

(* What another program may send: all types, guesses out of range, a good  *)
(* guess, and the code 5 itself.                                           *)
StrangeMessages ==
  {Msg("START", NoGuess), Msg("EXIT", NoGuess), Msg("GUESS", NoGuess),
   Msg("GUESS", G(0, 1, 2)), Msg("GUESS", G(0, 3, 0)), Msg("GUESS", G(0, 0, -1))}
=============================================================================

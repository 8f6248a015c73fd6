------------------------------ MODULE MCClient ------------------------------
(* Bounded instances of Client for TLC.                                    *)
EXTENDS Client

(* Two READs, apart or in a row, among lines that send something else or   *)
(* nothing at all.                                                         *)
TwoReads ==
  {<<"READ", "POST", "READ">>, <<"READ", "READ", "FOLLOW">>,
   <<"INVALID", "READ", "EMPTY">>}

(* A server of IPv6, and one with an argument missing.                     *)
OneServer == {[argc |-> n, family |-> "v6", port |-> 5000, name |-> "other"] : n \in {2, 3}}

(* A client that is as it should be, and one whose name is empty.          *)
TwoClients ==
  {[argc |-> 4, family |-> "v4", port |-> 5000, name |-> n] : n \in {"valid", "empty"}}
=============================================================================

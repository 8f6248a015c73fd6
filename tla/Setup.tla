-------------------------------- MODULE Setup --------------------------------
(***************************************************************************)
(* How the programs begin: main takes its arguments from argv, and         *)
(* setUpServer and connectToServer go on with valid ones only.  The two    *)
(* assignments do this alike and differ in how many arguments they expect. *)
(***************************************************************************)
EXTENDS Integers

(* A command line: how many arguments, and what those that matter hold.    *)
(* "other" stands for a text that is no family, no address, or a name with *)
(* a space or of more than 15 characters.                                  *)
Arguments ==
  [argc : Nat, family : {"v4", "v6", "other"}, port : Int, name : {"valid", "empty", "other"}]

ValidPort(p) == p \in 1 .. 65535

(* validateInfoToSetUpServer                                               *)
ValidForServer(a, argc) ==
  a.argc = argc /\ a.family \in {"v4", "v6"} /\ ValidPort(a.port)

(* The checks that both clients make.                                      *)
ValidAddress(a, argc) ==
  a.argc = argc /\ ValidPort(a.port) /\ a.family \in {"v4", "v6"}

(* Mutant: any name will do.                                               *)
ValidForClient_AnyName(a, argc) == ValidAddress(a, argc)

(* validateInfoToConnectToServer, which in the second assignment looks at   *)
(* the name as well.                                                       *)
ValidForClient(a, argc) == ValidAddress(a, argc) /\ a.name = "valid"

(* connect(): a socket of IPv6 that is bound to in6addr_any is reached     *)
(* with IPv4 as well.                                                      *)
Reaches(client, server) ==
  client.port = server.port /\ (client.family = server.family \/ server.family = "v6")
=============================================================================

------------------------------ MODULE SendMutex ------------------------------
(***************************************************************************)
(* The send_mutex of one slot and the threads that push to it, at the      *)
(* grain that Server leaves out: a mutex is a futex word that is 0 when it *)
(* is free, 1 when it is taken and 2 when somebody may be asleep on it,    *)
(* and waitForClientConnection initialises it when the slot is reused.     *)
(***************************************************************************)
EXTENDS Naturals

CONSTANTS
  Threads,      (* the threads with a push for the slot                    *)
  MaxReuses     (* bound: how often the slot is given to another client    *)

VARIABLES futex, pc, reuses

vars == <<futex, pc, reuses>>

Init == futex = 0 /\ pc = [t \in Threads |-> "lock"] /\ reuses = 0

Goto(t, place) == pc' = [pc EXCEPT ![t] = place]

(* pthread_mutex_lock: without contention a compare and exchange is enough. *)
Lock(t) ==
  /\ pc[t] = "lock"
  /\ futex' = IF futex = 0 THEN 1 ELSE futex
  /\ Goto(t, CASE futex = 0 -> "sends" [] futex = 1 -> "contend" [] futex = 2 -> "wait")
  /\ UNCHANGED reuses

(* Otherwise the word says from now on that there is a waiter.             *)
Contend(t) ==
  /\ pc[t] = "contend"
  /\ futex' = 2
  /\ Goto(t, IF futex = 0 THEN "sends" ELSE "wait")
  /\ UNCHANGED reuses

(* The system call puts the thread to sleep only if the word is still 2.   *)
FutexWait(t) ==
  /\ pc[t] = "wait"
  /\ Goto(t, IF futex = 2 THEN "asleep" ELSE "contend")
  /\ UNCHANGED <<futex, reuses>>

(* pthread_mutex_unlock wakes a thread only if the word says that there    *)
(* may be one.                                                             *)
Unlock(t) ==
  /\ pc[t] = "sends"
  /\ futex' = 0
  /\ \/ /\ futex # 2 \/ \A u \in Threads : pc[u] # "asleep"
        /\ Goto(t, "done")
     \/ \E u \in Threads :
          /\ futex = 2 /\ pc[u] = "asleep"
          /\ pc' = [pc EXCEPT ![t] = "done", ![u] = "contend"]
  /\ UNCHANGED reuses

(* The client of the slot left, and main gives the slot to another one.    *)
Reuse ==
  /\ reuses < MaxReuses
  /\ futex' = 0
  /\ reuses' = reuses + 1
  /\ UNCHANGED pc

Step(t) == Lock(t) \/ Contend(t) \/ FutexWait(t) \/ Unlock(t)

Next == Reuse \/ \E t \in Threads : Step(t)

Spec == Init /\ [][Next]_vars

(* The threads run; the clients of the slot owe nothing.                   *)
FairSpec == Spec /\ \A t \in Threads : WF_vars(Step(t))

(* Technical documentation, line 143: as each slot has its own mutex, a    *)
(* connection that dropped holds nobody up.  Every push is done with.      *)
NobodyIsHeldUp == \A t \in Threads : pc[t] = "lock" ~> pc[t] = "done"
=============================================================================

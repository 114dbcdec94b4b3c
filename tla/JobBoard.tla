------------------------------ MODULE JobBoard ------------------------------
(***************************************************************************)
(* What memodb-server promises about the evaluation of a call, without     *)
(* queues, mutexes, handlers or clocks: a call is absent from the board,   *)
(* waiting for a worker, or being run by one, and the result of a call is  *)
(* known or not.  A call only enters the board while its result is         *)
(* unknown, and only leaves it once its result has been published.         *)
(***************************************************************************)
CONSTANTS
  Call, Func, NameOf, Value,
  Withdrawable,  \* funcs whose results may be withdrawn
  None

VARIABLES
  job,    \* "none", "waiting" or "running", for every call
  result  \* the published result of a call, or None

boardVars == <<job, result>>

BoardInit ==
  /\ job = [c \in Call |-> "none"]
  /\ result = [c \in Call |-> None]

Move(c, from, to) ==
  /\ job[c] = from
  /\ job' = [job EXCEPT ![c] = to]
  /\ UNCHANGED result

Submit(c) == result[c] = None /\ Move(c, "none", "waiting")

Take(c) == Move(c, "waiting", "running")

\* The worker took too long; somebody else may take the call.
GiveUp(c) == result[c] = None /\ Move(c, "running", "waiting")

\* Calls of a withdrawable func may leave although their result is gone again.
Retire(c) ==
  /\ result[c] # None \/ NameOf[c] \in Withdrawable
  /\ Move(c, "waiting", "none") \/ Move(c, "running", "none")

Publish(c, v) ==
  /\ result' = [result EXCEPT ![c] = v]
  /\ UNCHANGED job

Withdraw(f) ==
  /\ f \in Withdrawable
  /\ result' = [c \in Call |-> IF NameOf[c] = f THEN None ELSE result[c]]
  /\ UNCHANGED job

BoardNext ==
  \/ \E c \in Call : Submit(c) \/ Take(c) \/ GiveUp(c) \/ Retire(c)
  \/ \E c \in Call, v \in Value : Publish(c, v)
  \/ \E f \in Func : Withdraw(f)

BoardSpec == BoardInit /\ [][BoardNext]_boardVars
=============================================================================

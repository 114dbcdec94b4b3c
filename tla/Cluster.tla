------------------------------ MODULE Cluster -------------------------------
(***************************************************************************)
(* The server together with the programs that use it, as Client.cpp writes *)
(* them: clients that poll the evaluation of one call each, and workers    *)
(* that upload their information node, ask for a job, evaluate it and put  *)
(* its result.  A worker may be killed at any moment; what it was told by  *)
(* the server is then lost, and so is its job.                             *)
(*                                                                         *)
(* A client or a worker is a connection of Server, and what it has been    *)
(* told is the last response on that connection.                           *)
(***************************************************************************)
EXTENDS Server

CONSTANTS
  Client,   \* connections of clients
  Worker,   \* connections of workers, each with one job at a time
  Want,     \* Want[k] is the call that client k evaluates
  InfoOf,   \* InfoOf[w] is the worker information of w
  ResultOf, \* ResultOf[c] is what every worker computes for call c
  Mortal    \* the workers that may be killed

ASSUME ClusterAssumption ==
  /\ Conn = Client \cup Worker
  /\ Client \cap Worker = {}
  /\ Want \in [Client -> Call]
  /\ InfoOf \in [Worker -> WorkerInfo]
  /\ ResultOf \in [Call -> Value]
  /\ Mortal \subseteq Worker

VARIABLE alive  \* the workers that have not been killed

clusterVars == <<vars, alive>>

Answered(k) == resp[k] # None /\ resp[k].status = 200

Uploaded(w) == resp[w] # None /\ resp[w].status = 201 /\ call[w] = None

\* The job that worker w has been given and has not put the result of.
HasJob(w, c) == resp[w] # None /\ resp[w].status = 200 /\ resp[w].body = c

ClusterInit == Init /\ alive = Worker

\* evaluateDeferred: tryEvaluate, until it returns a result.
Poll(k) ==
  /\ ~Answered(k)
  /\ EvaluateCall(k, Want[k])

\* workerThreadImpl: updateWorkerInfo on every turn of its inner loop.
Upload(w) ==
  /\ ~Uploaded(w)
  /\ \A c \in Call : ~HasJob(w, c)
  /\ PostNode(w, InfoOf[w])

\* workerThreadImpl: POST /worker.
AskForJob(w) ==
  /\ Uploaded(w)
  /\ RequestWorker(w, InfoOf[w])

\* The fiber of workerThreadImpl: evaluate the job, PUT its result.
PutResult(w) ==
  \E c \in Call : HasJob(w, c) /\ PutCall(w, c, ResultOf[c])

WorkerStep(w) ==
  /\ w \in alive
  /\ Upload(w) \/ AskForJob(w) \/ PutResult(w)
  /\ UNCHANGED alive

Kill(w) ==
  /\ w \in Mortal \cap alive
  /\ alive' = alive \ {w}
  /\ UNCHANGED vars

ServerStep(k) == Handler(k) /\ UNCHANGED alive

ClientStep(k) == Poll(k) /\ UNCHANGED alive

Tick(c) == MinutePasses(c) /\ UNCHANGED alive

ClusterNext ==
  \/ \E k \in Conn : ServerStep(k)
  \/ \E k \in Client : ClientStep(k)
  \/ \E w \in Worker : WorkerStep(w) \/ Kill(w)
  \/ \E c \in Call : Tick(c)

\* Server threads run and get the mutexes they wait for, clients go on
\* polling, live workers terminate on every job, and the clock advances.
\* Nothing makes a worker die.
Fairness ==
  /\ \A k \in Conn : WF_clusterVars(ServerStep(k))
  /\ \A k \in Client : WF_clusterVars(ClientStep(k))
  /\ \A w \in Worker : WF_clusterVars(WorkerStep(w))
  /\ \A c \in Call : WF_clusterVars(Tick(c))

ClusterSpec == ClusterInit /\ [][ClusterNext]_clusterVars /\ Fairness

-----------------------------------------------------------------------------
(* Properties.                                                             *)

\* Every client that goes on polling gets its result although workers are
\* killed with jobs in their hands, as long as one that knows the func lives.
EveryClientAnswered == \A k \in Client : <>Answered(k)

=============================================================================

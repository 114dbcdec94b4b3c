------------------------------- MODULE Server -------------------------------
(***************************************************************************)
(* The job queue of memodb-server (memodb/lib/Server.cpp, Server.h).       *)
(*                                                                         *)
(* Clients ask for the result of a call with POST /call/f/args/evaluate,   *)
(* workers ask for a job with POST /worker and deliver its result with     *)
(* PUT /call/f/args.  Every connection is served by some thread, so the    *)
(* handlers interleave; the code between taking a mutex and releasing it   *)
(* is one step, and so is every access to the store made without a mutex.  *)
(*                                                                         *)
(* A PendingCall is keyed by its call.  Its Boolean fields are the sets    *)
(* assigned and finished; start_time is kept as minutes, the whole minutes *)
(* since the call was assigned, which is all the code computes from it.    *)
(***************************************************************************)
EXTENDS Naturals, Sequences

CONSTANTS
  Conn,           \* connections: each has at most one request in a handler
  Func,           \* names of funcs
  Call,           \* calls: a func name and its arguments
  NameOf,         \* NameOf[c] is the func name of call c
  Value,          \* CIDs that may be the result of a call
  WorkerInfo,     \* CIDs of worker information nodes
  FuncsOf,        \* FuncsOf[i] is the "funcs" list of node i, None if invalid
  Invalidated,    \* funcs whose results somebody may DELETE
  InitialTimeout, \* INITIAL_TIMEOUT_MINUTES
  TimeoutModulus, \* 2^w, w the width of PendingCall::timeout_minutes
  None

ASSUME ServerAssumption ==
  /\ NameOf \in [Call -> Func]
  /\ FuncsOf \in [WorkerInfo -> Seq(Func) \cup {None}]
  /\ Invalidated \subseteq Func
  /\ InitialTimeout \in Nat
  /\ TimeoutModulus \in Nat \ {0}
  /\ InitialTimeout < TimeoutModulus
  /\ None \notin Call \cup Value \cup WorkerInfo \cup Seq(Func)

VARIABLES
  store,           \* results of calls in the store
  nodes,           \* worker information nodes in the store
  call_groups,     \* keys of Server::call_groups
  worker_groups,   \* keys of Server::worker_groups
  calls,           \* keys of CallGroup::calls, all groups together
  assigned,        \* calls whose PendingCall::assigned is true
  finished,        \* calls whose PendingCall::finished is true
  minutes,         \* minutes since start_time, not counted past the timeout
  timeout_minutes, \* PendingCall::timeout_minutes
  unstarted_calls, \* CallGroup::unstarted_calls, per func
  calls_to_retry,  \* CallGroup::calls_to_retry, per func
  pc,              \* where the handler of a connection is
  call,            \* the handler's local call
  worker,          \* the handler's local worker_group, by its key
  pos,             \* the handler's position in the loop over call groups
  resp             \* the last response sent on a connection

queueVars == <<calls, assigned, finished, minutes, timeout_minutes,
               unstarted_calls, calls_to_retry>>
groupVars == <<call_groups, worker_groups>>
connVars  == <<pc, call, worker, pos, resp>>
vars == <<store, nodes, groupVars, queueVars, connVars>>

Response == [status : {200, 201, 202, 204, 400},
             body   : Value \cup Call \cup {None}]

PC == {"idle", "evaluate_group", "evaluate_queue", "result_group",
       "result_pending", "unstarted", "retry"}

\* The variables have the types of the code's fields and locals; a handler
\* has a call, or an existing worker group, wherever the code dereferences it.
TypeOK ==
  /\ store \in [Call -> Value \cup {None}]
  /\ nodes \subseteq WorkerInfo
  /\ call_groups \subseteq Func
  /\ worker_groups \subseteq WorkerInfo
  /\ calls \subseteq Call
  /\ assigned \subseteq Call
  /\ finished \subseteq Call
  /\ minutes \in [Call -> Nat]
  /\ timeout_minutes \in [Call -> Nat]
  /\ unstarted_calls \in [Func -> Seq(Call)]
  /\ calls_to_retry \in [Func -> Seq(Call)]
  /\ pc \in [Conn -> PC]
  /\ call \in [Conn -> Call \cup {None}]
  /\ worker \in [Conn -> WorkerInfo \cup {None}]
  /\ pos \in [Conn -> Nat]
  /\ resp \in [Conn -> Response \cup {None}]
  /\ \A i \in worker_groups : FuncsOf[i] # None
  /\ \A k \in Conn :
       /\ pc[k] \in {"evaluate_group", "evaluate_queue", "result_group",
                    "result_pending"} => call[k] \in Call
       /\ pc[k] \in {"unstarted", "retry"} => worker[k] \in worker_groups
       /\ pos[k] # 0
       /\ resp[k] # None /\ resp[k].status = 202 => call[k] \in Call

Init ==
  /\ store = [c \in Call |-> None]
  /\ nodes = {}
  /\ call_groups = {}
  /\ worker_groups = {}
  /\ calls = {}
  /\ assigned = {}
  /\ finished = {}
  /\ minutes = [c \in Call |-> 0]
  /\ timeout_minutes = [c \in Call |-> InitialTimeout]
  /\ unstarted_calls = [f \in Func |-> <<>>]
  /\ calls_to_retry = [f \in Func |-> <<>>]
  /\ pc = [k \in Conn |-> "idle"]
  /\ call = [k \in Conn |-> None]
  /\ worker = [k \in Conn |-> None]
  /\ pos = [k \in Conn |-> 1]
  /\ resp = [k \in Conn |-> None]

-----------------------------------------------------------------------------
(* The queues of a call group.                                             *)

\* Mutant: every worker that looks takes a call off the queue.
FinishedPrefixGreedy(q, n, fin) == n = IF q = <<>> THEN 0 ELSE 1

\* Mutant: finished calls are not cleaned up.
FinishedPrefixNone(q, n, fin) == n = 0

\* n is the number of calls that one loop of deleteSomeFinishedCalls pops
\* off the queue q: the finished ones in front of the first unfinished one.
FinishedPrefix(q, n, fin) ==
  /\ n \in 0..Len(q)
  /\ \A i \in 1..n : q[i] \in fin
  /\ n < Len(q) => q[n + 1] \notin fin

Drop(q, n) == SubSeq(q, n + 1, Len(q))

Dropped(q, n) == {q[i] : i \in 1..n}

\* The calls D are erased from CallGroup::calls; fin was finished before.
Erase(D, fin) ==
  /\ calls' = calls \ D
  /\ finished' = fin \ D
  /\ timeout_minutes' =
       [c \in Call |-> IF c \in D THEN InitialTimeout ELSE timeout_minutes[c]]

\* CallGroup::deleteSomeFinishedCalls popped n calls off the first queue of f
\* and m off the second one.
deleteSomeFinishedCalls(f, n, m, fin) ==
  /\ FinishedPrefix(unstarted_calls[f], n, fin)
  /\ FinishedPrefix(calls_to_retry[f], m, fin)
  /\ Erase(Dropped(unstarted_calls[f], n) \cup Dropped(calls_to_retry[f], m),
           fin)

\* The response is sent and the handler returns.
Respond(k, status, body) ==
  /\ pc' = [pc EXCEPT ![k] = "idle"]
  /\ resp' = [resp EXCEPT ![k] = [status |-> status, body |-> body]]
  /\ worker' = [worker EXCEPT ![k] = None]
  /\ pos' = [pos EXCEPT ![k] = 1]

\* The handler goes on to another step.
Goto(k, label) ==
  /\ pc' = [pc EXCEPT ![k] = label]
  /\ resp' = [resp EXCEPT ![k] = None]
  /\ UNCHANGED <<worker, pos>>

-----------------------------------------------------------------------------
(* POST /call/f/args/evaluate: handleEvaluateCall.                         *)

\* The optimistic look at the store, before any mutex is taken.
EvaluateCall(k, c) ==
  /\ pc[k] = "idle"
  /\ call' = [call EXCEPT ![k] = c]
  /\ \/ store[c] # None /\ Respond(k, 200, store[c])
     \/ store[c] = None /\ Goto(k, "evaluate_group")
  /\ UNCHANGED <<store, nodes, groupVars, queueVars>>

\* Under Server::mutex: call_groups[call.Name], which may create the group.
EvaluateGroup(k) ==
  /\ pc[k] = "evaluate_group"
  /\ call_groups' = call_groups \cup {NameOf[call[k]]}
  /\ Goto(k, "evaluate_queue")
  /\ UNCHANGED <<store, nodes, worker_groups, queueVars, call>>

\* Mutant: only the optimistic look at the store is made.
LookAgainSkipped(c) == None

\* The second look at the store, under CallGroup::mutex.
LookAgain(c) == store[c]

\* A PendingCall is created and queued.
QueueNewCall(c) ==
  /\ c \notin calls
  /\ calls' = calls \cup {c}
  /\ unstarted_calls' = [unstarted_calls EXCEPT ![NameOf[c]] = Append(@, c)]
  /\ UNCHANGED <<assigned, finished, minutes, timeout_minutes, calls_to_retry>>

\* Mutant: an assigned call is requeued whenever somebody asks for it.
TimedOutAlways(c) == c \in assigned

\* Mutant: the server waits for a worker forever.
TimedOutNever(c) == FALSE

TimedOut(c) == c \in assigned /\ minutes[c] >= timeout_minutes[c]

DoubleTimeout(t) == (2 * t) % TimeoutModulus

\* The job was assigned too long ago: its timeout doubles and it is requeued.
Requeue(c) ==
  /\ TimedOut(c)
  /\ timeout_minutes' = [timeout_minutes EXCEPT ![c] = DoubleTimeout(@)]
  /\ minutes' = [minutes EXCEPT ![c] = 0]
  /\ assigned' = assigned \ {c}
  /\ calls_to_retry' = [calls_to_retry EXCEPT ![NameOf[c]] = Append(@, c)]
  /\ UNCHANGED <<calls, finished, unstarted_calls>>

\* Under CallGroup::mutex: the result has just been stored; or the call is
\* new, or it has timed out, or it goes on waiting for a worker.
EvaluateQueue(k) ==
  LET c == call[k] IN
  /\ pc[k] = "evaluate_queue"
  /\ \/ LookAgain(c) # None /\ Respond(k, 200, LookAgain(c)) /\ UNCHANGED queueVars
     \/ /\ LookAgain(c) = None
        /\ Respond(k, 202, None)
        /\ \/ QueueNewCall(c)
           \/ Requeue(c)
           \/ c \in calls /\ ~TimedOut(c) /\ UNCHANGED queueVars
  /\ UNCHANGED <<store, nodes, groupVars, call>>

-----------------------------------------------------------------------------
(* PUT /call/f/args and DELETE /call/f in handleRequestCall.               *)

\* store.set comes first, without a mutex; handleCallResult follows.
PutCall(k, c, v) ==
  /\ pc[k] = "idle"
  /\ store' = [store EXCEPT ![c] = v]
  /\ call' = [call EXCEPT ![k] = c]
  /\ Goto(k, "result_group")
  /\ UNCHANGED <<nodes, groupVars, queueVars>>

\* handleCallResult, under Server::mutex: find the call group.
ResultGroup(k) ==
  /\ pc[k] = "result_group"
  /\ \/ NameOf[call[k]] \notin call_groups /\ Respond(k, 201, None)
     \/ NameOf[call[k]] \in call_groups /\ Goto(k, "result_pending")
  /\ UNCHANGED <<store, nodes, groupVars, queueVars, call>>

\* PendingCall::deleteIfPossible, once finished is set.
deleteIfPossible(c) ==
  \/ /\ c \in assigned
     /\ Erase({c}, finished \cup {c})
     /\ assigned' = assigned \ {c}
     /\ minutes' = [minutes EXCEPT ![c] = 0]
     /\ UNCHANGED <<unstarted_calls, calls_to_retry>>
  \/ /\ c \notin assigned
     /\ \E n \in 0..Len(unstarted_calls[NameOf[c]]),
           m \in 0..Len(calls_to_retry[NameOf[c]]) :
          /\ deleteSomeFinishedCalls(NameOf[c], n, m, finished \cup {c})
          /\ unstarted_calls' =
               [unstarted_calls EXCEPT ![NameOf[c]] = Drop(@, n)]
          /\ calls_to_retry' =
               [calls_to_retry EXCEPT ![NameOf[c]] = Drop(@, m)]
     /\ UNCHANGED <<assigned, minutes>>

\* handleCallResult, under CallGroup::mutex: the PendingCall is finished.
ResultPending(k) ==
  /\ pc[k] = "result_pending"
  /\ Respond(k, 201, None)
  /\ \/ call[k] \notin calls /\ UNCHANGED queueVars
     \/ call[k] \in calls /\ deleteIfPossible(call[k])
  /\ UNCHANGED <<store, nodes, groupVars, call>>

\* store.call_invalidate; the pending calls are left alone.
DeleteCalls(k, f) ==
  /\ pc[k] = "idle"
  /\ f \in Invalidated
  /\ store' = [c \in Call |-> IF NameOf[c] = f THEN None ELSE store[c]]
  /\ call' = [call EXCEPT ![k] = None]
  /\ Respond(k, 204, None)
  /\ UNCHANGED <<nodes, groupVars, queueVars>>

-----------------------------------------------------------------------------
(* POST /cid and POST /worker.                                             *)

\* handleRequestCID: a worker uploads its information node.
PostNode(k, i) ==
  /\ pc[k] = "idle"
  /\ nodes' = nodes \cup {i}
  /\ call' = [call EXCEPT ![k] = None]
  /\ Respond(k, 201, None)
  /\ UNCHANGED <<store, groupVars, queueVars>>

\* handleRequestWorker, under Server::mutex: find or create the worker group.
RequestWorker(k, i) ==
  /\ pc[k] = "idle"
  /\ call' = [call EXCEPT ![k] = None]
  /\ \/ /\ i \notin worker_groups
        /\ i \notin nodes \/ FuncsOf[i] = None
        /\ Respond(k, 400, None)
        /\ UNCHANGED groupVars
     \/ /\ i \in worker_groups \/ (i \in nodes /\ FuncsOf[i] # None)
        /\ worker_groups' = worker_groups \cup {i}
        /\ call_groups' =
             call_groups \cup {FuncsOf[i][j] : j \in 1..Len(FuncsOf[i])}
        /\ pc' = [pc EXCEPT ![k] = "unstarted"]
        /\ worker' = [worker EXCEPT ![k] = i]
        /\ pos' = [pos EXCEPT ![k] = 1]
        /\ resp' = [resp EXCEPT ![k] = None]
  /\ UNCHANGED <<store, nodes, queueVars>>

\* Mutant: assigned is not set.
sendCallToWorkerUnassigned(k, c) ==
  /\ minutes' = [minutes EXCEPT ![c] = 0]
  /\ Respond(k, 200, c)
  /\ UNCHANGED assigned

\* sendCallToWorker, given the call that was popped off its queue.
sendCallToWorker(k, c) ==
  /\ assigned' = assigned \cup {c}
  /\ minutes' = [minutes EXCEPT ![c] = 0]
  /\ Respond(k, 200, c)

ContinueLoop(k) ==
  /\ pos' = [pos EXCEPT ![k] = @ + 1]
  /\ UNCHANGED <<assigned, minutes, pc, worker, resp>>

\* One pass of the first loop: one group, under its mutex.
SubmitUnstarted(k) ==
  LET f == FuncsOf[worker[k]][pos[k]] IN
  /\ pc[k] = "unstarted"
  /\ pos[k] <= Len(FuncsOf[worker[k]])
  /\ \E n \in 0..Len(unstarted_calls[f]), m \in 0..Len(calls_to_retry[f]) :
       LET q == Drop(unstarted_calls[f], n) IN
       /\ deleteSomeFinishedCalls(f, n, m, finished)
       /\ calls_to_retry' = [calls_to_retry EXCEPT ![f] = Drop(@, m)]
       /\ \/ /\ q = <<>>
             /\ unstarted_calls' = [unstarted_calls EXCEPT ![f] = q]
             /\ ContinueLoop(k)
          \/ /\ q # <<>>
             /\ unstarted_calls' = [unstarted_calls EXCEPT ![f] = Tail(q)]
             /\ sendCallToWorker(k, Head(q))
  /\ UNCHANGED <<store, nodes, groupVars, call>>

\* The first loop found nothing: the second one starts.
StartRetryLoop(k) ==
  /\ pc[k] = "unstarted"
  /\ pos[k] > Len(FuncsOf[worker[k]])
  /\ pc' = [pc EXCEPT ![k] = "retry"]
  /\ pos' = [pos EXCEPT ![k] = 1]
  /\ UNCHANGED <<store, nodes, groupVars, queueVars, call, worker, resp>>

\* One pass of the second loop.
SubmitRetry(k) ==
  LET f == FuncsOf[worker[k]][pos[k]] IN
  /\ pc[k] = "retry"
  /\ pos[k] <= Len(FuncsOf[worker[k]])
  /\ \E n \in 0..Len(unstarted_calls[f]), m \in 0..Len(calls_to_retry[f]) :
       LET q == Drop(calls_to_retry[f], m) IN
       /\ deleteSomeFinishedCalls(f, n, m, finished)
       /\ unstarted_calls' = [unstarted_calls EXCEPT ![f] = Drop(@, n)]
       /\ \/ /\ q = <<>>
             /\ calls_to_retry' = [calls_to_retry EXCEPT ![f] = q]
             /\ ContinueLoop(k)
          \/ /\ q # <<>>
             /\ calls_to_retry' = [calls_to_retry EXCEPT ![f] = Tail(q)]
             /\ sendCallToWorker(k, Head(q))
  /\ UNCHANGED <<store, nodes, groupVars, call>>

\* No PendingCall found: the response is null.
NoPendingCall(k) ==
  /\ pc[k] = "retry"
  /\ pos[k] > Len(FuncsOf[worker[k]])
  /\ Respond(k, 200, None)
  /\ UNCHANGED <<store, nodes, groupVars, queueVars, call>>

-----------------------------------------------------------------------------
\* Time: one more whole minute since the call was assigned.  Each call has
\* its own start_time, so the minutes of two calls do not end together.
MinutePasses(c) ==
  /\ c \in assigned
  /\ minutes[c] < timeout_minutes[c]
  /\ minutes' = [minutes EXCEPT ![c] = @ + 1]
  /\ UNCHANGED <<store, nodes, groupVars, connVars, calls, assigned, finished,
                 timeout_minutes, unstarted_calls, calls_to_retry>>

\* A handler that has started takes its next step.
Handler(k) ==
  \/ EvaluateGroup(k)
  \/ EvaluateQueue(k)
  \/ ResultGroup(k)
  \/ ResultPending(k)
  \/ SubmitUnstarted(k)
  \/ StartRetryLoop(k)
  \/ SubmitRetry(k)
  \/ NoPendingCall(k)

\* A request arrives: from anybody, in any order.
Request(k) ==
  \/ \E c \in Call : EvaluateCall(k, c)
  \/ \E c \in Call, v \in Value : PutCall(k, c, v)
  \/ \E f \in Func : DeleteCalls(k, f)
  \/ \E i \in WorkerInfo : PostNode(k, i) \/ RequestWorker(k, i)

Next ==
  \/ \E k \in Conn : Request(k) \/ Handler(k)
  \/ \E c \in Call : MinutePasses(c)

Spec == Init /\ [][Next]_vars
-----------------------------------------------------------------------------
(* Properties.                                                             *)

InQueue(q, c) == \E i \in 1..Len(q) : q[i] = c

NoRepeats(q) == \A i, j \in 1..Len(q) : q[i] = q[j] => i = j

\* The comment on PendingCall::assigned in Server.h, completed: every pointer
\* in a queue is to a live PendingCall of that group, it occurs in one queue
\* and once, and a PendingCall is queued exactly when it is not assigned.
\* A call lost from the queues while unassigned would never be evaluated.
QueuesConsistent ==
  /\ assigned \subseteq calls
  /\ finished \subseteq calls
  /\ \A f \in Func :
       /\ NoRepeats(unstarted_calls[f])
       /\ NoRepeats(calls_to_retry[f])
       /\ \A c \in Call : InQueue(unstarted_calls[f], c) =>
            NameOf[c] = f /\ c \in calls /\ ~InQueue(calls_to_retry[f], c)
       /\ \A c \in Call : InQueue(calls_to_retry[f], c) =>
            NameOf[c] = f /\ c \in calls
  /\ \A c \in calls :
       c \notin assigned <=> \/ InQueue(unstarted_calls[NameOf[c]], c)
                            \/ InQueue(calls_to_retry[NameOf[c]], c)

\* A worker is never given a job that the server knows to be finished, however
\* the delivery of the result races the requeueing and the loops over groups.
NoFinishedCallAssigned == assigned \cap finished = {}

\* handleCallResult is running for call c.
ResultInFlight(c) ==
  \E k \in Conn : pc[k] \in {"result_group", "result_pending"} /\ call[k] = c

\* A call whose result is in the store is not left queued or assigned, except
\* while the PUT that stored it is still in handleCallResult: the second look
\* at the store, under the mutex of the group, closes the window between the
\* first one and the creation of the PendingCall.
NoCallPendingWithResult ==
  \A c \in calls \ finished : store[c] # None => ResultInFlight(c)

\* 202 Accepted is a promise: as long as nobody invalidates the func, the call
\* stays pending until its result is in the store.
AcceptedCallKept ==
  \A k \in Conn :
    resp[k] # None /\ resp[k].status = 202 /\ NameOf[call[k]] \notin Invalidated
      => store[call[k]] # None \/ call[k] \in calls \ finished

\* What a handler may still rely on after it released a mutex: the group of a
\* pending call exists (so handleCallResult may return when it finds none), and
\* so does the one handleEvaluateCall looked up; handleCallResult only runs,
\* and a PendingCall is only marked finished, with the result in the store,
\* unless the func is invalidated.
HandlerAssumptions ==
  /\ \A c \in calls : NameOf[c] \in call_groups
  /\ \A k \in Conn :
       /\ pc[k] = "evaluate_queue" => NameOf[call[k]] \in call_groups
       /\ pc[k] \in {"result_group", "result_pending"} =>
            NameOf[call[k]] \in Invalidated \/ store[call[k]] # None
  /\ \A c \in finished : NameOf[c] \in Invalidated \/ store[c] # None

\* No interleaving of handlers takes from one of them what it relies on between
\* two of its lock sections, or leaves a call to the workers whose result is known.
NoHandlerSurprised == HandlerAssumptions /\ NoCallPendingWithResult

\* A call only goes back from a worker to a queue when its time was over, and
\* to the end of calls_to_retry, behind the calls that timed out before it.
RequeueOnlyAfterTimeout ==
  [][\A c \in assigned : c \in calls' \ assigned' =>
       /\ minutes[c] >= timeout_minutes[c]
       /\ calls_to_retry'[NameOf[c]] = Append(calls_to_retry[NameOf[c]], c)]_vars
-----------------------------------------------------------------------------
(* The server implements JobBoard.  A finished PendingCall that still sits *)
(* behind an unfinished one in its queue has left the board already.       *)

boardJob ==
  [c \in Call |-> IF c \notin calls \ finished THEN "none"
                 ELSE IF c \in assigned THEN "running" ELSE "waiting"]

Board == INSTANCE JobBoard WITH
           job <- boardJob, result <- store, Withdrawable <- Invalidated

\* Every step of a handler is a step of the board or invisible on it: no lock
\* section submits a call whose result is known, gives a call to two workers,
\* takes it back from a worker, or drops it, in any other way than the board.
ImplementsJobBoard == Board!BoardSpec
=============================================================================

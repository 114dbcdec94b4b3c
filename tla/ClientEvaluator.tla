-------------------------- MODULE ClientEvaluator --------------------------
(***************************************************************************)
(* ClientEvaluator (memodb/lib/Client.cpp): the evaluator of a process     *)
(* that is connected to memodb-server.  Every thread of the pool asks the  *)
(* server for jobs and starts a fiber for each one; work_semaphore limits  *)
(* how many fibers and asking threads go on at once, and a fiber gives its *)
(* permit back while it waits for a call it evaluates.  The main thread    *)
(* evaluates calls of its own, then destroys the evaluator, or serves for  *)
(* ever (smout worker).                                                    *)
(*                                                                         *)
(* A fiber is named by the call it evaluates: the server gives a call out  *)
(* once here (Cluster.tla has the jobs that are given out again).  The     *)
(* fiber scheduler is Boost's: with one thread its fibers stay attached to *)
(* it, with more of them a fiber that may run is attached to no thread     *)
(* until one picks it, and a thread ends when none is attached to it.      *)
(***************************************************************************)
EXTENDS Integers, FiniteSets

CONSTANTS
  Worker,    \* the threads of the pool
  Main,      \* the thread that owns the evaluator
  Call,
  SubCalls,  \* the calls a call's func evaluates
  TopCalls,  \* the calls the main thread evaluates
  Outside,   \* the calls other processes ask for
  Serves,    \* the main thread never destroys the evaluator
  None

Agent == Worker \cup Call \cup {Main}
NumThreads == Cardinality(Worker)

ASSUME ClientAssumption ==
  /\ IsFiniteSet(Worker) /\ Worker # {} /\ Main \notin Worker \cup Call
  /\ Worker \cap Call = {} /\ None \notin Agent
  /\ SubCalls \in [Call -> SUBSET Call] /\ TopCalls \subseteq Call
  /\ Outside \subseteq Call /\ Serves \in BOOLEAN

VARIABLES
  server,     \* of each call: "none", "queued", "given" or "done"
  at,         \* where each thread's loop, each fiber and the main thread is
  todo,       \* the calls each fiber and the main thread may still evaluate
  futures,    \* the deferred futures they hold
  waits,      \* the call each of them waits for, or None
  thread,     \* the thread each fiber is attached to, or None
  count, cancelled,  \* of work_semaphore
  owed,       \* the notify_one calls that follow a release and are still to come
  shared_count,      \* of work_shared_mutex
  num_requested, num_started, num_finished

semaphore == <<count, cancelled, owed>>
counters == <<num_requested, num_started, num_finished>>
vars == <<server, at, todo, futures, waits, thread, semaphore, shared_count, counters>>

Goto(a, label) == at' = [at EXCEPT ![a] = label]

Init ==
  /\ server = [c \in Call |-> "none"]
  /\ at = [a \in Agent |-> IF a \in Worker THEN "acquire" ELSE
                           IF a \in Call THEN "none" ELSE "func"]
  /\ todo = [a \in Call \cup {Main} |-> IF a = Main THEN TopCalls ELSE SubCalls[a]]
  /\ futures = [a \in Call \cup {Main} |-> {}]
  /\ waits = [a \in Call \cup {Main} |-> None]
  /\ thread = [c \in Call |-> None]
  /\ count = NumThreads /\ cancelled = FALSE /\ owed = 0
  /\ shared_count = 0
  /\ num_requested = 0 /\ num_started = 0 /\ num_finished = 0

-----------------------------------------------------------------------------
(* Fibers and the threads that run them *)

\* A fiber runs only on the thread it is attached to.
CanRun(a) == a \in Call => thread[a] # None

\* shared_work::awakened detaches a fiber; with one thread it stays where it is.
Awakened(a) ==
  thread' = IF a \in Call /\ NumThreads > 1 THEN [thread EXCEPT ![a] = None] ELSE thread

\* A thread that has not ended, its loop left or not, picks a fiber.
PickFiber(w, c) ==
  /\ at[c] \notin {"none", "done"} /\ thread[c] = None /\ at[w] # "ended"
  /\ thread' = [thread EXCEPT ![c] = w]
  /\ UNCHANGED <<server, at, todo, futures, waits, semaphore, shared_count, counters>>

\* The loop has returned and no fiber is attached to the thread.
ThreadEnds(w) ==
  /\ at[w] = "left" /\ \A c \in Call : thread[c] # w
  /\ Goto(w, "ended")
  /\ UNCHANGED <<server, todo, futures, waits, thread, semaphore, shared_count, counters>>

-----------------------------------------------------------------------------
(* CountingSemaphore *)

\* Where an agent goes once it has left acquire.
Acquired(a) == IF a \in Worker THEN IF cancelled THEN "left" ELSE "poll" ELSE "func"

\* The condition acquire waits for.
Free == cancelled \/ count # 0

Acquire(a) ==
  /\ at[a] = "acquire" /\ CanRun(a) /\ Free
  /\ count' = IF cancelled THEN count ELSE count - 1
  /\ Goto(a, Acquired(a))
  /\ UNCHANGED <<server, todo, futures, waits, thread, cancelled, owed, shared_count,
                 counters>>

\* The condition is false: the agent goes to sleep, in two steps, because cancel
\* does not take the mutex it holds between them.
TestFails(a) ==
  /\ at[a] = "acquire" /\ CanRun(a) /\ ~Free
  /\ Goto(a, "tested")
  /\ UNCHANGED <<server, todo, futures, waits, thread, semaphore, shared_count, counters>>

FallAsleep(a) ==
  /\ at[a] = "tested"
  /\ Goto(a, "asleep")
  /\ UNCHANGED <<server, todo, futures, waits, thread, semaphore, shared_count, counters>>

\* The mutex is held by an agent between its test and its sleep.
MutexFree == \A a \in Agent : at[a] # "tested"

\* Mutant: a release that is not followed by a notification.
ReleaseSilent == count' = count + 1 /\ UNCHANGED owed

\* release, up to its notify_one.
Release == count' = count + 1 /\ owed' = owed + 1

NotifyOne ==
  /\ owed > 0
  /\ owed' = owed - 1
  /\ \/ /\ \A a \in Agent : at[a] # "asleep"
        /\ UNCHANGED <<at, thread>>
     \/ \E a \in Agent : at[a] = "asleep" /\ Goto(a, "acquire") /\ Awakened(a)
  /\ UNCHANGED <<server, todo, futures, waits, count, cancelled, shared_count, counters>>

-----------------------------------------------------------------------------
(* evaluate and evaluateAsync, by a fiber or the main thread *)

\* evaluateDeferred, up to its first request.
Defer(a, c) ==
  /\ MutexFree
  /\ num_started' = num_started + 1
  /\ Release
  /\ waits' = [waits EXCEPT ![a] = c]
  /\ Goto(a, "await")

Evaluate(a) == \E c \in todo[a] :
  /\ at[a] = "func" /\ CanRun(a)
  /\ num_requested' = num_requested + 1
  /\ todo' = [todo EXCEPT ![a] = @ \ {c}]
  /\ Defer(a, c)
  /\ UNCHANGED <<server, futures, thread, cancelled, shared_count, num_finished>>

\* The server queues a call it is asked for, unless it has its result.
Asked(c) == server' = IF server[c] = "none" THEN [server EXCEPT ![c] = "queued"] ELSE server

\* Mutant: an early result is not counted as started.
EarlyUncounted == UNCHANGED num_started

\* tryEvaluate(call, inc_started_if_success = true) succeeds.
EarlyStarted == num_started' = num_started + 1

EvaluateAsync(a) == \E c \in todo[a] :
  /\ at[a] = "func" /\ CanRun(a)
  /\ num_requested' = num_requested + 1
  /\ todo' = [todo EXCEPT ![a] = @ \ {c}]
  /\ Asked(c)
  /\ IF server[c] = "done"
     THEN EarlyStarted /\ num_finished' = num_finished + 1 /\ UNCHANGED futures
     ELSE /\ futures' = [futures EXCEPT ![a] = @ \cup {c}]
          /\ UNCHANGED <<num_started, num_finished>>
  /\ UNCHANGED <<at, waits, thread, semaphore, shared_count>>

\* Future::get of a future that is still deferred.
GetFuture(a) == \E c \in futures[a] :
  /\ at[a] = "func" /\ CanRun(a)
  /\ futures' = [futures EXCEPT ![a] = @ \ {c}]
  /\ Defer(a, c)
  /\ UNCHANGED <<server, todo, thread, cancelled, shared_count, num_requested, num_finished>>

\* No result yet: sleep for a second, then be ready again.
TryAgain(a) ==
  /\ at[a] = "await" /\ CanRun(a) /\ server[waits[a]] # "done"
  /\ Asked(waits[a])
  /\ Awakened(a)
  /\ UNCHANGED <<at, todo, futures, waits, semaphore, shared_count, counters>>

\* Mutant: the permit given back for the wait is not taken again.
ResumeUnlimited == "func"

\* After the result comes work_semaphore.acquire.
Resume == "acquire"

GotResult(a) ==
  /\ at[a] = "await" /\ CanRun(a) /\ server[waits[a]] = "done"
  /\ num_finished' = num_finished + 1
  /\ waits' = [waits EXCEPT ![a] = None]
  /\ Goto(a, Resume)
  /\ UNCHANGED <<server, todo, futures, thread, semaphore, shared_count, num_requested,
                 num_started>>

-----------------------------------------------------------------------------
(* workerThreadImpl *)

\* Mutant: the loop does not look at the flag while it asks for jobs.
LeavePollNever(w) == FALSE

LeavePoll(w) == at[w] = "poll" /\ cancelled

Leave(w) ==
  /\ LeavePoll(w)
  /\ Goto(w, "left")
  /\ UNCHANGED <<server, todo, futures, waits, thread, semaphore, shared_count, counters>>

\* No job: sleep and ask again.  With a job, lock_shared, start the fiber, go on; the
\* permit is now the fiber's.
GetJob(w, c) ==
  /\ at[w] = "poll" /\ ~cancelled /\ server[c] = "queued"
  /\ server' = [server EXCEPT ![c] = "given"]
  /\ shared_count' = shared_count + 1
  /\ at' = [at EXCEPT ![w] = "acquire", ![c] = "func"]
  /\ thread' = [thread EXCEPT ![c] = IF NumThreads > 1 THEN None ELSE w]
  /\ UNCHANGED <<todo, futures, waits, semaphore, counters>>

\* The func returns and its result is sent.
PutResult(c) ==
  /\ at[c] = "func" /\ CanRun(c)
  /\ server' = [server EXCEPT ![c] = "done"]
  /\ Goto(c, "put")
  /\ UNCHANGED <<todo, futures, waits, thread, semaphore, shared_count, counters>>

\* The fiber gives its permit back, ends and drops its shared lock.
FiberEnds(c) ==
  /\ at[c] = "put" /\ MutexFree
  /\ Release
  /\ shared_count' = shared_count - 1
  /\ Goto(c, "done")
  /\ thread' = [thread EXCEPT ![c] = None]
  /\ UNCHANGED <<server, todo, futures, waits, cancelled, counters>>

-----------------------------------------------------------------------------
(* The destructor, and the rest of the world *)

Cancel ==
  /\ at[Main] = "func" /\ todo[Main] = {} /\ ~Serves
  /\ cancelled' = TRUE
  /\ Goto(Main, "notify_all")
  /\ UNCHANGED <<server, todo, futures, waits, thread, count, owed, shared_count, counters>>

\* Who cv.notify_all wakes.
Woken(a) == at[a] = "asleep"

NotifyAll ==
  /\ at[Main] = "notify_all"
  /\ at' = [a \in Agent |-> IF a = Main THEN "join" ELSE
                            IF at[a] = "asleep" /\ Woken(a) THEN "acquire" ELSE at[a]]
  /\ thread' = [c \in Call |-> IF at[c] = "asleep" /\ NumThreads > 1 THEN None ELSE thread[c]]
  /\ UNCHANGED <<server, todo, futures, waits, semaphore, shared_count, counters>>

Destroyed ==
  /\ at[Main] = "join" /\ \A w \in Worker : at[w] = "ended"
  /\ Goto(Main, "destroyed")
  /\ UNCHANGED <<server, todo, futures, waits, thread, semaphore, shared_count, counters>>

\* Another process asks the server for a call.
OtherClient(c) ==
  /\ c \in Outside /\ server[c] = "none"
  /\ server' = [server EXCEPT ![c] = "queued"]
  /\ UNCHANGED <<at, todo, futures, waits, thread, semaphore, shared_count, counters>>

-----------------------------------------------------------------------------
AgentStep(a) ==
  \/ Acquire(a) \/ TestFails(a) \/ FallAsleep(a)
  \/ a \notin Worker /\ (TryAgain(a) \/ GotResult(a))

\* What a func, or the main thread, chooses to do next.
FuncStep(a) == Evaluate(a) \/ EvaluateAsync(a) \/ GetFuture(a)

LoopStep(w) == Leave(w) \/ ThreadEnds(w)
FiberStep(c) == PutResult(c) \/ FiberEnds(c)
MainStep == Cancel \/ NotifyAll \/ Destroyed

Next ==
  \/ \E a \in Agent : AgentStep(a)
  \/ \E a \in Call \cup {Main} : FuncStep(a)
  \/ \E w \in Worker : LoopStep(w) \/ \E c \in Call : GetJob(w, c) \/ PickFiber(w, c)
  \/ \E c \in Call : FiberStep(c) \/ OtherClient(c)
  \/ NotifyOne \/ MainStep

\* Threads and fibers keep running, a fiber that may run is picked, funcs return, and
\* an asking thread gets a job when there is one.
Fairness ==
  /\ \A a \in Agent : WF_vars(AgentStep(a))
  /\ WF_vars(FuncStep(Main)) /\ WF_vars(MainStep) /\ WF_vars(NotifyOne)
  /\ \A w \in Worker : WF_vars(LoopStep(w))
  /\ \A c \in Call : /\ WF_vars(FiberStep(c)) /\ WF_vars(\E w \in Worker : GetJob(w, c))
                     /\ SF_vars(\E w \in Worker : PickFiber(w, c))

Spec == Init /\ [][Next]_vars /\ Fairness

-----------------------------------------------------------------------------
Label == {"none", "acquire", "tested", "asleep", "poll", "left", "ended", "func", "await",
          "put", "done", "notify_all", "join", "destroyed"}

TypeOK ==
  /\ server \in [Call -> {"none", "queued", "given", "done"}]
  /\ at \in [Agent -> Label]
  /\ todo \in [Call \cup {Main} -> SUBSET Call]
  /\ futures \in [Call \cup {Main} -> SUBSET Call]
  /\ waits \in [Call \cup {Main} -> Call \cup {None}]
  /\ thread \in [Call -> Worker \cup {None}]
  /\ count \in Nat /\ owed \in Nat /\ cancelled \in BOOLEAN
  /\ shared_count \in Nat /\ counters \in Nat \X Nat \X Nat

\* The fibers that have started and not ended, and those that run func code.
Live == {c \in Call : at[c] \notin {"none", "done"}}
Computing == {c \in Call : at[c] \in {"func", "put"}}

\* The main thread has given a permit it never took, while it waits for a call.
Lent == IF at[Main] \in {"await", "acquire", "tested", "asleep"} THEN 1 ELSE 0

\* "Used to limit the number of threads that run CPU-intensive code": permits are
\* neither lost nor made, however fibers give them back and take them again, so the
\* fibers in a func and the asking threads are never more than the threads, and one
\* more while the main thread waits.
PermitsConserved ==
  ~cancelled =>
    count + Cardinality(Computing) + Cardinality({w \in Worker : at[w] = "poll"})
      = NumThreads + Lent

\* While an agent sleeps on the semaphore, every free permit has an agent that is
\* about to take it or a notification on its way.
NoLostPermit ==
  (\E a \in Agent : at[a] = "asleep") /\ ~cancelled =>
    count <= owed + Cardinality({a \in Agent : at[a] = "acquire"})

\* What makes the load order of printProgress safe: a call is counted as requested
\* before it is counted as started, and as started before finished, on every path.
CountersOrdered == num_finished <= num_started /\ num_started <= num_requested

\* "Evaluate a call and wait until evaluation is done": the main thread's calls all
\* return, however deeply their funcs evaluate other calls on the same threads,
\* because its own lent permit is one more than the asking threads can hold.
MainReturns == at[Main] = "await" ~> at[Main] = "func"

\* The destructor returns if it meets no live fiber and no thread between its test
\* of the semaphore and its sleep, which is the only way to miss cancel.
ShutdownUnlessMidWait ==
  (at[Main] = "notify_all" /\ MutexFree /\ Live = {}) ~> at[Main] = "destroyed"

\* No wait of the main thread is for ever: neither that for a call's result nor, with
\* no thread about to sleep, that of the destructor for its threads.
EveryWaitEnds == MainReturns /\ ShutdownUnlessMidWait

=============================================================================

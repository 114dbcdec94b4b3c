----------------------------- MODULE ThreadPool -----------------------------
(***************************************************************************)
(* ThreadPoolEvaluator (memodb/lib/Evaluator.cpp): the main thread and the *)
(* pool's workers evaluate calls, which may evaluate further calls.  A     *)
(* future is deferred until somebody waits for it: the thread that made it *)
(* or a worker that took it from the queue runs it, and the other waits.   *)
(*                                                                         *)
(* Each thread has a stack of frames, the last one running.  A critical    *)
(* section of work_mutex is one step; what comes after the unlock is       *)
(* another.  A func is any program that evaluates its subcalls, waits for  *)
(* them or not, and returns.                                               *)
(***************************************************************************)
EXTENDS Integers, Sequences, FiniteSets

CONSTANTS
  Worker,      \* the threads of the pool; may be empty
  Main,        \* the thread that owns the evaluator
  Call,
  SubCalls,    \* the calls a call's func evaluates
  TopCalls,    \* the calls the main thread evaluates
  MaxFutures,  \* bound on the futures made
  None

Thread == Worker \cup {Main}
Future == 1 .. MaxFutures

ASSUME PoolAssumption ==
  /\ Main \notin Worker /\ IsFiniteSet(Worker)
  /\ SubCalls \in [Call -> SUBSET Call] /\ TopCalls \subseteq Call
  /\ MaxFutures \in Nat
  /\ None \notin Thread \cup Call

VARIABLES
  stored,        \* the calls whose result is in the store
  made,          \* the call of each future made so far
  state,         \* of each future: "none", "deferred", "running", "ready"
  work_queue, work_done,
  asleep,        \* the workers waiting on work_cv
  stack,
  num_queued, num_started, num_finished,
  stderr_owner,  \* who holds stderr_mutex, or None
  progress       \* the counts printed last: waiting, running, finished

futureVars == <<made, state>>
queueVars == <<work_queue, work_done, asleep>>
counters == <<num_queued, num_started, num_finished>>
printVars == <<stderr_owner, progress>>
shared == <<stored, futureVars, queueVars, counters, printVars>>
vars == <<shared, stack>>

(***************************************************************************)
(* at: where the frame is; call: what it evaluates; fut: the future it     *)
(* runs, or 0; subs: the calls it may still make; mine: the futures it     *)
(* holds; cur: the one it is making or waiting for; seen: the counters     *)
(* printProgress has loaded.                                               *)
(***************************************************************************)
Frame(at, call, fut, subs) ==
  [at |-> at, call |-> call, fut |-> fut, subs |-> subs, mine |-> {}, cur |-> 0,
   seen |-> <<>>]

Top(t) == stack[t][Len(stack[t])]
At(t, label) == stack[t] # <<>> /\ Top(t).at = label
SetTop(t, frame) == stack' = [stack EXCEPT ![t][Len(stack[t])] = frame]
Goto(t, label) == SetTop(t, [Top(t) EXCEPT !.at = label])
Push(t, frame) == stack' = [stack EXCEPT ![t] = Append(@, frame)]
Pop(t) == stack' = [stack EXCEPT ![t] = SubSeq(@, 1, Len(@) - 1)]

Init ==
  /\ stored = {}
  /\ made = <<>>
  /\ state = [f \in Future |-> "none"]
  /\ work_queue = <<>> /\ work_done = FALSE /\ asleep = {}
  /\ stack = [t \in Thread |-> IF t = Main THEN <<Frame("body", None, 0, TopCalls)>>
                                           ELSE <<Frame("loop", None, 0, {})>>]
  /\ num_queued = 0 /\ num_started = 0 /\ num_finished = 0
  /\ stderr_owner = None
  /\ progress = <<0, 0, 0>>

-----------------------------------------------------------------------------
(* evaluateAsync, in three steps *)

\* Count the call and make its deferred future.
EvaluateAsync(t) == \E c \in Top(t).subs :
  /\ At(t, "body") /\ Len(made) < MaxFutures
  /\ num_queued' = num_queued + 1
  /\ made' = Append(made, c)
  /\ state' = [state EXCEPT ![Len(made')] = "deferred"]
  /\ SetTop(t, [Top(t) EXCEPT !.at = "push", !.cur = Len(made'), !.subs = @ \ {c}])
  /\ UNCHANGED <<stored, queueVars, num_started, num_finished, printVars>>

\* What work_queue.emplace copies.
Queued(t) == Top(t).cur

\* With an empty pool the future is only returned.
QueueFuture(t) ==
  LET kept == [Top(t) EXCEPT !.mine = @ \cup {Top(t).cur}, !.cur = 0] IN
  /\ At(t, "push")
  /\ IF Worker = {}
     THEN SetTop(t, [kept EXCEPT !.at = "body"]) /\ UNCHANGED work_queue
     ELSE /\ work_queue' = Append(work_queue, Queued(t))
          /\ SetTop(t, [kept EXCEPT !.at = "notify"])
  /\ UNCHANGED <<stored, futureVars, work_done, asleep, counters, printVars>>

\* Mutant: the future is queued and nobody is told.
WokenNone == {asleep}

\* work_cv.notify_one wakes one waiter, if there is any.
Woken == IF asleep = {} THEN {asleep} ELSE {asleep \ {w} : w \in asleep}

NotifyOne(t) ==
  /\ At(t, "notify")
  /\ asleep' \in Woken
  /\ Goto(t, "body")
  /\ UNCHANGED <<stored, futureVars, work_queue, work_done, counters, printVars>>

-----------------------------------------------------------------------------
(* Future::get, by a func or by a worker *)

WaitFor(t) == \E f \in Top(t).mine :
  /\ At(t, "body")
  /\ SetTop(t, [Top(t) EXCEPT !.at = "get", !.cur = f, !.mine = @ \ {f}])
  /\ UNCHANGED shared

\* Mutant: whoever waits for a future that is not ready runs it.
RunnableTwice(t, f) == state[f] \in {"deferred", "running"}

\* The first to wait for a deferred future runs it.
Runnable(t, f) == state[f] = "deferred"

RunDeferred(t) ==
  LET f == Top(t).cur IN
  /\ At(t, "get") /\ Runnable(t, f)
  /\ state' = [state EXCEPT ![f] = "running"]
  /\ Push(t, Frame("start", made[f], f, SubCalls[made[f]]))
  /\ UNCHANGED <<stored, made, queueVars, counters, printVars>>

\* Everybody else waits until it is ready.
GotResult(t) ==
  /\ At(t, "get") /\ state[Top(t).cur] = "ready"
  /\ SetTop(t, [Top(t) EXCEPT !.cur = 0,
                 !.at = IF Len(stack[t]) = 1 /\ t # Main THEN "loop" ELSE "body"])
  /\ UNCHANGED shared

-----------------------------------------------------------------------------
(* evaluateDeferred and printProgress *)

Start(t) ==
  /\ At(t, "start")
  /\ num_started' = num_started + 1
  /\ Goto(t, "print_start")
  /\ UNCHANGED <<stored, futureVars, queueVars, num_queued, num_finished, printVars>>

Finish(t) ==
  /\ At(t, "finish")
  /\ num_finished' = num_finished + 1
  /\ Goto(t, "print_finish")
  /\ UNCHANGED <<stored, futureVars, queueVars, num_queued, num_started, printVars>>

Reporting(t) == At(t, "print_start") \/ At(t, "print_finish")

\* After the message about the start comes evaluate, after the other the return.
AfterReport(t) == IF At(t, "print_start") THEN "resolve" ELSE "ready"

\* try_to_lock fails: the message is skipped.
SkipReport(t) ==
  /\ Reporting(t) /\ stderr_owner \notin {None, t}
  /\ Goto(t, AfterReport(t))
  /\ UNCHANGED shared

\* Mutant: the counters are loaded in the order they are printed.
LoadOrderReversed == <<num_finished, num_queued, num_started>>

\* The order in which printProgress loads the counters.
LoadOrder == <<num_finished, num_started, num_queued>>

Load(t) ==
  LET seen == Top(t).seen IN
  /\ Reporting(t) /\ stderr_owner \in {None, t} /\ Len(seen) < 3
  /\ stderr_owner' = t
  /\ SetTop(t, [Top(t) EXCEPT !.seen = Append(seen, LoadOrder[Len(seen) + 1])])
  /\ UNCHANGED <<stored, futureVars, queueVars, counters, progress>>

\* Print what was loaded and unlock.
ShowProgress(t) ==
  LET s == Top(t).seen IN
  /\ Reporting(t) /\ Len(s) = 3
  /\ progress' = <<s[3] - s[2], s[2] - s[1], s[1]>>
  /\ stderr_owner' = None
  /\ SetTop(t, [Top(t) EXCEPT !.seen = <<>>, !.at = AfterReport(t)])
  /\ UNCHANGED <<stored, futureVars, queueVars, counters>>

\* The future has its result.
Ready(t) ==
  /\ At(t, "ready")
  /\ state' = [state EXCEPT ![Top(t).fut] = "ready"]
  /\ Pop(t)
  /\ UNCHANGED <<stored, made, queueVars, counters, printVars>>

-----------------------------------------------------------------------------
(* evaluate *)

\* A func evaluates a call and waits for it.
Evaluate(t) == \E c \in Top(t).subs :
  LET caller == [Top(t) EXCEPT !.subs = @ \ {c}] IN
  /\ At(t, "body")
  /\ stack' = [stack EXCEPT ![t] =
       Append([stack[t] EXCEPT ![Len(stack[t])] = caller], Frame("resolve", c, 0, SubCalls[c]))]
  /\ UNCHANGED shared

\* Where a frame goes when evaluate returns.
Returned(t) == IF Top(t).fut = 0 THEN Pop(t) ELSE Goto(t, "finish")

Resolve(t) ==
  /\ At(t, "resolve")
  /\ IF Top(t).call \in stored THEN Returned(t) ELSE Goto(t, "body")
  /\ UNCHANGED shared

\* The func returns; the futures it holds are dropped.
FuncReturns(t) ==
  /\ At(t, "body") /\ (t # Main \/ Len(stack[t]) > 1)
  /\ Goto(t, "set")
  /\ UNCHANGED shared

Saved(t) == {Top(t).call}

SetResult(t) ==
  /\ At(t, "set")
  /\ stored' = stored \cup Saved(t)
  /\ Returned(t)
  /\ UNCHANGED <<futureVars, queueVars, counters, printVars>>

-----------------------------------------------------------------------------
(* workerThreadImpl and the destructor *)

\* Under work_mutex: leave, take the first future, or wait on work_cv.
WorkerLeaves(w) ==
  /\ At(w, "loop") /\ w \notin asleep /\ work_done
  /\ Goto(w, "end")
  /\ UNCHANGED shared

WorkerTakes(w) ==
  /\ At(w, "loop") /\ w \notin asleep /\ ~work_done /\ work_queue # <<>>
  /\ SetTop(w, [Top(w) EXCEPT !.at = "get", !.cur = Head(work_queue)])
  /\ work_queue' = Tail(work_queue)
  /\ UNCHANGED <<stored, futureVars, work_done, asleep, counters, printVars>>

WorkerSleeps(w) ==
  /\ At(w, "loop") /\ w \notin asleep /\ ~work_done /\ work_queue = <<>>
  /\ asleep' = asleep \cup {w}
  /\ UNCHANGED <<stored, futureVars, work_queue, work_done, stack, counters, printVars>>

\* A condition variable may wake a waiter for no reason.
SpuriousWakeup(w) ==
  /\ w \in asleep
  /\ asleep' = asleep \ {w}
  /\ UNCHANGED <<stored, futureVars, work_queue, work_done, stack, counters, printVars>>

\* The main thread is done with the evaluator and destroys it.
Destroy ==
  /\ At(Main, "body") /\ Len(stack[Main]) = 1
  /\ work_done' = TRUE
  /\ Goto(Main, "notify_all")
  /\ UNCHANGED <<stored, futureVars, work_queue, asleep, counters, printVars>>

\* Mutant: the destructor wakes one worker only.
NotifiedOne == Woken

\* Who may still be asleep after work_cv.notify_all.
Notified == {{}}

NotifyAll ==
  /\ At(Main, "notify_all")
  /\ asleep' \in Notified
  /\ Goto(Main, "join")
  /\ UNCHANGED <<stored, futureVars, work_queue, work_done, counters, printVars>>

Join ==
  /\ At(Main, "join") /\ \A w \in Worker : At(w, "end")
  /\ Goto(Main, "end")
  /\ UNCHANGED shared

-----------------------------------------------------------------------------
ThreadStep(t) ==
  \/ EvaluateAsync(t) \/ QueueFuture(t) \/ NotifyOne(t)
  \/ WaitFor(t) \/ RunDeferred(t) \/ GotResult(t)
  \/ Start(t) \/ SkipReport(t) \/ Load(t) \/ ShowProgress(t) \/ Finish(t) \/ Ready(t)
  \/ Evaluate(t) \/ Resolve(t) \/ FuncReturns(t) \/ SetResult(t)

WorkerStep(w) == WorkerLeaves(w) \/ WorkerTakes(w) \/ WorkerSleeps(w)
MainStep == Destroy \/ NotifyAll \/ Join

Next ==
  \/ \E t \in Thread : ThreadStep(t)
  \/ \E w \in Worker : WorkerStep(w) \/ SpuriousWakeup(w)
  \/ MainStep

\* The system's threads keep running, and a func returns in the end.
Fairness ==
  /\ \A t \in Thread : WF_vars(ThreadStep(t))
  /\ \A w \in Worker : WF_vars(WorkerStep(w))
  /\ WF_vars(MainStep)

Spec == Init /\ [][Next]_vars /\ Fairness

-----------------------------------------------------------------------------
FrameOK(fr) ==
  /\ fr.at \in {"body", "push", "notify", "get", "start", "print_start", "resolve",
               "set", "finish", "print_finish", "ready", "loop", "notify_all", "join",
               "end"}
  /\ fr.call \in Call \cup {None} /\ fr.fut \in 0 .. Len(made)
  /\ fr.subs \subseteq Call /\ fr.mine \subseteq 1 .. Len(made)
  /\ fr.cur \in 0 .. Len(made)
  /\ Len(fr.seen) <= 3

TypeOK ==
  /\ stored \subseteq Call
  /\ made \in Seq(Call) /\ Len(made) <= MaxFutures
  /\ state \in [Future -> {"none", "deferred", "running", "ready"}]
  /\ work_queue \in Seq(1 .. Len(made)) /\ work_done \in BOOLEAN
  /\ asleep \subseteq Worker
  /\ DOMAIN stack = Thread
  /\ \A t \in Thread : stack[t] # <<>> /\ \A i \in DOMAIN stack[t] : FrameOK(stack[t][i])
  /\ num_queued \in Nat /\ num_started \in Nat /\ num_finished \in Nat
  /\ stderr_owner \in Thread \cup {None}

\* The workers about to look at the queue, and the threads about to wake one.
Looking == {w \in Worker : At(w, "loop") /\ w \notin asleep}
Notifying == {t \in Thread : At(t, "notify")}

\* No wake-up is lost: while a worker sleeps, every queued future has a worker that
\* is about to look at the queue or a thread that is about to wake one, so a worker
\* never sleeps beside work that is nobody's.
NoLostWakeup ==
  asleep # {} /\ ~work_done
    => Len(work_queue) <= Cardinality(Looking) + Cardinality(Notifying)

\* The frames that run a future.
Runners(f) ==
  UNION {{<<t, i>> : i \in {j \in DOMAIN stack[t] : stack[t][j].fut = f}} : t \in Thread}

\* A future is run by one frame of one thread from the moment somebody waits for it
\* until it is ready, though its maker and a worker may wait for it at once; its
\* result is then in the store.
RunOnce ==
  \A f \in 1 .. Len(made) :
     /\ Cardinality(Runners(f)) = IF state[f] = "running" THEN 1 ELSE 0
     /\ state[f] = "ready" => made[f] \in stored

\* "Load atomics in this order to avoid getting negative values": the counts that
\* printProgress prints are never negative, though the counters move while it
\* loads them.
NoNegativeProgress == \A i \in 1 .. 3 : progress[i] >= 0

\* The destructor has returned and the pool's threads are gone.
Ended == \A t \in Thread : At(t, "end")

\* Nobody waits for ever, with or without workers: funcs that wait for each other's
\* futures all return, and the destructor joins every worker.
Terminates == <>Ended

=============================================================================

---------------------------- MODULE ClientProofs ----------------------------
(***************************************************************************)
(* The semaphore of the client's evaluator loses no permit and no          *)
(* notification, and its counters stay in order, for any number of threads *)
(* and calls.                                                              *)
(***************************************************************************)
EXTENDS ClientEvaluator, FiniteSetTheorems, TLAPS

\* How many fibers there are, compute and wait, how many threads ask for jobs, and how
\* many agents are about to take a permit.
Polling == {w \in Worker : at[w] = "poll"}
Acquiring == {a \in Agent : at[a] = "acquire"}
Awaiting == {a \in Agent : at[a] = "await"}
nLive == Cardinality(Live)
nComputing == Cardinality(Computing)
nPolling == Cardinality(Polling)
nAcquiring == Cardinality(Acquiring)
nAwaiting == Cardinality(Awaiting)

\* The deferred futures and who holds each.
Deferred == {p \in (Call \cup {Main}) \X Call : p[2] \in futures[p[1]]}
nDeferred == Cardinality(Deferred)

\* The types of what is counted with.
NumbersOK ==
  /\ at \in [Agent -> Label] /\ count \in Nat /\ owed \in Nat
  /\ num_requested \in Nat /\ num_started \in Nat /\ num_finished \in Nat

FieldsOK ==
  /\ server \in [Call -> {"none", "queued", "given", "done"}]
  /\ todo \in [Call \cup {Main} -> SUBSET Call]
  /\ futures \in [Call \cup {Main} -> SUBSET Call]
  /\ waits \in [Call \cup {Main} -> Call \cup {None}]
  /\ thread \in [Call -> Worker \cup {None}]

\* Where each kind of agent can be.
PlacesOK ==
  /\ \A w \in Worker : at[w] \in {"acquire", "tested", "asleep", "poll", "left", "ended"}
  /\ \A c \in Call : at[c] \in {"none", "func", "await", "acquire", "tested", "asleep", "put", "done"}
  /\ at[Main] \in {"func", "await", "acquire", "tested", "asleep", "notify_all", "join", "destroyed"}
  /\ \A c \in Call : at[c] = "none" <=> server[c] \in {"none", "queued"}

\* The fibers are finitely many, those that hold work_shared_mutex.
FibersOK == IsFiniteSet(Live) /\ shared_count = nLive

\* PermitsConserved and NoLostPermit, and that nobody gives a permit back between the
\* test and the sleep of another.
PermitsOK == ~cancelled => count + nComputing + nPolling = NumThreads + Lent
TestedOK == (\E a \in Agent : at[a] = "tested") /\ ~cancelled => count = 0
WakeupsOK == (\E a \in Agent : at[a] = "asleep") /\ ~cancelled => count <= owed + nAcquiring

\* Every finished call is one that started and is not waited for, and every started
\* one was requested and is in no deferred future.
CountersOK ==
  /\ IsFiniteSet(Deferred)
  /\ num_finished + nAwaiting <= num_started
  /\ num_started + nDeferred <= num_requested

Inv ==
  /\ NumbersOK /\ PlacesOK /\ FibersOK
  /\ PermitsOK /\ TestedOK /\ WakeupsOK /\ CountersOK

-----------------------------------------------------------------------------
(* Counting *)

\* A set that gains or loses at most one element.
LEMMA OneMore ==
  ASSUME NEW S, IsFiniteSet(S), NEW T, NEW a, \A x : x # a => (x \in T <=> x \in S)
  PROVE  /\ IsFiniteSet(T) /\ Cardinality(S) \in Nat /\ Cardinality(T) \in Nat
         /\ Cardinality(T) = Cardinality(S) + (IF a \in T THEN 1 ELSE 0) - (IF a \in S THEN 1 ELSE 0)
<1>0. Cardinality(S) \in Nat
  BY FS_CardinalityType
<1>1. CASE (a \in T) = (a \in S)
  <2>1. T = S
    BY <1>1
  <2> QED  BY <1>0, <2>1
<1>2. CASE a \in T /\ a \notin S
  <2>1. T = S \cup {a}
    BY <1>2
  <2>2. IsFiniteSet(T) /\ Cardinality(T) = Cardinality(S) + 1
    BY <1>2, <2>1, FS_AddElement
  <2> QED  BY <1>0, <1>2, <2>2
<1>3. CASE a \notin T /\ a \in S
  <2>1. T = S \ {a}
    BY <1>3
  <2>2. IsFiniteSet(T) /\ Cardinality(T) = Cardinality(S) - 1
    BY <1>3, <2>1, FS_RemoveElement
  <2>3. Cardinality(T) \in Nat
    BY <2>2, FS_CardinalityType
  <2> QED  BY <1>0, <1>3, <2>2, <2>3
<1> QED  BY <1>1, <1>2, <1>3

\* While the fibers are finitely many, so are the agents of every kind.
LEMMA AllFinite ==
  ASSUME PlacesOK, IsFiniteSet(Live)
  PROVE  /\ IsFiniteSet(Computing) /\ IsFiniteSet(Polling)
         /\ IsFiniteSet(Acquiring) /\ IsFiniteSet(Awaiting)
<1>1. IsFiniteSet(Worker)
  BY Zenon, ClientAssumption
<1>2. IsFiniteSet(Live \cup Worker \cup {Main})
  BY Zenon, <1>1, FS_Union, FS_Singleton
<1>3. Computing \subseteq Live /\ Polling \subseteq Worker
  BY DEF Computing, Live, Polling
<1>4. Acquiring \subseteq Live \cup Worker \cup {Main} /\ Awaiting \subseteq Live \cup Worker \cup {Main}
  BY DEF Acquiring, Awaiting, Live, Agent
<1> QED  BY <1>1, <1>2, <1>3, <1>4, FS_Subset

\* The numbers after an agent has moved.
Moved(a, m) ==
  /\ IsFiniteSet(Live')
  /\ nLive \in Nat /\ nComputing \in Nat /\ nPolling \in Nat /\ nAcquiring \in Nat /\ nAwaiting \in Nat
  /\ nLive' \in Nat /\ nComputing' \in Nat /\ nPolling' \in Nat /\ nAcquiring' \in Nat /\ nAwaiting' \in Nat
  /\ nLive' = nLive + (IF a \in Call /\ m \notin {"none", "done"} THEN 1 ELSE 0)
                    - (IF a \in Call /\ at[a] \notin {"none", "done"} THEN 1 ELSE 0)
  /\ nComputing' = nComputing + (IF a \in Call /\ m \in {"func", "put"} THEN 1 ELSE 0)
                              - (IF a \in Call /\ at[a] \in {"func", "put"} THEN 1 ELSE 0)
  /\ nPolling' = nPolling + (IF a \in Worker /\ m = "poll" THEN 1 ELSE 0)
                          - (IF a \in Worker /\ at[a] = "poll" THEN 1 ELSE 0)
  /\ nAcquiring' = nAcquiring + (IF m = "acquire" THEN 1 ELSE 0) - (IF at[a] = "acquire" THEN 1 ELSE 0)
  /\ nAwaiting' = nAwaiting + (IF m = "await" THEN 1 ELSE 0) - (IF at[a] = "await" THEN 1 ELSE 0)

\* One agent moves.
LEMMA OneAgentMoves ==
  ASSUME NumbersOK, PlacesOK, IsFiniteSet(Live),
         NEW a \in Agent, NEW m \in Label, at' = [at EXCEPT ![a] = m]
  PROVE  Moved(a, m)
<1>0. /\ at'[a] = m /\ \A x \in Agent : x # a => at'[x] = at[x]
      /\ Call \subseteq Agent /\ Worker \subseteq Agent
  BY DEF NumbersOK, Agent
<1>f. IsFiniteSet(Computing) /\ IsFiniteSet(Polling) /\ IsFiniteSet(Acquiring) /\ IsFiniteSet(Awaiting)
  BY AllFinite
<1>1. /\ \A x : x # a => (x \in Live' <=> x \in Live)
      /\ a \in Live' <=> a \in Call /\ m \notin {"none", "done"}
      /\ a \in Live <=> a \in Call /\ at[a] \notin {"none", "done"}
  BY <1>0 DEF Live
<1>2. /\ \A x : x # a => (x \in Computing' <=> x \in Computing)
      /\ a \in Computing' <=> a \in Call /\ m \in {"func", "put"}
      /\ a \in Computing <=> a \in Call /\ at[a] \in {"func", "put"}
  BY <1>0 DEF Computing
<1>3. /\ \A x : x # a => (x \in Polling' <=> x \in Polling)
      /\ a \in Polling' <=> a \in Worker /\ m = "poll"
      /\ a \in Polling <=> a \in Worker /\ at[a] = "poll"
  BY <1>0 DEF Polling
<1>4. /\ \A x : x # a => (x \in Acquiring' <=> x \in Acquiring)
      /\ a \in Acquiring' <=> m = "acquire"
      /\ a \in Acquiring <=> at[a] = "acquire"
  BY <1>0 DEF Acquiring
<1>5. /\ \A x : x # a => (x \in Awaiting' <=> x \in Awaiting)
      /\ a \in Awaiting' <=> m = "await"
      /\ a \in Awaiting <=> at[a] = "await"
  BY <1>0 DEF Awaiting
<1>6. /\ IsFiniteSet(Live') /\ nLive \in Nat /\ nLive' \in Nat
      /\ nLive' = nLive + (IF a \in Live' THEN 1 ELSE 0) - (IF a \in Live THEN 1 ELSE 0)
  BY <1>1, OneMore DEF nLive
<1>7. /\ nComputing \in Nat /\ nComputing' \in Nat
      /\ nComputing' = nComputing + (IF a \in Computing' THEN 1 ELSE 0) - (IF a \in Computing THEN 1 ELSE 0)
  BY <1>2, <1>f, OneMore DEF nComputing
<1>8. /\ nPolling \in Nat /\ nPolling' \in Nat
      /\ nPolling' = nPolling + (IF a \in Polling' THEN 1 ELSE 0) - (IF a \in Polling THEN 1 ELSE 0)
  BY <1>3, <1>f, OneMore DEF nPolling
<1>9. /\ nAcquiring \in Nat /\ nAcquiring' \in Nat
      /\ nAcquiring' = nAcquiring + (IF a \in Acquiring' THEN 1 ELSE 0) - (IF a \in Acquiring THEN 1 ELSE 0)
  BY <1>4, <1>f, OneMore DEF nAcquiring
<1>10. /\ nAwaiting \in Nat /\ nAwaiting' \in Nat
       /\ nAwaiting' = nAwaiting + (IF a \in Awaiting' THEN 1 ELSE 0) - (IF a \in Awaiting THEN 1 ELSE 0)
  BY <1>5, <1>f, OneMore DEF nAwaiting
<1> QED  BY <1>1, <1>2, <1>3, <1>4, <1>5, <1>6, <1>7, <1>8, <1>9, <1>10 DEF Moved

-----------------------------------------------------------------------------
(* What a step of one agent keeps *)

\* Threads, fibers and the main thread are different agents.
LEMMA Kinds ==
  /\ Agent = Worker \cup Call \cup {Main} /\ Main \notin Worker /\ Main \notin Call
  /\ \A w \in Worker : w \notin Call
  /\ NumThreads \in Nat
<1>1. IsFiniteSet(Worker) /\ Main \notin Worker \cup Call /\ Worker \cap Call = {}
  BY Zenon, ClientAssumption
<1>2. NumThreads \in Nat
  BY <1>1, FS_CardinalityType DEF NumThreads
<1> QED  BY <1>1, <1>2 DEF Agent

WorkerPlace == {"acquire", "tested", "asleep", "poll", "left", "ended"}
FiberPlace == {"func", "await", "acquire", "tested", "asleep", "put", "done"}
MainPlace == {"func", "await", "acquire", "tested", "asleep", "notify_all", "join", "destroyed"}
Suits(a, m) ==
  \/ a \in Worker /\ m \in WorkerPlace
  \/ a \in Call /\ m \in FiberPlace /\ at[a] # "none"
  \/ a = Main /\ m \in MainPlace

\* An agent goes to a place of its kind.
LEMMA PlacesKept ==
  ASSUME NumbersOK, PlacesOK, NEW a \in Agent, NEW m \in Label, at' = [at EXCEPT ![a] = m], Suits(a, m),
         \A c \in Call : server'[c] \in {"none", "queued"} <=> server[c] \in {"none", "queued"}
  PROVE  PlacesOK'
<1>1. at'[a] = m /\ \A x \in Agent : x # a => at'[x] = at[x]
  BY DEF NumbersOK
<1>2. \A w \in Worker : at'[w] \in {"acquire", "tested", "asleep", "poll", "left", "ended"}
  BY <1>1, Kinds DEF PlacesOK, Suits, WorkerPlace
<1>3. \A c \in Call : /\ at'[c] \in {"none", "func", "await", "acquire", "tested", "asleep", "put", "done"}
                      /\ at'[c] = "none" <=> server'[c] \in {"none", "queued"}
  BY <1>1, Kinds DEF PlacesOK, Suits, FiberPlace
<1>4. at'[Main] \in {"func", "await", "acquire", "tested", "asleep", "notify_all", "join", "destroyed"}
  BY <1>1, Kinds DEF PlacesOK, Suits, MainPlace
<1> QED  BY <1>2, <1>3, <1>4 DEF PlacesOK

\* Who is between its test and its sleep, or asleep, or has lent a permit, by the one
\* agent that has moved.
LEMMA OneSleeper ==
  ASSUME NumbersOK, NEW a \in Agent, NEW m \in Label, at' = [at EXCEPT ![a] = m]
  PROVE  /\ (\E x \in Agent : at'[x] = "tested") => m = "tested" \/ \E x \in Agent : at[x] = "tested"
         /\ (\E x \in Agent : at'[x] = "asleep") => m = "asleep" \/ \E x \in Agent : at[x] = "asleep"
         /\ a # Main => Lent' = Lent
         /\ a = Main => Lent' = IF m \in {"await", "acquire", "tested", "asleep"} THEN 1 ELSE 0
<1>1. at'[a] = m /\ \A x \in Agent : x # a => at'[x] = at[x]
  BY DEF NumbersOK
<1>2. Main \in Agent
  BY DEF Agent
<1> QED  BY <1>1, <1>2 DEF Lent

\* The main thread lends at most one permit.
LEMMA LentType == Lent \in {0, 1}
BY DEF Lent

\* Futures that do not change.
LEMMA SameDeferred ==
  ASSUME futures' = futures
  PROVE  Deferred' = Deferred /\ nDeferred' = nDeferred
BY DEF Deferred, nDeferred

\* The numbers in a state of the invariant.
LEMMA InvNumbers ==
  ASSUME Inv
  PROVE  /\ nLive \in Nat /\ nComputing \in Nat /\ nPolling \in Nat /\ nAcquiring \in Nat
         /\ nAwaiting \in Nat /\ nDeferred \in Nat
BY AllFinite, FS_CardinalityType
   DEF Inv, FibersOK, CountersOK, nLive, nComputing, nPolling, nAcquiring, nAwaiting, nDeferred

-----------------------------------------------------------------------------
(* Every step keeps the invariant *)

\* acquire takes a permit, unless the semaphore is cancelled.
LEMMA AcquireInv ==
  ASSUME Inv, NEW a \in Agent, Acquire(a)
  PROVE  Inv'
<1> DEFINE m == Acquired(a)
<1>1. /\ NumbersOK /\ PlacesOK /\ IsFiniteSet(Live) /\ shared_count = nLive
      /\ at[a] = "acquire" /\ at' = [at EXCEPT ![a] = m]
  BY DEF Inv, FibersOK, Acquire, Goto
<1>2. /\ owed' = owed /\ server' = server /\ futures' = futures /\ shared_count' = shared_count
      /\ num_requested' = num_requested /\ num_started' = num_started /\ num_finished' = num_finished
  BY DEF Acquire, counters
<1>3. (cancelled' <=> cancelled) /\ (cancelled => count' = count) /\ (~cancelled => count' = count - 1 /\ count # 0)
  BY DEF Acquire, Free
<1>4. /\ m \in {"left", "poll", "func"} /\ (a \in Worker /\ ~cancelled => m = "poll")
      /\ (a \in Worker /\ cancelled => m = "left") /\ (a \notin Worker => m = "func")
  BY DEF Acquired
<1> HIDE DEF m
<1>5. NumbersOK'
  BY <1>1, <1>2, <1>3, <1>4 DEF NumbersOK, Label
<1>6. PlacesOK'
  BY Zenon, <1>1, <1>2, <1>4, PlacesKept, Kinds DEF Suits, WorkerPlace, FiberPlace, MainPlace, Label
<1>7. m \in Label
  BY <1>4 DEF Label
<1>n. Moved(a, m)
  BY Zenon, <1>1, <1>7, OneAgentMoves
<1>8. FibersOK'
  BY <1>1, <1>2, <1>4, <1>n, Kinds DEF FibersOK, Moved
<1>9. PermitsOK'
  <2>0. PermitsOK /\ Lent \in {0, 1} /\ count \in Nat /\ NumThreads \in Nat
    BY LentType, Kinds DEF Inv, NumbersOK
  <2>1. CASE a \in Worker
    <3>1. Lent' = Lent
      BY Zenon, <1>1, <1>7, <2>1, OneSleeper, Kinds
    <3>2. nComputing' = nComputing /\ (~cancelled => nPolling' = nPolling + 1)
      BY <1>1, <1>4, <1>n, <2>1, Kinds DEF Moved
    <3> QED  BY <1>3, <1>n, <2>0, <3>1, <3>2 DEF PermitsOK, Moved
  <2>2. CASE a \in Call
    <3>1. Lent' = Lent
      BY Zenon, <1>1, <1>7, <2>2, OneSleeper, Kinds
    <3>2. nComputing' = nComputing + 1 /\ nPolling' = nPolling
      BY <1>1, <1>4, <1>n, <2>2, Kinds DEF Moved
    <3> QED  BY <1>3, <1>n, <2>0, <3>1, <3>2 DEF PermitsOK, Moved
  <2>3. CASE a = Main
    <3>1. Lent' = 0 /\ Lent = 1
      BY Zenon, <1>1, <1>4, <1>7, <2>3, OneSleeper, Kinds DEF Lent
    <3>2. nComputing' = nComputing /\ nPolling' = nPolling
      BY <1>1, <1>4, <1>n, <2>3, Kinds DEF Moved
    <3> QED  BY <1>3, <1>n, <2>0, <3>1, <3>2 DEF PermitsOK, Moved
  <2> QED  BY <2>1, <2>2, <2>3, Kinds
<1>10. TestedOK'
  <2>1. (\E x \in Agent : at'[x] = "tested") => \E x \in Agent : at[x] = "tested"
    BY <1>1, <1>4, <1>7, OneSleeper
  <2> QED  BY <1>3, <2>1 DEF Inv, TestedOK
<1>11. WakeupsOK'
  <2>1. (\E x \in Agent : at'[x] = "asleep") => \E x \in Agent : at[x] = "asleep"
    BY <1>1, <1>4, <1>7, OneSleeper
  <2>2. nAcquiring' = nAcquiring - 1 /\ nAcquiring \in Nat
    BY <1>1, <1>4, <1>n DEF Moved
  <2> QED  BY <1>2, <1>3, <2>1, <2>2 DEF Inv, WakeupsOK, NumbersOK
<1>12. CountersOK'
  <2>1. nAwaiting' = nAwaiting /\ Deferred' = Deferred /\ nDeferred' = nDeferred
    BY <1>1, <1>2, <1>4, <1>n, SameDeferred DEF Moved
  <2> QED  BY <1>2, <2>1 DEF Inv, CountersOK
<1> QED  BY <1>5, <1>6, <1>8, <1>9, <1>10, <1>11, <1>12 DEF Inv

\* A sum of naturals is no less than zero.
LEMMA ZeroIsLeast == \A i, j \in Nat : 0 <= i + j
BY SMTT(20)

\* The steps that neither give nor take a permit: a failed test, falling asleep, leaving
\* the loop, ending a thread, sending a result, and the destructor's.
LEMMA QuietInv ==
  ASSUME Inv, NEW a \in Agent, NEW m \in Label, at' = [at EXCEPT ![a] = m], Suits(a, m),
         \A c \in Call : server'[c] \in {"none", "queued"} <=> server[c] \in {"none", "queued"},
         UNCHANGED <<futures, count, owed, shared_count, num_requested, num_started, num_finished>>,
         cancelled => cancelled',
         m \in {"tested", "asleep", "left", "ended", "put", "notify_all", "destroyed"},
         at[a] \in {"acquire", "tested", "poll", "left", "func", "join"},
         at[a] = "poll" => cancelled,
         m = "notify_all" => cancelled',
         a \in Call => (at[a] = "func" <=> m = "put"),
         a = Main => m \in {"tested", "asleep", "notify_all", "destroyed"} /\ at[a] # "left",
         m \in {"tested", "asleep"} <=> at[a] \in {"acquire", "tested"},
         m = "tested" => count = 0,
         m = "asleep" => at[a] = "tested"
  PROVE  Inv'
<1>1. /\ NumbersOK /\ PlacesOK /\ IsFiniteSet(Live) /\ shared_count = nLive
      /\ PermitsOK /\ TestedOK /\ WakeupsOK /\ CountersOK
  BY DEF Inv, FibersOK
<1>n. Moved(a, m)
  BY Zenon, <1>1, OneAgentMoves
<1>2. NumbersOK'
  BY <1>1 DEF NumbersOK
<1>3. PlacesOK'
  BY Zenon, <1>1, PlacesKept
<1>4. FibersOK'
  BY <1>1, <1>n DEF FibersOK, Moved
<1>5. PermitsOK'
  <2>1. CASE cancelled'
    BY <2>1 DEF PermitsOK
  <2>2. CASE ~cancelled'
    <3>1. nComputing' = nComputing /\ nPolling' = nPolling
      BY <1>n, <2>2, Kinds DEF Moved
    <3>2. CASE a # Main
      <4>1. Lent' = Lent
        BY Zenon, <1>1, <3>2, OneSleeper
      <4> QED  BY <1>1, <2>2, <3>1, <4>1 DEF PermitsOK
    <3>3. CASE a = Main
      <4>1. Lent' = IF m \in {"await", "acquire", "tested", "asleep"} THEN 1 ELSE 0
        BY Zenon, <1>1, <3>3, OneSleeper
      <4>2. Lent' = Lent
        BY <2>2, <3>3, <4>1 DEF Lent
      <4> QED  BY <1>1, <2>2, <3>1, <4>2 DEF PermitsOK
    <3> QED  BY <3>2, <3>3
  <2> QED  BY <2>1, <2>2
<1>6. TestedOK'
  <2>1. (\E x \in Agent : at'[x] = "tested") => m = "tested" \/ \E x \in Agent : at[x] = "tested"
    BY Zenon, <1>1, OneSleeper
  <2> QED  BY <1>1, <2>1 DEF TestedOK
<1>7. WakeupsOK'
  <2>1. (\E x \in Agent : at'[x] = "asleep") => m = "asleep" \/ \E x \in Agent : at[x] = "asleep"
    BY Zenon, <1>1, OneSleeper
  <2>2. CASE at[a] = "acquire"
    <3>1. m = "tested" /\ count' = 0 /\ nAcquiring' \in Nat /\ owed' \in Nat
      BY <1>1, <1>n, <2>2 DEF Moved, NumbersOK
    <3>2. count' <= owed' + nAcquiring'
      BY Zenon, <3>1, ZeroIsLeast
    <3> QED  BY Zenon, <3>2 DEF WakeupsOK
  <2>3. CASE at[a] = "tested"
    <3>1. ~cancelled' => count' = 0
      BY <1>1, <2>3 DEF TestedOK
    <3>2. nAcquiring' \in Nat /\ owed' \in Nat
      BY <1>1, <1>n DEF Moved, NumbersOK
    <3>3. ~cancelled' => count' <= owed' + nAcquiring'
      BY Zenon, <3>1, <3>2, ZeroIsLeast
    <3> QED  BY Zenon, <3>3 DEF WakeupsOK
  <2>4. CASE at[a] \notin {"acquire", "tested"}
    <3>1. nAcquiring' = nAcquiring
      BY <1>n, <2>4 DEF Moved
    <3> QED  BY <1>1, <2>1, <2>4, <3>1 DEF WakeupsOK
  <2> QED  BY <2>2, <2>3, <2>4
<1>8. CountersOK'
  <2>1. nAwaiting' = nAwaiting /\ Deferred' = Deferred /\ nDeferred' = nDeferred
    BY <1>n, SameDeferred DEF Moved
  <2> QED  BY <1>1, <2>1 DEF CountersOK
<1> QED  BY <1>2, <1>3, <1>4, <1>5, <1>6, <1>7, <1>8 DEF Inv

\* What is counted when nobody moves.
LEMMA NobodyMoves ==
  ASSUME at' = at
  PROVE  /\ Live' = Live /\ nLive' = nLive /\ nComputing' = nComputing /\ nPolling' = nPolling
         /\ nAcquiring' = nAcquiring /\ nAwaiting' = nAwaiting /\ Lent' = Lent
BY DEF Live, nLive, Computing, nComputing, Polling, nPolling, Acquiring, nAcquiring, Awaiting,
       nAwaiting, Lent

\* The steps in which nobody moves and no permit is given or taken, and a notification
\* that finds nobody asleep.
LEMMA StillInv ==
  ASSUME Inv, at' = at,
         \A c \in Call : server'[c] \in {"none", "queued"} <=> server[c] \in {"none", "queued"},
         UNCHANGED <<count, shared_count>>, owed' \in Nat, cancelled' <=> cancelled,
         owed' = owed \/ \A x \in Agent : at[x] # "asleep",
         num_requested' \in Nat, num_started' \in Nat, num_finished' \in Nat, CountersOK'
  PROVE  Inv'
<1>1. NumbersOK' /\ PlacesOK'
  BY DEF Inv, NumbersOK, PlacesOK
<1>2. FibersOK' /\ PermitsOK'
  BY NobodyMoves DEF Inv, FibersOK, PermitsOK
<1>3. TestedOK' /\ WakeupsOK'
  BY NobodyMoves DEF Inv, TestedOK, WakeupsOK
<1> QED  BY <1>1, <1>2, <1>3 DEF Inv

\* A fiber or the main thread gives a permit back.
LEMMA ReleaseInv ==
  ASSUME Inv, NEW a \in Agent, NEW m \in Label, at' = [at EXCEPT ![a] = m], Suits(a, m), MutexFree,
         \/ a \notin Worker /\ at[a] = "func" /\ m = "await"
         \/ a \in Call /\ at[a] = "put" /\ m = "done",
         count' = count + 1, owed' = owed + 1, server' = server, cancelled' <=> cancelled,
         shared_count' = nLive',
         num_requested' \in Nat, num_started' \in Nat, num_finished' \in Nat, CountersOK'
  PROVE  Inv'
<1>1. /\ NumbersOK /\ PlacesOK /\ IsFiniteSet(Live) /\ PermitsOK /\ WakeupsOK
  BY DEF Inv, FibersOK
<1>n. Moved(a, m)
  BY Zenon, <1>1, OneAgentMoves
<1>2. NumbersOK'
  BY <1>1 DEF NumbersOK
<1>3. PlacesOK'
  BY Zenon, <1>1, PlacesKept
<1>4. FibersOK'
  BY <1>n DEF FibersOK, Moved
<1>5. PermitsOK'
  <2>0. /\ nComputing \in Nat /\ nPolling \in Nat /\ NumThreads \in Nat /\ count \in Nat
        /\ Lent \in {0, 1} /\ nPolling' = nPolling
    BY <1>1, <1>n, LentType, Kinds DEF Moved, NumbersOK
  <2>1. CASE a = Main
    <3>1. Lent' = 1 /\ Lent = 0
      <4>1. Lent' = IF m \in {"await", "acquire", "tested", "asleep"} THEN 1 ELSE 0
        BY Zenon, <1>1, <2>1, OneSleeper
      <4> QED  BY <2>1, <4>1, Kinds DEF Lent
    <3>2. nComputing' = nComputing
      BY <1>n, <2>1, Kinds DEF Moved
    <3> QED  BY <1>1, <2>0, <3>1, <3>2 DEF PermitsOK
  <2>2. CASE a # Main
    <3>1. Lent' = Lent
      BY Zenon, <1>1, <2>2, OneSleeper
    <3>2. nComputing' = nComputing - 1
      BY <1>n, <2>2, Kinds DEF Moved
    <3> QED  BY <1>1, <2>0, <3>1, <3>2 DEF PermitsOK
  <2> QED  BY <2>1, <2>2
<1>6. TestedOK'
  <2>1. (\E x \in Agent : at'[x] = "tested") => m = "tested" \/ \E x \in Agent : at[x] = "tested"
    BY Zenon, <1>1, OneSleeper
  <2> QED  BY <2>1 DEF TestedOK, MutexFree
<1>7. WakeupsOK'
  <2>1. (\E x \in Agent : at'[x] = "asleep") => m = "asleep" \/ \E x \in Agent : at[x] = "asleep"
    BY Zenon, <1>1, OneSleeper
  <2>2. nAcquiring' = nAcquiring /\ nAcquiring \in Nat /\ count \in Nat /\ owed \in Nat
    BY <1>1, <1>n DEF Moved, NumbersOK
  <2> QED  BY <1>1, <2>1, <2>2 DEF WakeupsOK
<1> QED  BY <1>2, <1>3, <1>4, <1>5, <1>6, <1>7 DEF Inv

\* An agent gets in line for a permit: woken by a notification, with the result it has
\* waited for, or asking again after it gave a job out.
LEMMA InLineInv ==
  ASSUME Inv, NEW a \in Agent, at' = [at EXCEPT ![a] = "acquire"],
         \/ at[a] = "asleep" /\ owed > 0 /\ owed' = owed - 1
         \/ a \notin Worker /\ at[a] = "await" /\ owed' = owed,
         UNCHANGED <<count, server, shared_count>>, cancelled' <=> cancelled,
         num_requested' \in Nat, num_started' \in Nat, num_finished' \in Nat, CountersOK'
  PROVE  Inv'
<1> DEFINE m == "acquire"
<1>1. /\ NumbersOK /\ PlacesOK /\ IsFiniteSet(Live) /\ shared_count = nLive
      /\ PermitsOK /\ WakeupsOK /\ TestedOK /\ at' = [at EXCEPT ![a] = m]
  BY DEF Inv, FibersOK
<1>2. m \in Label /\ Suits(a, m)
  BY Kinds DEF Label, Suits, WorkerPlace, FiberPlace, MainPlace
<1>m. m = "acquire"
  OBVIOUS
<1> HIDE DEF m
<1>n. Moved(a, m)
  BY Zenon, <1>1, <1>2, OneAgentMoves
<1>3. NumbersOK'
  BY <1>1, <1>2 DEF NumbersOK
<1>4. PlacesOK'
  <2>1. \A c \in Call : server'[c] \in {"none", "queued"} <=> server[c] \in {"none", "queued"}
    OBVIOUS
  <2> QED  BY Zenon, <1>1, <1>2, <2>1, PlacesKept
<1>5. FibersOK'
  <2>1. a \in Worker => at[a] = "asleep"
    OBVIOUS
  <2>2. nLive' = nLive
    BY <1>n, <1>m DEF Moved
  <2> QED  BY <1>1, <1>n, <2>2 DEF FibersOK, Moved
<1>6. PermitsOK'
  <2>1. nComputing' = nComputing /\ nPolling' = nPolling
    BY <1>n, <1>m DEF Moved
  <2>2. Lent' = Lent
    <3>1. a # Main => Lent' = Lent
      BY Zenon, <1>1, <1>2, OneSleeper
    <3>2. a = Main => Lent' = IF m \in {"await", "acquire", "tested", "asleep"} THEN 1 ELSE 0
      BY Zenon, <1>1, <1>2, OneSleeper
    <3> QED  BY <1>m, <3>1, <3>2 DEF Lent
  <2> QED  BY <1>1, <2>1, <2>2 DEF PermitsOK
<1>7. TestedOK'
  <2>1. (\E x \in Agent : at'[x] = "tested") => m = "tested" \/ \E x \in Agent : at[x] = "tested"
    BY Zenon, <1>1, <1>2, OneSleeper
  <2> QED  BY <1>1, <1>m, <2>1 DEF TestedOK
<1>8. WakeupsOK'
  <2>1. (\E x \in Agent : at'[x] = "asleep") => m = "asleep" \/ \E x \in Agent : at[x] = "asleep"
    BY Zenon, <1>1, <1>2, OneSleeper
  <2>2. nAcquiring' = nAcquiring + 1 /\ nAcquiring \in Nat /\ count \in Nat /\ owed \in Nat
    BY <1>1, <1>n, <1>m DEF Moved, NumbersOK
  <2> QED  BY <1>1, <1>m, <2>1, <2>2 DEF WakeupsOK
<1> QED  BY <1>3, <1>4, <1>5, <1>6, <1>7, <1>8 DEF Inv

\* Two sums that grow together.
LEMMA OneMoreAtMost ==
  \A s, d, e, r \in Nat : s + d <= r /\ e <= d + 1 => s + e <= r + 1
BY SMTT(20)

\* Another deferred future.
LEMMA DeferredMore ==
  ASSUME FieldsOK, IsFiniteSet(Deferred), NEW a \in Call \cup {Main}, NEW c \in Call,
         futures' = [futures EXCEPT ![a] = @ \cup {c}]
  PROVE  IsFiniteSet(Deferred') /\ nDeferred \in Nat /\ nDeferred' \in Nat /\ nDeferred' <= nDeferred + 1
<1>1. \A x : x # <<a, c>> => (x \in Deferred' <=> x \in Deferred)
  <2> SUFFICES ASSUME NEW x, x # <<a, c>> PROVE x \in Deferred' <=> x \in Deferred
    OBVIOUS
  <2>1. ASSUME NEW b \in Call \cup {Main}, NEW d \in Call, x = <<b, d>>
        PROVE  d \in futures'[b] <=> d \in futures[b]
    BY <2>1 DEF FieldsOK
  <2> QED  BY <2>1 DEF Deferred
<1>2. /\ IsFiniteSet(Deferred') /\ Cardinality(Deferred) \in Nat /\ Cardinality(Deferred') \in Nat
      /\ Cardinality(Deferred') = Cardinality(Deferred) + (IF <<a, c>> \in Deferred' THEN 1 ELSE 0)
                                                        - (IF <<a, c>> \in Deferred THEN 1 ELSE 0)
  BY Zenon, <1>1, OneMore
<1> QED  BY <1>2 DEF nDeferred

\* A future that is waited for is no longer deferred.
LEMMA DeferredLess ==
  ASSUME FieldsOK, IsFiniteSet(Deferred), NEW a \in Call \cup {Main}, NEW c \in futures[a],
         futures' = [futures EXCEPT ![a] = @ \ {c}]
  PROVE  IsFiniteSet(Deferred') /\ nDeferred \in Nat /\ nDeferred' \in Nat /\ nDeferred' = nDeferred - 1
<1>1. \A x : x # <<a, c>> => (x \in Deferred' <=> x \in Deferred)
  <2> SUFFICES ASSUME NEW x, x # <<a, c>> PROVE x \in Deferred' <=> x \in Deferred
    OBVIOUS
  <2>1. ASSUME NEW b \in Call \cup {Main}, NEW d \in Call, x = <<b, d>>
        PROVE  d \in futures'[b] <=> d \in futures[b]
    BY <2>1 DEF FieldsOK
  <2> QED  BY <2>1 DEF Deferred
<1>2. /\ IsFiniteSet(Deferred') /\ Cardinality(Deferred) \in Nat /\ Cardinality(Deferred') \in Nat
      /\ Cardinality(Deferred') = Cardinality(Deferred) + (IF <<a, c>> \in Deferred' THEN 1 ELSE 0)
                                                        - (IF <<a, c>> \in Deferred THEN 1 ELSE 0)
  BY Zenon, <1>1, OneMore
<1>3. <<a, c>> \in Deferred /\ <<a, c>> \notin Deferred'
  BY DEF Deferred, FieldsOK
<1> QED  BY <1>2, <1>3 DEF nDeferred

\* evaluate, and get of a deferred future: the call has started and is waited for.
LEMMA DeferInv ==
  ASSUME Inv, FieldsOK, NEW a \in Call \cup {Main}, Evaluate(a) \/ GetFuture(a)
  PROVE  Inv'
<1> DEFINE m == "await"
<1>1. /\ at[a] = "func" /\ at' = [at EXCEPT ![a] = m] /\ MutexFree /\ count' = count + 1 /\ owed' = owed + 1
      /\ server' = server /\ shared_count' = shared_count /\ num_started' = num_started + 1
      /\ num_finished' = num_finished
  BY DEF Evaluate, GetFuture, Defer, Release, Goto
<1>2. cancelled' = cancelled
  BY DEF Evaluate, GetFuture
<1>3. NumbersOK /\ PlacesOK /\ IsFiniteSet(Live) /\ shared_count = nLive /\ CountersOK
  BY DEF Inv, FibersOK
<1>4. a \in Agent /\ a \notin Worker /\ m \in Label /\ Suits(a, m)
  BY <1>1, Kinds DEF Label, Suits, FiberPlace, MainPlace
<1>m. m = "await"
  OBVIOUS
<1> HIDE DEF m
<1>n. Moved(a, m)
  BY Zenon, <1>1, <1>3, <1>4, OneAgentMoves
<1>5. nAwaiting' = nAwaiting + 1 /\ nLive' = nLive /\ nAwaiting \in Nat
  BY <1>1, <1>n, <1>m DEF Moved
<1>6. num_requested' \in Nat /\ CountersOK'
  <2>1. CASE Evaluate(a)
    <3>1. num_requested' = num_requested + 1 /\ futures' = futures
      BY Zenon, <2>1 DEF Evaluate
    <3>2. Deferred' = Deferred /\ nDeferred' = nDeferred /\ nDeferred \in Nat
      BY <3>1, SameDeferred, InvNumbers
    <3> QED  BY <1>1, <1>3, <1>5, <3>1, <3>2 DEF CountersOK, NumbersOK
  <2>2. CASE GetFuture(a)
    <3>1. PICK c \in futures[a] : futures' = [futures EXCEPT ![a] = @ \ {c}] /\ num_requested' = num_requested
      BY Zenon, <2>2 DEF GetFuture
    <3>2. IsFiniteSet(Deferred') /\ nDeferred \in Nat /\ nDeferred' \in Nat /\ nDeferred' = nDeferred - 1
      BY Zenon, <1>3, <3>1, DeferredLess DEF CountersOK
    <3> QED  BY <1>1, <1>3, <1>5, <3>1, <3>2 DEF CountersOK, NumbersOK
  <2> QED  BY <2>1, <2>2
<1>7. num_started' \in Nat /\ num_finished' \in Nat /\ shared_count' = nLive'
  BY <1>1, <1>3, <1>5 DEF NumbersOK
<1> QED  BY Zenon, <1>1, <1>2, <1>4, <1>6, <1>7, <1>m, ReleaseInv

\* evaluateAsync: an early result is requested, started and finished at once, and
\* otherwise the call is in a deferred future.
LEMMA AsyncInv ==
  ASSUME Inv, FieldsOK, NEW a \in Call \cup {Main}, EvaluateAsync(a)
  PROVE  Inv'
<1>1. PICK c \in todo[a] :
        /\ num_requested' = num_requested + 1 /\ Asked(c)
        /\ IF server[c] = "done"
           THEN EarlyStarted /\ num_finished' = num_finished + 1 /\ UNCHANGED futures
           ELSE /\ futures' = [futures EXCEPT ![a] = @ \cup {c}]
                /\ UNCHANGED <<num_started, num_finished>>
  BY DEF EvaluateAsync
<1>2. at' = at /\ count' = count /\ owed' = owed /\ shared_count' = shared_count
  BY Zenon DEF EvaluateAsync, semaphore
<1>3. cancelled' = cancelled
  BY DEF EvaluateAsync, semaphore
<1>4. c \in Call /\ NumbersOK /\ CountersOK /\ nDeferred \in Nat /\ nAwaiting \in Nat /\ nAwaiting' = nAwaiting
  BY <1>2, NobodyMoves, InvNumbers DEF Inv, FieldsOK
<1>5. \A x \in Call : server'[x] \in {"none", "queued"} <=> server[x] \in {"none", "queued"}
  BY SMTT(20), <1>1, <1>4 DEF Asked, FieldsOK
<1>6. CASE server[c] = "done"
  <2>1. num_started' = num_started + 1 /\ num_finished' = num_finished + 1 /\ futures' = futures
    BY <1>1, <1>6 DEF EarlyStarted
  <2>2. Deferred' = Deferred /\ nDeferred' = nDeferred
    BY <2>1, SameDeferred
  <2>3. CountersOK' /\ num_requested' \in Nat /\ num_started' \in Nat /\ num_finished' \in Nat
    BY SMTT(20), <1>1, <1>4, <2>1, <2>2 DEF CountersOK, NumbersOK
  <2> QED  BY <1>2, <1>3, <1>4, <1>5, <2>3, StillInv DEF NumbersOK
<1>7. CASE server[c] # "done"
  <2>1. num_started' = num_started /\ num_finished' = num_finished /\ futures' = [futures EXCEPT ![a] = @ \cup {c}]
    BY <1>1, <1>7
  <2>2. IsFiniteSet(Deferred') /\ nDeferred' \in Nat /\ nDeferred' <= nDeferred + 1
    BY Zenon, <1>4, <2>1, DeferredMore DEF CountersOK
  <2>3. CountersOK' /\ num_requested' \in Nat /\ num_started' \in Nat /\ num_finished' \in Nat
    <3>1. num_requested \in Nat /\ num_started \in Nat /\ num_finished \in Nat
      BY <1>4 DEF NumbersOK
    <3>2. num_started + nDeferred <= num_requested /\ num_finished + nAwaiting <= num_started
      BY <1>4 DEF CountersOK
    <3>3. num_started' + nDeferred' <= num_requested'
      <4>1. num_requested' = num_requested + 1 /\ num_started' = num_started /\ nDeferred \in Nat
        BY <1>1, <1>4, <2>1
      <4> QED  BY Zenon, <2>2, <3>1, <3>2, <4>1, OneMoreAtMost
    <3>4. num_finished' + nAwaiting' <= num_started'
      BY Zenon, <1>4, <2>1, <3>2
    <3>5. num_requested' \in Nat /\ num_started' \in Nat /\ num_finished' \in Nat
      BY SMTT(20), <1>1, <2>1, <3>1
    <3> QED  BY Zenon, <2>2, <3>3, <3>4, <3>5 DEF CountersOK
  <2> QED  BY <1>2, <1>3, <1>4, <1>5, <2>3, StillInv DEF NumbersOK
<1> QED  BY <1>6, <1>7

\* A waiting agent has its result: the call has finished.
LEMMA GotResultInv ==
  ASSUME Inv, NEW a \in Agent, a \notin Worker, GotResult(a)
  PROVE  Inv'
<1>1. /\ at[a] = "await" /\ at' = [at EXCEPT ![a] = "acquire"] /\ num_finished' = num_finished + 1
      /\ UNCHANGED <<server, futures, count, owed, shared_count, num_requested, num_started>>
      /\ cancelled' = cancelled
  BY DEF GotResult, Goto, Resume, semaphore
<1>2. NumbersOK /\ PlacesOK /\ IsFiniteSet(Live) /\ CountersOK /\ "acquire" \in Label
  BY DEF Inv, FibersOK, Label
<1>n. Moved(a, "acquire")
  BY Zenon, <1>1, <1>2, OneAgentMoves
<1>3. nAwaiting' = nAwaiting - 1 /\ nAwaiting \in Nat /\ nDeferred' = nDeferred /\ Deferred' = Deferred
  BY <1>1, <1>n, SameDeferred DEF Moved
<1>4. CountersOK' /\ num_requested' \in Nat /\ num_started' \in Nat /\ num_finished' \in Nat
  BY <1>1, <1>2, <1>3 DEF CountersOK, NumbersOK
<1>5. owed' = owed /\ UNCHANGED <<count, server, shared_count>>
  BY <1>1
<1> QED  BY Zenon, <1>1, <1>4, <1>5, InLineInv

\* A notification wakes an agent, or nobody when nobody sleeps.
LEMMA NotifyOneInv ==
  ASSUME Inv, NotifyOne
  PROVE  Inv'
<1>1. /\ owed > 0 /\ owed' = owed - 1
      /\ UNCHANGED <<server, futures, count, shared_count, num_requested, num_started, num_finished>>
      /\ cancelled' = cancelled
  BY DEF NotifyOne, counters
<1>2. NumbersOK /\ PlacesOK /\ IsFiniteSet(Live) /\ CountersOK /\ "acquire" \in Label
  BY DEF Inv, FibersOK, Label
<1>3. /\ owed' \in Nat /\ num_requested' \in Nat /\ num_started' \in Nat /\ num_finished' \in Nat
      /\ nDeferred' = nDeferred /\ Deferred' = Deferred
  BY <1>1, <1>2, SameDeferred DEF NumbersOK
<1>4. CASE at' = at /\ \A x \in Agent : at[x] # "asleep"
  <2>1. CountersOK'
    BY <1>1, <1>2, <1>3, <1>4, NobodyMoves DEF CountersOK
  <2> QED  BY <1>1, <1>3, <1>4, <2>1, StillInv
<1>5. ASSUME NEW a \in Agent, at[a] = "asleep", at' = [at EXCEPT ![a] = "acquire"]
      PROVE  Inv'
  <2>n. Moved(a, "acquire")
    BY Zenon, <1>2, <1>5, OneAgentMoves
  <2>1. nAwaiting' = nAwaiting
    BY <1>5, <2>n DEF Moved
  <2>2. CountersOK'
    BY <1>1, <1>2, <1>3, <2>1 DEF CountersOK
  <2>3. UNCHANGED <<count, server, shared_count>>
    BY <1>1
  <2> QED  BY Zenon, <1>1, <1>3, <1>5, <2>2, <2>3, InLineInv
<1> QED  BY <1>4, <1>5 DEF NotifyOne, Goto

\* A fiber ends: its permit goes back and its shared lock is dropped.
LEMMA FiberEndsInv ==
  ASSUME Inv, NEW c \in Call, FiberEnds(c)
  PROVE  Inv'
<1>1. /\ at[c] = "put" /\ MutexFree /\ at' = [at EXCEPT ![c] = "done"]
      /\ count' = count + 1 /\ owed' = owed + 1 /\ shared_count' = shared_count - 1
      /\ UNCHANGED <<server, futures, num_requested, num_started, num_finished>>
      /\ cancelled' = cancelled
  BY DEF FiberEnds, Release, Goto, counters
<1>2. /\ NumbersOK /\ PlacesOK /\ IsFiniteSet(Live) /\ shared_count = nLive /\ CountersOK
      /\ "done" \in Label /\ c \in Agent /\ Suits(c, "done")
  BY <1>1, Kinds DEF Inv, FibersOK, Label, Suits, FiberPlace
<1>n. Moved(c, "done")
  BY Zenon, <1>1, <1>2, OneAgentMoves
<1>3. nAwaiting' = nAwaiting /\ nDeferred' = nDeferred /\ Deferred' = Deferred /\ nLive' = nLive - 1
  BY <1>1, <1>n, SameDeferred DEF Moved
<1>4. CountersOK' /\ num_requested' \in Nat /\ num_started' \in Nat /\ num_finished' \in Nat
  BY <1>1, <1>2, <1>3 DEF CountersOK, NumbersOK
<1>5. server' = server /\ shared_count' = nLive'
  BY <1>1, <1>2, <1>3
<1> QED  BY Zenon, <1>1, <1>2, <1>4, <1>5, ReleaseInv

\* A thread that gets a job hands its permit to a new fiber and gets in line again.
LEMMA GetJobInv ==
  ASSUME Inv, FieldsOK, NEW w \in Worker, NEW c \in Call, GetJob(w, c)
  PROVE  Inv'
<1>1. /\ at[w] = "poll" /\ server[c] = "queued" /\ server' = [server EXCEPT ![c] = "given"]
      /\ shared_count' = shared_count + 1 /\ at' = [at EXCEPT ![w] = "acquire", ![c] = "func"]
      /\ UNCHANGED <<futures, count, owed, num_requested, num_started, num_finished>>
      /\ cancelled' = cancelled
  BY DEF GetJob, semaphore, counters
<1>2. /\ NumbersOK /\ PlacesOK /\ IsFiniteSet(Live) /\ shared_count = nLive
      /\ PermitsOK /\ TestedOK /\ WakeupsOK /\ CountersOK
  BY DEF Inv, FibersOK
<1>3. at[c] = "none" /\ w # c /\ w \in Agent /\ c \in Agent /\ Main \in Agent /\ w # Main /\ c # Main
  BY <1>1, <1>2, Kinds DEF PlacesOK
<1>4. at'[w] = "acquire" /\ at'[c] = "func" /\ \A x \in Agent : x # w /\ x # c => at'[x] = at[x]
  BY <1>1, <1>2, <1>3 DEF NumbersOK
<1>5. NumbersOK'
  BY <1>1, <1>2, <1>3 DEF NumbersOK, Label
<1>6. PlacesOK'
  <2>1. \A x \in Worker : at'[x] \in {"acquire", "tested", "asleep", "poll", "left", "ended"}
    BY <1>2, <1>4, Kinds DEF PlacesOK
  <2>2. \A x \in Call : /\ at'[x] \in {"none", "func", "await", "acquire", "tested", "asleep", "put", "done"}
                        /\ at'[x] = "none" <=> server'[x] \in {"none", "queued"}
    BY ZenonT(60), <1>1, <1>2, <1>4, Kinds DEF PlacesOK, FieldsOK
  <2>3. at'[Main] \in {"func", "await", "acquire", "tested", "asleep", "notify_all", "join", "destroyed"}
    BY <1>2, <1>3, <1>4 DEF PlacesOK
  <2> QED  BY SMTT(20), <2>1, <2>2, <2>3 DEF PlacesOK
<1>f. IsFiniteSet(Computing) /\ IsFiniteSet(Polling) /\ IsFiniteSet(Acquiring) /\ IsFiniteSet(Awaiting)
  BY <1>2, AllFinite
<1>7. /\ IsFiniteSet(Live') /\ nLive \in Nat /\ nLive' = nLive + 1
  <2>1. c \in Live' /\ c \notin Live /\ \A x : x # c => (x \in Live' <=> x \in Live)
    BY <1>3, <1>4, Kinds DEF Live
  <2> QED  BY <1>2, <2>1, OneMore DEF nLive
<1>8. nComputing \in Nat /\ nComputing' = nComputing + 1
  <2>1. c \in Computing' /\ c \notin Computing /\ \A x : x # c => (x \in Computing' <=> x \in Computing)
    BY <1>3, <1>4, Kinds DEF Computing
  <2> QED  BY <1>f, <2>1, OneMore DEF nComputing
<1>9. nPolling \in Nat /\ nPolling' = nPolling - 1
  <2>1. Polling' = Polling \ {w} /\ w \in Polling
    BY Zenon, <1>1, <1>3, <1>4, Kinds DEF Polling
  <2>2. Cardinality(Polling \ {w}) = Cardinality(Polling) - 1 /\ Cardinality(Polling) \in Nat
    BY <1>f, <2>1, FS_RemoveElement, FS_CardinalityType
  <2> QED  BY <2>1, <2>2 DEF nPolling
<1>10. nAcquiring \in Nat /\ nAcquiring' = nAcquiring + 1
  <2>1. w \in Acquiring' /\ w \notin Acquiring /\ \A x : x # w => (x \in Acquiring' <=> x \in Acquiring)
    BY Zenon, <1>1, <1>3, <1>4 DEF Acquiring
  <2> QED  BY <1>f, <2>1, OneMore DEF nAcquiring
<1>11. nAwaiting' = nAwaiting
  <2>1. Awaiting' = Awaiting
    BY Zenon, <1>1, <1>3, <1>4 DEF Awaiting
  <2> QED  BY <2>1 DEF nAwaiting
<1>12. FibersOK'
  BY <1>1, <1>2, <1>7 DEF FibersOK
<1>13. PermitsOK'
  <2>1. Lent' = Lent /\ Lent \in {0, 1} /\ count \in Nat /\ NumThreads \in Nat
    BY <1>2, <1>3, <1>4, LentType, Kinds DEF Lent, NumbersOK
  <2> QED  BY <1>1, <1>2, <1>8, <1>9, <2>1 DEF PermitsOK
<1>14. TestedOK'
  BY <1>1, <1>2, <1>4 DEF TestedOK
<1>15. WakeupsOK'
  <2>1. (\E x \in Agent : at'[x] = "asleep") => \E x \in Agent : at[x] = "asleep"
    BY <1>4
  <2> QED  BY <1>1, <1>2, <1>10, <2>1 DEF WakeupsOK, NumbersOK
<1>16. CountersOK'
  BY <1>1, <1>2, <1>11, SameDeferred DEF CountersOK
<1> QED  BY <1>5, <1>6, <1>12, <1>13, <1>14, <1>15, <1>16 DEF Inv

\* cancel's notify_all wakes whoever sleeps.
LEMMA NotifyAllInv ==
  ASSUME Inv, NotifyAll
  PROVE  Inv'
<1>1. /\ at[Main] = "notify_all"
      /\ at' = [a \in Agent |-> IF a = Main THEN "join" ELSE
                                IF at[a] = "asleep" /\ Woken(a) THEN "acquire" ELSE at[a]]
      /\ UNCHANGED <<server, futures, count, owed, shared_count, num_requested, num_started, num_finished>>
      /\ cancelled' = cancelled
  BY DEF NotifyAll, semaphore, counters
<1>2. /\ NumbersOK /\ PlacesOK /\ IsFiniteSet(Live) /\ shared_count = nLive
      /\ PermitsOK /\ TestedOK /\ WakeupsOK /\ CountersOK
  BY DEF Inv, FibersOK
<1>3. at'[Main] = "join" /\ \A x \in Agent : x # Main => at'[x] = IF at[x] = "asleep" THEN "acquire" ELSE at[x]
  BY <1>1, Kinds DEF Woken
<1>4. NumbersOK'
  <2>1. \A x \in Agent : at'[x] \in Label
    BY <1>2, <1>3 DEF NumbersOK, Label
  <2>2. at' = [a \in Agent |-> at'[a]]
    BY <1>1
  <2>3. at' \in [Agent -> Label]
    BY <2>1, <2>2
  <2> QED  BY <1>1, <1>2, <2>3 DEF NumbersOK
<1>5. PlacesOK'
  BY <1>1, <1>2, <1>3, Kinds DEF PlacesOK
<1>6. Live' = Live /\ Computing' = Computing /\ Polling' = Polling /\ Awaiting' = Awaiting
  BY <1>1, <1>2, <1>3, Kinds DEF Live, Computing, Polling, Awaiting, PlacesOK
<1>7. nLive' = nLive /\ nComputing' = nComputing /\ nPolling' = nPolling /\ nAwaiting' = nAwaiting
  BY <1>6 DEF nLive, nComputing, nPolling, nAwaiting
<1>8. FibersOK'
  BY <1>1, <1>2, <1>6, <1>7 DEF FibersOK
<1>9. PermitsOK'
  <2>1. Lent' = Lent
    BY <1>1, <1>3 DEF Lent
  <2> QED  BY <1>1, <1>2, <1>7, <2>1 DEF PermitsOK
<1>10. TestedOK'
  BY <1>1, <1>2, <1>3 DEF TestedOK
<1>11. WakeupsOK'
  BY <1>3 DEF WakeupsOK
<1>12. CountersOK'
  BY <1>1, <1>2, <1>7, SameDeferred DEF CountersOK
<1> QED  BY <1>4, <1>5, <1>8, <1>9, <1>10, <1>11, <1>12 DEF Inv

\* The other steps.
LEMMA QuietStepInv ==
  ASSUME Inv, FieldsOK, NEW a \in Agent,
         \/ TestFails(a) \/ FallAsleep(a)
         \/ a \in Worker /\ (Leave(a) \/ ThreadEnds(a))
         \/ a \in Call /\ PutResult(a)
         \/ a = Main /\ (Cancel \/ Destroyed)
  PROVE  Inv'
<1>0. TestedOK /\ PlacesOK /\ NumbersOK
  BY DEF Inv
<1>1. CASE TestFails(a)
  <2>1. /\ at[a] = "acquire" /\ at' = [at EXCEPT ![a] = "tested"] /\ ~Free
        /\ UNCHANGED <<server, futures, count, owed, shared_count, num_requested, num_started, num_finished>>
        /\ cancelled' = cancelled
    BY <1>1 DEF TestFails, Goto, semaphore, counters
  <2>2. count = 0 /\ "tested" \in Label /\ Suits(a, "tested")
    BY <2>1, Kinds DEF Free, Label, Suits, WorkerPlace, FiberPlace, MainPlace
  <2> QED  BY Zenon, <2>1, <2>2, QuietInv
<1>2. CASE FallAsleep(a)
  <2>1. /\ at[a] = "tested" /\ at' = [at EXCEPT ![a] = "asleep"]
        /\ UNCHANGED <<server, futures, count, owed, shared_count, num_requested, num_started, num_finished>>
        /\ cancelled' = cancelled
    BY <1>2 DEF FallAsleep, Goto, semaphore, counters
  <2>2. "asleep" \in Label /\ Suits(a, "asleep")
    BY <2>1, Kinds DEF Label, Suits, WorkerPlace, FiberPlace, MainPlace
  <2> QED  BY Zenon, <2>1, <2>2, QuietInv
<1>3. CASE a \in Worker /\ Leave(a)
  <2>1. /\ at[a] = "poll" /\ at' = [at EXCEPT ![a] = "left"] /\ cancelled
        /\ UNCHANGED <<server, futures, count, owed, shared_count, num_requested, num_started, num_finished>>
        /\ cancelled' = cancelled
    BY <1>3 DEF Leave, LeavePoll, Goto, semaphore, counters
  <2>2. "left" \in Label /\ Suits(a, "left") /\ a # Main /\ a \notin Call
    BY <1>3, Kinds DEF Label, Suits, WorkerPlace
  <2> QED  BY Zenon, <2>1, <2>2, QuietInv
<1>4. CASE a \in Worker /\ ThreadEnds(a)
  <2>1. /\ at[a] = "left" /\ at' = [at EXCEPT ![a] = "ended"]
        /\ UNCHANGED <<server, futures, count, owed, shared_count, num_requested, num_started, num_finished>>
        /\ cancelled' = cancelled
    BY <1>4 DEF ThreadEnds, Goto, semaphore, counters
  <2>2. "ended" \in Label /\ Suits(a, "ended") /\ a # Main /\ a \notin Call
    BY <1>4, Kinds DEF Label, Suits, WorkerPlace
  <2> QED  BY ZenonT(60), <2>1, <2>2, QuietInv
<1>5. CASE a \in Call /\ PutResult(a)
  <2>1. /\ at[a] = "func" /\ at' = [at EXCEPT ![a] = "put"] /\ server' = [server EXCEPT ![a] = "done"]
        /\ UNCHANGED <<futures, count, owed, shared_count, num_requested, num_started, num_finished>>
        /\ cancelled' = cancelled
    BY <1>5 DEF PutResult, Goto, semaphore, counters
  <2>2. "put" \in Label /\ Suits(a, "put") /\ a # Main
    BY SMTT(20), <1>5, <2>1, Kinds DEF Label, Suits, FiberPlace
  <2>3. \A c \in Call : server'[c] \in {"none", "queued"} <=> server[c] \in {"none", "queued"}
    BY <1>0, <1>5, <2>1 DEF FieldsOK, PlacesOK
  <2> QED  BY Zenon, <1>5, <2>1, <2>2, <2>3, QuietInv
<1>6. CASE a = Main /\ Cancel
  <2>1. /\ at[a] = "func" /\ at' = [at EXCEPT ![a] = "notify_all"] /\ cancelled'
        /\ UNCHANGED <<server, futures, count, owed, shared_count, num_requested, num_started, num_finished>>
    BY <1>6 DEF Cancel, Goto, counters
  <2>2. "notify_all" \in Label /\ Suits(a, "notify_all") /\ a \notin Call
    BY <1>6, Kinds DEF Label, Suits, MainPlace
  <2> QED  BY ZenonT(60), <2>1, <2>2, QuietInv
<1>7. CASE a = Main /\ Destroyed
  <2>1. /\ at[a] = "join" /\ at' = [at EXCEPT ![a] = "destroyed"]
        /\ UNCHANGED <<server, futures, count, owed, shared_count, num_requested, num_started, num_finished>>
        /\ cancelled' = cancelled
    BY <1>7 DEF Destroyed, Goto, semaphore, counters
  <2>2. "destroyed" \in Label /\ Suits(a, "destroyed") /\ a \notin Call
    BY <1>7, Kinds DEF Label, Suits, MainPlace
  <2> QED  BY Zenon, <2>1, <2>2, QuietInv
<1> QED  BY <1>1, <1>2, <1>3, <1>4, <1>5, <1>6, <1>7

\* Every step keeps the types of the other fields.
LEMMA FieldsStep == FieldsOK /\ [Next]_vars => FieldsOK'
<1> SUFFICES ASSUME FieldsOK, [Next]_vars PROVE FieldsOK'
  OBVIOUS
<1>1. ASSUME NEW a \in Agent, Acquire(a) \/ TestFails(a) \/ FallAsleep(a) PROVE FieldsOK'
  BY <1>1 DEF FieldsOK, Acquire, TestFails, FallAsleep
<1>2. ASSUME NEW a \in Agent, a \notin Worker, TryAgain(a) PROVE FieldsOK'
  BY Zenon, <1>2 DEF FieldsOK, TryAgain, Asked, Awakened
<1>3. ASSUME NEW a \in Agent, a \notin Worker, GotResult(a) PROVE FieldsOK'
  BY Zenon, <1>3 DEF FieldsOK, GotResult
<1>4. ASSUME NEW a \in Call \cup {Main}, Evaluate(a) PROVE FieldsOK'
  <2>1. PICK c \in todo[a] : /\ todo' = [todo EXCEPT ![a] = @ \ {c}] /\ waits' = [waits EXCEPT ![a] = c]
                             /\ UNCHANGED <<server, futures, thread>>
    BY Zenon, <1>4 DEF Evaluate, Defer
  <2> QED  BY <2>1 DEF FieldsOK
<1>5. ASSUME NEW a \in Call \cup {Main}, EvaluateAsync(a) PROVE FieldsOK'
  <2>1. PICK c \in todo[a] : /\ todo' = [todo EXCEPT ![a] = @ \ {c}] /\ Asked(c)
                             /\ futures' = futures \/ futures' = [futures EXCEPT ![a] = @ \cup {c}]
                             /\ UNCHANGED <<waits, thread>>
    BY Zenon, <1>5 DEF EvaluateAsync
  <2>2. c \in Call
    BY <2>1 DEF FieldsOK
  <2> QED  BY <2>1, <2>2 DEF FieldsOK, Asked
<1>6. ASSUME NEW a \in Call \cup {Main}, GetFuture(a) PROVE FieldsOK'
  <2>1. PICK c \in futures[a] : /\ futures' = [futures EXCEPT ![a] = @ \ {c}] /\ waits' = [waits EXCEPT ![a] = c]
                                /\ UNCHANGED <<server, todo, thread>>
    BY Zenon, <1>6 DEF GetFuture, Defer
  <2> QED  BY <2>1 DEF FieldsOK
<1>7. ASSUME NEW w \in Worker, LoopStep(w) PROVE FieldsOK'
  BY <1>7 DEF FieldsOK, LoopStep, Leave, ThreadEnds
<1>8. ASSUME NEW w \in Worker, NEW c \in Call, GetJob(w, c) \/ PickFiber(w, c) PROVE FieldsOK'
  BY SMTT(20), <1>8 DEF FieldsOK, GetJob, PickFiber
<1>9. ASSUME NEW c \in Call, FiberStep(c) \/ OtherClient(c) PROVE FieldsOK'
  BY SMTT(20), <1>9 DEF FieldsOK, FiberStep, PutResult, FiberEnds, OtherClient
<1>10. CASE NotifyOne
  BY SMTT(20), <1>10 DEF FieldsOK, NotifyOne, Awakened
<1>11. CASE NotifyAll
  BY <1>11 DEF FieldsOK, NotifyAll
<1>12. CASE Cancel \/ Destroyed
  BY <1>12 DEF FieldsOK, Cancel, Destroyed
<1>13. CASE UNCHANGED vars
  BY <1>13 DEF FieldsOK, vars
<1> QED
  BY SMTT(20), <1>1, <1>2, <1>3, <1>4, <1>5, <1>6, <1>7, <1>8, <1>9, <1>10, <1>11, <1>12, <1>13
     DEF Next, AgentStep, FuncStep, MainStep

\* Every step keeps the invariant.
LEMMA InvStep == Inv /\ FieldsOK /\ [Next]_vars => Inv'
<1> SUFFICES ASSUME Inv, FieldsOK, [Next]_vars PROVE Inv'
  OBVIOUS
<1>0. NumbersOK /\ CountersOK
  BY DEF Inv
<1>1. ASSUME at' = at, UNCHANGED <<futures, count, owed, shared_count, num_requested, num_started, num_finished>>,
             cancelled' = cancelled,
             \A c \in Call : server'[c] \in {"none", "queued"} <=> server[c] \in {"none", "queued"}
      PROVE  Inv'
  <2>1. CountersOK'
    BY <1>0, <1>1, NobodyMoves, SameDeferred DEF CountersOK
  <2>2. owed' \in Nat /\ num_requested' \in Nat /\ num_started' \in Nat /\ num_finished' \in Nat
    BY <1>0, <1>1 DEF NumbersOK
  <2> QED  BY <1>1, <2>1, <2>2, StillInv
<1>2. ASSUME NEW a \in Agent, TryAgain(a) PROVE Inv'
  <2>1. /\ at' = at /\ UNCHANGED <<futures, count, owed, shared_count, num_requested, num_started, num_finished>>
        /\ cancelled' = cancelled /\ Asked(waits[a])
    BY <1>2 DEF TryAgain, semaphore, counters
  <2>2. \A c \in Call : server'[c] \in {"none", "queued"} <=> server[c] \in {"none", "queued"}
    BY <2>1 DEF Asked, FieldsOK
  <2> QED  BY <1>1, <2>1, <2>2
<1>3. ASSUME NEW w \in Worker, NEW c \in Call, PickFiber(w, c) PROVE Inv'
  <2>1. /\ at' = at /\ UNCHANGED <<futures, count, owed, shared_count, num_requested, num_started, num_finished>>
        /\ cancelled' = cancelled /\ server' = server
    BY <1>3 DEF PickFiber, semaphore, counters
  <2> QED  BY <1>1, <2>1
<1>4. ASSUME NEW c \in Call, OtherClient(c) PROVE Inv'
  <2>1. /\ at' = at /\ UNCHANGED <<futures, count, owed, shared_count, num_requested, num_started, num_finished>>
        /\ cancelled' = cancelled /\ server[c] = "none" /\ server' = [server EXCEPT ![c] = "queued"]
    BY <1>4 DEF OtherClient, semaphore, counters
  <2>2. \A x \in Call : server'[x] \in {"none", "queued"} <=> server[x] \in {"none", "queued"}
    BY <2>1 DEF FieldsOK
  <2> QED  BY <1>1, <2>1, <2>2
<1>5. CASE UNCHANGED vars
  <2>1. /\ at' = at /\ UNCHANGED <<futures, count, owed, shared_count, num_requested, num_started, num_finished>>
        /\ cancelled' = cancelled /\ server' = server
    BY <1>5 DEF vars, semaphore, counters
  <2> QED  BY <1>1, <2>1
<1>6. ASSUME NEW a \in Agent, AgentStep(a) PROVE Inv'
  BY <1>2, <1>6, AcquireInv, QuietStepInv, GotResultInv DEF AgentStep
<1>7. ASSUME NEW a \in Call \cup {Main}, FuncStep(a) PROVE Inv'
  BY <1>7, DeferInv, AsyncInv DEF FuncStep
<1>8. ASSUME NEW w \in Worker, LoopStep(w) PROVE Inv'
  BY <1>8, QuietStepInv, Kinds DEF LoopStep
<1>9. ASSUME NEW c \in Call, FiberStep(c) PROVE Inv'
  BY <1>9, QuietStepInv, FiberEndsInv, Kinds DEF FiberStep
<1>10. ASSUME MainStep PROVE Inv'
  BY <1>10, QuietStepInv, NotifyAllInv, Kinds DEF MainStep
<1> QED  BY <1>3, <1>4, <1>5, <1>6, <1>7, <1>8, <1>9, <1>10, GetJobInv, NotifyOneInv DEF Next

\* The invariant holds in every state of the evaluator.
THEOREM ClientInvariant == Spec => [](Inv /\ FieldsOK)
<1>1. Init => FieldsOK
  <2>1. /\ SubCalls \in [Call -> SUBSET Call] /\ TopCalls \subseteq Call
    BY Zenon, ClientAssumption
  <2> QED  BY <2>1, Kinds DEF Init, FieldsOK
<1>2. Init => Inv
  <2> SUFFICES ASSUME Init PROVE Inv
    OBVIOUS
  <2>0. /\ \A w \in Worker : at[w] = "acquire"
        /\ \A c \in Call : at[c] = "none" /\ server[c] = "none"
        /\ at[Main] = "func" /\ at \in [Agent -> Label]
    BY SMTT(20), Kinds DEF Init, Label
  <2>1. NumbersOK
    BY <2>0, Kinds DEF Init, NumbersOK
  <2>2. PlacesOK
    BY <2>0 DEF PlacesOK
  <2>3. Live = {} /\ Computing = {} /\ Polling = {} /\ Awaiting = {} /\ Deferred = {}
    BY <2>0, Kinds DEF Init, Live, Computing, Polling, Awaiting, Deferred
  <2>4. /\ IsFiniteSet(Live) /\ IsFiniteSet(Deferred)
        /\ nLive = 0 /\ nComputing = 0 /\ nPolling = 0 /\ nAwaiting = 0 /\ nDeferred = 0
    BY <2>3, FS_EmptySet DEF nLive, nComputing, nPolling, nAwaiting, nDeferred
  <2>5. FibersOK /\ CountersOK
    BY SMTT(20), <2>4 DEF Init, FibersOK, CountersOK
  <2>6. PermitsOK
    BY <2>0, <2>4, Kinds DEF Init, PermitsOK, Lent
  <2>7. TestedOK /\ WakeupsOK
    BY <2>0, Kinds DEF TestedOK, WakeupsOK
  <2> QED  BY <2>1, <2>2, <2>5, <2>6, <2>7 DEF Inv
<1> QED  BY <1>1, <1>2, FieldsStep, InvStep, PTL DEF Spec

\* The fields of the evaluator and of its semaphore keep their types; work_shared_mutex is
\* never unlocked more often than locked.
THEOREM TypeCorrect == Spec => []TypeOK
<1>1. Init => cancelled \in BOOLEAN
  BY Zenon DEF Init
<1>2. cancelled \in BOOLEAN /\ [Next]_vars => (cancelled \in BOOLEAN)'
  <2> SUFFICES ASSUME cancelled \in BOOLEAN, [Next]_vars PROVE cancelled' = cancelled \/ cancelled' = TRUE
    BY Zenon
  <2>1. ASSUME NEW a \in Agent, AgentStep(a) PROVE cancelled' = cancelled
    BY <2>1 DEF AgentStep, Acquire, TestFails, FallAsleep, TryAgain, GotResult, semaphore
  <2>2. ASSUME NEW a \in Call \cup {Main}, FuncStep(a) PROVE cancelled' = cancelled
    BY Zenon, <2>2 DEF FuncStep, Evaluate, EvaluateAsync, GetFuture, semaphore
  <2>3. ASSUME NEW w \in Worker, LoopStep(w) PROVE cancelled' = cancelled
    BY <2>3 DEF LoopStep, Leave, ThreadEnds, semaphore
  <2>4. ASSUME NEW w \in Worker, NEW c \in Call, GetJob(w, c) \/ PickFiber(w, c) PROVE cancelled' = cancelled
    BY <2>4 DEF GetJob, PickFiber, semaphore
  <2>5. ASSUME NEW c \in Call, FiberStep(c) \/ OtherClient(c) PROVE cancelled' = cancelled
    BY <2>5 DEF FiberStep, PutResult, FiberEnds, OtherClient, semaphore
  <2>6. CASE NotifyOne
    BY <2>6 DEF NotifyOne
  <2>7. CASE MainStep
    BY <2>7 DEF MainStep, Cancel, NotifyAll, Destroyed, semaphore
  <2>8. CASE UNCHANGED vars
    BY <2>8 DEF vars, semaphore
  <2> QED  BY Zenon, <2>1, <2>2, <2>3, <2>4, <2>5, <2>6, <2>7, <2>8 DEF Next
<1>3. Inv /\ FieldsOK /\ cancelled \in BOOLEAN => TypeOK
  <2> SUFFICES ASSUME Inv, FieldsOK, cancelled \in BOOLEAN PROVE TypeOK
    OBVIOUS
  <2>1. shared_count \in Nat /\ counters \in Nat \X Nat \X Nat
    BY InvNumbers DEF Inv, FibersOK, NumbersOK, counters
  <2> QED  BY Zenon, <2>1 DEF Inv, NumbersOK, FieldsOK, TypeOK
<1> QED  BY <1>1, <1>2, <1>3, ClientInvariant, PTL DEF Spec

\* Permits are neither lost nor made: the fibers in a func, the threads that ask for jobs
\* and the free permits are as many as the threads, and one more while the main thread
\* waits, however fibers wait for each other.
THEOREM PermitsConservedHolds == Spec => []PermitsConserved
<1>1. Inv => PermitsConserved
  BY DEF Inv, PermitsOK, PermitsConserved, nComputing, nPolling, Polling
<1> QED  BY <1>1, ClientInvariant, PTL

\* While an agent sleeps on the semaphore, every free permit has an agent about to take it
\* or a notification on its way.
THEOREM NoLostPermitHolds == Spec => []NoLostPermit
<1>1. Inv => NoLostPermit
  BY DEF Inv, WakeupsOK, NoLostPermit, nAcquiring, Acquiring
<1> QED  BY <1>1, ClientInvariant, PTL

\* No call is counted as finished before it is started, or as started before requested.
THEOREM CountersOrderedHolds == Spec => []CountersOrdered
<1>1. ASSUME Inv PROVE CountersOrdered
  <2>1. /\ num_finished \in Nat /\ num_started \in Nat /\ num_requested \in Nat
        /\ nAwaiting \in Nat /\ nDeferred \in Nat
    BY <1>1, InvNumbers DEF Inv, NumbersOK
  <2>2. num_finished + nAwaiting <= num_started /\ num_started + nDeferred <= num_requested
    BY <1>1 DEF Inv, CountersOK
  <2> QED  BY <2>1, <2>2 DEF CountersOrdered
<1> QED  BY <1>1, ClientInvariant, PTL

=============================================================================

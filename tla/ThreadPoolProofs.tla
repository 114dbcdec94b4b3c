-------------------------- MODULE ThreadPoolProofs --------------------------
(***************************************************************************)
(* The evaluator's thread pool loses no wake-up, runs each future once and *)
(* prints no negative count, for any number of workers, calls and futures. *)
(***************************************************************************)
EXTENDS ThreadPool, TLAPS

\* What is used of sequences.
LEMMA SeqElement ==
  ASSUME NEW S, NEW s \in Seq(S), NEW n \in 1 .. Len(s)
  PROVE  s[n] \in S
OBVIOUS

\* A sequence that is not empty has a length.
LEMMA SeqLength ==
  ASSUME NEW S, NEW s \in Seq(S), s # <<>>
  PROVE  Len(s) \in Nat \ {0}
OBVIOUS

\* A sequence over a larger set.
LEMMA SeqWider ==
  ASSUME NEW S, NEW T, S \subseteq T, NEW s \in Seq(S)
  PROVE  s \in Seq(T)
OBVIOUS

\* One element is replaced.
LEMMA SeqReplaced ==
  ASSUME NEW S, NEW s \in Seq(S), NEW n \in 1 .. Len(s), NEW e \in S
  PROVE  /\ [s EXCEPT ![n] = e] \in Seq(S) /\ Len([s EXCEPT ![n] = e]) = Len(s)
         /\ \A k \in 1 .. Len(s) : [s EXCEPT ![n] = e][k] = IF k = n THEN e ELSE s[k]
OBVIOUS

\* One element is added.
LEMMA SeqAppended ==
  ASSUME NEW S, NEW s \in Seq(S), NEW e \in S
  PROVE  /\ Append(s, e) \in Seq(S) /\ Len(Append(s, e)) = Len(s) + 1
         /\ \A k \in 1 .. Len(s) : Append(s, e)[k] = s[k]
         /\ Append(s, e)[Len(s) + 1] = e
OBVIOUS

\* The first element is removed.
LEMMA SeqRest ==
  ASSUME NEW S, NEW s \in Seq(S), s # <<>>
  PROVE  Head(s) \in S /\ Tail(s) \in Seq(S) /\ Len(Tail(s)) = Len(s) - 1
OBVIOUS

\* The last element is removed.
LEMMA SeqFront ==
  ASSUME NEW S, NEW s \in Seq(S), NEW n \in Nat, n <= Len(s)
  PROVE  /\ SubSeq(s, 1, n) \in Seq(S) /\ Len(SubSeq(s, 1, n)) = n
         /\ \A k \in 1 .. n : SubSeq(s, 1, n)[k] = s[k]
OBVIOUS

\* What is used of finite sets; the library has it (CountingHolds, below).  The steps
\* of the pool assume it, so that the library's theorems do not burden their proofs.
Counting ==
  /\ \A S : IsFiniteSet(S) => Cardinality(S) \in Nat /\ (Cardinality(S) = 0 <=> S = {})
  /\ \A S, T : IsFiniteSet(S) /\ T \subseteq S => IsFiniteSet(T) /\ Cardinality(T) <= Cardinality(S)
  /\ \A S, a : IsFiniteSet(S) => /\ IsFiniteSet(S \cup {a})
                                 /\ a \notin S => Cardinality(S \cup {a}) = Cardinality(S) + 1
  /\ \A S, a : IsFiniteSet(S) /\ a \in S => Cardinality(S \ {a}) = Cardinality(S) - 1
  /\ \A a : IsFiniteSet({a}) /\ Cardinality({a}) = 1
  /\ \A n \in Nat : IsFiniteSet(1 .. n) /\ Cardinality(1 .. n) = n
  /\ IsFiniteSet({})

\* The size of a finite set.
LEMMA FiniteCount ==
  ASSUME Counting, NEW S, IsFiniteSet(S)
  PROVE  Cardinality(S) \in Nat /\ (Cardinality(S) = 0 <=> S = {})
BY Zenon DEF Counting

\* A part of a finite set.
LEMMA FinitePart ==
  ASSUME Counting, NEW S, IsFiniteSet(S), NEW T, T \subseteq S
  PROVE  IsFiniteSet(T) /\ Cardinality(T) <= Cardinality(S)
BY Zenon DEF Counting

\* An element more.
LEMMA OneAdded ==
  ASSUME Counting, NEW S, IsFiniteSet(S), NEW a
  PROVE  IsFiniteSet(S \cup {a}) /\ (a \notin S => Cardinality(S \cup {a}) = Cardinality(S) + 1)
BY Zenon DEF Counting

\* An element less.
LEMMA OneRemoved ==
  ASSUME Counting, NEW S, IsFiniteSet(S), NEW a \in S
  PROVE  IsFiniteSet(S \ {a}) /\ Cardinality(S \ {a}) = Cardinality(S) - 1
<1>1. S \ {a} \subseteq S
  OBVIOUS
<1> QED  BY Zenon, <1>1 DEF Counting

\* The empty set, a set of one element, and the first numbers.
LEMMA SmallSets ==
  ASSUME Counting
  PROVE  /\ IsFiniteSet({}) /\ Cardinality({}) = 0
         /\ \A a : IsFiniteSet({a}) /\ Cardinality({a}) = 1
         /\ \A n \in Nat : IsFiniteSet(1 .. n) /\ Cardinality(1 .. n) = n
BY Zenon DEF Counting

-----------------------------------------------------------------------------
(* The invariant *)

Label ==
  {"body", "push", "notify", "get", "start", "print_start", "resolve", "set", "finish",
   "print_finish", "ready", "loop", "notify_all", "join", "end"}

Frames ==
  [at : Label, call : Call \cup {None}, fut : Nat, subs : SUBSET Call, mine : SUBSET Nat,
   cur : Nat, seen : Seq(Nat)]

\* The types of the fields that are not Boolean.
FieldsOK ==
  /\ stored \subseteq Call
  /\ made \in Seq(Call) /\ Len(made) <= MaxFutures
  /\ state \in [Future -> {"none", "deferred", "running", "ready"}]
  /\ work_queue \in Seq(Nat) /\ \A i \in 1 .. Len(work_queue) : work_queue[i] \in 1 .. Len(made)
  /\ asleep \subseteq Worker
  /\ stack \in [Thread -> Seq(Frames)]
  /\ num_queued \in Nat /\ num_started \in Nat /\ num_finished \in Nat

\* What a frame has loaded is in order: the first counter was no more than the second
\* is now, and the second no more than the third.
SeenOK(fr) ==
  /\ Len(fr.seen) <= 3
  /\ Len(fr.seen) >= 1 => fr.seen[1] <= num_started
  /\ Len(fr.seen) >= 2 => fr.seen[1] <= fr.seen[2] /\ fr.seen[2] <= num_queued
  /\ Len(fr.seen) = 3 => fr.seen[2] <= fr.seen[3]

\* A frame knows futures that were made; one that runs a future evaluates its call, and
\* when it has finished, the result is stored.
FrameInv(fr) ==
  /\ fr.fut <= Len(made) /\ fr.cur <= Len(made) /\ fr.mine \subseteq 1 .. Len(made)
  /\ fr.at \in {"push", "get"} => fr.cur # 0
  /\ fr.at \in {"start", "print_start", "finish", "print_finish", "ready"} => fr.fut # 0
  /\ fr.fut # 0 => fr.call = made[fr.fut]
  /\ fr.fut # 0 /\ fr.at \in {"finish", "print_finish", "ready"} => fr.call \in stored
  /\ SeenOK(fr)

FramesOK == \A t \in Thread : \A i \in 1 .. Len(stack[t]) : FrameInv(stack[t][i])

\* The first frame is the thread's own; the others evaluate a call.
BaseOK ==
  \A t \in Thread :
    /\ Len(stack[t]) >= 1
    /\ stack[t][1].at \in IF t = Main THEN {"body", "push", "notify", "get", "notify_all", "join", "end"}
                                     ELSE {"loop", "get", "end"}
    /\ \A i \in 2 .. Len(stack[t]) : stack[t][i].call \in Call

\* A future is running exactly when a frame runs it, and no two frames run the same.
Run(t, i, f) == i \in 1 .. Len(stack[t]) /\ stack[t][i].fut = f

RunnersOK ==
  /\ \A f \in 1 .. Len(made) :
       /\ state[f] = "running" <=> \E t \in Thread, i \in Nat : Run(t, i, f)
       /\ state[f] = "ready" => made[f] \in stored
  /\ \A f \in 1 .. Len(made), t \in Thread, u \in Thread, i \in Nat, j \in Nat :
       Run(t, i, f) /\ Run(u, j, f) => t = u /\ i = j

\* The futures that num_started and num_finished have counted.
Begun == Label \ {"start"}
Over == {"print_finish", "ready"}
Counted(labels) ==
  {f \in 1 .. Len(made) :
     state[f] = "ready" \/ \E t \in Thread, i \in Nat : Run(t, i, f) /\ stack[t][i].at \in labels}

CountsOK ==
  /\ num_queued = Len(made)
  /\ num_started = Cardinality(Counted(Begun))
  /\ num_finished = Cardinality(Counted(Over))

\* Only a worker in its loop sleeps.
AsleepOK == \A w \in asleep : At(w, "loop")

Inv ==
  /\ FieldsOK /\ FramesOK /\ BaseOK /\ RunnersOK /\ CountsOK /\ AsleepOK
  /\ NoLostWakeup /\ NoNegativeProgress

-----------------------------------------------------------------------------
(* How one thread's step changes the stacks *)

\* Two frames that differ in the calls they may still make at most.
Alike(a, b) ==
  /\ a.at = b.at /\ a.call = b.call /\ a.fut = b.fut
  /\ a.mine = b.mine /\ a.cur = b.cur /\ a.seen = b.seen

\* Only the top of t's stack is new.
Moves(t) ==
  /\ stack' \in [Thread -> Seq(Frames)]
  /\ \A u \in Thread : u # t => stack'[u] = stack[u]
  /\ Len(stack'[t]) <= Len(stack[t]) + 1
  /\ \A i \in 1 .. Len(stack'[t]) - 1 : i <= Len(stack[t]) /\ Alike(stack'[t][i], stack[t][i])

\* The top frame is one of the frames.
LEMMA TopIsFrame ==
  ASSUME FieldsOK, NEW t \in Thread, stack[t] # <<>>
  PROVE  Top(t) \in Frames /\ Len(stack[t]) \in Nat \ {0}
<1>1. stack[t] \in Seq(Frames)
  BY DEF FieldsOK
<1>2. Len(stack[t]) \in Nat \ {0}
  BY <1>1, SeqLength
<1>3. Len(stack[t]) \in 1 .. Len(stack[t])
  BY <1>2
<1> QED  BY <1>1, <1>2, <1>3, SeqElement DEF Top

\* The top frame is replaced.
LEMMA Replaced ==
  ASSUME FieldsOK, NEW t \in Thread, stack[t] # <<>>, NEW fr \in Frames, SetTop(t, fr)
  PROVE  Moves(t) /\ Len(stack'[t]) = Len(stack[t]) /\ Top(t)' = fr
<1> DEFINE n == Len(stack[t])
<1>1. stack \in [Thread -> Seq(Frames)] /\ stack[t] \in Seq(Frames) /\ n \in Nat \ {0} /\ n \in 1 .. n
  BY TopIsFrame DEF FieldsOK
<1>2. stack' = [stack EXCEPT ![t] = [stack[t] EXCEPT ![n] = fr]]
  BY DEF SetTop
<1>3. /\ [stack[t] EXCEPT ![n] = fr] \in Seq(Frames)
      /\ Len([stack[t] EXCEPT ![n] = fr]) = n
      /\ \A j \in 1 .. n : [stack[t] EXCEPT ![n] = fr][j] = IF j = n THEN fr ELSE stack[t][j]
  BY <1>1, SeqReplaced
<1>4. /\ stack' \in [Thread -> Seq(Frames)] /\ \A u \in Thread : u # t => stack'[u] = stack[u]
      /\ Len(stack'[t]) = n /\ \A j \in 1 .. n : stack'[t][j] = IF j = n THEN fr ELSE stack[t][j]
  BY <1>1, <1>2, <1>3
<1>5. \A i \in 1 .. Len(stack'[t]) - 1 : i <= n /\ stack'[t][i] = stack[t][i]
  BY <1>1, <1>4
<1>6. Len(stack'[t]) <= n + 1
  BY <1>1, <1>4
<1>7. Moves(t)
  BY Zenon, <1>4, <1>5, <1>6 DEF Moves, Alike
<1>8. Top(t)' = stack'[t][n]
  BY <1>4 DEF Top
<1> QED  BY <1>1, <1>4, <1>7, <1>8

\* A frame is put on top.
LEMMA Pushed ==
  ASSUME FieldsOK, NEW t \in Thread, NEW fr \in Frames, Push(t, fr)
  PROVE  Moves(t) /\ Len(stack'[t]) = Len(stack[t]) + 1 /\ Top(t)' = fr
<1> DEFINE n == Len(stack[t])
<1>1. stack \in [Thread -> Seq(Frames)] /\ stack[t] \in Seq(Frames) /\ n \in Nat
  BY DEF FieldsOK
<1>2. stack' = [stack EXCEPT ![t] = Append(stack[t], fr)]
  BY DEF Push
<1>3. /\ Append(stack[t], fr) \in Seq(Frames)
      /\ Len(Append(stack[t], fr)) = n + 1
      /\ \A j \in 1 .. n : Append(stack[t], fr)[j] = stack[t][j]
      /\ Append(stack[t], fr)[n + 1] = fr
  BY <1>1, SeqAppended
<1>4. /\ stack' \in [Thread -> Seq(Frames)] /\ \A u \in Thread : u # t => stack'[u] = stack[u]
      /\ Len(stack'[t]) = n + 1 /\ \A j \in 1 .. n : stack'[t][j] = stack[t][j]
      /\ stack'[t][n + 1] = fr
  BY <1>1, <1>2, <1>3
<1>5. \A i \in 1 .. Len(stack'[t]) - 1 : i <= n /\ stack'[t][i] = stack[t][i]
  BY <1>1, <1>4
<1>6. Len(stack'[t]) <= n + 1
  BY <1>1, <1>4
<1>7. Moves(t)
  BY Zenon, <1>4, <1>5, <1>6 DEF Moves, Alike
<1>8. Top(t)' = stack'[t][n + 1]
  BY <1>4 DEF Top
<1> QED  BY <1>1, <1>4, <1>7, <1>8

\* The top frame returns to the one below.
LEMMA Popped ==
  ASSUME FieldsOK, NEW t \in Thread, Len(stack[t]) >= 2, Pop(t)
  PROVE  Moves(t) /\ Len(stack'[t]) = Len(stack[t]) - 1 /\ Top(t)' = stack[t][Len(stack[t]) - 1]
<1> DEFINE n == Len(stack[t])
<1>1. stack \in [Thread -> Seq(Frames)] /\ stack[t] \in Seq(Frames) /\ n \in Nat /\ n >= 2
  BY DEF FieldsOK
<1>2. stack' = [stack EXCEPT ![t] = SubSeq(stack[t], 1, n - 1)]
  BY DEF Pop
<1>3. /\ SubSeq(stack[t], 1, n - 1) \in Seq(Frames)
      /\ Len(SubSeq(stack[t], 1, n - 1)) = n - 1
      /\ \A j \in 1 .. n - 1 : SubSeq(stack[t], 1, n - 1)[j] = stack[t][j]
  <2>1. n - 1 \in Nat /\ n - 1 <= n
    BY <1>1
  <2> QED  BY <1>1, <2>1, SeqFront
<1>4. /\ stack' \in [Thread -> Seq(Frames)] /\ \A u \in Thread : u # t => stack'[u] = stack[u]
      /\ Len(stack'[t]) = n - 1 /\ \A j \in 1 .. n - 1 : stack'[t][j] = stack[t][j]
  BY <1>1, <1>2, <1>3
<1>5. \A i \in 1 .. Len(stack'[t]) - 1 : i <= n /\ stack'[t][i] = stack[t][i]
  BY <1>1, <1>4
<1>6. Len(stack'[t]) <= n + 1
  BY <1>1, <1>4
<1>7. Moves(t)
  BY Zenon, <1>4, <1>5, <1>6 DEF Moves, Alike
<1>8. Top(t)' = stack'[t][n - 1]
  BY <1>4 DEF Top
<1> QED  BY <1>1, <1>4, <1>7, <1>8

-----------------------------------------------------------------------------
(* What each part of the invariant needs of a step *)

\* Results, futures and counters only grow.
Grows ==
  /\ stored \subseteq stored'
  /\ Len(made) <= Len(made') /\ \A i \in 1 .. Len(made) : made'[i] = made[i]
  /\ num_started <= num_started' /\ num_queued <= num_queued'

\* What is known of a frame stays true of it.
LEMMA FrameInvKept ==
  ASSUME FieldsOK, FieldsOK', Grows, NEW fr \in Frames, FrameInv(fr)
  PROVE  FrameInv(fr)'
<1>1. /\ Len(made) \in Nat /\ Len(made') \in Nat /\ Len(made) <= Len(made')
      /\ num_started \in Nat /\ num_started' \in Nat /\ num_started <= num_started'
      /\ num_queued \in Nat /\ num_queued' \in Nat /\ num_queued <= num_queued'
  BY DEF FieldsOK, Grows
<1>2. fr.fut \in Nat /\ fr.cur \in Nat /\ fr.mine \subseteq Nat /\ fr.seen \in Seq(Nat)
  BY DEF Frames
<1>3. SeenOK(fr)'
  <2>1. SeenOK(fr) /\ Len(fr.seen) \in Nat
    BY <1>2 DEF FrameInv
  <2>2. \A i \in 1 .. Len(fr.seen) : fr.seen[i] \in Nat
    BY <1>2, SeqElement
  <2>3. Len(fr.seen) >= 1 => fr.seen[1] <= num_started'
    BY <1>1, <2>1, <2>2 DEF SeenOK
  <2>4. Len(fr.seen) >= 2 => fr.seen[2] <= num_queued'
    BY <1>1, <2>1, <2>2 DEF SeenOK
  <2> QED  BY <2>1, <2>3, <2>4 DEF SeenOK
<1>4. fr.fut <= Len(made') /\ fr.cur <= Len(made') /\ fr.mine \subseteq 1 .. Len(made')
  BY <1>1, <1>2 DEF FrameInv
<1>5. fr.fut # 0 => made'[fr.fut] = made[fr.fut]
  BY <1>1, <1>2 DEF FrameInv, Grows
<1> QED  BY <1>3, <1>4, <1>5 DEF FrameInv, Grows

\* Alike frames are known the same of.
LEMMA AlikeFrames ==
  ASSUME NEW a, NEW b, Alike(a, b), FrameInv(b)
  PROVE  FrameInv(a)
BY DEF Alike, FrameInv, SeenOK

\* The frames below the top keep what is known of them.
LEMMA FramesKept ==
  ASSUME FieldsOK, FieldsOK', FramesOK, Grows, NEW t \in Thread, Moves(t), FrameInv(Top(t))'
  PROVE  FramesOK'
<1> SUFFICES ASSUME NEW u \in Thread, NEW i \in 1 .. Len(stack'[u]) PROVE FrameInv(stack[u][i])'
  BY DEF FramesOK
<1>0. /\ stack[u] \in Seq(Frames) /\ stack'[u] \in Seq(Frames) /\ stack'[t] \in Seq(Frames)
      /\ Len(stack[u]) \in Nat /\ Len(stack'[u]) \in Nat
  BY DEF FieldsOK
<1>1. CASE u # t
  <2>1. stack'[u] = stack[u] /\ stack[u][i] \in Frames /\ FrameInv(stack[u][i])
    BY Zenon, <1>0, <1>1, SeqElement DEF Moves, FramesOK
  <2>2. PICK fr \in Frames : fr = stack[u][i]
    BY <2>1
  <2>3. FrameInv(fr)'
    BY <2>1, <2>2, FrameInvKept
  <2> QED  BY <2>1, <2>2, <2>3
<1>2. CASE u = t /\ i = Len(stack'[t])
  BY <1>2 DEF Top
<1>3. CASE u = t /\ i # Len(stack'[t])
  <2>1. i \in 1 .. Len(stack[t]) /\ Alike(stack'[t][i], stack[t][i])
    BY <1>0, <1>3 DEF Moves
  <2>2. stack[t][i] \in Frames /\ FrameInv(stack[t][i])
    BY <1>0, <1>3, <2>1, SeqElement DEF FramesOK
  <2>3. PICK fr \in Frames : fr = stack[t][i]
    BY <2>2
  <2>4. FrameInv(fr)'
    BY <2>2, <2>3, FrameInvKept
  <2>5. PICK gr : gr = stack'[t][i]
    OBVIOUS
  <2>6. Alike(gr, fr)
    BY <2>1, <2>3, <2>5
  <2>7. FrameInv(gr)'
    BY <2>4, <2>6 DEF Alike, FrameInv, SeenOK
  <2> QED  BY <1>3, <2>5, <2>7
<1> QED  BY <1>1, <1>2, <1>3

\* The threads' own frames stay at the bottom.
BaseLabel(t) ==
  IF t = Main THEN {"body", "push", "notify", "get", "notify_all", "join", "end"}
              ELSE {"loop", "get", "end"}

\* A step that leaves a good frame on top keeps the frames at the bottom and their calls.
LEMMA BaseKept ==
  ASSUME FieldsOK, BaseOK, NEW t \in Thread, Moves(t), Len(stack'[t]) >= 1,
         Len(stack'[t]) = 1 => Top(t)'.at \in BaseLabel(t),
         Len(stack'[t]) > 1 => Top(t)'.call \in Call
  PROVE  BaseOK'
<1> SUFFICES ASSUME NEW u \in Thread
             PROVE  /\ Len(stack'[u]) >= 1 /\ stack'[u][1].at \in BaseLabel(u)
                    /\ \A i \in 2 .. Len(stack'[u]) : stack'[u][i].call \in Call
  BY Zenon DEF BaseOK, BaseLabel
<1>0. Len(stack[u]) \in Nat /\ Len(stack'[u]) \in Nat /\ Len(stack'[t]) \in Nat
  BY DEF FieldsOK, Moves
<1>1. CASE u # t
  <2>1. stack'[u] = stack[u]
    BY <1>1 DEF Moves
  <2> QED  BY <2>1 DEF BaseOK, BaseLabel
<1>2. CASE u = t
  <2>1. \A i \in 1 .. Len(stack'[t]) - 1 : stack'[t][i].at = stack[t][i].at /\ stack'[t][i].call = stack[t][i].call
    BY DEF Moves, Alike
  <2>2. \A i \in 1 .. Len(stack'[t]) - 1 : i <= Len(stack[t])
    BY DEF Moves
  <2>3. stack'[t][1].at \in BaseLabel(t)
    <3>1. CASE Len(stack'[t]) = 1
      BY <3>1 DEF Top
    <3>2. CASE Len(stack'[t]) # 1
      <4> DEFINE m == Len(stack'[t])
      <4>0. m \in Nat /\ m >= 1 /\ m # 1
        BY <1>0, <3>2
      <4> HIDE DEF m
      <4>2. 1 \in 1 .. m - 1
        BY <4>0
      <4>1. 1 \in 1 .. Len(stack'[t]) - 1
        BY Zenon, <4>2 DEF m
      <4> QED  BY <2>1, <4>1 DEF BaseOK, BaseLabel
    <3> QED  BY <3>1, <3>2
  <2>4. ASSUME NEW i \in 2 .. Len(stack'[t]) PROVE stack'[t][i].call \in Call
    <3>1. CASE i = Len(stack'[t])
      BY <1>0, <3>1 DEF Top
    <3>2. CASE i # Len(stack'[t])
      <4>1. i \in 1 .. Len(stack'[t]) - 1 /\ i \in 2 .. Len(stack[t])
        BY <1>0, <1>2, <2>2, <3>2
      <4> QED  BY Zenon, <2>1, <4>1 DEF BaseOK
    <3> QED  BY <3>1, <3>2
  <2> QED  BY <1>2, <2>3, <2>4
<1> QED  BY <1>1, <1>2

-----------------------------------------------------------------------------
(* The workers asleep and the threads about to wake one *)

nLooking == Cardinality(Looking)
nNotifying == Cardinality(Notifying)

\* Sets that differ in one element at most.
LEMMA OneMore ==
  ASSUME Counting, NEW S, IsFiniteSet(S), NEW T, NEW a, \A x : x # a => (x \in T <=> x \in S)
  PROVE  /\ IsFiniteSet(T) /\ Cardinality(S) \in Nat /\ Cardinality(T) \in Nat
         /\ Cardinality(T) = Cardinality(S) + (IF a \in T THEN 1 ELSE 0) - (IF a \in S THEN 1 ELSE 0)
<1>0. Cardinality(S) \in Nat
  BY FiniteCount
<1>1. CASE (a \in T) = (a \in S)
  <2>1. T = S
    BY <1>1
  <2> QED  BY <1>0, <2>1
<1>2. CASE a \in T /\ a \notin S
  <2>1. T = S \cup {a}
    BY <1>2
  <2>2. IsFiniteSet(T) /\ Cardinality(T) = Cardinality(S) + 1
    BY <1>2, <2>1, OneAdded
  <2> QED  BY <1>0, <1>2, <2>2
<1>3. CASE a \notin T /\ a \in S
  <2>1. T = S \ {a}
    BY <1>3
  <2>2. IsFiniteSet(T) /\ Cardinality(T) = Cardinality(S) - 1
    BY <1>3, <2>1, OneRemoved
  <2>3. Cardinality(T) \in Nat
    BY <2>2, FiniteCount
  <2> QED  BY <1>0, <1>3, <2>2, <2>3
<1> QED  BY <1>1, <1>2, <1>3

\* One element more, or none.
LEMMA OneGained ==
  ASSUME Counting, NEW S, IsFiniteSet(S), NEW T, NEW a, \A x : x # a => (x \in T <=> x \in S), a \notin S
  PROVE  Cardinality(T) \in Nat /\ Cardinality(S) <= Cardinality(T) /\ (a \in T => Cardinality(T) = Cardinality(S) + 1)
BY SMTT(20), OneMore

\* Sums of counts.
LEMMA NoneAtMost == \A k, l \in Nat : 0 <= k + l
  OBVIOUS

\* A future is queued and a thread is about to notify.
LEMMA OneQueued == \A q, i, j, k, l \in Nat : q <= i + j /\ i <= k /\ l = j + 1 => q + 1 <= k + l
  OBVIOUS

\* A thread has notified and a worker is woken.
LEMMA OneWoken == \A q, i, j, k, l \in Nat : q <= i + j /\ k = i + 1 /\ j = l + 1 => q <= k + l
  OBVIOUS

\* A worker has taken a future.
LEMMA OneTaken == \A q, i, j, k, l \in Nat : q + 1 <= i + j /\ i = k + 1 /\ j <= l => q <= k + l
  OBVIOUS

\* There are finitely many threads.
LEMMA AllFinite ==
  ASSUME Counting
  PROVE  /\ IsFiniteSet(Thread) /\ IsFiniteSet(Looking) /\ IsFiniteSet(Notifying)
         /\ nLooking \in Nat /\ nNotifying \in Nat
<1>1. IsFiniteSet(Thread)
  BY PoolAssumption, OneAdded DEF Thread
<1>2. Looking \subseteq Thread /\ Notifying \subseteq Thread
  BY DEF Looking, Notifying, Thread
<1>3. IsFiniteSet(Looking) /\ IsFiniteSet(Notifying)
  BY <1>1, <1>2, FinitePart
<1> QED  BY <1>1, <1>3, FiniteCount DEF nLooking, nNotifying

\* The other threads stay where they are.
LEMMA OthersStay ==
  ASSUME NEW t, Moves(t), NEW u \in Thread, u # t, NEW x
  PROVE  At(u, x)' <=> At(u, x)
<1>1. stack'[u] = stack[u]
  BY DEF Moves
<1> QED  BY <1>1 DEF At, Top

\* One thread comes or goes.
LEMMA OneThreadMoves ==
  ASSUME Counting, NEW t \in Thread, Moves(t), asleep' = asleep
  PROVE  /\ nLooking' = nLooking + (IF t \in Looking' THEN 1 ELSE 0) - (IF t \in Looking THEN 1 ELSE 0)
         /\ nNotifying' = nNotifying + (IF t \in Notifying' THEN 1 ELSE 0) - (IF t \in Notifying THEN 1 ELSE 0)
         /\ nLooking' \in Nat /\ nNotifying' \in Nat
<1>1. \A x : x # t => (x \in Looking' <=> x \in Looking)
  BY Zenon, OthersStay DEF Looking, Thread
<1>2. \A x : x # t => (x \in Notifying' <=> x \in Notifying)
  BY Zenon, OthersStay DEF Notifying
<1> QED  BY Zenon, <1>1, <1>2, AllFinite, OneMore DEF nLooking, nNotifying

\* A step of a thread that neither looks at the queue nor notifies.
LEMMA WakeupsKept ==
  ASSUME Counting, FieldsOK, AsleepOK, NoLostWakeup, NEW t \in Thread, Moves(t),
         ~At(t, "loop"), ~At(t, "notify"),
         asleep' = asleep, work_queue' = work_queue, ~work_done' => ~work_done
  PROVE  AsleepOK' /\ NoLostWakeup'
<1>1. AsleepOK'
  BY Zenon, OthersStay DEF AsleepOK, FieldsOK, Thread
<1>2. t \notin Looking /\ t \notin Notifying
  BY DEF Looking, Notifying
<1>3. nLooking <= nLooking' /\ nNotifying <= nNotifying'
  BY <1>2, OneThreadMoves, AllFinite
<1>4. asleep' # {} /\ ~work_done' => Len(work_queue) <= nLooking + nNotifying
  BY Zenon DEF NoLostWakeup, nLooking, nNotifying
<1>5. nLooking \in Nat /\ nNotifying \in Nat /\ nLooking' \in Nat /\ nNotifying' \in Nat /\ Len(work_queue) \in Nat
  BY OneThreadMoves, AllFinite DEF FieldsOK
<1>6. asleep' # {} /\ ~work_done' => Len(work_queue') <= nLooking' + nNotifying'
  BY <1>3, <1>4, <1>5
<1> QED  BY Zenon, <1>1, <1>6 DEF NoLostWakeup, nLooking, nNotifying

-----------------------------------------------------------------------------
(* The frames that run futures *)

\* A frame runs f and is at one of the labels.
RunIn(t, i, f, labels) == Run(t, i, f) /\ stack[t][i].at \in labels

\* The step neither starts nor ends a run, nor moves one into or out of the labels.
Quiet(t, labels) ==
  \/ /\ Len(stack'[t]) = Len(stack[t]) /\ Len(stack[t]) >= 1
     /\ Top(t)'.fut = Top(t).fut
     /\ Top(t).fut # 0 => (Top(t)'.at \in labels <=> Top(t).at \in labels)
  \/ Len(stack'[t]) = Len(stack[t]) + 1 /\ Top(t)'.fut = 0
  \/ /\ Len(stack'[t]) = Len(stack[t]) - 1 /\ Len(stack[t]) >= 2 /\ Top(t).fut = 0
     /\ Top(t)' = stack[t][Len(stack[t]) - 1]

\* The frames below the top run what they ran.
LEMMA BelowStays ==
  ASSUME FieldsOK, NEW t \in Thread, Moves(t), NEW labels, NEW f, NEW u \in Thread, NEW i \in Nat,
         u # t \/ i < Len(stack'[t])
  PROVE  (RunIn(u, i, f, labels)' <=> RunIn(u, i, f, labels)) /\ (Run(u, i, f)' <=> Run(u, i, f))
<1>1. CASE u # t
  <2>1. stack'[u] = stack[u]
    BY <1>1 DEF Moves
  <2> QED  BY <1>1, <2>1 DEF RunIn, Run
<1>2. CASE u = t /\ i < Len(stack'[t])
  <2>0. Len(stack[t]) \in Nat /\ Len(stack'[t]) \in Nat
    BY DEF FieldsOK, Moves
  <2>1. CASE i = 0
    BY <2>1, <2>0, <1>2 DEF RunIn, Run
  <2>2. CASE i # 0
    <3>1. i \in 1 .. Len(stack'[t]) - 1 /\ i \in 1 .. Len(stack'[t])
      BY <1>2, <2>0, <2>2
    <3>2. i <= Len(stack[t]) /\ stack'[t][i].at = stack[t][i].at /\ stack'[t][i].fut = stack[t][i].fut
      BY <3>1 DEF Moves, Alike
    <3>3. i \in 1 .. Len(stack[t])
      BY <2>0, <2>2, <3>2
    <3> QED  BY <1>2, <3>1, <3>2, <3>3 DEF RunIn, Run
  <2> QED  BY <2>1, <2>2
<1> QED  BY <1>1, <1>2

\* A quiet step.
LEMMA SameRuns ==
  ASSUME FieldsOK, NEW t \in Thread, Moves(t), NEW labels, Quiet(t, labels),
         NEW f \in Nat \ {0}, NEW u \in Thread, NEW i \in Nat
  PROVE  RunIn(u, i, f, labels)' <=> RunIn(u, i, f, labels)
<1>0. Len(stack[t]) \in Nat /\ Len(stack'[t]) \in Nat
  BY DEF FieldsOK, Moves
<1>1. CASE u # t \/ i < Len(stack'[t])
  BY Zenon, <1>1, BelowStays
<1>2. CASE u = t /\ i >= Len(stack'[t])
  <2>1. CASE /\ Len(stack'[t]) = Len(stack[t]) /\ Len(stack[t]) >= 1
             /\ Top(t)'.fut = Top(t).fut
             /\ Top(t).fut # 0 => (Top(t)'.at \in labels <=> Top(t).at \in labels)
    <3>1. CASE i = Len(stack[t])
      BY <1>0, <1>2, <2>1, <3>1 DEF RunIn, Run, Top
    <3>2. CASE i > Len(stack[t])
      BY <1>0, <1>2, <2>1, <3>2 DEF RunIn, Run
    <3> QED  BY <1>0, <1>2, <2>1, <3>1, <3>2
  <2>2. CASE Len(stack'[t]) = Len(stack[t]) + 1 /\ Top(t)'.fut = 0
    <3>1. ~Run(t, i, f)
      BY <1>0, <1>2, <2>2 DEF Run
    <3>2. ~Run(t, i, f)'
      BY <1>0, <1>2, <2>2 DEF Run, Top
    <3> QED  BY <1>2, <3>1, <3>2 DEF RunIn
  <2>3. CASE /\ Len(stack'[t]) = Len(stack[t]) - 1 /\ Len(stack[t]) >= 2 /\ Top(t).fut = 0
             /\ Top(t)' = stack[t][Len(stack[t]) - 1]
    <3>1. CASE i = Len(stack[t]) - 1
      <4>1. stack'[t][i] = stack[t][i] /\ i \in 1 .. Len(stack[t]) /\ i \in 1 .. Len(stack'[t])
        BY <1>0, <2>3, <3>1 DEF Top
      <4> QED  BY <1>2, <4>1 DEF RunIn, Run
    <3>2. CASE i >= Len(stack[t])
      <4>1. ~Run(t, i, f)
        BY <1>0, <2>3, <3>2 DEF Run, Top
      <4>2. ~Run(t, i, f)'
        BY <1>0, <2>3, <3>2 DEF Run
      <4> QED  BY <1>2, <4>1, <4>2 DEF RunIn
    <3> QED  BY <1>0, <1>2, <2>3, <3>1, <3>2
  <2> QED  BY <2>1, <2>2, <2>3 DEF Quiet
<1> QED  BY <1>0, <1>1, <1>2

\* Every frame is at a label.
LEMMA RunsSomewhere ==
  ASSUME FieldsOK, NEW t \in Thread, NEW i \in Nat, NEW f
  PROVE  RunIn(t, i, f, Label) <=> Run(t, i, f)
<1>1. SUFFICES ASSUME Run(t, i, f) PROVE stack[t][i].at \in Label
  BY DEF RunIn
<1>2. stack[t] \in Seq(Frames)
  BY DEF FieldsOK
<1>3. stack[t][i] \in Frames
  BY <1>1, <1>2, SeqElement DEF Run
<1> QED  BY <1>3 DEF Frames

\* Quiet steps keep the runners.
LEMMA RunnersKept ==
  ASSUME FieldsOK, FieldsOK', RunnersOK, NEW t \in Thread, Moves(t), Quiet(t, Label),
         made' = made, state' = state, stored \subseteq stored'
  PROVE  RunnersOK'
<1>1. ASSUME NEW f \in 1 .. Len(made), NEW u \in Thread, NEW i \in Nat
      PROVE  Run(u, i, f)' <=> Run(u, i, f)
  <2>1. f \in Nat \ {0}
    BY DEF FieldsOK
  <2>2. RunIn(u, i, f, Label)' <=> RunIn(u, i, f, Label)
    BY <2>1, SameRuns
  <2>3. RunIn(u, i, f, Label) <=> Run(u, i, f)
    BY RunsSomewhere
  <2>4. RunIn(u, i, f, Label)' <=> Run(u, i, f)'
    <3>1. SUFFICES ASSUME Run(u, i, f)' PROVE stack'[u][i].at \in Label
      BY DEF RunIn
    <3>2. stack'[u] \in Seq(Frames) /\ i \in 1 .. Len(stack'[u])
      BY <3>1 DEF FieldsOK, Run
    <3>3. stack'[u][i] \in Frames
      BY <3>2, SeqElement
    <3> QED  BY <3>3 DEF Frames
  <2> QED  BY <2>2, <2>3, <2>4
<1>2. ASSUME NEW f \in 1 .. Len(made)
      PROVE  /\ state'[f] = "running" <=> \E u \in Thread, i \in Nat : Run(u, i, f)'
             /\ state'[f] = "ready" => made'[f] \in stored'
  <2>1. /\ state[f] = "running" <=> \E u \in Thread, i \in Nat : Run(u, i, f)
        /\ state[f] = "ready" => made[f] \in stored
    BY Zenon DEF RunnersOK
  <2>2. (\E u \in Thread, i \in Nat : Run(u, i, f)') <=> \E u \in Thread, i \in Nat : Run(u, i, f)
    BY Zenon, <1>1
  <2> QED  BY Zenon, <2>1, <2>2
<1>3. ASSUME NEW f \in 1 .. Len(made), NEW u \in Thread, NEW v \in Thread, NEW i \in Nat, NEW j \in Nat,
             Run(u, i, f)', Run(v, j, f)'
      PROVE  u = v /\ i = j
  <2>1. Run(u, i, f) /\ Run(v, j, f)
    BY Zenon, <1>1, <1>3
  <2> QED  BY Zenon, <2>1 DEF RunnersOK
<1> QED  BY Zenon, <1>2, <1>3 DEF RunnersOK

\* Quiet steps keep what was counted.
LEMMA CountedKept ==
  ASSUME FieldsOK, NEW t \in Thread, Moves(t), NEW labels, Quiet(t, labels),
         made' = made, state' = state
  PROVE  Counted(labels)' = Counted(labels)
<1>1. ASSUME NEW f \in 1 .. Len(made), NEW u \in Thread, NEW i \in Nat
      PROVE  (Run(u, i, f) /\ stack[u][i].at \in labels)' <=> Run(u, i, f) /\ stack[u][i].at \in labels
  <2>1. f \in Nat \ {0}
    BY DEF FieldsOK
  <2>2. RunIn(u, i, f, labels)' <=> RunIn(u, i, f, labels)
    BY <2>1, SameRuns
  <2> QED  BY <2>2 DEF RunIn
<1> QED  BY Zenon, <1>1 DEF Counted

\* The run of the top frame gets among the labels: one more is counted.
LEMMA CountedMore ==
  ASSUME Counting, FieldsOK, FramesOK, RunnersOK, NEW t \in Thread, Moves(t), NEW labels,
         stack[t] # <<>>, Len(stack'[t]) = Len(stack[t]),
         Top(t)'.fut = Top(t).fut, Top(t).fut # 0,
         Top(t).at \notin labels, Top(t)'.at \in labels, made' = made, state' = state
  PROVE  Cardinality(Counted(labels)') = Cardinality(Counted(labels)) + 1
<1> DEFINE n == Len(stack[t])
<1>0. Top(t) \in Frames /\ n \in Nat \ {0} /\ n \in 1 .. n /\ Len(made) \in Nat
  BY TopIsFrame DEF FieldsOK
<1>1. PICK g \in Nat : g = Top(t).fut
  BY <1>0 DEF Frames
<1>2. g \in 1 .. Len(made)
  BY <1>0, <1>1 DEF FramesOK, FrameInv, Top
<1>3. Run(t, n, g) /\ Run(t, n, g)' /\ stack[t][n].at \notin labels /\ stack'[t][n].at \in labels
  BY <1>0, <1>1 DEF Run, Top
<1>4. g \notin Counted(labels)
  <2>1. state[g] # "ready"
    BY <1>0, <1>2, <1>3 DEF RunnersOK
  <2>2. ASSUME NEW u \in Thread, NEW i \in Nat, Run(u, i, g) PROVE stack[u][i].at \notin labels
    <3>1. u = t /\ i = n
      BY <1>0, <1>2, <1>3, <2>2 DEF RunnersOK
    <3> QED  BY <1>3, <3>1
  <2> QED  BY <2>1, <2>2 DEF Counted
<1>5. g \in Counted(labels)'
  BY <1>0, <1>2, <1>3 DEF Counted
<1>6. ASSUME NEW f \in 1 .. Len(made), f # g, NEW u \in Thread, NEW i \in Nat
      PROVE  RunIn(u, i, f, labels)' <=> RunIn(u, i, f, labels)
  <2>0. n \in Nat /\ Len(stack'[t]) = n
    BY <1>0
  <2>1. CASE u # t \/ i < n
    BY <2>0, <2>1, BelowStays
  <2>2. CASE u = t /\ i = n
    BY <1>0, <1>1, <1>6, <2>2 DEF RunIn, Run, Top
  <2>3. CASE u = t /\ i > n
    BY <2>0, <2>3 DEF RunIn, Run
  <2> QED  BY <2>0, <2>1, <2>2, <2>3
<1>7. \A f : f # g => (f \in Counted(labels)' <=> f \in Counted(labels))
  <2>1. ASSUME NEW f \in 1 .. Len(made), f # g, NEW u \in Thread, NEW i \in Nat
        PROVE  (Run(u, i, f) /\ stack[u][i].at \in labels)' <=> Run(u, i, f) /\ stack[u][i].at \in labels
    BY <1>6, <2>1 DEF RunIn
  <2> QED  BY Zenon, <2>1 DEF Counted
<1>8. IsFiniteSet(Counted(labels))
  <2>1. IsFiniteSet(1 .. Len(made)) /\ Counted(labels) \subseteq 1 .. Len(made)
    BY <1>0, SmallSets DEF Counted
  <2> QED  BY <2>1, FinitePart
<1>9. Cardinality(Counted(labels)) \in Nat
  BY <1>8, FiniteCount
<1> QED  BY <1>4, <1>5, <1>7, <1>8, <1>9, OneMore

-----------------------------------------------------------------------------
(* Steps that start and end no run *)

\* Nothing is counted, made, run or finished.
Idle == made' = made /\ state' = state /\ stored \subseteq stored' /\ counters' = counters

\* The rest of the fields' types.
OthersOK ==
  /\ stored \subseteq Call /\ asleep \subseteq Worker
  /\ work_queue \in Seq(Nat) /\ \A i \in 1 .. Len(work_queue) : work_queue[i] \in 1 .. Len(made)
  /\ AsleepOK /\ NoLostWakeup /\ NoNegativeProgress

\* The label of a frame that runs a future stays on its side of start and of finish.
SameSide(fr, x) == fr.fut # 0 => (fr.at = "start" <=> x = "start") /\ (fr.at \in Over <=> x \in Over)

\* Such a step keeps the invariant, when it keeps what the rest of the fields say.
LEMMA QuietInv ==
  ASSUME Inv, Idle, OthersOK', NEW t \in Thread, Moves(t),
         Quiet(t, Label), Quiet(t, Begun), Quiet(t, Over),
         FrameInv(Top(t))', Len(stack'[t]) >= 1,
         Len(stack'[t]) = 1 => Top(t)'.at \in BaseLabel(t),
         Len(stack'[t]) > 1 => Top(t)'.call \in Call
  PROVE  Inv'
<1>1. FieldsOK /\ FramesOK /\ BaseOK /\ RunnersOK /\ CountsOK
  BY DEF Inv
<1>2. made' = made /\ state' = state /\ num_queued' = num_queued /\ num_started' = num_started /\ num_finished' = num_finished
  BY DEF Idle, counters
<1>3. FieldsOK'
  BY <1>1, <1>2 DEF FieldsOK, OthersOK, Moves
<1>4. Grows
  BY <1>1, <1>2 DEF Idle, Grows, FieldsOK
<1>5. FramesOK'
  BY <1>1, <1>3, <1>4, FramesKept
<1>6. BaseOK'
  BY <1>1, BaseKept
<1>7. RunnersOK'
  BY <1>1, <1>2, <1>3, RunnersKept DEF Idle
<1>8. Counted(Begun)' = Counted(Begun) /\ Counted(Over)' = Counted(Over)
  BY <1>1, <1>2, CountedKept
<1>9. CountsOK'
  BY Zenon, <1>1, <1>2, <1>8 DEF CountsOK
<1> QED  BY SMTT(20), <1>3, <1>5, <1>6, <1>7, <1>9 DEF Inv, OthersOK

\* The top frame goes on.
LEMMA GoesOn ==
  ASSUME Inv, Idle, OthersOK', NEW t \in Thread, stack[t] # <<>>, NEW fr \in Frames, SetTop(t, fr),
         fr.fut = Top(t).fut, fr.call = Top(t).call, SameSide(Top(t), fr.at), FrameInv(fr)',
         Len(stack[t]) = 1 => fr.at \in BaseLabel(t)
  PROVE  Inv'
<1>1. FieldsOK /\ BaseOK
  BY DEF Inv
<1>2. Moves(t) /\ Len(stack'[t]) = Len(stack[t]) /\ Top(t)' = fr
  BY <1>1, Replaced
<1>3. Top(t) \in Frames /\ Len(stack[t]) \in Nat \ {0} /\ Len(stack[t]) >= 1
  BY <1>1, TopIsFrame
<1>4. Top(t).at \in Label /\ fr.at \in Label
  BY SMTT(20), <1>3 DEF Frames
<1>5. Quiet(t, Label) /\ Quiet(t, Begun) /\ Quiet(t, Over)
  <2>1. Top(t).fut # 0 => (fr.at \in Begun <=> Top(t).at \in Begun) /\ (fr.at \in Over <=> Top(t).at \in Over)
    BY <1>4 DEF SameSide, Begun
  <2> QED  BY <1>2, <1>3, <1>4, <2>1 DEF Quiet
<1>6. Len(stack'[t]) > 1 => Top(t)'.call \in Call
  <2>1. SUFFICES ASSUME Len(stack[t]) > 1 PROVE Top(t).call \in Call
    BY SMTT(20), <1>2
  <2>2. Len(stack[t]) \in 2 .. Len(stack[t])
    BY <1>3, <2>1
  <2> QED  BY <1>1, <2>2 DEF BaseOK, Top
<1>7. FrameInv(Top(t))'
  BY <1>2 DEF FrameInv, SeenOK
<1>8. Len(stack'[t]) >= 1 /\ (Len(stack'[t]) = 1 => Top(t)'.at \in BaseLabel(t))
  BY <1>2, <1>3
<1> QED  BY SMTT(20), <1>2, <1>5, <1>6, <1>7, <1>8, QuietInv

\* Another label, with the rest of the frame as it is.
LEMMA Relabelled ==
  ASSUME Inv, NEW t \in Thread, stack[t] # <<>>, NEW x \in Label \ {"push", "get"},
         x \in {"start", "print_start", "finish", "print_finish", "ready"} => Top(t).fut # 0,
         Top(t).fut # 0 /\ x \in {"finish", "print_finish", "ready"} => Top(t).call \in stored
  PROVE  [Top(t) EXCEPT !.at = x] \in Frames /\ FrameInv([Top(t) EXCEPT !.at = x])
<1>1. Top(t) \in Frames /\ FrameInv(Top(t))
  <2>1. Top(t) \in Frames /\ Len(stack[t]) \in Nat \ {0}
    BY TopIsFrame DEF Inv
  <2> QED  BY <2>1 DEF Inv, FramesOK, Top
<1> DEFINE fr == [Top(t) EXCEPT !.at = x]
<1>2. /\ fr.at = x /\ fr.call = Top(t).call /\ fr.fut = Top(t).fut /\ fr.subs = Top(t).subs
      /\ fr.mine = Top(t).mine /\ fr.cur = Top(t).cur /\ fr.seen = Top(t).seen /\ fr \in Frames
  BY SMTT(20), <1>1 DEF Frames
<1> HIDE DEF fr
<1>3. FrameInv(fr)
  BY <1>1, <1>2 DEF FrameInv, SeenOK
<1> QED  BY <1>2, <1>3 DEF fr

\* What is known of the top frame.
LEMMA TopKnown ==
  ASSUME Inv, NEW t \in Thread
  PROVE  /\ stack[t] # <<>> /\ Top(t) \in Frames /\ FrameInv(Top(t)) /\ Len(stack[t]) \in Nat \ {0}
         /\ Len(stack[t]) = 1 => Top(t).at \in BaseLabel(t)
         /\ Len(stack[t]) > 1 => Top(t).call \in Call
<1>1. FieldsOK /\ FramesOK /\ BaseOK /\ stack[t] \in Seq(Frames)
  BY DEF Inv, FieldsOK
<1>2. Len(stack[t]) >= 1 /\ Len(stack[t]) \in Nat
  BY <1>1 DEF BaseOK
<1>3. stack[t] # <<>>
  BY <1>2, SeqLength
<1>4. Top(t) \in Frames /\ Len(stack[t]) \in Nat \ {0}
  BY <1>1, <1>3, TopIsFrame
<1>5. Len(stack[t]) = 1 => Top(t).at \in BaseLabel(t)
  BY <1>1 DEF BaseOK, BaseLabel, Top
<1>6. Len(stack[t]) > 1 => Top(t).call \in Call
  BY <1>1, <1>2 DEF BaseOK, Top
<1>7. FrameInv(Top(t))
  BY <1>1, <1>4 DEF FramesOK, Top
<1> QED  BY <1>3, <1>4, <1>5, <1>6, <1>7

\* An idle step keeps what is known of a frame.
LEMMA IdleFrame ==
  ASSUME Inv, Idle, NEW fr \in Frames, FrameInv(fr)
  PROVE  FrameInv(fr)'
BY DEF Idle, counters, FrameInv, SeenOK

\* The queue, the sleepers and the printed counts stay.
LEMMA OthersKept ==
  ASSUME Counting, Inv, NEW t \in Thread, Moves(t), ~At(t, "loop"), ~At(t, "notify"), stored' \subseteq Call,
         made' = made, work_queue' = work_queue, asleep' = asleep, progress' = progress,
         ~work_done' => ~work_done
  PROVE  OthersOK'
<1>1. AsleepOK' /\ NoLostWakeup'
  BY WakeupsKept DEF Inv
<1>2. NoNegativeProgress'
  BY DEF Inv, NoNegativeProgress
<1>3. FieldsOK
  BY DEF Inv
<1> QED  BY Zenon, <1>1, <1>2, <1>3 DEF OthersOK, FieldsOK

\* A step that changes nothing but the top frame.
LEMMA PlainStep ==
  ASSUME Counting, Inv, NEW t \in Thread, ~At(t, "loop"), ~At(t, "notify"), UNCHANGED shared,
         NEW fr \in Frames, SetTop(t, fr), FrameInv(fr),
         fr.fut = Top(t).fut, fr.call = Top(t).call, SameSide(Top(t), fr.at),
         Len(stack[t]) = 1 => fr.at \in BaseLabel(t)
  PROVE  Inv'
<1>1. stack[t] # <<>> /\ FieldsOK
  BY TopKnown DEF Inv
<1>2. Moves(t)
  BY <1>1, Replaced
<1>3. stored' = stored /\ made' = made /\ state' = state /\ work_queue' = work_queue /\ asleep' = asleep
      /\ progress' = progress /\ counters' = counters
  BY DEF shared, futureVars, queueVars, printVars
<1>4. ~work_done' => ~work_done
  BY Zenon DEF shared, queueVars
<1>5. Idle
  BY <1>3 DEF Idle
<1>6. stored' \subseteq Call
  BY <1>1, <1>3 DEF FieldsOK
<1>7. OthersOK'
  BY SMTT(20), <1>2, <1>3, <1>4, <1>6, OthersKept
<1>8. FrameInv(fr)'
  BY <1>5, IdleFrame
<1> QED  BY <1>1, <1>5, <1>7, <1>8, GoesOn

\* Where a thread is, it is nowhere else.
LEMMA OnePlace ==
  ASSUME NEW t, NEW x, At(t, x)
  PROVE  Top(t).at = x /\ \A y : At(t, y) => y = x
BY SMTT(20) DEF At

\* Future::get is entered.
LEMMA WaitForInv ==
  ASSUME Counting, Inv, NEW t \in Thread, WaitFor(t)
  PROVE  Inv'
<1>1. PICK f \in Top(t).mine :
        At(t, "body") /\ SetTop(t, [Top(t) EXCEPT !.at = "get", !.cur = f, !.mine = @ \ {f}]) /\ UNCHANGED shared
  BY Zenon DEF WaitFor
<1> DEFINE fr == [Top(t) EXCEPT !.at = "get", !.cur = f, !.mine = @ \ {f}]
<1>2. /\ Top(t) \in Frames /\ FrameInv(Top(t)) /\ Len(made) \in Nat /\ Top(t).at = "body"
      /\ Len(stack[t]) = 1 => Top(t).at \in BaseLabel(t)
  BY <1>1, TopKnown, OnePlace DEF Inv, FieldsOK
<1>3. f \in 1 .. Len(made)
  BY <1>2 DEF FrameInv
<1>4. /\ fr.at = "get" /\ fr.call = Top(t).call /\ fr.fut = Top(t).fut
      /\ fr.mine = Top(t).mine \ {f} /\ fr.cur = f /\ fr.seen = Top(t).seen /\ fr \in Frames
  BY Zenon, <1>2, <1>3 DEF Frames, Label
<1>5. SetTop(t, fr)
  BY SMTT(20), <1>1
<1> HIDE DEF fr
<1>6. FrameInv(fr)
  BY <1>2, <1>3, <1>4 DEF FrameInv, SeenOK
<1>7. SameSide(Top(t), fr.at) /\ (Len(stack[t]) = 1 => fr.at \in BaseLabel(t))
  BY <1>2, <1>4 DEF SameSide, Over, BaseLabel
<1>8. ~At(t, "loop") /\ ~At(t, "notify")
  BY <1>1, OnePlace
<1> QED  BY ZenonT(30), <1>1, <1>4, <1>5, <1>6, <1>7, <1>8, PlainStep

\* A stack of more than one frame has two.
LEMMA TwoOrMore == \A n \in Nat \ {0} : n >= 1 /\ (n # 1 <=> n >= 2) /\ (n # 1 <=> n > 1)
  OBVIOUS

\* A step that changes nothing but the label of the top frame.
LEMMA LabelStep ==
  ASSUME Counting, Inv, NEW t \in Thread, ~At(t, "loop"), ~At(t, "notify"), UNCHANGED shared,
         NEW x \in Label \ {"push", "get"}, Goto(t, x), SameSide(Top(t), x),
         Len(stack[t]) = 1 => x \in BaseLabel(t),
         x \in {"start", "print_start", "finish", "print_finish", "ready"} => Top(t).fut # 0,
         Top(t).fut # 0 /\ x \in {"finish", "print_finish", "ready"} => Top(t).call \in stored
  PROVE  Inv'
<1> DEFINE fr == [Top(t) EXCEPT !.at = x]
<1>1. stack[t] # <<>> /\ Top(t) \in Frames
  BY TopKnown
<1>2. fr \in Frames /\ FrameInv(fr)
  BY <1>1, Relabelled
<1>3. fr.at = x /\ fr.call = Top(t).call /\ fr.fut = Top(t).fut
  BY <1>1 DEF Frames
<1>4. SetTop(t, fr)
  BY DEF Goto
<1> HIDE DEF fr
<1>5. SameSide(Top(t), fr.at) /\ (Len(stack[t]) = 1 => fr.at \in BaseLabel(t))
  BY Zenon, <1>3
<1> QED  BY ZenonT(30), <1>2, <1>3, <1>4, <1>5, PlainStep

\* Future::get returns.
LEMMA GotResultInv ==
  ASSUME Counting, Inv, NEW t \in Thread, GotResult(t)
  PROVE  Inv'
<1> DEFINE x == IF Len(stack[t]) = 1 /\ t # Main THEN "loop" ELSE "body"
           fr == [Top(t) EXCEPT !.cur = 0, !.at = x]
<1>1. At(t, "get") /\ UNCHANGED shared /\ SetTop(t, fr)
  BY DEF GotResult
<1>2. Top(t) \in Frames /\ FrameInv(Top(t)) /\ Len(made) \in Nat /\ Top(t).at = "get" /\ x \in {"loop", "body"}
  BY <1>1, TopKnown, OnePlace DEF Inv, FieldsOK
<1>3. Len(stack[t]) = 1 => x \in BaseLabel(t)
  BY DEF BaseLabel
<1> HIDE DEF x
<1>4. /\ fr.at = x /\ fr.call = Top(t).call /\ fr.fut = Top(t).fut
      /\ fr.mine = Top(t).mine /\ fr.cur = 0 /\ fr.seen = Top(t).seen /\ fr \in Frames
  BY Zenon, <1>2 DEF Frames, Label
<1> HIDE DEF fr
<1>5. FrameInv(fr)
  BY <1>2, <1>4 DEF FrameInv, SeenOK
<1>6. SameSide(Top(t), fr.at) /\ (Len(stack[t]) = 1 => fr.at \in BaseLabel(t))
  BY <1>2, <1>3, <1>4 DEF SameSide, Over
<1>7. ~At(t, "loop") /\ ~At(t, "notify")
  BY <1>1, OnePlace
<1> QED  BY ZenonT(30), <1>1, <1>4, <1>5, <1>6, <1>7, PlainStep

\* A message of printProgress is skipped.
LEMMA SkipReportInv ==
  ASSUME Counting, Inv, NEW t \in Thread, SkipReport(t)
  PROVE  Inv'
<1>1. Reporting(t) /\ Goto(t, AfterReport(t)) /\ UNCHANGED shared
  BY DEF SkipReport
<1>2. FrameInv(Top(t)) /\ (Len(stack[t]) = 1 => Top(t).at \in BaseLabel(t))
  BY TopKnown
<1>3. CASE At(t, "print_start")
  <2>1. Top(t).at = "print_start" /\ Goto(t, "resolve") /\ ~At(t, "loop") /\ ~At(t, "notify")
    BY <1>1, <1>3, OnePlace DEF AfterReport
  <2>2. SameSide(Top(t), "resolve") /\ (Len(stack[t]) = 1 => "resolve" \in BaseLabel(t))
    BY <1>2, <2>1 DEF SameSide, Over, BaseLabel
  <2>3. "resolve" \in Label \ {"push", "get"} /\ "resolve" \notin {"start", "print_start", "finish", "print_finish", "ready"}
    BY DEF Label
  <2> QED  BY <1>1, <2>1, <2>2, <2>3, LabelStep
<1>4. CASE ~At(t, "print_start")
  <2>1. Top(t).at = "print_finish" /\ Goto(t, "ready") /\ ~At(t, "loop") /\ ~At(t, "notify")
    BY <1>1, <1>4, OnePlace DEF AfterReport, Reporting
  <2>2. SameSide(Top(t), "ready") /\ (Len(stack[t]) = 1 => "ready" \in BaseLabel(t))
    BY <1>2, <2>1 DEF SameSide, Over, BaseLabel
  <2>3. "ready" \in Label \ {"push", "get"} /\ Top(t).fut # 0 /\ Top(t).call \in stored
    BY <1>2, <2>1 DEF Label, FrameInv
  <2> QED  BY <1>1, <2>1, <2>2, <2>3, LabelStep
<1> QED  BY <1>3, <1>4

\* The func returns.
LEMMA FuncReturnsInv ==
  ASSUME Counting, Inv, NEW t \in Thread, FuncReturns(t)
  PROVE  Inv'
<1>1. At(t, "body") /\ (t # Main \/ Len(stack[t]) > 1) /\ Goto(t, "set") /\ UNCHANGED shared
  BY DEF FuncReturns
<1>2. Top(t).at = "body" /\ ~At(t, "loop") /\ ~At(t, "notify")
  BY <1>1, OnePlace
<1>3. Len(stack[t]) # 1 /\ SameSide(Top(t), "set")
  <2>1. Len(stack[t]) = 1 => "body" \in BaseLabel(t)
    BY <1>2, TopKnown
  <2>2. t # Main => Len(stack[t]) # 1
    BY Zenon, <2>1 DEF BaseLabel
  <2>3. Len(stack[t]) > 1 => Len(stack[t]) # 1
    BY Zenon, TopKnown, TwoOrMore
  <2>4. SameSide(Top(t), "set")
    BY <1>2 DEF SameSide, Over
  <2> QED  BY Zenon, <1>1, <2>2, <2>3, <2>4
<1>4. "set" \in Label \ {"push", "get"} /\ "set" \notin {"start", "print_start", "finish", "print_finish", "ready"}
  BY DEF Label
<1> QED  BY <1>1, <1>2, <1>3, <1>4, LabelStep

\* The destructor has joined every worker.
LEMMA JoinInv ==
  ASSUME Counting, Inv, Join
  PROVE  Inv'
<1>1. At(Main, "join") /\ Goto(Main, "end") /\ UNCHANGED shared /\ Main \in Thread
  BY DEF Join, Thread
<1>2. Top(Main).at = "join" /\ ~At(Main, "loop") /\ ~At(Main, "notify")
  BY <1>1, OnePlace
<1>3. SameSide(Top(Main), "end") /\ "end" \in BaseLabel(Main)
  BY <1>2 DEF SameSide, Over, BaseLabel
<1>4. "end" \in Label \ {"push", "get"} /\ "end" \notin {"start", "print_start", "finish", "print_finish", "ready"}
  BY DEF Label
<1> QED  BY <1>1, <1>2, <1>3, <1>4, LabelStep

\* evaluate returns: to the frame below, or to the end of the future's run.
LEMMA ReturnedInv ==
  ASSUME Counting, Inv, NEW t \in Thread, Top(t).at \in {"resolve", "set"}, At(t, Top(t).at), Returned(t), Idle,
         Top(t).call \in stored', stored' \subseteq Call,
         work_queue' = work_queue, asleep' = asleep, progress' = progress, ~work_done' => ~work_done
  PROVE  Inv'
<1>1. /\ FieldsOK /\ FramesOK /\ BaseOK /\ stack[t] # <<>> /\ Top(t) \in Frames /\ FrameInv(Top(t))
      /\ Len(stack[t]) \in Nat \ {0} /\ made' = made
  BY TopKnown DEF Inv, Idle
<1>2. Len(stack[t]) >= 2
  <2>1. Len(stack[t]) = 1 => Top(t).at \in BaseLabel(t)
    BY TopKnown
  <2>2. Len(stack[t]) # 1
    BY <2>1 DEF BaseLabel
  <2> QED  BY Zenon, <1>1, <2>2, TwoOrMore
<1>3. ~At(t, "loop") /\ ~At(t, "notify")
  BY OnePlace
<1>4. CASE Top(t).fut = 0
  <2> DEFINE m == Len(stack[t]) - 1
  <2>1. Pop(t)
    BY <1>4 DEF Returned
  <2>2. Moves(t) /\ Len(stack'[t]) = m /\ Top(t)' = stack[t][m]
    BY SMTT(20), <1>1, <1>2, <2>1, Popped
  <2>3. m \in 1 .. Len(stack[t]) /\ m \in Nat /\ m >= 1
    BY <1>1, <1>2
  <2>4. Quiet(t, Label) /\ Quiet(t, Begun) /\ Quiet(t, Over)
    BY Zenon, <1>2, <1>4, <2>2 DEF Quiet
  <2>5. FrameInv(Top(t))'
    <3>1. stack[t][m] \in Frames /\ FrameInv(stack[t][m])
      BY Zenon, <1>1, <2>3, SeqElement DEF FieldsOK, FramesOK
    <3>2. PICK fr \in Frames : fr = stack[t][m] /\ FrameInv(fr)
      BY <3>1
    <3>3. FrameInv(fr)'
      BY SMTT(20), <3>2, IdleFrame
    <3> QED  BY Zenon, <2>2, <3>2, <3>3 DEF FrameInv, SeenOK
  <2>6. Len(stack'[t]) >= 1 /\ (Len(stack'[t]) = 1 => Top(t)'.at \in BaseLabel(t))
    BY <1>1, <2>2, <2>3 DEF BaseOK, BaseLabel
  <2>7. Len(stack'[t]) > 1 => Top(t)'.call \in Call
    BY SMTT(20), <1>1, <2>2, <2>3 DEF BaseOK
  <2>8. OthersOK'
    BY <1>1, <1>3, <2>2, OthersKept
  <2> QED  BY Zenon, <2>2, <2>4, <2>5, <2>6, <2>7, <2>8, QuietInv
<1>5. CASE Top(t).fut # 0
  <2>0. PICK fr \in Frames : fr = [Top(t) EXCEPT !.at = "finish"]
    BY Zenon, <1>1 DEF Frames, Label
  <2>1. SetTop(t, fr)
    BY SMTT(20), <1>5, <2>0 DEF Returned, Goto
  <2>2. /\ fr.at = "finish" /\ fr.call = Top(t).call /\ fr.fut = Top(t).fut
        /\ fr.mine = Top(t).mine /\ fr.cur = Top(t).cur /\ fr.seen = Top(t).seen
    BY <1>1, <2>0 DEF Frames
  <2>3. Moves(t)
    BY SMTT(20), <1>1, <2>1, <2>2, Replaced
  <2>4. OthersOK'
    BY SMTT(20), <1>1, <1>3, <2>3, OthersKept
  <2>5. FrameInv(fr)'
    <3>1. PICK old \in Frames : old = Top(t) /\ FrameInv(old)
      BY <1>1
    <3>2. FrameInv(old)'
      BY <3>1, IdleFrame
    <3>3. /\ old.fut = fr.fut /\ old.cur = fr.cur /\ old.mine = fr.mine /\ old.call = fr.call /\ old.seen = fr.seen
          /\ fr.call \in stored' /\ fr.fut # 0
      BY <1>5, <2>2, <3>1
    <3>4. SeenOK(fr)'
      BY Zenon, <3>2, <3>3 DEF FrameInv, SeenOK
    <3>5. /\ fr.fut <= Len(made)' /\ fr.cur <= Len(made)' /\ fr.mine \subseteq 1 .. Len(made)'
          /\ fr.call = made'[fr.fut]
      BY Zenon, <3>2, <3>3 DEF FrameInv
    <3>6. fr.at \notin {"push", "get"}
      BY <2>2
    <3> QED  BY Zenon, <3>3, <3>4, <3>5, <3>6 DEF FrameInv
  <2>6. SameSide(Top(t), fr.at)
    BY Zenon, <2>2 DEF SameSide, Over
  <2>7. Len(stack[t]) # 1
    BY Zenon, <1>1, <1>2, TwoOrMore
  <2>8. Len(stack[t]) = 1 => fr.at \in BaseLabel(t)
    BY Zenon, <2>7
  <2> QED  BY ZenonT(30), <1>1, <2>1, <2>2, <2>4, <2>5, <2>6, <2>8, GoesOn
<1> QED  BY <1>4, <1>5

\* evaluate finds the result, or begins to compute it.
LEMMA ResolveInv ==
  ASSUME Counting, Inv, NEW t \in Thread, Resolve(t)
  PROVE  Inv'
<1>1. Top(t).at = "resolve" /\ At(t, "resolve") /\ UNCHANGED shared
  BY OnePlace DEF Resolve
<1>2. CASE Top(t).call \in stored
  <2>1. Returned(t)
    BY <1>2 DEF Resolve
  <2>2. stored' = stored /\ work_queue' = work_queue /\ asleep' = asleep /\ progress' = progress /\ Idle
    BY <1>1 DEF shared, futureVars, queueVars, printVars, Idle
  <2>3. ~work_done' => ~work_done
    BY Zenon, <1>1 DEF shared, queueVars
  <2>4. Top(t).call \in stored' /\ stored' \subseteq Call
    BY <1>2, <2>2 DEF Inv, FieldsOK
  <2> QED  BY <1>1, <2>1, <2>2, <2>3, <2>4, ReturnedInv
<1>3. CASE Top(t).call \notin stored
  <2>1. Goto(t, "body") /\ ~At(t, "loop") /\ ~At(t, "notify")
    BY <1>1, <1>3, OnePlace DEF Resolve
  <2>2. Len(stack[t]) = 1 => "resolve" \in BaseLabel(t)
    BY <1>1, TopKnown
  <2>3. SameSide(Top(t), "body") /\ Len(stack[t]) # 1
    BY <1>1, <2>2 DEF SameSide, Over, BaseLabel
  <2>4. "body" \in Label \ {"push", "get"} /\ "body" \notin {"start", "print_start", "finish", "print_finish", "ready"}
    BY DEF Label
  <2> QED  BY SMTT(20), <1>1, <2>1, <2>3, <2>4, LabelStep
<1> QED  BY <1>2, <1>3

\* The result is stored.
LEMMA SetResultInv ==
  ASSUME Counting, Inv, NEW t \in Thread, SetResult(t)
  PROVE  Inv'
<1>1. /\ Top(t).at = "set" /\ At(t, "set") /\ Returned(t) /\ stored' = stored \cup {Top(t).call}
      /\ work_queue' = work_queue /\ asleep' = asleep /\ progress' = progress
      /\ made' = made /\ state' = state /\ counters' = counters
  BY OnePlace DEF SetResult, Saved, futureVars, queueVars, printVars
<1>2. ~work_done' => ~work_done
  BY Zenon DEF SetResult, queueVars
<1>3. Idle
  BY <1>1 DEF Idle
<1>4. Top(t).call \in stored' /\ stored' \subseteq Call
  <2>1. Len(stack[t]) = 1 => "set" \in BaseLabel(t)
    BY <1>1, TopKnown
  <2>2. Len(stack[t]) # 1
    BY <2>1 DEF BaseLabel
  <2>3. Top(t).call \in Call
    BY Zenon, <2>2, TopKnown, TwoOrMore
  <2> QED  BY <1>1, <2>3 DEF Inv, FieldsOK
<1> QED  BY <1>1, <1>2, <1>3, <1>4, ReturnedInv

\* A func evaluates a call: a frame for it is put on top.
LEMMA EvaluateInv ==
  ASSUME Counting, Inv, NEW t \in Thread, Evaluate(t)
  PROVE  Inv'
<1> DEFINE n == Len(stack[t])
<1>1. PICK c \in Top(t).subs :
        /\ At(t, "body") /\ UNCHANGED shared
        /\ stack' = [stack EXCEPT ![t] =
             Append([stack[t] EXCEPT ![Len(stack[t])] = [Top(t) EXCEPT !.subs = @ \ {c}]],
                    Frame("resolve", c, 0, SubCalls[c]))]
  BY Zenon DEF Evaluate
<1>2. Top(t) \in Frames /\ n \in Nat \ {0} /\ n \in 1 .. n /\ FieldsOK /\ stack \in [Thread -> Seq(Frames)]
  BY TopKnown DEF Inv, FieldsOK
<1> DEFINE low == [Top(t) EXCEPT !.subs = @ \ {c}]
           new == Frame("resolve", c, 0, SubCalls[c])
           s == [stack[t] EXCEPT ![n] = low]
<1>3. low \in Frames /\ Alike(low, Top(t)) /\ c \in Call
  BY Zenon, <1>2 DEF Frames, Alike
<1>4. /\ new \in Frames /\ new.at = "resolve" /\ new.fut = 0 /\ new.cur = 0 /\ new.mine = {}
      /\ new.seen = <<>> /\ new.call = c
  BY <1>3, PoolAssumption DEF Frame, Frames, Label
<1>5. stack' = [stack EXCEPT ![t] = Append(s, new)]
  BY SMTT(20), <1>1
<1> HIDE DEF low, new
<1>6. s \in Seq(Frames) /\ Len(s) = n /\ \A j \in 1 .. n : s[j] = IF j = n THEN low ELSE stack[t][j]
  BY <1>2, <1>3, SeqReplaced
<1> HIDE DEF s
<1>7. /\ Append(s, new) \in Seq(Frames) /\ Len(Append(s, new)) = n + 1
      /\ \A j \in 1 .. n : Append(s, new)[j] = s[j]
      /\ Append(s, new)[n + 1] = new
  BY SMTT(20), <1>4, <1>6, SeqAppended
<1>8. /\ stack' \in [Thread -> Seq(Frames)] /\ \A u \in Thread : u # t => stack'[u] = stack[u]
      /\ stack'[t] = Append(s, new)
  BY <1>2, <1>5, <1>7
<1>9. \A i \in 1 .. n : Alike(stack'[t][i], stack[t][i])
  <2> SUFFICES ASSUME NEW i \in 1 .. n PROVE Alike(stack'[t][i], stack[t][i])
    OBVIOUS
  <2>1. stack'[t][i] = IF i = n THEN low ELSE stack[t][i]
    BY SMTT(20), <1>6, <1>7, <1>8
  <2>2. CASE i = n
    BY <1>3, <2>1, <2>2 DEF Top
  <2>3. CASE i # n
    BY <2>1, <2>3 DEF Alike
  <2> QED  BY <2>2, <2>3
<1>10. Len(stack'[t]) = n + 1 /\ Top(t)' = new
  BY <1>7, <1>8 DEF Top
<1>11. Moves(t)
  <2>1. \A i \in 1 .. Len(stack'[t]) - 1 : i \in 1 .. n /\ i <= n
    BY <1>2, <1>10
  <2>2. Len(stack'[t]) <= n + 1
    BY SMTT(20), <1>2, <1>10
  <2> QED  BY Zenon, <1>8, <1>9, <2>1, <2>2 DEF Moves
<1>12. Quiet(t, Label) /\ Quiet(t, Begun) /\ Quiet(t, Over)
  BY SMTT(20), <1>4, <1>10 DEF Quiet
<1>13. /\ stored' = stored /\ made' = made /\ work_queue' = work_queue /\ asleep' = asleep
       /\ progress' = progress /\ Idle
  BY Zenon, <1>1 DEF shared, futureVars, queueVars, printVars, Idle
<1>14. ~work_done' => ~work_done
  BY Zenon, <1>1 DEF shared, queueVars
<1>15. OthersOK'
  <2>1. ~At(t, "loop") /\ ~At(t, "notify")
    BY Zenon, <1>1, OnePlace
  <2>2. stored' \subseteq Call
    BY SMTT(20), <1>2, <1>13 DEF FieldsOK
  <2> QED  BY SMTT(20), <1>11, <1>13, <1>14, <2>1, <2>2, OthersKept
<1>16. FrameInv(Top(t))'
  <2>1. Len(made') \in Nat
    BY SMTT(20), <1>2, <1>13 DEF FieldsOK
  <2>2. /\ Top(t)'.at = "resolve" /\ Top(t)'.fut = 0 /\ Top(t)'.cur = 0 /\ Top(t)'.mine = {}
        /\ Top(t)'.seen = <<>>
    BY <1>4, <1>10
  <2> QED  BY <2>1, <2>2 DEF FrameInv, SeenOK
<1>17. Len(stack'[t]) >= 1 /\ Len(stack'[t]) # 1 /\ Top(t)'.call \in Call
  BY SMTT(20), <1>2, <1>3, <1>4, <1>10
<1> QED  BY ZenonT(60), <1>11, <1>12, <1>13, <1>15, <1>16, <1>17, QuietInv

-----------------------------------------------------------------------------
(* printProgress *)

\* Before the fourth there are three.
LEMMA BelowThree == \A n \in Nat : n < 3 => n \in {0, 1, 2}
  OBVIOUS

\* At every moment, no more calls are finished than started nor started than queued.
LEMMA InOrder ==
  ASSUME Counting, Inv
  PROVE  num_finished <= num_started /\ num_started <= num_queued
<1>1. Len(made) \in Nat /\ IsFiniteSet(1 .. Len(made)) /\ Cardinality(1 .. Len(made)) = Len(made)
  <2>1. Len(made) \in Nat
    BY DEF Inv, FieldsOK
  <2> QED  BY Zenon, <2>1, SmallSets
<1>2. Over \subseteq Begun
  BY DEF Over, Begun, Label
<1>3. Counted(Over) \subseteq Counted(Begun) /\ Counted(Begun) \subseteq 1 .. Len(made)
  BY <1>2 DEF Counted
<1>4. IsFiniteSet(Counted(Begun)) /\ Cardinality(Counted(Begun)) <= Len(made)
  BY <1>1, <1>3, FinitePart
<1>5. Cardinality(Counted(Over)) <= Cardinality(Counted(Begun))
  BY <1>3, <1>4, FinitePart
<1> QED  BY <1>4, <1>5 DEF Inv, CountsOK

\* The next counter is loaded: it is no less than the one loaded before.
LEMMA LoadInv ==
  ASSUME Counting, Inv, NEW t \in Thread, Load(t)
  PROVE  Inv'
<1> DEFINE seen == Top(t).seen
           k == Len(seen)
           v == LoadOrder[k + 1]
<1>1. /\ Reporting(t) /\ k < 3 /\ SetTop(t, [Top(t) EXCEPT !.seen = Append(seen, v)])
      /\ stored' = stored /\ made' = made /\ state' = state /\ counters' = counters
      /\ work_queue' = work_queue /\ asleep' = asleep /\ progress' = progress
  BY DEF Load, futureVars, queueVars
<1>2. ~work_done' => ~work_done
  BY Zenon DEF Load, queueVars
<1>3. /\ FieldsOK /\ stack[t] # <<>> /\ Top(t) \in Frames /\ FrameInv(Top(t)) /\ Len(stack[t]) \in Nat \ {0}
      /\ Len(stack[t]) = 1 => Top(t).at \in BaseLabel(t)
  BY SMTT(20), TopKnown DEF Inv
<1>4. /\ num_finished \in Nat /\ num_started \in Nat /\ num_queued \in Nat
      /\ num_finished <= num_started /\ num_started <= num_queued
  BY <1>3, InOrder DEF FieldsOK
<1>5. seen \in Seq(Nat) /\ k \in Nat /\ \A i \in 1 .. k : seen[i] \in Nat
  <2>1. seen \in Seq(Nat)
    BY <1>3 DEF Frames
  <2> QED  BY SMTT(20), <2>1, SeqElement
<1>k. k \in {0, 1, 2}
  BY Zenon, <1>1, <1>5, BelowThree
<1>6. /\ v \in Nat /\ (k = 0 => v = num_finished) /\ (k = 1 => v = num_started) /\ (k = 2 => v = num_queued)
  <2>1. LoadOrder[0 + 1] = num_finished /\ LoadOrder[1 + 1] = num_started /\ LoadOrder[2 + 1] = num_queued
    BY SMTT(20) DEF LoadOrder
  <2> HIDE DEF k
  <2> QED  BY <1>4, <1>k, <2>1
<1> HIDE DEF v
<1>7. /\ Append(seen, v) \in Seq(Nat) /\ Len(Append(seen, v)) = k + 1
      /\ \A i \in 1 .. k : Append(seen, v)[i] = seen[i]
      /\ Append(seen, v)[k + 1] = v
  BY <1>5, <1>6, SeqAppended
<1>8. PICK fr \in Frames : fr = [Top(t) EXCEPT !.seen = Append(seen, v)]
  BY Zenon, <1>3, <1>7 DEF Frames
<1>9. /\ fr.at = Top(t).at /\ fr.call = Top(t).call /\ fr.fut = Top(t).fut /\ fr.cur = Top(t).cur
      /\ fr.mine = Top(t).mine /\ fr.seen = Append(seen, v)
  BY <1>3, <1>8 DEF Frames
<1>10. SeenOK(fr)
  <2>1. SeenOK(Top(t))
    BY SMTT(20), <1>3 DEF FrameInv
  <2>2. CASE k = 0
    BY SMTT(20), <1>4, <1>6, <1>7, <1>9, <2>2 DEF SeenOK
  <2>3. CASE k = 1
    <3>1. seen[1] \in Nat /\ seen[1] <= num_started
      BY SMTT(20), <1>5, <2>1, <2>3 DEF SeenOK
    <3>2. Len(fr.seen) = 2 /\ fr.seen[1] = seen[1] /\ fr.seen[2] = num_started
      BY <1>6, <1>7, <1>9, <2>3
    <3> QED  BY <1>4, <3>1, <3>2 DEF SeenOK
  <2>4. CASE k = 2
    <3>1. seen[1] \in Nat /\ seen[2] \in Nat /\ seen[1] <= num_started /\ seen[1] <= seen[2] /\ seen[2] <= num_queued
      BY SMTT(20), <1>5, <2>1, <2>4 DEF SeenOK
    <3>2. Len(fr.seen) = 3 /\ fr.seen[1] = seen[1] /\ fr.seen[2] = seen[2] /\ fr.seen[3] = num_queued
      BY SMTT(20), <1>6, <1>7, <1>9, <2>4
    <3> QED  BY SMTT(20), <1>4, <3>1, <3>2 DEF SeenOK
  <2> QED  BY Zenon, <1>k, <2>2, <2>3, <2>4
<1>11. FrameInv(fr)
  BY Zenon, <1>3, <1>9, <1>10 DEF FrameInv
<1>12. Idle /\ SetTop(t, fr)
  BY <1>1, <1>8 DEF Idle
<1>13. FrameInv(fr)'
  BY <1>11, <1>12, IdleFrame
<1>14. Moves(t)
  BY Zenon, <1>3, <1>12, Replaced
<1>15. OthersOK'
  <2>1. ~At(t, "loop") /\ ~At(t, "notify")
    BY <1>1, OnePlace DEF Reporting
  <2>2. stored' \subseteq Call
    BY <1>1, <1>3 DEF FieldsOK
  <2> QED  BY Zenon, <1>1, <1>2, <1>14, <2>1, <2>2, OthersKept
<1>16. SameSide(Top(t), fr.at)
  BY Zenon, <1>9 DEF SameSide, Over
<1> QED  BY ZenonT(30), <1>3, <1>9, <1>12, <1>13, <1>15, <1>16, GoesOn

\* What was loaded is printed.
LEMMA ShowProgressInv ==
  ASSUME Counting, Inv, NEW t \in Thread, ShowProgress(t)
  PROVE  Inv'
<1> DEFINE seen == Top(t).seen
           x == AfterReport(t)
<1>1. /\ Reporting(t) /\ Len(seen) = 3 /\ SetTop(t, [Top(t) EXCEPT !.seen = <<>>, !.at = x])
      /\ progress' = <<seen[3] - seen[2], seen[2] - seen[1], seen[1]>>
      /\ stored' = stored /\ made' = made /\ state' = state /\ counters' = counters
      /\ work_queue' = work_queue /\ asleep' = asleep
  BY DEF ShowProgress, futureVars, queueVars
<1>2. ~work_done' => ~work_done
  BY Zenon DEF ShowProgress, queueVars
<1>3. /\ FieldsOK /\ stack[t] # <<>> /\ Top(t) \in Frames /\ FrameInv(Top(t)) /\ Len(stack[t]) \in Nat \ {0}
      /\ Len(stack[t]) = 1 => Top(t).at \in BaseLabel(t)
  BY TopKnown DEF Inv
<1>4. NoNegativeProgress'
  <2>1. seen \in Seq(Nat)
    BY <1>3 DEF Frames
  <2>2. seen[1] \in Nat /\ seen[2] \in Nat /\ seen[3] \in Nat
    <3>1. \A i \in 1 .. 3 : seen[i] \in Nat
      BY Zenon, <1>1, <2>1, SeqElement
    <3> HIDE DEF seen
    <3> QED  BY <3>1
  <2>3. seen[1] <= seen[2] /\ seen[2] <= seen[3]
    BY <1>1, <1>3 DEF FrameInv, SeenOK
  <2> QED  BY <1>1, <2>2, <2>3 DEF NoNegativeProgress
<1>5. \/ Top(t).at = "print_start" /\ x = "resolve"
      \/ Top(t).at = "print_finish" /\ x = "ready"
  BY <1>1, OnePlace DEF Reporting, AfterReport
<1>6. PICK fr \in Frames : fr = [Top(t) EXCEPT !.seen = <<>>, !.at = x]
  <2>1. x \in Label /\ <<>> \in Seq(Nat)
    BY <1>5 DEF Label
  <2> HIDE DEF x
  <2> QED  BY Zenon, <1>3, <2>1 DEF Frames
<1> HIDE DEF x
<1>7. /\ fr.at = x /\ fr.call = Top(t).call /\ fr.fut = Top(t).fut /\ fr.cur = Top(t).cur
      /\ fr.mine = Top(t).mine /\ fr.seen = <<>>
  BY <1>3, <1>6 DEF Frames
<1>8. FrameInv(fr)
  <2>1. SeenOK(fr)
    BY SMTT(20), <1>7 DEF SeenOK
  <2>2. x \notin {"push", "get"} /\ Top(t).fut # 0 /\ (x = "ready" => Top(t).call \in stored)
        /\ x \notin {"finish", "print_finish"}
    BY <1>3, <1>5 DEF FrameInv
  <2> QED  BY Zenon, <1>3, <1>7, <2>1, <2>2 DEF FrameInv
<1>9. Idle /\ SetTop(t, fr)
  BY SMTT(20), <1>1, <1>6 DEF Idle
<1>10. FrameInv(fr)'
  BY <1>8, <1>9, IdleFrame
<1>11. Moves(t)
  BY Zenon, <1>3, <1>9, Replaced
<1>12. OthersOK'
  <2>1. ~At(t, "loop") /\ ~At(t, "notify")
    BY SMTT(20), <1>1, OnePlace DEF Reporting
  <2>2. AsleepOK' /\ NoLostWakeup'
    BY Zenon, <1>1, <1>2, <1>11, <2>1, WakeupsKept DEF Inv
  <2> QED  BY Zenon, <1>1, <1>3, <1>4, <2>2 DEF OthersOK, FieldsOK
<1>13. SameSide(Top(t), fr.at) /\ (Len(stack[t]) = 1 => fr.at \in BaseLabel(t))
  BY SMTT(20), <1>3, <1>5, <1>7 DEF SameSide, Over, BaseLabel
<1> QED  BY ZenonT(30), <1>3, <1>7, <1>9, <1>10, <1>12, <1>13, GoesOn

-----------------------------------------------------------------------------
(* The queue and work_cv *)

\* The top frame goes to another label while others are queued, woken or told to stop.
LEMMA GoesTo ==
  ASSUME Inv, Idle, OthersOK', NEW t \in Thread,
         NEW x \in Label \ {"push", "get", "start", "print_start", "finish", "print_finish", "ready"},
         Goto(t, x), SameSide(Top(t), x), Len(stack[t]) = 1 => x \in BaseLabel(t)
  PROVE  Inv'
<1>1. stack[t] # <<>> /\ Top(t) \in Frames
  BY TopKnown
<1>2. [Top(t) EXCEPT !.at = x] \in Frames /\ FrameInv([Top(t) EXCEPT !.at = x])
  BY Zenon, <1>1, Relabelled
<1>3. PICK fr \in Frames : fr = [Top(t) EXCEPT !.at = x]
  BY <1>2
<1>4. fr.at = x /\ fr.call = Top(t).call /\ fr.fut = Top(t).fut
  BY <1>1, <1>3 DEF Frames
<1>5. SetTop(t, fr) /\ FrameInv(fr)
  BY <1>2, <1>3 DEF Goto
<1>6. FrameInv(fr)'
  BY <1>5, IdleFrame
<1>7. SameSide(Top(t), fr.at) /\ (Len(stack[t]) = 1 => fr.at \in BaseLabel(t))
  BY Zenon, <1>4
<1> QED  BY ZenonT(30), <1>1, <1>4, <1>5, <1>6, <1>7, GoesOn

\* The stacks stay.
LEMMA StacksStay ==
  ASSUME Inv, stack' = stack, stored' = stored, made' = made, state' = state, counters' = counters, OthersOK'
  PROVE  Inv'
<1>1. num_queued' = num_queued /\ num_started' = num_started /\ num_finished' = num_finished
  BY DEF counters
<1>2. FieldsOK'
  BY SMTT(20), <1>1 DEF Inv, FieldsOK, OthersOK
<1>3. FramesOK'
  <2> SUFFICES ASSUME NEW t \in Thread, NEW i \in 1 .. Len(stack[t]) PROVE FrameInv(stack[t][i])'
    BY DEF FramesOK
  <2>1. FrameInv(stack[t][i])
    BY DEF Inv, FramesOK
  <2> QED  BY Zenon, <1>1, <2>1 DEF FrameInv, SeenOK
<1>4. BaseOK'
  BY DEF Inv, BaseOK
<1>5. RunnersOK'
  <2>1. RunnersOK
    BY DEF Inv
  <2>2. \A f, t, i : Run(t, i, f)' <=> Run(t, i, f)
    BY Zenon DEF Run
  <2> QED  BY <2>1, <2>2 DEF RunnersOK
<1>6. CountsOK'
  BY Zenon, <1>1 DEF Inv, CountsOK, Counted, Run
<1> QED  BY Zenon, <1>2, <1>3, <1>4, <1>5, <1>6 DEF Inv, OthersOK

\* NoLostWakeup and AsleepOK speak of these.
LEMMA InvWakeups ==
  ASSUME Counting, Inv
  PROVE  /\ FieldsOK /\ Len(work_queue) \in Nat /\ nLooking \in Nat /\ nNotifying \in Nat
         /\ asleep # {} /\ ~work_done => Len(work_queue) <= nLooking + nNotifying
         /\ \A w \in asleep : w \in Worker /\ w \in Thread /\ At(w, "loop")
<1>1. FieldsOK /\ AsleepOK /\ NoLostWakeup
  BY DEF Inv
<1>2. Len(work_queue) \in Nat
  BY <1>1 DEF FieldsOK
<1> QED  BY Zenon, <1>1, <1>2, AllFinite DEF NoLostWakeup, nLooking, nNotifying, AsleepOK, FieldsOK, Thread

\* What the other parts of OthersOK come from.
LEMMA OthersFrom ==
  ASSUME Inv, stored' = stored, made' = made, progress' = progress, asleep' \subseteq Worker,
         work_queue' \in Seq(Nat), \A i \in 1 .. Len(work_queue') : work_queue'[i] \in 1 .. Len(made),
         \A w \in asleep' : At(w, "loop")',
         asleep' # {} /\ ~work_done' => Len(work_queue') <= nLooking' + nNotifying'
  PROVE  OthersOK'
<1>1. NoNegativeProgress' /\ stored' \subseteq Call
  BY DEF Inv, NoNegativeProgress, FieldsOK
<1>2. AsleepOK' /\ NoLostWakeup'
  BY Zenon DEF AsleepOK, NoLostWakeup, nLooking, nNotifying
<1> QED  BY Zenon, <1>1, <1>2 DEF OthersOK

\* A worker finds the queue empty and sleeps.
LEMMA WorkerSleepsInv ==
  ASSUME Counting, Inv, NEW w \in Worker, WorkerSleeps(w)
  PROVE  Inv'
<1>1. /\ At(w, "loop") /\ work_queue = <<>> /\ asleep' = asleep \cup {w} /\ stack' = stack
      /\ stored' = stored /\ made' = made /\ state' = state /\ counters' = counters
      /\ work_queue' = work_queue /\ progress' = progress
  BY DEF WorkerSleeps, futureVars, printVars
<1>2. \A v \in asleep' : At(v, "loop")'
  BY Zenon, <1>1, InvWakeups DEF At, Top
<1>3. asleep' \subseteq Worker /\ work_queue' \in Seq(Nat) /\ \A i \in 1 .. Len(work_queue') : work_queue'[i] \in 1 .. Len(made)
  BY <1>1 DEF Inv, FieldsOK
<1>4. nLooking' \in Nat /\ nNotifying' \in Nat
  <2>1. Looking' \subseteq Thread /\ Notifying' \subseteq Thread
    BY DEF Looking, Notifying, Thread
  <2>2. IsFiniteSet(Looking') /\ IsFiniteSet(Notifying')
    BY SMTT(20), <2>1, AllFinite, FinitePart
  <2> QED  BY <2>2, FiniteCount DEF nLooking, nNotifying
<1>5. Len(work_queue') <= nLooking' + nNotifying'
  <2>1. Len(work_queue') = 0
    BY SMTT(20), <1>1
  <2> QED  BY Zenon, <1>4, <2>1, NoneAtMost
<1>6. OthersOK'
  BY Zenon, <1>1, <1>2, <1>3, <1>5, OthersFrom
<1> QED  BY <1>1, <1>6, StacksStay

\* A worker wakes up for no reason: one more looks at the queue.
LEMMA SpuriousWakeupInv ==
  ASSUME Counting, Inv, NEW w \in Worker, SpuriousWakeup(w)
  PROVE  Inv'
<1>1. /\ w \in asleep /\ asleep' = asleep \ {w} /\ stack' = stack
      /\ stored' = stored /\ made' = made /\ state' = state /\ counters' = counters
      /\ work_queue' = work_queue /\ progress' = progress
  BY DEF SpuriousWakeup, futureVars, printVars
<1>2. ~work_done' => ~work_done
  BY Zenon DEF SpuriousWakeup
<1>3. \A v \in asleep' : At(v, "loop")'
  BY Zenon, <1>1, InvWakeups DEF At, Top
<1>4. asleep' \subseteq Worker /\ work_queue' \in Seq(Nat) /\ \A i \in 1 .. Len(work_queue') : work_queue'[i] \in 1 .. Len(made)
  BY <1>1 DEF Inv, FieldsOK
<1>5. \A x : x # w => (x \in Looking' <=> x \in Looking)
  BY Zenon, <1>1 DEF Looking, At, Top
<1>6. w \notin Looking /\ Notifying' = Notifying
  BY SMTT(20), <1>1 DEF Looking, Notifying, At, Top
<1>7. nLooking' \in Nat /\ nLooking <= nLooking' /\ nNotifying' = nNotifying
  BY Zenon, <1>5, <1>6, AllFinite, OneGained DEF nLooking, nNotifying
<1>8. asleep' # {} /\ ~work_done' => Len(work_queue') <= nLooking' + nNotifying'
  <2>1. asleep' # {} /\ ~work_done' => Len(work_queue) <= nLooking + nNotifying
    BY Zenon, <1>1, <1>2, InvWakeups
  <2> QED  BY SMTT(20), <1>1, <1>7, <2>1, InvWakeups
<1>9. OthersOK'
  BY Zenon, <1>1, <1>3, <1>4, <1>8, OthersFrom
<1> QED  BY <1>1, <1>9, StacksStay

\* Sleepers other than the thread that moves sleep on.
LEMMA SleepersStay ==
  ASSUME Counting, Inv, NEW t \in Thread, Moves(t), asleep' \subseteq asleep, t \notin asleep'
  PROVE  \A w \in asleep' : At(w, "loop")'
BY Zenon, InvWakeups, OthersStay

\* A worker leaves its loop.
LEMMA WorkerLeavesInv ==
  ASSUME Counting, Inv, NEW w \in Worker, WorkerLeaves(w)
  PROVE  Inv'
<1>1. /\ At(w, "loop") /\ w \notin asleep /\ Goto(w, "end") /\ w \in Thread /\ w # Main
      /\ stored' = stored /\ made' = made /\ state' = state /\ counters' = counters
      /\ work_queue' = work_queue /\ progress' = progress /\ asleep' = asleep
  BY PoolAssumption DEF WorkerLeaves, Thread, shared, futureVars, queueVars, printVars
<1>2. ~(~work_done')
  BY Zenon DEF WorkerLeaves, shared, queueVars
<1>3. Idle
  BY SMTT(20), <1>1 DEF Idle
<1>4. Top(w).at = "loop" /\ stack[w] # <<>> /\ Top(w) \in Frames /\ FieldsOK
  BY SMTT(20), <1>1, OnePlace, TopKnown DEF Inv
<1>5. Moves(w)
  <2>1. PICK fr \in Frames : fr = [Top(w) EXCEPT !.at = "end"]
    BY Zenon, <1>4 DEF Frames, Label
  <2>2. SetTop(w, fr)
    BY <1>1, <2>1 DEF Goto
  <2> QED  BY Zenon, <1>1, <1>4, <2>2, Replaced
<1>6. \A v \in asleep' : At(v, "loop")'
  BY Zenon, <1>1, <1>5, SleepersStay
<1>7. asleep' \subseteq Worker /\ work_queue' \in Seq(Nat) /\ \A i \in 1 .. Len(work_queue') : work_queue'[i] \in 1 .. Len(made)
  BY <1>1, <1>4 DEF FieldsOK
<1>8. OthersOK'
  BY Zenon, <1>1, <1>2, <1>6, <1>7, OthersFrom
<1>9. SameSide(Top(w), "end") /\ "end" \in BaseLabel(w)
  BY SMTT(20), <1>1, <1>4 DEF SameSide, Over, BaseLabel
<1>10. "end" \in Label \ {"push", "get", "start", "print_start", "finish", "print_finish", "ready"}
  BY DEF Label
<1> QED  BY SMTT(20), <1>1, <1>3, <1>8, <1>9, <1>10, GoesTo

\* The destructor tells the workers to stop.
LEMMA DestroyInv ==
  ASSUME Counting, Inv, Destroy
  PROVE  Inv'
<1>1. /\ At(Main, "body") /\ Goto(Main, "notify_all") /\ Main \in Thread
      /\ stored' = stored /\ made' = made /\ state' = state /\ counters' = counters
      /\ work_queue' = work_queue /\ progress' = progress /\ asleep' = asleep
  BY DEF Destroy, Thread, futureVars, printVars
<1>2. ~work_done' => ~work_done
  BY Zenon DEF Destroy
<1>3. Idle
  BY SMTT(20), <1>1 DEF Idle
<1>4. Top(Main).at = "body" /\ stack[Main] # <<>> /\ Top(Main) \in Frames /\ FieldsOK
  BY <1>1, OnePlace, TopKnown DEF Inv
<1>5. Moves(Main)
  <2>1. PICK fr \in Frames : fr = [Top(Main) EXCEPT !.at = "notify_all"]
    BY Zenon, <1>4 DEF Frames, Label
  <2>2. SetTop(Main, fr)
    BY SMTT(20), <1>1, <2>1 DEF Goto
  <2> QED  BY Zenon, <1>1, <1>4, <2>2, Replaced
<1>6. OthersOK'
  <2>1. ~At(Main, "loop") /\ ~At(Main, "notify")
    BY SMTT(20), <1>1, OnePlace
  <2>2. stored' \subseteq Call
    BY <1>1, <1>4 DEF FieldsOK
  <2> QED  BY Zenon, <1>1, <1>2, <1>5, <2>1, <2>2, OthersKept
<1>7. SameSide(Top(Main), "notify_all") /\ "notify_all" \in BaseLabel(Main)
  BY <1>4 DEF SameSide, Over, BaseLabel
<1>8. "notify_all" \in Label \ {"push", "get", "start", "print_start", "finish", "print_finish", "ready"}
  BY DEF Label
<1> QED  BY SMTT(20), <1>1, <1>3, <1>6, <1>7, <1>8, GoesTo

\* The destructor wakes them all.
LEMMA NotifyAllInv ==
  ASSUME Inv, NotifyAll
  PROVE  Inv'
<1>1. /\ At(Main, "notify_all") /\ Goto(Main, "join") /\ Main \in Thread
      /\ stored' = stored /\ made' = made /\ state' = state /\ counters' = counters
      /\ work_queue' = work_queue /\ progress' = progress /\ asleep' = {}
  BY DEF NotifyAll, Notified, Thread, futureVars, printVars
<1>2. Idle
  BY <1>1 DEF Idle
<1>3. Top(Main).at = "notify_all"
  BY SMTT(20), <1>1, OnePlace
<1>4. asleep' \subseteq Worker /\ work_queue' \in Seq(Nat) /\ \A i \in 1 .. Len(work_queue') : work_queue'[i] \in 1 .. Len(made)
  BY <1>1 DEF Inv, FieldsOK
<1>5. OthersOK'
  BY Zenon, <1>1, <1>4, OthersFrom
<1>6. SameSide(Top(Main), "join") /\ "join" \in BaseLabel(Main)
  BY <1>3 DEF SameSide, Over, BaseLabel
<1>7. "join" \in Label \ {"push", "get", "start", "print_start", "finish", "print_finish", "ready"}
  BY SMTT(20) DEF Label
<1> QED  BY SMTT(20), <1>1, <1>2, <1>5, <1>6, <1>7, GoesTo

\* notify_one: there is one thread less to notify, and one more looks at the queue.
LEMMA NotifyOneInv ==
  ASSUME Counting, Inv, NEW t \in Thread, NotifyOne(t)
  PROVE  Inv'
<1>1. /\ At(t, "notify") /\ Goto(t, "body") /\ asleep' \in Woken
      /\ stored' = stored /\ made' = made /\ state' = state /\ counters' = counters
      /\ work_queue' = work_queue /\ progress' = progress
  BY DEF NotifyOne, futureVars, printVars
<1>2. ~work_done' => ~work_done
  BY Zenon DEF NotifyOne
<1>3. Idle
  BY SMTT(20), <1>1 DEF Idle
<1>4. /\ Top(t).at = "notify" /\ stack[t] # <<>> /\ Top(t) \in Frames /\ FieldsOK /\ ~At(t, "loop")
      /\ Len(stack[t]) = 1 => Top(t).at \in BaseLabel(t)
  BY SMTT(20), <1>1, OnePlace, TopKnown DEF Inv
<1>5. Moves(t) /\ ~At(t, "notify")' /\ ~At(t, "loop")'
  <2>1. PICK fr \in Frames : fr = [Top(t) EXCEPT !.at = "body"]
    BY Zenon, <1>4 DEF Frames, Label
  <2>2. SetTop(t, fr) /\ fr.at = "body"
    BY SMTT(20), <1>1, <1>4, <2>1 DEF Goto, Frames
  <2>3. Moves(t) /\ Top(t)' = fr
    BY Zenon, <1>4, <2>2, Replaced
  <2> QED  BY SMTT(20), <2>2, <2>3 DEF At
<1>6. asleep' \subseteq asleep /\ t \notin asleep'
  BY SMTT(20), <1>1, <1>4, InvWakeups DEF Woken
<1>7. \A v \in asleep' : At(v, "loop")'
  BY Zenon, <1>5, <1>6, SleepersStay
<1>8. asleep' \subseteq Worker /\ work_queue' \in Seq(Nat) /\ \A i \in 1 .. Len(work_queue') : work_queue'[i] \in 1 .. Len(made)
  BY SMTT(20), <1>1, <1>4, <1>6 DEF FieldsOK
<1>9. asleep' # {} /\ ~work_done' => Len(work_queue') <= nLooking' + nNotifying'
  <2>1. SUFFICES ASSUME asleep' # {}, ~work_done' PROVE Len(work_queue) <= nLooking' + nNotifying'
    BY SMTT(20), <1>1
  <2>2. PICK w \in asleep : asleep' = asleep \ {w}
    BY <1>1, <2>1 DEF Woken
  <2>3. w \in Worker /\ w \in Thread /\ At(w, "loop") /\ w # t
    BY SMTT(20), <1>4, InvWakeups
  <2>4. \A x : x # w => (x \in Looking' <=> x \in Looking)
    BY ZenonT(60), <1>4, <1>5, <2>2, OthersStay DEF Looking, Thread
  <2>5. w \notin Looking /\ w \in Looking'
    <3>1. At(w, "loop")'
      BY Zenon, <1>5, <2>3, OthersStay
    <3> QED  BY <2>2, <2>3, <3>1 DEF Looking
  <2>6. nLooking' \in Nat /\ nLooking' = nLooking + 1
    BY Zenon, <2>4, <2>5, AllFinite, OneGained DEF nLooking
  <2>7. \A x : x # t => (x \in Notifying <=> x \in Notifying')
    BY Zenon, <1>5, OthersStay DEF Notifying
  <2>8. t \in Notifying /\ t \notin Notifying'
    BY <1>1, <1>5 DEF Notifying
  <2>9. nNotifying' \in Nat /\ nNotifying = nNotifying' + 1
    <3>1. Notifying' \subseteq Thread
      BY SMTT(20) DEF Notifying
    <3>2. IsFiniteSet(Notifying')
      BY <3>1, AllFinite, FinitePart
    <3>3. nNotifying' \in Nat
      BY SMTT(20), <3>2, FiniteCount DEF nNotifying
    <3> QED  BY Zenon, <2>7, <2>8, <3>2, <3>3, OneGained DEF nNotifying
  <2>10. Len(work_queue) \in Nat /\ nLooking \in Nat /\ nNotifying \in Nat /\ Len(work_queue) <= nLooking + nNotifying
    BY Zenon, <1>2, <2>1, <2>2, InvWakeups
  <2> QED  BY Zenon, <2>6, <2>9, <2>10, OneWoken
<1>10. OthersOK'
  BY Zenon, <1>1, <1>7, <1>8, <1>9, OthersFrom
<1>11. SameSide(Top(t), "body") /\ (Len(stack[t]) = 1 => "body" \in BaseLabel(t))
  BY <1>4 DEF SameSide, Over, BaseLabel
<1>12. "body" \in Label \ {"push", "get", "start", "print_start", "finish", "print_finish", "ready"}
  BY DEF Label
<1> QED  BY SMTT(20), <1>1, <1>3, <1>10, <1>11, <1>12, GoesTo

\* A worker takes the first future: one looks less, and one future less is queued.
LEMMA WorkerTakesInv ==
  ASSUME Counting, Inv, NEW w \in Worker, WorkerTakes(w)
  PROVE  Inv'
<1> DEFINE f == Head(work_queue)
<1>1. /\ At(w, "loop") /\ w \notin asleep /\ work_queue # <<>> /\ work_queue' = Tail(work_queue)
      /\ SetTop(w, [Top(w) EXCEPT !.at = "get", !.cur = f])
      /\ w \in Thread /\ w # Main
      /\ stored' = stored /\ made' = made /\ state' = state /\ counters' = counters
      /\ progress' = progress /\ asleep' = asleep
  BY PoolAssumption DEF WorkerTakes, Thread, futureVars, printVars
<1>2. ~work_done' => ~work_done
  BY Zenon DEF WorkerTakes
<1>3. Idle
  BY SMTT(20), <1>1 DEF Idle
<1>4. /\ Top(w).at = "loop" /\ stack[w] # <<>> /\ Top(w) \in Frames /\ FrameInv(Top(w)) /\ FieldsOK
      /\ Len(made) \in Nat
  BY <1>1, OnePlace, TopKnown DEF Inv, FieldsOK
<1>5. /\ f \in 1 .. Len(made) /\ work_queue' \in Seq(Nat) /\ Len(work_queue') + 1 = Len(work_queue)
      /\ \A i \in 1 .. Len(work_queue') : work_queue'[i] \in 1 .. Len(made)
  <2>1. work_queue \in Seq(Nat) /\ \A i \in 1 .. Len(work_queue) : work_queue[i] \in 1 .. Len(made)
    BY <1>4 DEF FieldsOK
  <2>2. work_queue \in Seq(1 .. Len(made))
    BY <2>1
  <2>3. f \in 1 .. Len(made) /\ Tail(work_queue) \in Seq(1 .. Len(made)) /\ Len(Tail(work_queue)) = Len(work_queue) - 1
    BY SMTT(20), <1>1, <2>2, SeqRest
  <2>4. Tail(work_queue) \in Seq(Nat)
    BY <1>4, <2>3, SeqWider
  <2>5. \A i \in 1 .. Len(Tail(work_queue)) : Tail(work_queue)[i] \in 1 .. Len(made)
    BY Zenon, <2>3, SeqElement
  <2> QED  BY SMTT(20), <1>1, <2>1, <2>3, <2>4, <2>5
<1> HIDE DEF f
<1>6. PICK fr \in Frames : fr = [Top(w) EXCEPT !.at = "get", !.cur = f]
  <2>1. f \in Nat /\ "get" \in Label
    BY SMTT(20), <1>4, <1>5 DEF Label
  <2>2. [Top(w) EXCEPT !.at = "get", !.cur = f] \in Frames
    BY Zenon, <1>4, <2>1 DEF Frames
  <2> QED  BY Zenon, <2>2
<1>7. /\ fr.at = "get" /\ fr.call = Top(w).call /\ fr.fut = Top(w).fut /\ fr.cur = f
      /\ fr.mine = Top(w).mine /\ fr.seen = Top(w).seen
  BY <1>4, <1>6 DEF Frames
<1>8. SetTop(w, fr)
  BY <1>1, <1>6
<1>9. Moves(w) /\ Top(w)' = fr
  BY Zenon, <1>1, <1>4, <1>8, Replaced
<1>10. FrameInv(fr)
  <2>1. f # 0 /\ f <= Len(made)
    BY SMTT(20), <1>4, <1>5
  <2>2. fr.at \notin {"start", "print_start", "finish", "print_finish", "ready"}
    BY <1>7
  <2> QED  BY Zenon, <1>4, <1>7, <2>1, <2>2 DEF FrameInv, SeenOK
<1>11. FrameInv(fr)'
  BY SMTT(20), <1>3, <1>10, IdleFrame
<1>12. \A v \in asleep' : At(v, "loop")'
  BY Zenon, <1>1, <1>9, SleepersStay
<1>13. asleep' # {} /\ ~work_done' => Len(work_queue') <= nLooking' + nNotifying'
  <2>1. SUFFICES ASSUME asleep' # {}, ~work_done' PROVE Len(work_queue') <= nLooking' + nNotifying'
    BY SMTT(20)
  <2>2. ~At(w, "loop")'
    BY <1>7, <1>9 DEF At
  <2>3. \A x : x # w => (x \in Looking <=> x \in Looking')
    BY Zenon, <1>1, <1>9, OthersStay DEF Looking, Thread
  <2>4. w \in Looking /\ w \notin Looking'
    BY <1>1, <2>2 DEF Looking
  <2>5. nLooking' \in Nat /\ nLooking = nLooking' + 1
    <3>1. Looking' \subseteq Thread
      BY SMTT(20) DEF Looking, Thread
    <3>2. IsFiniteSet(Looking')
      BY <3>1, AllFinite, FinitePart
    <3>3. nLooking' \in Nat
      BY SMTT(20), <3>2, FiniteCount DEF nLooking
    <3> QED  BY Zenon, <2>3, <2>4, <3>2, <3>3, OneGained DEF nLooking
  <2>6. w \notin Notifying
    BY <1>1, OnePlace DEF Notifying
  <2>7. \A x : x # w => (x \in Notifying' <=> x \in Notifying)
    BY Zenon, <1>9, OthersStay DEF Notifying
  <2>8. nNotifying' \in Nat /\ nNotifying <= nNotifying'
    BY Zenon, <2>6, <2>7, AllFinite, OneGained DEF nNotifying
  <2>9. Len(work_queue) <= nLooking + nNotifying /\ nLooking \in Nat /\ nNotifying \in Nat
    BY Zenon, <1>1, <1>2, <2>1, InvWakeups
  <2>10. Len(work_queue') \in Nat /\ Len(work_queue') + 1 <= nLooking + nNotifying
    <3>1. Len(work_queue') \in Nat
      BY <1>5
    <3>2. Len(work_queue') + 1 = Len(work_queue)
      BY <1>5
    <3> QED  BY Zenon, <2>9, <3>1, <3>2
  <2> QED  BY Zenon, <2>5, <2>8, <2>9, <2>10, OneTaken
<1>14. asleep' \subseteq Worker
  BY SMTT(20), <1>1, <1>4 DEF FieldsOK
<1>15. OthersOK'
  BY Zenon, <1>1, <1>5, <1>12, <1>13, <1>14, OthersFrom
<1>16. SameSide(Top(w), fr.at) /\ fr.at \in BaseLabel(w)
  BY SMTT(20), <1>1, <1>4, <1>7 DEF SameSide, Over, BaseLabel
<1> QED  BY ZenonT(30), <1>1, <1>3, <1>4, <1>7, <1>8, <1>11, <1>15, <1>16, GoesOn

\* work_queue.emplace: one future more is queued, and its maker is about to notify.
LEMMA QueueFutureInv ==
  ASSUME Counting, Inv, NEW t \in Thread, QueueFuture(t)
  PROVE  Inv'
<1> DEFINE x == IF Worker = {} THEN "body" ELSE "notify"
           f == Top(t).cur
<1>1. /\ At(t, "push") /\ SetTop(t, [Top(t) EXCEPT !.mine = @ \cup {f}, !.cur = 0, !.at = x])
      /\ stored' = stored /\ made' = made /\ state' = state /\ counters' = counters
      /\ progress' = progress /\ asleep' = asleep
      /\ work_queue' = IF Worker = {} THEN work_queue ELSE Append(work_queue, f)
  <2>1. CASE Worker = {}
    BY <2>1 DEF QueueFuture, futureVars, printVars
  <2>2. CASE Worker # {}
    BY Zenon, <2>2 DEF QueueFuture, Queued, futureVars, printVars
  <2> QED  BY <2>1, <2>2
<1>2. ~work_done' => ~work_done
  BY Zenon DEF QueueFuture
<1>3. Idle
  BY SMTT(20), <1>1 DEF Idle
<1>4. /\ Top(t).at = "push" /\ stack[t] # <<>> /\ Top(t) \in Frames /\ FrameInv(Top(t)) /\ FieldsOK
      /\ Len(made) \in Nat /\ (Len(stack[t]) = 1 => Top(t).at \in BaseLabel(t))
  BY <1>1, OnePlace, TopKnown DEF Inv, FieldsOK
<1>5. f \in 1 .. Len(made)
  BY <1>4 DEF FrameInv, Frames
<1>6. x \in {"body", "notify"}
  OBVIOUS
<1> HIDE DEF f
<1>7. PICK fr \in Frames : fr = [Top(t) EXCEPT !.mine = @ \cup {f}, !.cur = 0, !.at = x]
  <2> HIDE DEF x
  <2>1. x \in Label
    BY <1>6 DEF Label
  <2>2. f \in Nat
    BY SMTT(20), <1>4, <1>5
  <2>3. [Top(t) EXCEPT !.mine = @ \cup {f}, !.cur = 0, !.at = x] \in Frames
    BY Zenon, <1>4, <2>1, <2>2 DEF Frames
  <2> QED  BY Zenon, <2>3
<1>8. /\ fr.at = x /\ fr.call = Top(t).call /\ fr.fut = Top(t).fut /\ fr.cur = 0
      /\ fr.mine = Top(t).mine \cup {f} /\ fr.seen = Top(t).seen
  BY Zenon, <1>4, <1>7 DEF Frames
<1>9. SetTop(t, fr)
  BY <1>1, <1>7
<1>10. Moves(t) /\ Top(t)' = fr /\ Len(stack'[t]) = Len(stack[t])
  BY Zenon, <1>4, <1>9, Replaced
<1>11. FrameInv(fr)
  <2> HIDE DEF x
  <2>1. fr.at \notin {"push", "get", "start", "print_start", "finish", "print_finish", "ready"}
    BY SMTT(20), <1>6, <1>8
  <2>2. fr.mine \subseteq 1 .. Len(made) /\ fr.cur <= Len(made)
    BY SMTT(20), <1>4, <1>5, <1>8 DEF FrameInv
  <2> QED  BY Zenon, <1>4, <1>8, <2>1, <2>2 DEF FrameInv, SeenOK
<1>12. FrameInv(fr)'
  BY <1>3, <1>11, IdleFrame
<1>13. ~At(t, "loop") /\ ~At(t, "notify")
  BY SMTT(20), <1>1, OnePlace
<1>14. OthersOK'
  <2>1. CASE Worker = {}
    <3>1. work_queue' = work_queue
      BY SMTT(20), <1>1, <2>1
    <3>2. stored' \subseteq Call
      BY <1>1, <1>4 DEF FieldsOK
    <3> QED  BY Zenon, <1>1, <1>2, <1>10, <1>13, <3>1, <3>2, OthersKept
  <2>2. CASE Worker # {}
    <3>1. work_queue \in Seq(Nat) /\ \A i \in 1 .. Len(work_queue) : work_queue[i] \in 1 .. Len(made)
      BY <1>4 DEF FieldsOK
    <3>2. work_queue \in Seq(1 .. Len(made))
      BY <3>1
    <3>3. /\ Append(work_queue, f) \in Seq(1 .. Len(made)) /\ Len(Append(work_queue, f)) = Len(work_queue) + 1
          /\ work_queue' = Append(work_queue, f)
      BY SMTT(20), <1>1, <1>5, <2>2, <3>2, SeqAppended
    <3>4. Append(work_queue, f) \in Seq(Nat)
      BY SMTT(20), <1>4, <3>3, SeqWider
    <3>5. \A i \in 1 .. Len(Append(work_queue, f)) : Append(work_queue, f)[i] \in 1 .. Len(made)
      BY Zenon, <3>3, SeqElement
    <3>6. asleep' # {} /\ ~work_done' => Len(work_queue') <= nLooking' + nNotifying'
      <4>1. SUFFICES ASSUME asleep' # {}, ~work_done' PROVE Len(work_queue) + 1 <= nLooking' + nNotifying'
        BY SMTT(20), <3>3
      <4>2. At(t, "notify")'
        <5>1. stack'[t] \in Seq(Frames) /\ Len(stack'[t]) >= 1
          BY SMTT(20), <1>4, <1>10, TopKnown DEF Moves
        <5>2. stack'[t] # <<>>
          BY <5>1
        <5> QED  BY SMTT(20), <1>8, <1>10, <2>2, <5>2 DEF At
      <4>3. \A y : y # t => (y \in Looking' <=> y \in Looking)
        BY Zenon, <1>1, <1>10, OthersStay DEF Looking, Thread
      <4>4. t \notin Looking /\ t \notin Notifying /\ t \in Notifying'
        BY SMTT(20), <1>13, <4>2 DEF Looking, Notifying
      <4>5. nLooking' \in Nat /\ nLooking <= nLooking'
        BY Zenon, <4>3, <4>4, AllFinite, OneGained DEF nLooking
      <4>6. \A y : y # t => (y \in Notifying' <=> y \in Notifying)
        BY Zenon, <1>10, OthersStay DEF Notifying
      <4>7. nNotifying' \in Nat /\ nNotifying' = nNotifying + 1
        BY Zenon, <4>4, <4>6, AllFinite, OneGained DEF nNotifying
      <4>8. Len(work_queue) \in Nat /\ Len(work_queue) <= nLooking + nNotifying /\ nLooking \in Nat /\ nNotifying \in Nat
        BY Zenon, <1>1, <1>2, <4>1, InvWakeups
      <4> QED  BY Zenon, <4>5, <4>7, <4>8, OneQueued
    <3>7. \A v \in asleep' : At(v, "loop")'
      <4>1. t \notin asleep
        BY SMTT(20), <1>13, InvWakeups
      <4> QED  BY Zenon, <1>1, <1>10, <4>1, SleepersStay
    <3>8. asleep' \subseteq Worker
      BY SMTT(20), <1>1, <1>4 DEF FieldsOK
    <3> QED  BY Zenon, <1>1, <3>3, <3>4, <3>5, <3>6, <3>7, <3>8, OthersFrom
  <2> QED  BY <2>1, <2>2
<1>15. SameSide(Top(t), fr.at) /\ (Len(stack[t]) = 1 => fr.at \in BaseLabel(t))
  BY SMTT(20), <1>4, <1>6, <1>8 DEF SameSide, Over, BaseLabel
<1> QED  BY ZenonT(30), <1>3, <1>4, <1>8, <1>9, <1>12, <1>14, <1>15, GoesOn

-----------------------------------------------------------------------------
(* Steps that make, run, count or finish a future *)

\* The parts of the invariant, once the runners and the counts are seen to.
LEMMA Assembled ==
  ASSUME Counting, Inv, FieldsOK', Grows, RunnersOK', CountsOK', NEW t \in Thread, Moves(t), FrameInv(Top(t))',
         Len(stack'[t]) >= 1,
         Len(stack'[t]) = 1 => Top(t)'.at \in BaseLabel(t),
         Len(stack'[t]) > 1 => Top(t)'.call \in Call,
         ~At(t, "loop"), ~At(t, "notify"),
         work_queue' = work_queue, asleep' = asleep, progress' = progress, ~work_done' => ~work_done
  PROVE  Inv'
<1>1. FieldsOK /\ FramesOK /\ BaseOK /\ AsleepOK /\ NoLostWakeup
  BY DEF Inv
<1>2. FramesOK'
  BY Zenon, <1>1, FramesKept
<1>3. BaseOK'
  BY Zenon, <1>1, BaseKept
<1>4. AsleepOK' /\ NoLostWakeup'
  BY Zenon, <1>1, WakeupsKept
<1>5. NoNegativeProgress'
  BY SMTT(20) DEF Inv, NoNegativeProgress
<1> QED  BY Zenon, <1>2, <1>3, <1>4, <1>5 DEF Inv

\* What a step that counts a start or a finish does to the stack.
LEMMA CountingStep ==
  ASSUME Inv, NEW t \in Thread, NEW x \in {"print_start", "print_finish"}, Goto(t, x),
         Top(t).at = IF x = "print_start" THEN "start" ELSE "finish"
  PROVE  /\ Moves(t) /\ Len(stack'[t]) = Len(stack[t]) /\ Len(stack[t]) >= 2 /\ stack[t] # <<>>
         /\ Top(t)'.at = x /\ Top(t)'.call = Top(t).call /\ Top(t)'.fut = Top(t).fut /\ Top(t).fut # 0
         /\ Top(t)' \in Frames /\ Top(t).call \in Call
         /\ \E fr \in Frames : Top(t)' = fr /\ FrameInv(fr)
<1>1. /\ FieldsOK /\ stack[t] # <<>> /\ Top(t) \in Frames /\ FrameInv(Top(t)) /\ Len(stack[t]) \in Nat \ {0}
      /\ Len(stack[t]) = 1 => Top(t).at \in BaseLabel(t)
      /\ Len(stack[t]) > 1 => Top(t).call \in Call
  BY SMTT(20), TopKnown DEF Inv
<1>2. Top(t).at \in {"start", "finish"} /\ x \in Label \ {"push", "get"}
  BY DEF Label
<1>3. Len(stack[t]) # 1
  BY SMTT(20), <1>1, <1>2 DEF BaseLabel
<1>4. Len(stack[t]) >= 2 /\ Top(t).call \in Call
  BY Zenon, <1>1, <1>3, TwoOrMore
<1>5. Top(t).fut # 0 /\ (x = "print_finish" => Top(t).call \in stored)
  BY <1>1, <1>2 DEF FrameInv
<1>6. x \notin {"finish", "ready"}
  OBVIOUS
<1>7. [Top(t) EXCEPT !.at = x] \in Frames /\ FrameInv([Top(t) EXCEPT !.at = x])
  BY Zenon, <1>1, <1>2, <1>5, <1>6, Relabelled
<1>8. PICK fr \in Frames : fr = [Top(t) EXCEPT !.at = x]
  BY <1>7
<1>9. fr.at = x /\ fr.call = Top(t).call /\ fr.fut = Top(t).fut
  BY SMTT(20), <1>1, <1>8 DEF Frames
<1>10. SetTop(t, fr) /\ FrameInv(fr)
  BY <1>7, <1>8 DEF Goto
<1>11. Moves(t) /\ Len(stack'[t]) = Len(stack[t]) /\ Top(t)' = fr
  BY Zenon, <1>1, <1>10, Replaced
<1> QED  BY Zenon, <1>1, <1>4, <1>5, <1>9, <1>10, <1>11

\* A start or a finish is counted.
LEMMA CountingInv ==
  ASSUME Counting, Inv, NEW t \in Thread, NEW x \in {"print_start", "print_finish"}, Goto(t, x),
         Top(t).at = IF x = "print_start" THEN "start" ELSE "finish",
         stored' = stored, made' = made, state' = state, num_queued' = num_queued,
         num_started' = (IF x = "print_start" THEN num_started + 1 ELSE num_started),
         num_finished' = (IF x = "print_start" THEN num_finished ELSE num_finished + 1),
         ~At(t, "loop"), ~At(t, "notify"),
         work_queue' = work_queue, asleep' = asleep, progress' = progress, ~work_done' => ~work_done
  PROVE  Inv'
<1>1. FieldsOK /\ FramesOK /\ RunnersOK /\ CountsOK
  BY SMTT(20) DEF Inv
<1>2. /\ Moves(t) /\ Len(stack'[t]) = Len(stack[t]) /\ Len(stack[t]) >= 2 /\ stack[t] # <<>>
      /\ Top(t)'.at = x /\ Top(t)'.call = Top(t).call /\ Top(t)'.fut = Top(t).fut /\ Top(t).fut # 0
      /\ Top(t).call \in Call
  BY Zenon, CountingStep
<1>3. num_started \in Nat /\ num_finished \in Nat /\ num_started' \in Nat /\ num_finished' \in Nat /\ num_started <= num_started'
  BY SMTT(20), <1>1 DEF FieldsOK
<1>4. FieldsOK'
  BY SMTT(20), <1>1, <1>2, <1>3 DEF FieldsOK, Moves
<1>5. Grows
  BY SMTT(20), <1>1, <1>3 DEF Grows, FieldsOK
<1>6. FrameInv(Top(t))'
  <2>1. PICK fr \in Frames : Top(t)' = fr /\ FrameInv(fr)
    BY Zenon, CountingStep
  <2>2. FrameInv(fr)'
    BY Zenon, <1>1, <1>4, <1>5, <2>1, FrameInvKept
  <2> QED  BY Zenon, <2>1, <2>2 DEF FrameInv, SeenOK
<1>7. Quiet(t, Label)
  <2>1. x \in Label /\ Top(t).at \in Label
    BY SMTT(20) DEF Label
  <2>2. Len(stack[t]) >= 1
    BY SMTT(20), <1>2, TopKnown
  <2> QED  BY Zenon, <1>2, <2>1, <2>2 DEF Quiet
<1>8. RunnersOK'
  BY Zenon, <1>1, <1>2, <1>4, <1>7, RunnersKept
<1>9. CountsOK'
  <2>1. Len(stack[t]) >= 1
    BY <1>2, TopKnown
  <2>2. CASE x = "print_start"
    <3>1. x \in Begun /\ Top(t).at \notin Begun /\ x \notin Over /\ Top(t).at \notin Over
      BY SMTT(20), <2>2 DEF Begun, Over, Label
    <3>2. Quiet(t, Over)
      BY Zenon, <1>2, <2>1, <3>1 DEF Quiet
    <3>3. Counted(Over)' = Counted(Over)
      BY Zenon, <1>1, <1>2, <3>2, CountedKept
    <3>4. Cardinality(Counted(Begun)') = Cardinality(Counted(Begun)) + 1
      BY Zenon, <1>1, <1>2, <3>1, CountedMore
    <3> QED  BY Zenon, <1>1, <2>2, <3>3, <3>4 DEF CountsOK
  <2>3. CASE x # "print_start"
    <3>1. x \in Begun /\ Top(t).at \in Begun /\ x \in Over /\ Top(t).at \notin Over
      BY SMTT(20), <2>3 DEF Begun, Over, Label
    <3>2. Quiet(t, Begun)
      BY Zenon, <1>2, <2>1, <3>1 DEF Quiet
    <3>3. Counted(Begun)' = Counted(Begun)
      BY Zenon, <1>1, <1>2, <3>2, CountedKept
    <3>4. Cardinality(Counted(Over)') = Cardinality(Counted(Over)) + 1
      BY Zenon, <1>1, <1>2, <3>1, CountedMore
    <3> QED  BY Zenon, <1>1, <2>3, <3>3, <3>4 DEF CountsOK
  <2> QED  BY SMTT(20), <2>2, <2>3
<1>10. Len(stack'[t]) >= 1 /\ Len(stack'[t]) # 1 /\ Top(t)'.call \in Call
  BY Zenon, <1>2, TopKnown, TwoOrMore
<1> QED  BY ZenonT(30), <1>2, <1>4, <1>5, <1>6, <1>8, <1>9, <1>10, Assembled

\* evaluateDeferred counts its start.
LEMMA StartInv ==
  ASSUME Counting, Inv, NEW t \in Thread, Start(t)
  PROVE  Inv'
<1>1. /\ At(t, "start") /\ num_started' = num_started + 1 /\ Goto(t, "print_start")
      /\ stored' = stored /\ made' = made /\ state' = state /\ num_queued' = num_queued
      /\ num_finished' = num_finished /\ work_queue' = work_queue /\ asleep' = asleep /\ progress' = progress
  BY DEF Start, futureVars, queueVars, printVars
<1>2. ~work_done' => ~work_done
  BY Zenon DEF Start, queueVars
<1>3. Top(t).at = "start" /\ ~At(t, "loop") /\ ~At(t, "notify")
  BY SMTT(20), <1>1, OnePlace
<1> QED  BY ZenonT(30), <1>1, <1>2, <1>3, CountingInv

\* evaluateDeferred counts its finish.
LEMMA FinishInv ==
  ASSUME Counting, Inv, NEW t \in Thread, Finish(t)
  PROVE  Inv'
<1>1. /\ At(t, "finish") /\ num_finished' = num_finished + 1 /\ Goto(t, "print_finish")
      /\ stored' = stored /\ made' = made /\ state' = state /\ num_queued' = num_queued
      /\ num_started' = num_started /\ work_queue' = work_queue /\ asleep' = asleep /\ progress' = progress
  BY DEF Finish, futureVars, queueVars, printVars
<1>2. ~work_done' => ~work_done
  BY Zenon DEF Finish, queueVars
<1>3. Top(t).at = "finish" /\ ~At(t, "loop") /\ ~At(t, "notify")
  BY <1>1, OnePlace
<1>4. "print_finish" # "print_start"
  OBVIOUS
<1> QED  BY ZenonT(30), <1>1, <1>2, <1>3, <1>4, CountingInv

\* Future::get runs a deferred future: a frame for it is put on top.
LEMMA RunDeferredInv ==
  ASSUME Counting, Inv, NEW t \in Thread, RunDeferred(t)
  PROVE  Inv'
<1> DEFINE n == Len(stack[t])
<1>1. PICK f : f = Top(t).cur
  BY SMTT(20)
<1>2. /\ At(t, "get") /\ state[f] = "deferred" /\ state' = [state EXCEPT ![f] = "running"]
      /\ Push(t, Frame("start", made[f], f, SubCalls[made[f]]))
      /\ stored' = stored /\ made' = made /\ counters' = counters
      /\ work_queue' = work_queue /\ asleep' = asleep /\ progress' = progress
  BY ZenonT(60), <1>1 DEF RunDeferred, Runnable, queueVars, printVars
<1>3. ~work_done' => ~work_done
  BY ZenonT(60) DEF RunDeferred, queueVars
<1>4. /\ FieldsOK /\ RunnersOK /\ CountsOK /\ Top(t).at = "get" /\ Top(t) \in Frames /\ FrameInv(Top(t))
      /\ n \in Nat \ {0} /\ Len(made) \in Nat
  <2>1. FieldsOK /\ RunnersOK /\ CountsOK
    BY Zenon DEF Inv
  <2>2. Top(t).at = "get"
    BY ZenonT(60), <1>2, OnePlace
  <2>3. Top(t) \in Frames /\ FrameInv(Top(t)) /\ n \in Nat \ {0}
    BY Zenon, TopKnown
  <2>4. Len(made) \in Nat
    BY SMTT(20), <2>1 DEF FieldsOK
  <2> QED  BY Zenon, <2>1, <2>2, <2>3, <2>4
<1>5. f \in 1 .. Len(made) /\ f \in Future /\ made[f] \in Call /\ f \in Nat
  <2>1. f \in 1 .. Len(made)
    BY <1>1, <1>4 DEF FrameInv, Frames
  <2>2. made \in Seq(Call) /\ Len(made) <= MaxFutures /\ MaxFutures \in Nat
    BY <1>4, PoolAssumption DEF FieldsOK
  <2>3. made[f] \in Call
    BY Zenon, <2>1, <2>2, SeqElement
  <2> QED  BY SMTT(20), <1>4, <2>1, <2>2, <2>3 DEF Future
<1>6. PICK new \in Frames : new = Frame("start", made[f], f, SubCalls[made[f]])
  <2>1. SubCalls[made[f]] \in SUBSET Call /\ "start" \in Label /\ <<>> \in Seq(Nat)
    BY SMTT(20), <1>5, PoolAssumption DEF Label
  <2> QED  BY Zenon, <1>5, <2>1 DEF Frame, Frames
<1>7. new.at = "start" /\ new.call = made[f] /\ new.fut = f /\ new.mine = {} /\ new.cur = 0 /\ new.seen = <<>>
  BY SMTT(20), <1>6 DEF Frame
<1>8. Moves(t) /\ Len(stack'[t]) = n + 1 /\ Top(t)' = new
  <2>1. Push(t, new)
    BY SMTT(20), <1>2, <1>6
  <2> QED  BY ZenonT(60), <1>4, <2>1, Pushed
<1>9. FieldsOK'
  <2>1. num_queued' = num_queued /\ num_started' = num_started /\ num_finished' = num_finished
    BY Zenon, <1>2 DEF counters
  <2>2. state' \in [Future -> {"none", "deferred", "running", "ready"}]
    BY ZenonT(60), <1>2, <1>4 DEF FieldsOK
  <2> QED  BY Zenon, <1>2, <1>4, <1>8, <2>1, <2>2 DEF FieldsOK, Moves
<1>10. Grows
  <2>1. num_queued' = num_queued /\ num_started' = num_started
    BY Zenon, <1>2 DEF counters
  <2>2. num_queued \in Nat /\ num_started \in Nat
    BY Zenon, <1>4 DEF FieldsOK
  <2>3. num_started <= num_started' /\ num_queued <= num_queued' /\ Len(made) <= Len(made)
    BY SMTT(20), <1>4, <2>1, <2>2
  <2> QED  BY Zenon, <1>2, <2>3 DEF Grows
<1>11. FrameInv(Top(t))'
  <2>1. SeenOK(new)'
    BY SMTT(20), <1>7 DEF SeenOK
  <2>2. new.fut <= Len(made') /\ new.cur <= Len(made') /\ new.mine \subseteq 1 .. Len(made') /\ new.fut # 0 /\ new.call = made'[new.fut]
    BY SMTT(20), <1>2, <1>4, <1>5, <1>7
  <2>3. new.at \notin {"push", "get", "finish", "print_finish", "ready"}
    BY <1>7
  <2>4. FrameInv(new)'
    BY Zenon, <2>1, <2>2, <2>3 DEF FrameInv
  <2> QED  BY Zenon, <1>8, <2>4 DEF FrameInv, SeenOK
<1>12. ASSUME NEW g \in 1 .. Len(made), NEW u \in Thread, NEW i \in Nat
       PROVE  /\ Run(u, i, g)' <=> Run(u, i, g) \/ (u = t /\ i = n + 1 /\ g = f)
              /\ RunIn(u, i, g, Begun)' <=> RunIn(u, i, g, Begun)
              /\ RunIn(u, i, g, Over)' <=> RunIn(u, i, g, Over)
  <2>0. n \in Nat /\ Len(stack'[t]) = n + 1
    BY SMTT(20), <1>4, <1>8
  <2>1. CASE u # t \/ i < n + 1
    <3>1. ~(u = t /\ i = n + 1)
      BY SMTT(20), <2>0, <2>1
    <3>2. u # t \/ i < Len(stack'[t])
      BY <2>0, <2>1
    <3>3. /\ RunIn(u, i, g, Begun)' <=> RunIn(u, i, g, Begun)
          /\ RunIn(u, i, g, Over)' <=> RunIn(u, i, g, Over)
          /\ Run(u, i, g)' <=> Run(u, i, g)
      BY ZenonT(60), <1>4, <1>8, <3>2, BelowStays
    <3> QED  BY Zenon, <3>1, <3>3
  <2>2. CASE u = t /\ i = n + 1
    <3>1. stack'[t][i] = new /\ i \in 1 .. Len(stack'[t]) /\ i \notin 1 .. Len(stack[t])
      BY SMTT(20), <1>8, <2>0, <2>2 DEF Top
    <3>2. new.at \notin Begun /\ new.at \notin Over
      BY SMTT(20), <1>7 DEF Begun, Over
    <3> QED  BY SMTT(20), <1>7, <2>2, <3>1, <3>2 DEF RunIn, Run
  <2>3. CASE u = t /\ i > n + 1
    <3>1. i \notin 1 .. Len(stack'[t]) /\ i \notin 1 .. Len(stack[t]) /\ i # n + 1
      BY <2>0, <2>3
    <3> QED  BY SMTT(20), <2>3, <3>1 DEF RunIn, Run
  <2> QED  BY SMTT(20), <2>0, <2>1, <2>2, <2>3
<1>13. \A g \in 1 .. Len(made) : g # f => state'[g] = state[g]
  BY SMTT(20), <1>2, <1>4, PoolAssumption DEF FieldsOK, Future
<1>14. state'[f] = "running" /\ \A u \in Thread, i \in Nat : ~Run(u, i, f)
  BY Zenon, <1>2, <1>4, <1>5 DEF FieldsOK, RunnersOK
<1>15. RunnersOK'
  <2>1. ASSUME NEW g \in 1 .. Len(made)
        PROVE  /\ state'[g] = "running" <=> \E u \in Thread, i \in Nat : Run(u, i, g)'
               /\ state'[g] = "ready" => made'[g] \in stored'
    <3>1. CASE g = f
      <4>1. PICK m \in Nat : m = n + 1
        BY SMTT(20), <1>4
      <4>2. Run(t, m, f)'
        BY Zenon, <1>5, <1>12, <4>1
      <4>3. "running" # "ready"
        BY SMTT(20)
      <4> QED  BY Zenon, <1>14, <3>1, <4>1, <4>2, <4>3
    <3>2. CASE g # f
      <4>1. /\ state[g] = "running" <=> \E u \in Thread, i \in Nat : Run(u, i, g)
            /\ state[g] = "ready" => made[g] \in stored
        BY Zenon, <1>4 DEF RunnersOK
      <4>2. \A u \in Thread, i \in Nat : Run(u, i, g)' <=> Run(u, i, g)
        BY Zenon, <1>12, <3>2
      <4> QED  BY Zenon, <1>2, <1>13, <3>2, <4>1, <4>2
    <3> QED  BY SMTT(20), <3>1, <3>2
  <2>2. ASSUME NEW g \in 1 .. Len(made), NEW u \in Thread, NEW v \in Thread, NEW i \in Nat, NEW j \in Nat,
               Run(u, i, g)', Run(v, j, g)'
        PROVE  u = v /\ i = j
    <3>1. CASE g = f
      BY Zenon, <1>12, <1>14, <2>2, <3>1
    <3>2. CASE g # f
      <4>1. Run(u, i, g) /\ Run(v, j, g)
        BY Zenon, <1>12, <2>2, <3>2
      <4> QED  BY Zenon, <1>4, <4>1 DEF RunnersOK
    <3> QED  BY SMTT(20), <3>1, <3>2
  <2> QED  BY Zenon, <1>2, <2>1, <2>2 DEF RunnersOK
<1>16. CountsOK'
  <2>1. \A g \in 1 .. Len(made) : state'[g] = "ready" <=> state[g] = "ready"
    <3>1. state'[f] # "ready" /\ state[f] # "ready"
      BY SMTT(20), <1>2, <1>14
    <3> QED  BY Zenon, <1>13, <3>1
  <2>2. Counted(Begun)' = Counted(Begun)
    BY Zenon, <1>2, <1>12, <2>1 DEF Counted, RunIn
  <2>3. Counted(Over)' = Counted(Over)
    BY Zenon, <1>2, <1>12, <2>1 DEF Counted, RunIn
  <2> QED  BY Zenon, <1>2, <1>4, <2>2, <2>3 DEF CountsOK, counters
<1>17. Len(stack'[t]) >= 1 /\ Len(stack'[t]) # 1 /\ Top(t)'.call \in Call
  BY SMTT(20), <1>4, <1>5, <1>7, <1>8
<1>18. ~At(t, "loop") /\ ~At(t, "notify")
  BY SMTT(20), <1>2, OnePlace
<1> QED  BY ZenonT(30), <1>2, <1>3, <1>8, <1>9, <1>10, <1>11, <1>15, <1>16, <1>17, <1>18, Assembled

\* The future is ready and its frame gone; its call's result is stored.
LEMMA ReadyInv ==
  ASSUME Counting, Inv, NEW t \in Thread, Ready(t)
  PROVE  Inv'
<1>1. PICK f : f = Top(t).fut
  OBVIOUS
<1>2. /\ At(t, "ready") /\ state' = [state EXCEPT ![f] = "ready"] /\ Pop(t)
      /\ stored' = stored /\ made' = made /\ counters' = counters
      /\ work_queue' = work_queue /\ asleep' = asleep /\ progress' = progress
  BY <1>1 DEF Ready, queueVars, printVars
<1>3. ~work_done' => ~work_done
  BY Zenon DEF Ready, queueVars
<1>4. /\ FieldsOK /\ FramesOK /\ BaseOK /\ RunnersOK /\ CountsOK /\ Top(t).at = "ready" /\ Top(t) \in Frames
      /\ FrameInv(Top(t)) /\ Len(stack[t]) \in Nat \ {0} /\ Len(made) \in Nat
      /\ Len(stack[t]) = 1 => Top(t).at \in BaseLabel(t)
  BY SMTT(20), <1>2, OnePlace, TopKnown DEF Inv, FieldsOK
<1>5. PICK n \in Nat \ {0} : n = Len(stack[t])
  BY <1>4
<1>6. n >= 2
  <2>1. Len(stack[t]) # 1
    BY <1>4 DEF BaseLabel
  <2> QED  BY Zenon, <1>4, <1>5, <2>1, TwoOrMore
<1>7. f \in 1 .. Len(made) /\ f \in Future /\ made[f] \in stored
  <2>1. f \in 1 .. Len(made) /\ made[f] \in stored
    BY SMTT(20), <1>1, <1>4 DEF FrameInv, Frames
  <2>2. Len(made) <= MaxFutures /\ MaxFutures \in Nat
    BY <1>4, PoolAssumption DEF FieldsOK
  <2> QED  BY SMTT(20), <1>4, <2>1, <2>2 DEF Future
<1>8. Moves(t) /\ Len(stack'[t]) = n - 1 /\ Top(t)' = stack[t][n - 1]
  <2>1. Len(stack[t]) >= 2
    BY Zenon, <1>5, <1>6
  <2> QED  BY Zenon, <1>2, <1>4, <1>5, <2>1, Popped
<1>9. FieldsOK'
  <2>1. num_queued' = num_queued /\ num_started' = num_started /\ num_finished' = num_finished
    BY Zenon, <1>2 DEF counters
  <2>2. state' \in [Future -> {"none", "deferred", "running", "ready"}]
    BY Zenon, <1>2, <1>4 DEF FieldsOK
  <2> QED  BY Zenon, <1>2, <1>4, <1>8, <2>1, <2>2 DEF FieldsOK, Moves
<1>10. Grows
  BY SMTT(20), <1>2, <1>4 DEF Grows, FieldsOK, counters
<1>11. n - 1 \in 1 .. n /\ n - 1 \in Nat /\ n - 1 >= 1 /\ n \in 1 .. n
  BY <1>5, <1>6
<1>12. FrameInv(Top(t))'
  <2>1. stack[t] \in Seq(Frames)
    BY SMTT(20), <1>4 DEF FieldsOK
  <2>2. stack[t][n - 1] \in Frames /\ FrameInv(stack[t][n - 1])
    BY Zenon, <1>4, <1>5, <1>11, <2>1, SeqElement DEF FramesOK
  <2>3. PICK fr \in Frames : fr = stack[t][n - 1] /\ FrameInv(fr)
    BY Zenon, <2>2
  <2>4. FrameInv(fr)'
    BY Zenon, <1>4, <1>9, <1>10, <2>3, FrameInvKept
  <2> QED  BY Zenon, <1>8, <2>3, <2>4 DEF FrameInv, SeenOK
<1>13. ASSUME NEW g \in 1 .. Len(made), NEW u \in Thread, NEW i \in Nat, ~(u = t /\ i = n)
       PROVE  /\ Run(u, i, g)' <=> Run(u, i, g)
              /\ RunIn(u, i, g, Begun)' <=> RunIn(u, i, g, Begun)
              /\ RunIn(u, i, g, Over)' <=> RunIn(u, i, g, Over)
  <2>1. CASE u # t \/ i < n - 1
    <3>1. u # t \/ i < Len(stack'[t])
      BY Zenon, <1>8, <2>1
    <3> QED  BY Zenon, <1>4, <1>8, <3>1, BelowStays
  <2>2. CASE u = t /\ i = n - 1
    <3>1. stack'[t][i] = stack[t][i] /\ i \in 1 .. Len(stack'[t]) /\ i \in 1 .. Len(stack[t])
      <4>1. stack'[t][i] = stack[t][i]
        BY SMTT(20), <1>8, <2>2 DEF Top
      <4>2. i \in 1 .. n - 1 /\ i \in 1 .. n
        BY <1>11, <2>2
      <4> QED  BY Zenon, <1>5, <1>8, <4>1, <4>2
    <3> QED  BY Zenon, <2>2, <3>1 DEF RunIn, Run
  <2>3. CASE u = t /\ i > n
    <3>1. i \notin 1 .. n - 1 /\ i \notin 1 .. n
      BY <1>5, <2>3
    <3>2. i \notin 1 .. Len(stack'[t]) /\ i \notin 1 .. Len(stack[t])
      BY Zenon, <1>5, <1>8, <3>1
    <3> QED  BY Zenon, <2>3, <3>2 DEF RunIn, Run
  <2>4. u # t \/ i < n - 1 \/ i = n - 1 \/ i > n
    BY SMTT(20), <1>5, <1>13
  <2> QED  BY Zenon, <1>13, <2>1, <2>2, <2>3, <2>4
<1>14. Run(t, n, f) /\ stack[t][n].at = "ready" /\ ~Run(t, n, f)'
  <2>1. n \notin 1 .. n - 1
    BY SMTT(20), <1>5
  <2>2. n \notin 1 .. Len(stack'[t])
    BY Zenon, <1>8, <2>1
  <2>3. ~Run(t, n, f)'
    BY Zenon, <2>2 DEF Run
  <2>4. stack[t][n] = Top(t)
    BY <1>5 DEF Top
  <2> QED  BY Zenon, <1>1, <1>4, <1>5, <1>11, <2>3, <2>4 DEF Run
<1>15. state[f] = "running" /\ \A u \in Thread, i \in Nat : Run(u, i, f) => u = t /\ i = n
  BY Zenon, <1>4, <1>7, <1>14, <1>5 DEF RunnersOK
<1>16. state'[f] = "ready" /\ \A g \in 1 .. Len(made) : g # f => state'[g] = state[g] /\ ~Run(t, n, g) /\ ~Run(t, n, g)'
  <2>1. state'[f] = "ready" /\ \A g \in 1 .. Len(made) : g # f => state'[g] = state[g]
    <3>1. state'[f] = "ready"
      BY SMTT(20), <1>2, <1>4, <1>7 DEF FieldsOK
    <3>2. \A g \in 1 .. Len(made) : g \in Future
      BY SMTT(20), <1>4, PoolAssumption DEF FieldsOK, Future
    <3>3. \A g \in Future : g # f => state'[g] = state[g]
      BY SMTT(20), <1>2, <1>4 DEF FieldsOK
    <3> QED  BY Zenon, <3>1, <3>2, <3>3
  <2>2. \A g : g # f => ~Run(t, n, g)
    BY Zenon, <1>14 DEF Run
  <2>3. \A g : ~Run(t, n, g)'
    <3>1. n \notin 1 .. n - 1
      BY <1>5
    <3> QED  BY Zenon, <1>8, <3>1 DEF Run
  <2> QED  BY Zenon, <2>1, <2>2, <2>3
<1>17. \A u \in Thread, i \in Nat : ~Run(u, i, f)'
  BY Zenon, <1>7, <1>13, <1>14, <1>15
<1>18. \A g \in 1 .. Len(made), u \in Thread, i \in Nat : g # f => (Run(u, i, g)' <=> Run(u, i, g))
  BY Zenon, <1>13, <1>16
<1>19. RunnersOK'
  <2>1. ASSUME NEW g \in 1 .. Len(made)
        PROVE  /\ state'[g] = "running" <=> \E u \in Thread, i \in Nat : Run(u, i, g)'
               /\ state'[g] = "ready" => made'[g] \in stored'
    <3>1. CASE g = f
      <4>1. "ready" # "running"
        BY SMTT(20)
      <4> QED  BY Zenon, <1>2, <1>7, <1>16, <1>17, <3>1, <4>1
    <3>2. CASE g # f
      <4>1. /\ state[g] = "running" <=> \E u \in Thread, i \in Nat : Run(u, i, g)
            /\ state[g] = "ready" => made[g] \in stored
        BY Zenon, <1>4 DEF RunnersOK
      <4> QED  BY Zenon, <1>2, <1>16, <1>18, <3>2, <4>1
    <3> QED  BY SMTT(20), <3>1, <3>2
  <2>2. ASSUME NEW g \in 1 .. Len(made), NEW u \in Thread, NEW v \in Thread, NEW i \in Nat, NEW j \in Nat,
               Run(u, i, g)', Run(v, j, g)'
        PROVE  u = v /\ i = j
    <3>1. g # f
      BY Zenon, <1>17, <2>2
    <3>2. Run(u, i, g) /\ Run(v, j, g)
      BY Zenon, <1>18, <2>2, <3>1
    <3> QED  BY Zenon, <1>4, <3>2 DEF RunnersOK
  <2> QED  BY Zenon, <1>2, <2>1, <2>2 DEF RunnersOK
<1>20. ASSUME NEW labels \in {Begun, Over} PROVE Counted(labels)' = Counted(labels)
  <2>1. "ready" \in labels
    BY DEF Begun, Over, Label
  <2>2. f \in Counted(labels) /\ f \in Counted(labels)'
    BY Zenon, <1>2, <1>5, <1>7, <1>14, <1>16, <2>1 DEF Counted
  <2>3. ASSUME NEW g \in 1 .. Len(made), g # f, NEW u \in Thread, NEW i \in Nat
        PROVE  RunIn(u, i, g, labels)' <=> RunIn(u, i, g, labels)
    <3>1. CASE u = t /\ i = n
      BY Zenon, <1>16, <2>3, <3>1 DEF RunIn
    <3>2. CASE ~(u = t /\ i = n)
      BY Zenon, <1>13, <3>2
    <3> QED  BY SMTT(20), <3>1, <3>2
  <2>4. \A g \in 1 .. Len(made) : g # f => (g \in Counted(labels)' <=> g \in Counted(labels))
    BY Zenon, <1>2, <1>16, <2>3 DEF Counted, RunIn
  <2>5. Counted(labels) \subseteq 1 .. Len(made) /\ Counted(labels)' \subseteq 1 .. Len(made)
    BY Zenon, <1>2 DEF Counted
  <2>6. \A g : g \in Counted(labels)' <=> g \in Counted(labels)
    BY Zenon, <2>2, <2>4, <2>5
  <2> DEFINE A == Counted(labels)
  <2>7. \A g : g \in A' <=> g \in A
    BY Zenon, <2>6
  <2> HIDE DEF A
  <2>8. A' = A
    BY <2>7
  <2> QED  BY Zenon, <2>8 DEF A
<1>21. CountsOK'
  BY Zenon, <1>2, <1>4, <1>20 DEF CountsOK, counters
<1>22. Len(stack'[t]) >= 1 /\ (Len(stack'[t]) = 1 => Top(t)'.at \in BaseLabel(t))
  <2>1. n - 1 = 1 => stack[t][n - 1].at \in BaseLabel(t)
    BY SMTT(20), <1>4 DEF BaseOK, BaseLabel
  <2> QED  BY Zenon, <1>8, <1>11, <2>1
<1>23. Len(stack'[t]) > 1 => Top(t)'.call \in Call
  <2>1. n - 1 > 1 => n - 1 \in 2 .. n
    BY SMTT(20), <1>5
  <2> QED  BY Zenon, <1>4, <1>5, <1>8, <2>1 DEF BaseOK
<1>24. ~At(t, "loop") /\ ~At(t, "notify")
  BY <1>2, OnePlace
<1> QED  BY ZenonT(30), <1>2, <1>3, <1>8, <1>9, <1>10, <1>12, <1>19, <1>21, <1>22, <1>23, <1>24, Assembled

\* evaluateAsync makes a deferred future, which nobody runs yet.
LEMMA EvaluateAsyncInv ==
  ASSUME Counting, Inv, NEW t \in Thread, EvaluateAsync(t)
  PROVE  Inv'
<1>0. PICK n : n = Len(made) + 1
  BY Zenon
<1>1. PICK c \in Top(t).subs :
        /\ At(t, "body") /\ Len(made) < MaxFutures /\ num_queued' = num_queued + 1 /\ made' = Append(made, c)
        /\ state' = [state EXCEPT ![Len(made')] = "deferred"]
        /\ SetTop(t, [Top(t) EXCEPT !.at = "push", !.cur = Len(made'), !.subs = @ \ {c}])
        /\ stored' = stored /\ num_started' = num_started /\ num_finished' = num_finished
        /\ work_queue' = work_queue /\ asleep' = asleep /\ progress' = progress
        /\ work_done' = work_done
  BY Zenon DEF EvaluateAsync, queueVars, printVars
<1>2. ~work_done' => ~work_done
  BY Zenon, <1>1
<1>3. /\ FieldsOK /\ FramesOK /\ RunnersOK /\ CountsOK /\ Top(t).at = "body" /\ Top(t) \in Frames
      /\ FrameInv(Top(t)) /\ Len(stack[t]) \in Nat \ {0} /\ Len(made) \in Nat /\ stack[t] # <<>>
      /\ Len(stack[t]) = 1 => Top(t).at \in BaseLabel(t)
      /\ Len(stack[t]) > 1 => Top(t).call \in Call
  BY <1>1, OnePlace, TopKnown DEF Inv, FieldsOK
<1>4. /\ c \in Call /\ made' \in Seq(Call) /\ Len(made') = n /\ n \in Nat \ {0} /\ n \in Future
      /\ \A i \in 1 .. Len(made) : made'[i] = made[i]
  <2>1. c \in Call /\ made \in Seq(Call)
    BY SMTT(20), <1>3 DEF Frames, FieldsOK
  <2>2. /\ Append(made, c) \in Seq(Call) /\ Len(Append(made, c)) = Len(made) + 1
        /\ \A i \in 1 .. Len(made) : Append(made, c)[i] = made[i]
    BY SMTT(20), <2>1, SeqAppended
  <2>3. n \in Nat \ {0} /\ n \in Future
    BY SMTT(20), <1>0, <1>1, <1>3, PoolAssumption DEF Future
  <2> QED  BY Zenon, <1>0, <1>1, <2>1, <2>2, <2>3
<1>5. PICK fr \in Frames : fr = [Top(t) EXCEPT !.at = "push", !.cur = Len(made'), !.subs = @ \ {c}]
  <2>1. "push" \in Label /\ Len(made') \in Nat
    BY <1>4 DEF Label
  <2>2. [Top(t) EXCEPT !.at = "push", !.cur = Len(made'), !.subs = @ \ {c}] \in Frames
    BY Zenon, <1>3, <2>1 DEF Frames
  <2> QED  BY Zenon, <2>2
<1>6. /\ fr.at = "push" /\ fr.call = Top(t).call /\ fr.fut = Top(t).fut /\ fr.cur = n
      /\ fr.mine = Top(t).mine /\ fr.seen = Top(t).seen
  BY <1>3, <1>4, <1>5 DEF Frames
<1>7. Moves(t) /\ Len(stack'[t]) = Len(stack[t]) /\ Top(t)' = fr
  <2>1. SetTop(t, fr)
    BY Zenon, <1>1, <1>5
  <2> QED  BY Zenon, <1>3, <2>1, Replaced
<1>8. 1 .. Len(made) \subseteq 1 .. n /\ n \notin 1 .. Len(made) /\ Len(made) <= n
      /\ \A g \in 1 .. n : g = n \/ g \in 1 .. Len(made)
  BY SMTT(20), <1>0, <1>3
<1>9. FieldsOK'
  <2>1. n <= MaxFutures
    BY SMTT(20), <1>4, PoolAssumption DEF Future
  <2>2. state' \in [Future -> {"none", "deferred", "running", "ready"}]
    BY SMTT(20), <1>1, <1>3, <1>4 DEF FieldsOK
  <2>3. num_queued' \in Nat
    BY SMTT(20), <1>1, <1>3 DEF FieldsOK
  <2>4. \A i \in 1 .. Len(work_queue') : work_queue'[i] \in 1 .. Len(made')
    BY Zenon, <1>1, <1>3, <1>4, <1>8 DEF FieldsOK
  <2>5. Len(made') <= MaxFutures
    BY Zenon, <1>4, <2>1
  <2> QED  BY Zenon, <1>1, <1>3, <1>4, <1>7, <2>2, <2>3, <2>4, <2>5 DEF FieldsOK, Moves
<1>10. Grows
  <2>1. num_started <= num_started' /\ num_queued <= num_queued'
    BY SMTT(20), <1>1, <1>3 DEF FieldsOK
  <2>2. Len(made) <= Len(made')
    BY Zenon, <1>4, <1>8
  <2>3. stored \subseteq stored'
    BY SMTT(20), <1>1
  <2> QED  BY Zenon, <1>4, <2>1, <2>2, <2>3 DEF Grows
<1>11. FrameInv(Top(t))'
  <2>1. PICK old \in Frames : old = Top(t) /\ FrameInv(old)
    BY Zenon, <1>3
  <2>2. FrameInv(old)'
    BY Zenon, <1>3, <1>9, <1>10, <2>1, FrameInvKept
  <2>3. fr.cur <= Len(made') /\ fr.cur # 0
    BY SMTT(20), <1>4, <1>6
  <2>4. fr.at \notin {"start", "print_start", "finish", "print_finish", "ready"}
    BY SMTT(20), <1>6
  <2>5. FrameInv(fr)'
    BY Zenon, <1>6, <2>1, <2>2, <2>3, <2>4 DEF FrameInv, SeenOK
  <2> QED  BY Zenon, <1>7, <2>5 DEF FrameInv, SeenOK
<1>12. Quiet(t, Label) /\ Quiet(t, Begun) /\ Quiet(t, Over)
  <2>1. Len(stack[t]) >= 1
    BY Zenon, <1>3, TwoOrMore
  <2>2. "push" \in Label /\ "body" \in Label /\ "push" \in Begun /\ "body" \in Begun /\ "push" \notin Over /\ "body" \notin Over
    BY SMTT(20) DEF Label, Begun, Over
  <2> QED  BY Zenon, <1>3, <1>6, <1>7, <2>1, <2>2 DEF Quiet
<1>13. ASSUME NEW g \in 1 .. n, NEW u \in Thread, NEW i \in Nat
       PROVE  /\ Run(u, i, g)' <=> Run(u, i, g)
              /\ RunIn(u, i, g, Begun)' <=> RunIn(u, i, g, Begun)
              /\ RunIn(u, i, g, Over)' <=> RunIn(u, i, g, Over)
  <2>1. g \in Nat \ {0}
    BY SMTT(20), <1>4
  <2>2. /\ RunIn(u, i, g, Label)' <=> RunIn(u, i, g, Label)
        /\ RunIn(u, i, g, Begun)' <=> RunIn(u, i, g, Begun)
        /\ RunIn(u, i, g, Over)' <=> RunIn(u, i, g, Over)
    BY Zenon, <1>3, <1>7, <1>12, <2>1, SameRuns
  <2>3. RunIn(u, i, g, Label) <=> Run(u, i, g)
    BY Zenon, <1>3, RunsSomewhere
  <2>4. RunIn(u, i, g, Label)' <=> Run(u, i, g)'
    <3>1. SUFFICES ASSUME Run(u, i, g)' PROVE stack'[u][i].at \in Label
      BY SMTT(20) DEF RunIn
    <3>2. stack'[u] \in Seq(Frames) /\ i \in 1 .. Len(stack'[u])
      BY SMTT(20), <1>9, <3>1 DEF FieldsOK, Run
    <3>3. stack'[u][i] \in Frames
      BY Zenon, <3>2, SeqElement
    <3> QED  BY SMTT(20), <3>3 DEF Frames
  <2> QED  BY Zenon, <2>2, <2>3, <2>4
<1>14. \A u \in Thread, i \in Nat : ~Run(u, i, n)
  <2> SUFFICES ASSUME NEW u \in Thread, NEW i \in Nat, Run(u, i, n) PROVE FALSE
    BY SMTT(20)
  <2>1. FrameInv(stack[u][i]) /\ stack[u][i].fut = n
    BY Zenon, <1>3 DEF FramesOK, Run
  <2>2. n <= Len(made)
    BY Zenon, <2>1 DEF FrameInv
  <2> QED  BY SMTT(20), <1>0, <1>3, <2>2
<1>15. state'[n] = "deferred" /\ \A g \in 1 .. Len(made) : state'[g] = state[g]
  <2>1. \A g \in 1 .. Len(made) : g \in Future /\ g # n
    BY SMTT(20), <1>0, <1>3, PoolAssumption DEF FieldsOK, Future
  <2>2. state' = [state EXCEPT ![n] = "deferred"]
    BY Zenon, <1>1, <1>4
  <2>3. state'[n] = "deferred" /\ \A g \in Future : g # n => state'[g] = state[g]
    BY SMTT(20), <1>3, <1>4, <2>2 DEF FieldsOK
  <2> QED  BY Zenon, <2>1, <2>3
<1>16. "deferred" # "running" /\ "deferred" # "ready"
  OBVIOUS
<1>17. RunnersOK'
  <2>1. ASSUME NEW g \in 1 .. n
        PROVE  /\ state'[g] = "running" <=> \E u \in Thread, i \in Nat : Run(u, i, g)'
               /\ state'[g] = "ready" => made'[g] \in stored'
    <3>1. CASE g = n
      BY Zenon, <1>13, <1>14, <1>15, <1>16, <3>1
    <3>2. CASE g \in 1 .. Len(made)
      <4>1. /\ state[g] = "running" <=> \E u \in Thread, i \in Nat : Run(u, i, g)
            /\ state[g] = "ready" => made[g] \in stored
        BY Zenon, <1>3, <3>2 DEF RunnersOK
      <4> QED  BY Zenon, <1>1, <1>4, <1>13, <1>15, <3>2, <4>1
    <3> QED  BY Zenon, <1>8, <3>1, <3>2
  <2>2. ASSUME NEW g \in 1 .. n, NEW u \in Thread, NEW v \in Thread, NEW i \in Nat, NEW j \in Nat,
               Run(u, i, g)', Run(v, j, g)'
        PROVE  u = v /\ i = j
    <3>1. Run(u, i, g) /\ Run(v, j, g)
      BY Zenon, <1>13, <2>2
    <3>2. g \in 1 .. Len(made)
      BY Zenon, <1>8, <1>14, <3>1
    <3> QED  BY Zenon, <1>3, <3>1, <3>2 DEF RunnersOK
  <2> QED  BY Zenon, <1>4, <2>1, <2>2 DEF RunnersOK
<1>18. ASSUME NEW labels \in {Begun, Over} PROVE Counted(labels)' = Counted(labels)
  <2>1. ASSUME NEW g \in 1 .. n, NEW u \in Thread, NEW i \in Nat
        PROVE  RunIn(u, i, g, labels)' <=> RunIn(u, i, g, labels)
    BY Zenon, <1>13
  <2>2. n \notin Counted(labels)'
    BY Zenon, <1>13, <1>14, <1>15, <1>16, <1>8, <1>4 DEF Counted
  <2>3. \A g \in 1 .. Len(made) : g \in Counted(labels)' <=> g \in Counted(labels)
    BY Zenon, <1>4, <1>8, <1>15, <2>1 DEF Counted, RunIn
  <2>4. Counted(labels) \subseteq 1 .. Len(made) /\ Counted(labels)' \subseteq 1 .. n
    BY Zenon, <1>4 DEF Counted
  <2>5. \A g : g \in Counted(labels)' <=> g \in Counted(labels)
    BY Zenon, <1>8, <2>2, <2>3, <2>4
  <2> DEFINE A == Counted(labels)
  <2>6. \A g : g \in A' <=> g \in A
    BY Zenon, <2>5
  <2> HIDE DEF A
  <2>7. A' = A
    BY Zenon, <2>6
  <2> QED  BY Zenon, <2>7 DEF A
<1>19. CountsOK'
  <2>1. num_queued' = Len(made')
    BY Zenon, <1>0, <1>1, <1>3, <1>4 DEF CountsOK
  <2> QED  BY Zenon, <1>1, <1>3, <1>18, <2>1 DEF CountsOK
<1>20. Len(stack'[t]) >= 1 /\ (Len(stack'[t]) = 1 => Top(t)'.at \in BaseLabel(t))
  <2>1. "body" \in BaseLabel(t) => "push" \in BaseLabel(t)
    BY SMTT(20) DEF BaseLabel
  <2> QED  BY Zenon, <1>3, <1>6, <1>7, <2>1, TwoOrMore
<1>21. Len(stack'[t]) > 1 => Top(t)'.call \in Call
  BY Zenon, <1>3, <1>6, <1>7
<1>22. ~At(t, "loop") /\ ~At(t, "notify")
  BY SMTT(20), <1>1, OnePlace
<1> QED  BY ZenonT(30), <1>1, <1>2, <1>7, <1>9, <1>10, <1>11, <1>17, <1>19, <1>20, <1>21, <1>22, Assembled

-----------------------------------------------------------------------------
(* The invariant and what follows from it *)

\* A step that changes nothing.
LEMMA StutterInv ==
  ASSUME Inv, UNCHANGED vars
  PROVE  Inv'
<1>1. /\ stored' = stored /\ made' = made /\ state' = state /\ work_queue' = work_queue
      /\ asleep' = asleep /\ stack' = stack /\ num_queued' = num_queued
      /\ num_started' = num_started /\ num_finished' = num_finished /\ progress' = progress
  BY SMTT(20) DEF vars, shared, futureVars, queueVars, counters, printVars
<1>2. work_done' = work_done
  BY SMTT(20) DEF vars, shared, queueVars
<1>3. FieldsOK' /\ FramesOK' /\ BaseOK'
  <2>1. FieldsOK'
    BY Zenon, <1>1 DEF Inv, FieldsOK
  <2>2. \A fr : FrameInv(fr) => FrameInv(fr)'
    BY ZenonT(60), <1>1 DEF FrameInv, SeenOK
  <2>3. FramesOK'
    BY Zenon, <1>1, <2>2 DEF Inv, FramesOK
  <2>4. BaseOK'
    BY Zenon, <1>1 DEF Inv, BaseOK
  <2> QED  BY Zenon, <2>1, <2>3, <2>4
<1>4. RunnersOK'
  <2>1. \A u, i, f : Run(u, i, f)' <=> Run(u, i, f)
    BY Zenon, <1>1 DEF Run
  <2>2. RunnersOK
    BY DEF Inv
  <2>3. \A f \in 1 .. Len(made) :
          /\ state'[f] = "running" <=> \E u \in Thread, i \in Nat : Run(u, i, f)'
          /\ state'[f] = "ready" => made'[f] \in stored'
    BY Zenon, <1>1, <2>1, <2>2 DEF RunnersOK
  <2>4. \A f \in 1 .. Len(made), u \in Thread, v \in Thread, i \in Nat, j \in Nat :
          Run(u, i, f)' /\ Run(v, j, f)' => u = v /\ i = j
    BY Zenon, <2>1, <2>2 DEF RunnersOK
  <2> QED  BY Zenon, <1>1, <2>3, <2>4 DEF RunnersOK
<1>5. CountsOK'
  <2>1. ASSUME NEW labels PROVE Counted(labels)' = Counted(labels)
    <3> DEFINE A == Counted(labels)
    <3>1. \A f : f \in A' <=> f \in A
      BY Zenon, <1>1 DEF Counted, Run
    <3> HIDE DEF A
    <3>2. A' = A
      BY SMTT(20), <3>1
    <3> QED  BY Zenon, <3>2 DEF A
  <2> QED  BY Zenon, <1>1, <2>1 DEF Inv, CountsOK
<1>6. AsleepOK' /\ NoNegativeProgress'
  BY SMTT(20), <1>1 DEF Inv, AsleepOK, At, Top, NoNegativeProgress
<1>7. NoLostWakeup'
  BY Zenon, <1>1, <1>2 DEF Inv, NoLostWakeup, Looking, Notifying, At, Top
<1> QED  BY Zenon, <1>3, <1>4, <1>5, <1>6, <1>7 DEF Inv

\* Every step keeps the invariant.
LEMMA InvStep == Counting /\ Inv /\ [Next]_vars => Inv'
<1> SUFFICES ASSUME Counting, Inv, [Next]_vars PROVE Inv'
  BY SMTT(20)
<1>1. ASSUME NEW t \in Thread, EvaluateAsync(t) \/ QueueFuture(t) \/ NotifyOne(t) PROVE Inv'
  BY Zenon, <1>1, EvaluateAsyncInv, QueueFutureInv, NotifyOneInv
<1>2. ASSUME NEW t \in Thread, WaitFor(t) \/ RunDeferred(t) \/ GotResult(t) PROVE Inv'
  BY Zenon, <1>2, WaitForInv, RunDeferredInv, GotResultInv
<1>3. ASSUME NEW t \in Thread, Start(t) \/ SkipReport(t) \/ Load(t) PROVE Inv'
  BY Zenon, <1>3, StartInv, SkipReportInv, LoadInv
<1>4. ASSUME NEW t \in Thread, ShowProgress(t) \/ Finish(t) \/ Ready(t) PROVE Inv'
  BY Zenon, <1>4, ShowProgressInv, FinishInv, ReadyInv
<1>5. ASSUME NEW t \in Thread, Evaluate(t) \/ Resolve(t) \/ FuncReturns(t) \/ SetResult(t) PROVE Inv'
  BY Zenon, <1>5, EvaluateInv, ResolveInv, FuncReturnsInv, SetResultInv
<1>6. ASSUME NEW w \in Worker, WorkerStep(w) PROVE Inv'
  BY Zenon, <1>6, WorkerLeavesInv, WorkerTakesInv, WorkerSleepsInv DEF WorkerStep
<1>7. ASSUME NEW w \in Worker, SpuriousWakeup(w) PROVE Inv'
  BY Zenon, <1>7, SpuriousWakeupInv
<1>8. ASSUME MainStep PROVE Inv'
  BY Zenon, <1>8, DestroyInv, NotifyAllInv, JoinInv DEF MainStep
<1>9. ASSUME NEW t \in Thread, ThreadStep(t) PROVE Inv'
  BY Zenon, <1>1, <1>2, <1>3, <1>4, <1>5, <1>9 DEF ThreadStep
<1>10. ASSUME UNCHANGED vars PROVE Inv'
  BY Zenon, <1>10, StutterInv
<1> QED  BY Zenon, <1>6, <1>7, <1>8, <1>9, <1>10 DEF Next

\* When the evaluator is made, every thread has one frame that runs no future.
LEMMA InitInv == Counting /\ Init => Inv
<1> SUFFICES ASSUME Counting, Init PROVE Inv
  BY SMTT(20)
<1>1. /\ stored = {} /\ made = <<>> /\ state = [f \in Future |-> "none"] /\ work_queue = <<>> /\ asleep = {}
      /\ num_queued = 0 /\ num_started = 0 /\ num_finished = 0 /\ progress = <<0, 0, 0>>
      /\ stack = [t \in Thread |-> IF t = Main THEN <<Frame("body", None, 0, TopCalls)>>
                                               ELSE <<Frame("loop", None, 0, {})>>]
  BY SMTT(20) DEF Init
<1>2. /\ Frame("body", None, 0, TopCalls) \in Frames /\ Frame("loop", None, 0, {}) \in Frames
      /\ FrameInv(Frame("body", None, 0, TopCalls)) /\ FrameInv(Frame("loop", None, 0, {}))
  <2>1. Len(made) = 0
    BY SMTT(20), <1>1
  <2>2. <<>> \in Seq(Nat) /\ Len(<<>>) = 0
    BY SMTT(20)
  <2>3. Frame("body", None, 0, TopCalls) \in Frames /\ Frame("loop", None, 0, {}) \in Frames
    BY Zenon, <2>2, PoolAssumption DEF Frame, Frames, Label
  <2>4. \A a \in {"body", "loop"} : \A todo : \E fr : fr = Frame(a, None, 0, todo) /\ fr.fut = 0 /\ fr.cur = 0
          /\ fr.mine = {} /\ fr.at \in {"body", "loop"} /\ Len(fr.seen) = 0
    <3> TAKE a \in {"body", "loop"}
    <3> TAKE todo
    <3>1. /\ Frame(a, None, 0, todo).fut = 0 /\ Frame(a, None, 0, todo).cur = 0
          /\ Frame(a, None, 0, todo).mine = {} /\ Frame(a, None, 0, todo).at = a
          /\ Frame(a, None, 0, todo).seen = <<>>
      BY SMTT(20) DEF Frame
    <3> QED  BY Zenon, <2>2, <3>1
  <2>5. \A fr : fr.fut = 0 /\ fr.cur = 0 /\ fr.mine = {} /\ fr.at \in {"body", "loop"} /\ Len(fr.seen) = 0
                  => FrameInv(fr)
    BY SMTT(20), <2>1 DEF FrameInv, SeenOK
  <2>6. \A a \in {"body", "loop"} : \A todo : FrameInv(Frame(a, None, 0, todo))
    BY Zenon, <2>4, <2>5
  <2>7. "body" \in {"body", "loop"} /\ "loop" \in {"body", "loop"}
    BY Zenon
  <2>8. FrameInv(Frame("body", None, 0, TopCalls)) /\ FrameInv(Frame("loop", None, 0, {}))
    BY Zenon, <2>6, <2>7
  <2> QED  BY Zenon, <2>3, <2>8
<1>3. \A t \in Thread :
        /\ stack[t] \in Seq(Frames) /\ Len(stack[t]) = 1 /\ FrameInv(stack[t][1]) /\ stack[t][1].fut = 0
        /\ stack[t][1].at = IF t = Main THEN "body" ELSE "loop"
  <2> TAKE t \in Thread
  <2>1. PICK fr \in Frames :
          stack[t] = <<fr>> /\ FrameInv(fr) /\ fr.fut = 0 /\ fr.at = IF t = Main THEN "body" ELSE "loop"
    <3>1. CASE t = Main
      <4>1. stack[t] = <<Frame("body", None, 0, TopCalls)>>
        BY SMTT(20), <1>1, <3>1
      <4>2. Frame("body", None, 0, TopCalls).fut = 0 /\ Frame("body", None, 0, TopCalls).at = "body"
        BY DEF Frame
      <4> QED  BY Zenon, <1>2, <3>1, <4>1, <4>2
    <3>2. CASE t # Main
      <4>1. stack[t] = <<Frame("loop", None, 0, {})>>
        BY SMTT(20), <1>1, <3>2
      <4>2. Frame("loop", None, 0, {}).fut = 0 /\ Frame("loop", None, 0, {}).at = "loop"
        BY SMTT(20) DEF Frame
      <4> QED  BY Zenon, <1>2, <3>2, <4>1, <4>2
    <3> QED  BY Zenon, <3>1, <3>2
  <2>2. <<fr>> \in Seq(Frames) /\ Len(<<fr>>) = 1 /\ <<fr>>[1] = fr
    OBVIOUS
  <2> QED  BY Zenon, <2>1, <2>2
<1>4. Len(made) = 0 /\ 1 .. Len(made) = {} /\ Len(work_queue) = 0
  BY SMTT(20), <1>1
<1>5. FieldsOK
  <2>1. stack \in [Thread -> Seq(Frames)]
    BY SMTT(20), <1>1, <1>3
  <2> QED  BY SMTT(20), <1>1, <1>4, <2>1, PoolAssumption DEF FieldsOK, Future
<1>6. FramesOK
  <2>0. \A n : n = 1 => \A i \in 1 .. n : i = 1
    BY SMTT(20)
  <2>1. \A t \in Thread : \A i \in 1 .. Len(stack[t]) : i = 1
    BY ZenonT(60), <1>3, <2>0
  <2> QED  BY Zenon, <1>3, <2>1 DEF FramesOK
<1>7. BaseOK
  BY SMTT(20), <1>3 DEF BaseOK
<1>8. RunnersOK
  BY Zenon, <1>4 DEF RunnersOK
<1>9. CountsOK
  <2>1. \A labels : Counted(labels) = {}
    BY Zenon, <1>4 DEF Counted
  <2>2. Cardinality(Counted(Begun)) = 0 /\ Cardinality(Counted(Over)) = 0
    BY Zenon, <2>1, SmallSets
  <2> QED  BY SMTT(20), <1>1, <1>4, <2>2 DEF CountsOK
<1>10. AsleepOK /\ NoLostWakeup
  BY Zenon, <1>1 DEF AsleepOK, NoLostWakeup
<1>11. NoNegativeProgress
  BY SMTT(20), <1>1 DEF NoNegativeProgress
<1> QED  BY Zenon, <1>5, <1>6, <1>7, <1>8, <1>9, <1>10, <1>11 DEF Inv

-----------------------------------------------------------------------------
(* The theorems *)

INSTANCE FiniteSetTheorems

\* Finite sets are what the pool needs them to be.
LEMMA CountingHolds == Counting
<1>1. \A S : IsFiniteSet(S) => Cardinality(S) \in Nat /\ (Cardinality(S) = 0 <=> S = {})
  BY Zenon, FS_CardinalityType, FS_EmptySet
<1>2. \A S, T : IsFiniteSet(S) /\ T \subseteq S => IsFiniteSet(T) /\ Cardinality(T) <= Cardinality(S)
  BY Zenon, FS_Subset
<1>3. \A S, a : IsFiniteSet(S) => /\ IsFiniteSet(S \cup {a})
                                  /\ a \notin S => Cardinality(S \cup {a}) = Cardinality(S) + 1
  BY Zenon, FS_AddElement
<1>4. \A S, a : IsFiniteSet(S) /\ a \in S => Cardinality(S \ {a}) = Cardinality(S) - 1
  BY Zenon, FS_RemoveElement
<1>5. \A a : IsFiniteSet({a}) /\ Cardinality({a}) = 1
  BY Zenon, FS_Singleton
<1>6. \A n \in Nat : IsFiniteSet(1 .. n) /\ Cardinality(1 .. n) = n
  BY FS_Interval
<1> QED  BY Zenon, <1>1, <1>2, <1>3, <1>4, <1>5, <1>6, FS_EmptySet DEF Counting

\* The invariant holds for every pool, every set of calls and every bound on the futures.
THEOREM PoolInvariant == Spec => []Inv
<1>1. Init => Inv
  BY Zenon, CountingHolds, InitInv
<1>2. Inv /\ [Next]_vars => Inv'
  BY Zenon, CountingHolds, InvStep
<1> QED  BY <1>1, <1>2, PTL DEF Spec

\* While a worker sleeps, every queued future has a worker about to look at the queue or a
\* thread about to wake one: evaluateAsync's notify_one after the unlock loses no wake-up.
THEOREM NoLostWakeupHolds == Spec => []NoLostWakeup
<1>1. Inv => NoLostWakeup
  BY DEF Inv
<1> QED  BY <1>1, PoolInvariant, PTL

\* A future is run by one frame of one thread until it is ready, and its result is then in
\* the store, though its maker and a worker may wait for it at once.
THEOREM RunOnceHolds == Spec => []RunOnce
<1>1. ASSUME Inv PROVE RunOnce
  <2> SUFFICES ASSUME NEW f \in 1 .. Len(made)
               PROVE  /\ Cardinality(Runners(f)) = IF state[f] = "running" THEN 1 ELSE 0
                      /\ state[f] = "ready" => made[f] \in stored
    BY SMTT(20) DEF RunOnce
  <2>1. FieldsOK /\ RunnersOK
    BY <1>1 DEF Inv
  <2>2. \A t \in Thread : DOMAIN stack[t] = 1 .. Len(stack[t]) /\ 1 .. Len(stack[t]) \subseteq Nat
    BY SMTT(20), <2>1 DEF FieldsOK
  <2>3. \A r : r \in Runners(f) <=> \E t \in Thread, i \in Nat : r = <<t, i>> /\ Run(t, i, f)
    <3> DEFINE Mine(t) == {<<t, i>> : i \in {j \in DOMAIN stack[t] : stack[t][j].fut = f}}
    <3>1. \A t \in Thread : \A r : r \in Mine(t) <=> \E i \in Nat : r = <<t, i>> /\ Run(t, i, f)
      BY SMTT(20), <2>2 DEF Run
    <3>2. \A r : r \in Runners(f) <=> \E t \in Thread : r \in Mine(t)
      BY SMTT(20) DEF Runners
    <3> HIDE DEF Mine
    <3> QED  BY Zenon, <3>1, <3>2
  <2>4. /\ state[f] = "running" <=> \E t \in Thread, i \in Nat : Run(t, i, f)
        /\ state[f] = "ready" => made[f] \in stored
        /\ \A t \in Thread, u \in Thread, i \in Nat, j \in Nat : Run(t, i, f) /\ Run(u, j, f) => t = u /\ i = j
    BY Zenon, <2>1 DEF RunnersOK
  <2>5. CASE state[f] = "running"
    <3>1. PICK t \in Thread, i \in Nat : Run(t, i, f)
      BY Zenon, <2>4, <2>5
    <3>2. \A r : r \in Runners(f) <=> r = <<t, i>>
      <4> TAKE r
      <4>1. ASSUME r \in Runners(f) PROVE r = <<t, i>>
        <5>1. PICK u \in Thread, j \in Nat : r = <<u, j>> /\ Run(u, j, f)
          BY Zenon, <2>3, <4>1
        <5>2. u = t /\ j = i
          BY Zenon, <2>4, <3>1, <5>1
        <5> QED  BY Zenon, <5>1, <5>2
      <4>2. ASSUME r = <<t, i>> PROVE r \in Runners(f)
        BY Zenon, <2>3, <3>1, <4>2
      <4> QED  BY Zenon, <4>1, <4>2
    <3>3. Runners(f) = {<<t, i>>}
      BY SMTT(20), <3>2
    <3>4. Cardinality(Runners(f)) = 1
      BY Zenon, <3>3, CountingHolds, SmallSets
    <3> QED  BY <2>4, <2>5, <3>4
  <2>6. CASE state[f] # "running"
    <3>1. Runners(f) = {}
      BY Zenon, <2>3, <2>4, <2>6
    <3>2. Cardinality(Runners(f)) = 0
      BY Zenon, <3>1, CountingHolds, SmallSets
    <3> QED  BY SMTT(20), <2>4, <2>6, <3>2
  <2> QED  BY Zenon, <2>5, <2>6
<1> QED  BY <1>1, PoolInvariant, PTL

\* printProgress never prints a negative count, though the counters move while it loads them.
THEOREM NoNegativeProgressHolds == Spec => []NoNegativeProgress
<1>1. Inv => NoNegativeProgress
  BY SMTT(20) DEF Inv
<1> QED  BY <1>1, PoolInvariant, PTL

\* The variables have their types in every reachable state: the frames know only futures
\* that were made, and stderr_mutex belongs to one of the threads or to none.
THEOREM TypeCorrect == Spec => []TypeOK
<1> DEFINE Mutexes == work_done \in BOOLEAN /\ stderr_owner \in Thread \cup {None}
<1>1. Init => Mutexes
  BY Zenon DEF Init
<1>2. Mutexes /\ [Next]_vars => Mutexes'
  <2> SUFFICES ASSUME Mutexes, [Next]_vars
               PROVE  (work_done' = work_done \/ work_done' = TRUE) /\ (stderr_owner' = stderr_owner \/ stderr_owner' \in Thread \cup {None})
    BY Zenon
  <2>1. ASSUME NEW t \in Thread,
               Evaluate(t) \/ Resolve(t) \/ FuncReturns(t) \/ SkipReport(t) \/ WaitFor(t) \/ GotResult(t)
        PROVE  work_done' = work_done /\ stderr_owner' = stderr_owner
    BY Zenon, <2>1
       DEF Evaluate, Resolve, FuncReturns, SkipReport, WaitFor, GotResult, shared, queueVars, printVars
  <2>2. ASSUME NEW t \in Thread, EvaluateAsync(t) \/ QueueFuture(t) \/ NotifyOne(t) \/ RunDeferred(t)
        PROVE  work_done' = work_done /\ stderr_owner' = stderr_owner
    BY Zenon, <2>2 DEF EvaluateAsync, QueueFuture, NotifyOne, RunDeferred, queueVars, printVars
  <2>3. ASSUME NEW t \in Thread, Start(t) \/ Finish(t) \/ Ready(t) \/ SetResult(t)
        PROVE  work_done' = work_done /\ stderr_owner' = stderr_owner
    BY Zenon, <2>3 DEF Start, Finish, Ready, SetResult, queueVars, printVars
  <2>4. ASSUME NEW t \in Thread, Load(t) \/ ShowProgress(t)
        PROVE  work_done' = work_done /\ stderr_owner' \in Thread \cup {None}
    BY Zenon, <2>4 DEF Load, ShowProgress, queueVars
  <2>5. ASSUME NEW w \in Worker, WorkerStep(w) \/ SpuriousWakeup(w)
        PROVE  work_done' = work_done /\ stderr_owner' = stderr_owner
    BY Zenon, <2>5
       DEF WorkerStep, WorkerLeaves, WorkerTakes, WorkerSleeps, SpuriousWakeup, shared, queueVars, printVars
  <2>6. ASSUME MainStep
        PROVE  (work_done' = work_done \/ work_done' = TRUE) /\ stderr_owner' = stderr_owner
    BY Zenon, <2>6 DEF MainStep, Destroy, NotifyAll, Join, shared, queueVars, printVars
  <2>7. ASSUME UNCHANGED vars PROVE work_done' = work_done /\ stderr_owner' = stderr_owner
    BY Zenon, <2>7 DEF vars, shared, queueVars, printVars
  <2> QED  BY Zenon, <2>1, <2>2, <2>3, <2>4, <2>5, <2>6, <2>7 DEF Next, ThreadStep
<1>3. Inv /\ Mutexes => TypeOK
  <2> SUFFICES ASSUME Inv, Mutexes PROVE TypeOK
    OBVIOUS
  <2>1. FieldsOK /\ FramesOK /\ BaseOK
    BY SMTT(20) DEF Inv
  <2>2. work_queue \in Seq(1 .. Len(made)) /\ DOMAIN stack = Thread
    BY SMTT(20), <2>1 DEF FieldsOK
  <2>3. ASSUME NEW t \in Thread PROVE stack[t] # <<>> /\ \A i \in DOMAIN stack[t] : FrameOK(stack[t][i])
    <3>1. stack[t] \in Seq(Frames) /\ Len(made) \in Nat
      BY <2>1 DEF FieldsOK
    <3>2. DOMAIN stack[t] = 1 .. Len(stack[t])
      BY SMTT(20), <3>1
    <3>3. ASSUME NEW fr \in Frames, FrameInv(fr) PROVE FrameOK(fr)
      BY SMTT(20), <3>1, <3>3 DEF Frames, Label, FrameInv, SeenOK, FrameOK
    <3>4. \A i \in 1 .. Len(stack[t]) : stack[t][i] \in Frames
      BY Zenon, <3>1, SeqElement
    <3>5. Len(stack[t]) >= 1
      BY SMTT(20), <2>1 DEF BaseOK
    <3>6. stack[t] # <<>>
      BY <3>5
    <3> QED  BY Zenon, <2>1, <3>2, <3>3, <3>4, <3>6 DEF FramesOK
  <2> QED  BY Zenon, <2>1, <2>2, <2>3 DEF FieldsOK, TypeOK
<1> QED  BY <1>1, <1>2, <1>3, PoolInvariant, PTL DEF Spec

=============================================================================

---------------------------- MODULE ServerProofs ----------------------------
(***************************************************************************)
(* Proofs about Server, for any connections, calls, funcs and timeouts.    *)
(***************************************************************************)
EXTENDS Server, TLAPS, SequenceTheorems

-----------------------------------------------------------------------------
(* What the three operations on a queue do to its elements.                *)

\* push_back adds one element, and no repetition if the element is new.
LEMMA AppendQueue ==
  ASSUME NEW S, NEW q \in Seq(S), NEW c \in S
  PROVE  /\ Append(q, c) \in Seq(S)
         /\ \A d : InQueue(Append(q, c), d) <=> InQueue(q, d) \/ d = c
         /\ NoRepeats(q) /\ ~InQueue(q, c) => NoRepeats(Append(q, c))
<1>1. /\ Append(q, c) \in Seq(S)
      /\ Len(Append(q, c)) = Len(q) + 1
      /\ Len(q) \in Nat
      /\ \A i \in 1..Len(q) : Append(q, c)[i] = q[i]
      /\ Append(q, c)[Len(q) + 1] = c
  BY AppendProperties, LenProperties
<1>2. ASSUME NEW d
      PROVE  InQueue(Append(q, c), d) <=> InQueue(q, d) \/ d = c
  BY <1>1 DEF InQueue
<1>3. NoRepeats(q) /\ ~InQueue(q, c) => NoRepeats(Append(q, c))
  BY <1>1 DEF InQueue, NoRepeats
<1> QED BY <1>1, <1>2, <1>3

\* Dropping n elements splits the queue in two disjoint parts.
LEMMA DropQueue ==
  ASSUME NEW S, NEW q \in Seq(S), NEW n \in 0..Len(q)
  PROVE  /\ Drop(q, n) \in Seq(S)
         /\ \A d : InQueue(q, d) <=> InQueue(Drop(q, n), d) \/ d \in Dropped(q, n)
         /\ NoRepeats(q) =>
              /\ NoRepeats(Drop(q, n))
              /\ \A d \in Dropped(q, n) : ~InQueue(Drop(q, n), d)
<1>0. Len(q) \in Nat /\ n \in Nat /\ n <= Len(q)
  BY LenProperties
<1>1. /\ Drop(q, n) \in Seq(S)
      /\ Len(Drop(q, n)) = Len(q) - n
      /\ \A i \in 1..(Len(q) - n) : Drop(q, n)[i] = q[n + i]
  <2>1. CASE n = Len(q)
    <3>1. Drop(q, n) = << >>
      BY <1>0, <2>1, SubSeqProperties DEF Drop
    <3> QED BY <3>1, <2>1, <1>0
  <2>2. CASE n # Len(q)
    BY <1>0, <2>2, SubSeqProperties DEF Drop
  <2> QED BY <2>1, <2>2
<1>2. ASSUME NEW d
      PROVE  InQueue(q, d) <=> InQueue(Drop(q, n), d) \/ d \in Dropped(q, n)
  <2>1. ASSUME NEW i \in 1..Len(q), q[i] = d
        PROVE  InQueue(Drop(q, n), d) \/ d \in Dropped(q, n)
    <3>1. CASE i <= n BY <2>1, <3>1, <1>0 DEF Dropped
    <3>2. CASE i > n
      <4>1. i - n \in 1..(Len(q) - n) /\ n + (i - n) = i BY <3>2, <1>0
      <4> QED BY Zenon, <4>1, <2>1, <1>1 DEF InQueue
    <3> QED BY <3>1, <3>2, <1>0
  <2>2. ASSUME InQueue(Drop(q, n), d) PROVE InQueue(q, d)
    <3>1. PICK i \in 1..(Len(q) - n) : q[n + i] = d BY <2>2, <1>1 DEF InQueue
    <3>2. n + i \in 1..Len(q) BY <1>0
    <3> QED BY <3>1, <3>2 DEF InQueue
  <2>3. ASSUME d \in Dropped(q, n) PROVE InQueue(q, d)
    BY <2>3, <1>0 DEF Dropped, InQueue
  <2> QED BY <2>1, <2>2, <2>3 DEF InQueue
<1>3. ASSUME NoRepeats(q) PROVE NoRepeats(Drop(q, n))
  BY <1>0, <1>1, <1>3 DEF NoRepeats
<1>4. ASSUME NoRepeats(q), NEW d \in Dropped(q, n), InQueue(Drop(q, n), d)
      PROVE  FALSE
  <2>1. PICK i \in 1..n : q[i] = d BY <1>4 DEF Dropped
  <2>2. PICK j \in 1..(Len(q) - n) : q[n + j] = d BY SMTT(60), <1>1, <1>4 DEF InQueue
  <2>3. i \in 1..Len(q) /\ n + j \in 1..Len(q) /\ i # n + j BY <1>0
  <2> QED BY <2>1, <2>2, <2>3, <1>4 DEF NoRepeats
<1> QED BY <1>1, <1>2, <1>3, <1>4

\* pop_front takes away the head, which then occurs no more.
LEMMA TailQueue ==
  ASSUME NEW S, NEW q \in Seq(S), q # << >>
  PROVE  /\ Head(q) \in S
         /\ Tail(q) \in Seq(S)
         /\ InQueue(q, Head(q))
         /\ \A d : InQueue(q, d) <=> InQueue(Tail(q), d) \/ d = Head(q)
         /\ NoRepeats(q) => NoRepeats(Tail(q)) /\ ~InQueue(Tail(q), Head(q))
<1>1. /\ Head(q) = q[1]
      /\ Head(q) \in S
      /\ Tail(q) \in Seq(S)
      /\ Len(q) \in Nat \ {0}
      /\ Len(Tail(q)) = Len(q) - 1
      /\ \A i \in 1..(Len(q) - 1) : Tail(q)[i] = q[i + 1]
  BY HeadTailProperties, LenProperties, EmptySeq
<1>2. InQueue(q, Head(q))
  BY <1>1 DEF InQueue
<1>3. ASSUME NEW d
      PROVE  InQueue(q, d) <=> InQueue(Tail(q), d) \/ d = Head(q)
  <2>1. ASSUME NEW i \in 1..Len(q), q[i] = d
        PROVE  InQueue(Tail(q), d) \/ d = Head(q)
    <3>1. CASE i = 1 BY <3>1, <2>1, <1>1
    <3>2. CASE i # 1
      <4>1. i - 1 \in 1..(Len(q) - 1) /\ (i - 1) + 1 = i BY <3>2, <1>1
      <4> QED BY <4>1, <2>1, <1>1 DEF InQueue
    <3> QED BY <3>1, <3>2
  <2>2. ASSUME InQueue(Tail(q), d) PROVE InQueue(q, d)
    <3>1. PICK i \in 1..(Len(q) - 1) : q[i + 1] = d BY <2>2, <1>1 DEF InQueue
    <3>2. i + 1 \in 1..Len(q) BY <1>1
    <3> QED BY <3>1, <3>2 DEF InQueue
  <2> QED BY <2>1, <2>2, <1>2 DEF InQueue
<1>4. ASSUME NoRepeats(q)
      PROVE  NoRepeats(Tail(q)) /\ ~InQueue(Tail(q), Head(q))
  BY <1>1, <1>4 DEF NoRepeats, InQueue
<1> QED BY <1>1, <1>2, <1>3, <1>4
-----------------------------------------------------------------------------
(* What a lock section does to the queues, step by step.                   *)

\* QueuesConsistent and NoFinishedCallAssigned of any values of the variables.
Consistent(cs, as, fin, un, re) ==
  /\ cs \subseteq Call
  /\ as \subseteq cs
  /\ fin \subseteq cs
  /\ \A c \in fin : c \notin as
  /\ un \in [Func -> Seq(Call)]
  /\ re \in [Func -> Seq(Call)]
  /\ \A f \in Func : NoRepeats(un[f]) /\ NoRepeats(re[f])
  /\ \A f \in Func : \A c \in Call : InQueue(un[f], c) =>
       NameOf[c] = f /\ c \in cs /\ ~InQueue(re[f], c)
  /\ \A f \in Func : \A c \in Call : InQueue(re[f], c) =>
       NameOf[c] = f /\ c \in cs
  /\ \A c \in cs :
       c \notin as <=> InQueue(un[NameOf[c]], c) \/ InQueue(re[NameOf[c]], c)

QueueInv == Consistent(calls, assigned, finished, unstarted_calls, calls_to_retry)

\* deleteSomeFinishedCalls: what it finds and what it leaves.
DeletePre(cs, as, fin, un, re, f, n, m) ==
  /\ Consistent(cs, as, fin, un, re)
  /\ f \in Func
  /\ FinishedPrefix(un[f], n, fin)
  /\ FinishedPrefix(re[f], m, fin)

DeletePost(cs, as, fin, un, re, f, n, m) ==
  LET D == Dropped(un[f], n) \cup Dropped(re[f], m) IN
  /\ D \subseteq fin
  /\ Consistent(cs \ D, as, fin \ D, [un EXCEPT ![f] = Drop(@, n)],
                [re EXCEPT ![f] = Drop(@, m)])

\* Popping finished calls off both queues and erasing them keeps the group
\* consistent.
LEMMA DeleteConsistent ==
  ASSUME NEW cs, NEW as, NEW fin, NEW un, NEW re, NEW f, NEW n, NEW m,
         DeletePre(cs, as, fin, un, re, f, n, m)
  PROVE  DeletePost(cs, as, fin, un, re, f, n, m)
<1> DEFINE D == Dropped(un[f], n) \cup Dropped(re[f], m)
<1> USE DEF DeletePre
<1> DEFINE un2 == [un EXCEPT ![f] = Drop(@, n)]
           re2 == [re EXCEPT ![f] = Drop(@, m)]
<1> USE ServerAssumption
<1>1. /\ un[f] \in Seq(Call) /\ n \in 0..Len(un[f])
      /\ re[f] \in Seq(Call) /\ m \in 0..Len(re[f])
      /\ NoRepeats(un[f]) /\ NoRepeats(re[f])
  BY DEF Consistent, FinishedPrefix
<1>2. D \subseteq fin
  BY DEF FinishedPrefix, Dropped
<1>3. /\ Drop(un[f], n) \in Seq(Call)
      /\ \A d : InQueue(un[f], d) <=>
           InQueue(Drop(un[f], n), d) \/ d \in Dropped(un[f], n)
      /\ NoRepeats(Drop(un[f], n))
      /\ \A d \in Dropped(un[f], n) : ~InQueue(Drop(un[f], n), d)
  BY <1>1, DropQueue
<1>4. /\ Drop(re[f], m) \in Seq(Call)
      /\ \A d : InQueue(re[f], d) <=>
           InQueue(Drop(re[f], m), d) \/ d \in Dropped(re[f], m)
      /\ NoRepeats(Drop(re[f], m))
      /\ \A d \in Dropped(re[f], m) : ~InQueue(Drop(re[f], m), d)
  BY <1>1, DropQueue
<1>5. /\ un2 \in [Func -> Seq(Call)] /\ re2 \in [Func -> Seq(Call)]
      /\ un2[f] = Drop(un[f], n) /\ re2[f] = Drop(re[f], m)
      /\ \A g \in Func \ {f} : un2[g] = un[g] /\ re2[g] = re[g]
  BY <1>3, <1>4 DEF Consistent
<1>6. \A g \in Func : NoRepeats(un2[g]) /\ NoRepeats(re2[g])
  BY <1>3, <1>4, <1>5 DEF Consistent
<1>7. \A c \in D : NameOf[c] = f
  BY <1>2, <1>3, <1>4 DEF Consistent
<1>8. \A g \in Func : \A c \in Call : InQueue(un2[g], c) =>
        NameOf[c] = g /\ c \in cs \ D /\ ~InQueue(re2[g], c)
  <2> SUFFICES ASSUME NEW g \in Func, NEW c \in Call, InQueue(un2[g], c)
               PROVE  NameOf[c] = g /\ c \in cs \ D /\ ~InQueue(re2[g], c)
    OBVIOUS
  <2>1. CASE g = f BY <2>1, <1>3, <1>4, <1>5 DEF Consistent
  <2>2. CASE g # f BY <2>2, <1>5, <1>7 DEF Consistent
  <2> QED BY <2>1, <2>2
<1>9. \A g \in Func : \A c \in Call : InQueue(re2[g], c) =>
        NameOf[c] = g /\ c \in cs \ D
  <2> SUFFICES ASSUME NEW g \in Func, NEW c \in Call, InQueue(re2[g], c)
               PROVE  NameOf[c] = g /\ c \in cs \ D
    OBVIOUS
  <2>1. CASE g = f BY <2>1, <1>3, <1>4, <1>5 DEF Consistent
  <2>2. CASE g # f BY <2>2, <1>5, <1>7 DEF Consistent
  <2> QED BY <2>1, <2>2
<1>10. \A c \in cs \ D : c \notin as <=>
         InQueue(un2[NameOf[c]], c) \/ InQueue(re2[NameOf[c]], c)
  <2> SUFFICES ASSUME NEW c \in cs \ D
               PROVE  c \notin as <=>
                        InQueue(un2[NameOf[c]], c) \/ InQueue(re2[NameOf[c]], c)
    BY Zenon
  <2>1. CASE NameOf[c] = f BY Zenon, <2>1, <1>3, <1>4, <1>5 DEF Consistent
  <2>2. CASE NameOf[c] # f BY Zenon, <2>2, <1>5 DEF Consistent
  <2> QED BY Zenon, <2>1, <2>2
<1>11. /\ cs \ D \subseteq Call
       /\ as \subseteq cs \ D
       /\ fin \ D \subseteq cs \ D
       /\ \A c \in fin \ D : c \notin as
  BY Zenon, <1>2 DEF Consistent
<1>12. Consistent(cs \ D, as, fin \ D, un2, re2)
  <2> HIDE DEF un2, re2
  <2> QED BY Zenon, <1>5, <1>6, <1>8, <1>9, <1>10, <1>11, Zenon DEF Consistent
<1> QED BY <1>2, <1>12 DEF DeletePost

\* The first unstarted call is given to a worker: before and after.
PopUnstartedPre(cs, as, fin, un, re, f) ==
  /\ Consistent(cs, as, fin, un, re)
  /\ f \in Func
  /\ un[f] # << >>
  /\ Head(un[f]) \notin fin

PopUnstartedPost(cs, as, fin, un, re, f) ==
  /\ Head(un[f]) \in cs \ as
  /\ Consistent(cs, as \cup {Head(un[f])}, fin, [un EXCEPT ![f] = Tail(@)], re)

\* A call popped off the front of unstarted_calls may become assigned.
LEMMA PopUnstartedConsistent ==
  ASSUME NEW cs, NEW as, NEW fin, NEW un, NEW re, NEW f,
         PopUnstartedPre(cs, as, fin, un, re, f)
  PROVE  PopUnstartedPost(cs, as, fin, un, re, f)
<1> USE DEF PopUnstartedPre
<1> DEFINE h == Head(un[f])
           un2 == [un EXCEPT ![f] = Tail(@)]
<1> USE ServerAssumption
<1>1. /\ h \in Call
      /\ Tail(un[f]) \in Seq(Call)
      /\ InQueue(un[f], h)
      /\ \A d : InQueue(un[f], d) <=> InQueue(Tail(un[f]), d) \/ d = h
      /\ NoRepeats(Tail(un[f])) /\ ~InQueue(Tail(un[f]), h)
  BY TailQueue DEF Consistent
<1>2. /\ un2 \in [Func -> Seq(Call)]
      /\ un2[f] = Tail(un[f])
      /\ \A g \in Func \ {f} : un2[g] = un[g]
  BY <1>1 DEF Consistent
<1>3. h \in cs \ as /\ NameOf[h] = f /\ ~InQueue(re[f], h)
  BY Zenon, <1>1 DEF Consistent
<1>4. \A g \in Func : NoRepeats(un2[g])
  BY <1>1, <1>2 DEF Consistent
<1>5. \A g \in Func : \A c \in Call : InQueue(un2[g], c) =>
        NameOf[c] = g /\ c \in cs /\ ~InQueue(re[g], c)
  BY <1>1, <1>2 DEF Consistent
<1>6. \A c \in cs : c \notin as \cup {h} <=>
        InQueue(un2[NameOf[c]], c) \/ InQueue(re[NameOf[c]], c)
  <2> SUFFICES ASSUME NEW c \in cs
               PROVE  c \notin as \cup {h} <=>
                        InQueue(un2[NameOf[c]], c) \/ InQueue(re[NameOf[c]], c)
    BY Zenon
  <2>1. CASE c = h BY <2>1, <1>1, <1>2, <1>3 DEF Consistent
  <2>2. CASE c # h /\ NameOf[c] = f BY Zenon, <2>2, <1>1, <1>2 DEF Consistent
  <2>3. CASE NameOf[c] # f BY ZenonT(60), <2>3, <1>2, <1>3 DEF Consistent
  <2> QED BY Zenon, <2>1, <2>2, <2>3
<1>7. /\ cs \subseteq Call
      /\ as \cup {h} \subseteq cs
      /\ fin \subseteq cs
      /\ \A c \in fin : c \notin as \cup {h}
      /\ re \in [Func -> Seq(Call)]
  <2>1. h \notin fin OBVIOUS
  <2>2. /\ cs \subseteq Call /\ as \subseteq cs /\ fin \subseteq cs
        /\ \A c \in fin : c \notin as
        /\ re \in [Func -> Seq(Call)]
    BY Zenon DEF Consistent
  <2> HIDE DEF h, un2
  <2> QED BY Zenon, <2>1, <2>2, <1>3, Zenon
<1>8. Consistent(cs, as \cup {h}, fin, un2, re)
  <2>1. /\ \A g \in Func : NoRepeats(un[g]) /\ NoRepeats(re[g])
        /\ \A g \in Func : \A c \in Call : InQueue(re[g], c) =>
             NameOf[c] = g /\ c \in cs
    BY DEF Consistent
  <2> HIDE DEF h, un2
  <2> QED BY Zenon, <2>1, <1>2, <1>4, <1>5, <1>6, <1>7, Zenon DEF Consistent
<1> QED BY Zenon, <1>3, <1>8 DEF PopUnstartedPost

\* The first call to retry is given to a worker: before and after.
PopRetryPre(cs, as, fin, un, re, f) ==
  /\ Consistent(cs, as, fin, un, re)
  /\ f \in Func
  /\ re[f] # << >>
  /\ Head(re[f]) \notin fin

PopRetryPost(cs, as, fin, un, re, f) ==
  /\ Head(re[f]) \in cs \ as
  /\ Consistent(cs, as \cup {Head(re[f])}, fin, un,
                [re EXCEPT ![f] = Tail(@)])

\* So may a call popped off the front of calls_to_retry.
LEMMA PopRetryConsistent ==
  ASSUME NEW cs, NEW as, NEW fin, NEW un, NEW re, NEW f,
         PopRetryPre(cs, as, fin, un, re, f)
  PROVE  PopRetryPost(cs, as, fin, un, re, f)
<1> USE DEF PopRetryPre
<1> DEFINE h == Head(re[f])
           re2 == [re EXCEPT ![f] = Tail(@)]
<1> USE ServerAssumption
<1>1. /\ h \in Call
      /\ Tail(re[f]) \in Seq(Call)
      /\ InQueue(re[f], h)
      /\ \A d : InQueue(re[f], d) <=> InQueue(Tail(re[f]), d) \/ d = h
      /\ NoRepeats(Tail(re[f])) /\ ~InQueue(Tail(re[f]), h)
  BY TailQueue DEF Consistent
<1>2. /\ re2 \in [Func -> Seq(Call)]
      /\ re2[f] = Tail(re[f])
      /\ \A g \in Func \ {f} : re2[g] = re[g]
  BY <1>1 DEF Consistent
<1>3. h \in cs \ as /\ NameOf[h] = f /\ ~InQueue(un[f], h)
  BY Zenon, <1>1 DEF Consistent
<1>4. \A g \in Func : NoRepeats(re2[g])
  BY <1>1, <1>2 DEF Consistent
<1>5. /\ \A g \in Func : \A c \in Call : InQueue(un[g], c) =>
           NameOf[c] = g /\ c \in cs /\ ~InQueue(re2[g], c)
      /\ \A g \in Func : \A c \in Call : InQueue(re2[g], c) =>
           NameOf[c] = g /\ c \in cs
  BY <1>1, <1>2 DEF Consistent
<1>6. \A c \in cs : c \notin as \cup {h} <=>
        InQueue(un[NameOf[c]], c) \/ InQueue(re2[NameOf[c]], c)
  <2> SUFFICES ASSUME NEW c \in cs
               PROVE  c \notin as \cup {h} <=>
                        InQueue(un[NameOf[c]], c) \/ InQueue(re2[NameOf[c]], c)
    BY Zenon
  <2>1. CASE c = h BY <2>1, <1>1, <1>2, <1>3 DEF Consistent
  <2>2. CASE c # h /\ NameOf[c] = f BY Zenon, <2>2, <1>1, <1>2 DEF Consistent
  <2>3. CASE NameOf[c] # f BY ZenonT(60), <2>3, <1>2, <1>3 DEF Consistent
  <2> QED BY Zenon, <2>1, <2>2, <2>3
<1>7. /\ cs \subseteq Call
      /\ as \cup {h} \subseteq cs
      /\ fin \subseteq cs
      /\ \A c \in fin : c \notin as \cup {h}
      /\ un \in [Func -> Seq(Call)]
  <2>1. h \notin fin OBVIOUS
  <2>2. /\ cs \subseteq Call /\ as \subseteq cs /\ fin \subseteq cs
        /\ \A c \in fin : c \notin as
        /\ un \in [Func -> Seq(Call)]
    BY Zenon DEF Consistent
  <2> HIDE DEF h, re2
  <2> QED BY Zenon, <2>1, <2>2, <1>3, Zenon
<1>8. Consistent(cs, as \cup {h}, fin, un, re2)
  <2>1. /\ \A g \in Func : NoRepeats(un[g]) /\ NoRepeats(re[g])
        /\ \A g \in Func : \A c \in Call : InQueue(re[g], c) =>
             NameOf[c] = g /\ c \in cs
    BY DEF Consistent
  <2> HIDE DEF h, re2
  <2> QED BY Zenon, <2>1, <1>2, <1>4, <1>5, <1>6, <1>7, Zenon DEF Consistent
<1> QED BY Zenon, <1>3, <1>8 DEF PopRetryPost

\* A new PendingCall is queued in unstarted_calls.
LEMMA AddConsistent ==
  ASSUME NEW cs, NEW as, NEW fin, NEW un, NEW re,
         Consistent(cs, as, fin, un, re),
         NEW c \in Call, c \notin cs
  PROVE  Consistent(cs \cup {c}, as, fin,
                    [un EXCEPT ![NameOf[c]] = Append(@, c)], re)
<1> DEFINE f == NameOf[c]
           un2 == [un EXCEPT ![f] = Append(@, c)]
<1>0. f \in Func
  BY ServerAssumption
<1>1. /\ ~InQueue(un[f], c) /\ ~InQueue(re[f], c)
      /\ un[f] \in Seq(Call) /\ NoRepeats(un[f])
  BY <1>0 DEF Consistent
<1>2. /\ Append(un[f], c) \in Seq(Call)
      /\ \A d : InQueue(Append(un[f], c), d) <=> InQueue(un[f], d) \/ d = c
      /\ NoRepeats(Append(un[f], c))
  BY <1>1, AppendQueue
<1>3. /\ un2 \in [Func -> Seq(Call)]
      /\ un2[f] = Append(un[f], c)
      /\ \A g \in Func \ {f} : un2[g] = un[g]
  BY <1>0, <1>2 DEF Consistent
<1>4. /\ \A g \in Func : NoRepeats(un2[g]) /\ NoRepeats(re[g])
      /\ \A g \in Func : \A d \in Call : InQueue(un2[g], d) =>
           NameOf[d] = g /\ d \in cs \cup {c} /\ ~InQueue(re[g], d)
  BY <1>0, <1>1, <1>2, <1>3 DEF Consistent
<1>5. \A d \in cs \cup {c} : d \notin as <=>
        InQueue(un2[NameOf[d]], d) \/ InQueue(re[NameOf[d]], d)
  <2> SUFFICES ASSUME NEW d \in cs \cup {c}
               PROVE  d \notin as <=>
                        InQueue(un2[NameOf[d]], d) \/ InQueue(re[NameOf[d]], d)
    BY Zenon
  <2>1. CASE d = c BY ZenonT(60), <2>1, <1>0, <1>2, <1>3 DEF Consistent
  <2>2. CASE d # c
    <3>1. d \in cs /\ d \in Call /\ NameOf[d] \in Func
      BY <2>2, ServerAssumption DEF Consistent
    <3>2. InQueue(un2[NameOf[d]], d) <=> InQueue(un[NameOf[d]], d)
      BY <2>2, <3>1, <1>2, <1>3
    <3> QED BY Zenon, <3>1, <3>2 DEF Consistent
  <2> QED BY Zenon, <2>1, <2>2
<1>6. /\ cs \subseteq Call /\ as \subseteq cs /\ fin \subseteq cs
      /\ \A d \in fin : d \notin as
      /\ re \in [Func -> Seq(Call)]
      /\ \A g \in Func : \A d \in Call : InQueue(re[g], d) =>
           NameOf[d] = g /\ d \in cs
  BY Zenon DEF Consistent
<1> HIDE DEF un2, f
<1>7. Consistent(cs \cup {c}, as, fin, un2, re)
  BY Zenon, <1>3, <1>4, <1>5, <1>6, Zenon DEF Consistent
<1> QED BY <1>7 DEF un2, f

\* A call that timed out is queued in calls_to_retry.
LEMMA RequeueConsistent ==
  ASSUME NEW cs, NEW as, NEW fin, NEW un, NEW re,
         Consistent(cs, as, fin, un, re),
         NEW c \in as
  PROVE  Consistent(cs, as \ {c}, fin, un,
                    [re EXCEPT ![NameOf[c]] = Append(@, c)])
<1> DEFINE f == NameOf[c]
           re2 == [re EXCEPT ![f] = Append(@, c)]
<1>0. c \in cs /\ c \in Call /\ f \in Func
  BY Zenon, ServerAssumption DEF Consistent
<1>1. /\ ~InQueue(un[f], c) /\ ~InQueue(re[f], c)
      /\ re[f] \in Seq(Call) /\ NoRepeats(re[f])
  BY Zenon, <1>0 DEF Consistent
<1>2. /\ Append(re[f], c) \in Seq(Call)
      /\ \A d : InQueue(Append(re[f], c), d) <=> InQueue(re[f], d) \/ d = c
      /\ NoRepeats(Append(re[f], c))
  BY <1>0, <1>1, AppendQueue
<1>3. /\ re2 \in [Func -> Seq(Call)]
      /\ re2[f] = Append(re[f], c)
      /\ \A g \in Func \ {f} : re2[g] = re[g]
  BY <1>0, <1>2 DEF Consistent
<1>4. /\ \A g \in Func : NoRepeats(un[g]) /\ NoRepeats(re2[g])
      /\ \A g \in Func : \A d \in Call : InQueue(un[g], d) =>
           NameOf[d] = g /\ d \in cs /\ ~InQueue(re2[g], d)
      /\ \A g \in Func : \A d \in Call : InQueue(re2[g], d) =>
           NameOf[d] = g /\ d \in cs
  BY <1>0, <1>1, <1>2, <1>3 DEF Consistent
<1>5. \A d \in cs : d \notin as \ {c} <=>
        InQueue(un[NameOf[d]], d) \/ InQueue(re2[NameOf[d]], d)
  <2> SUFFICES ASSUME NEW d \in cs
               PROVE  d \notin as \ {c} <=>
                        InQueue(un[NameOf[d]], d) \/ InQueue(re2[NameOf[d]], d)
    BY Zenon
  <2>1. CASE d = c BY <2>1, <1>0, <1>2, <1>3
  <2>2. CASE d # c
    <3>1. d \in Call /\ NameOf[d] \in Func
      BY ServerAssumption DEF Consistent
    <3>2. InQueue(re2[NameOf[d]], d) <=> InQueue(re[NameOf[d]], d)
      BY <2>2, <3>1, <1>2, <1>3
    <3> QED BY Zenon, <2>2, <3>1, <3>2 DEF Consistent
  <2> QED BY Zenon, <2>1, <2>2
<1>6. /\ cs \subseteq Call /\ as \subseteq cs /\ fin \subseteq cs
      /\ \A d \in fin : d \notin as
      /\ un \in [Func -> Seq(Call)]
  BY Zenon DEF Consistent
<1> HIDE DEF re2, f
<1>7. Consistent(cs, as \ {c}, fin, un, re2)
  BY Zenon, <1>3, <1>4, <1>5, <1>6, Zenon DEF Consistent
<1> QED BY <1>7 DEF re2, f

\* An assigned call is in no queue and can be erased as soon as it is finished.
LEMMA EraseConsistent ==
  ASSUME NEW cs, NEW as, NEW fin, NEW un, NEW re,
         Consistent(cs, as, fin, un, re),
         NEW c \in as
  PROVE  Consistent(cs \ {c}, as \ {c}, (fin \cup {c}) \ {c}, un, re)
<1>1. \A f \in Func : ~InQueue(un[f], c) /\ ~InQueue(re[f], c)
  BY Zenon DEF Consistent
<1>2. /\ cs \subseteq Call /\ as \subseteq cs /\ fin \subseteq cs
      /\ \A d \in fin : d \notin as
  BY Zenon DEF Consistent
<1>3. /\ cs \ {c} \subseteq Call /\ as \ {c} \subseteq cs \ {c}
      /\ (fin \cup {c}) \ {c} \subseteq cs \ {c}
      /\ \A d \in (fin \cup {c}) \ {c} : d \notin as \ {c}
  BY Zenon, <1>2, Zenon
<1>4. /\ \A g \in Func : \A d \in Call : InQueue(un[g], d) =>
           NameOf[d] = g /\ d \in cs \ {c} /\ ~InQueue(re[g], d)
      /\ \A g \in Func : \A d \in Call : InQueue(re[g], d) =>
           NameOf[d] = g /\ d \in cs \ {c}
  BY <1>1 DEF Consistent
<1>5. \A d \in cs \ {c} : d \notin as \ {c} <=>
        InQueue(un[NameOf[d]], d) \/ InQueue(re[NameOf[d]], d)
  BY Zenon DEF Consistent
<1>6. /\ un \in [Func -> Seq(Call)] /\ re \in [Func -> Seq(Call)]
      /\ \A g \in Func : NoRepeats(un[g]) /\ NoRepeats(re[g])
  BY DEF Consistent
<1> QED BY Zenon, <1>3, <1>4, <1>5, <1>6, Zenon DEF Consistent

\* A queued call may be marked finished where it is.
LEMMA FinishConsistent ==
  ASSUME NEW cs, NEW as, NEW fin, NEW un, NEW re,
         Consistent(cs, as, fin, un, re),
         NEW c \in cs, c \notin as
  PROVE  Consistent(cs, as, fin \cup {c}, un, re)
BY Zenon DEF Consistent

-----------------------------------------------------------------------------
(* The lock sections that change the queues.                               *)

\* What the loops of handleRequestWorker do to a group, up to its first
\* unfinished call; q1 and q2 are what the two queues become.
LEMMA ScanSection ==
  ASSUME QueueInv, NEW f \in Func, NEW n, NEW m,
         deleteSomeFinishedCalls(f, n, m, finished)
  PROVE  /\ Consistent(calls', assigned, finished',
                       [unstarted_calls EXCEPT ![f] = Drop(@, n)],
                       [calls_to_retry EXCEPT ![f] = Drop(@, m)])
         /\ calls' \subseteq calls
         /\ finished' \subseteq finished
         /\ calls' \ finished' = calls \ finished
<1> DEFINE D == Dropped(unstarted_calls[f], n) \cup Dropped(calls_to_retry[f], m)
<1>1. /\ FinishedPrefix(unstarted_calls[f], n, finished)
      /\ FinishedPrefix(calls_to_retry[f], m, finished)
      /\ calls' = calls \ D /\ finished' = finished \ D
  BY DEF deleteSomeFinishedCalls, Erase
<1>2. /\ D \subseteq finished
      /\ Consistent(calls \ D, assigned, finished \ D,
                    [unstarted_calls EXCEPT ![f] = Drop(@, n)],
                    [calls_to_retry EXCEPT ![f] = Drop(@, m)])
  <2>1. DeletePre(calls, assigned, finished, unstarted_calls, calls_to_retry,
                  f, n, m)
    BY <1>1 DEF DeletePre, QueueInv
  <2> QED BY Zenon, <2>1, DeleteConsistent DEF DeletePost
<1>3. /\ calls \ D \subseteq calls /\ finished \ D \subseteq finished
      /\ (calls \ D) \ (finished \ D) = calls \ finished
  <2> HIDE DEF D
  <2> QED BY <1>2
<1> QED BY <1>1, <1>2, <1>3

\* The unfinished call in front of the dropped ones, if any.
LEMMA FrontUnfinished ==
  ASSUME NEW q \in Seq(Call), NEW n, NEW fin, FinishedPrefix(q, n, fin),
         Drop(q, n) # << >>
  PROVE  Head(Drop(q, n)) \notin fin
<1>1. /\ Len(q) \in Nat /\ n \in 0..Len(q)
      /\ n < Len(q) => q[n + 1] \notin fin
  BY LenProperties DEF FinishedPrefix
<1>2. CASE n = Len(q)
  <2>1. Drop(q, n) = << >> BY <1>1, <1>2, SubSeqProperties DEF Drop
  <2> QED BY <2>1
<1>3. CASE n # Len(q)
  <2>1. /\ Drop(q, n) \in Seq(Call)
        /\ Drop(q, n)[1] = q[n + 1]
    BY <1>1, <1>3, SubSeqProperties DEF Drop
  <2>2. Head(Drop(q, n)) = Drop(q, n)[1]
    BY <2>1, HeadTailProperties
  <2> QED BY <1>1, <1>3, <2>1, <2>2
<1> QED BY <1>2, <1>3

\* The second of two updates at the same place wins.
LEMMA ExceptTwice ==
  ASSUME NEW S, NEW T, NEW g \in [S -> T], NEW x \in S, NEW a, NEW b
  PROVE  [[g EXCEPT ![x] = a] EXCEPT ![x] = b] = [g EXCEPT ![x] = b]
BY Zenon

\* What every lock section of handleRequestWorker guarantees.
ScanPost ==
  /\ QueueInv'
  /\ calls' \subseteq calls
  /\ finished' \subseteq finished
  /\ calls' \ finished' = calls \ finished
  /\ \/ assigned' = assigned
     \/ \E c \in (calls \ finished) \ assigned : assigned' = assigned \cup {c}

\* The first loop keeps the queues consistent and loses no unfinished call.
LEMMA SubmitUnstartedSection ==
  ASSUME TypeOK, QueueInv, NEW k \in Conn, SubmitUnstarted(k)
  PROVE  ScanPost
<1> DEFINE f == FuncsOf[worker[k]][pos[k]]
<1>1. f \in Func
  <2>1. /\ worker[k] \in WorkerInfo /\ FuncsOf[worker[k]] # None
        /\ pos[k] \in Nat \ {0} /\ pos[k] <= Len(FuncsOf[worker[k]])
    BY Zenon DEF TypeOK, SubmitUnstarted
  <2>2. FuncsOf[worker[k]] \in Seq(Func)
    BY SMTT(60), <2>1, ServerAssumption
  <2> HIDE DEF f
  <2> QED BY <2>1, <2>2, LenProperties, ElementOfSeq DEF f
<1>2. PICK n \in 0..Len(unstarted_calls[f]), m \in 0..Len(calls_to_retry[f]) :
        LET q == Drop(unstarted_calls[f], n) IN
        /\ deleteSomeFinishedCalls(f, n, m, finished)
        /\ calls_to_retry' = [calls_to_retry EXCEPT ![f] = Drop(@, m)]
        /\ \/ /\ q = <<>>
              /\ unstarted_calls' = [unstarted_calls EXCEPT ![f] = q]
              /\ ContinueLoop(k)
           \/ /\ q # <<>>
              /\ unstarted_calls' = [unstarted_calls EXCEPT ![f] = Tail(q)]
              /\ sendCallToWorker(k, Head(q))
  BY Zenon DEF SubmitUnstarted
<1> DEFINE q == Drop(unstarted_calls[f], n)
           un2 == [unstarted_calls EXCEPT ![f] = q]
<1> HIDE DEF f
<1>3. /\ Consistent(calls', assigned, finished', un2, calls_to_retry')
      /\ calls' \subseteq calls
      /\ finished' \subseteq finished
      /\ calls' \ finished' = calls \ finished
  BY Zenon, <1>1, <1>2, ScanSection
<1>4. un2[f] = q /\ unstarted_calls[f] \in Seq(Call)
  BY <1>1 DEF QueueInv, Consistent
<1>5. CASE q = <<>>
  <2>1. unstarted_calls' = un2 /\ assigned' = assigned
    BY <1>2, <1>5 DEF ContinueLoop
  <2> QED BY <2>1, <1>3 DEF ScanPost, QueueInv
<1>6. CASE q # <<>>
  <2>1. /\ unstarted_calls' = [unstarted_calls EXCEPT ![f] = Tail(q)]
        /\ assigned' = assigned \cup {Head(q)}
    BY <1>2, <1>6 DEF sendCallToWorker
  <2>2. Head(q) \notin finished
    BY <1>2, <1>4, <1>6, FrontUnfinished DEF deleteSomeFinishedCalls
  <2>3. Head(un2[f]) \notin finished' /\ un2[f] # << >>
    BY <2>2, <1>3, <1>4, <1>6
  <2>4. [un2 EXCEPT ![f] = Tail(@)] = [unstarted_calls EXCEPT ![f] = Tail(q)]
    <3>1. unstarted_calls \in [Func -> Seq(Call)] BY DEF QueueInv, Consistent
    <3> HIDE DEF q
    <3>2. [un2 EXCEPT ![f] = Tail(q)] = [unstarted_calls EXCEPT ![f] = Tail(q)]
      BY Zenon, <1>1, <3>1, ExceptTwice
    <3> QED BY Zenon, <1>4, <3>2
  <2> HIDE DEF q, un2
  <2>5. /\ Head(un2[f]) \in calls' \ assigned
        /\ Consistent(calls', assigned \cup {Head(un2[f])}, finished',
                      [un2 EXCEPT ![f] = Tail(@)], calls_to_retry')
    <3>1. PopUnstartedPre(calls', assigned, finished', un2, calls_to_retry', f)
      BY <1>1, <1>3, <2>3 DEF PopUnstartedPre
    <3> QED BY <3>1, PopUnstartedConsistent DEF PopUnstartedPost
  <2>6. QueueInv'
    BY <2>1, <2>4, <2>5, <1>3, <1>4 DEF QueueInv
  <2>7. Head(q) \in (calls \ finished) \ assigned
    BY <2>2, <2>5, <1>3, <1>4
  <2> QED BY <2>1, <2>6, <2>7, <1>3 DEF ScanPost
<1> QED BY <1>5, <1>6

\* So does the second one.
LEMMA SubmitRetrySection ==
  ASSUME TypeOK, QueueInv, NEW k \in Conn, SubmitRetry(k)
  PROVE  ScanPost
<1> DEFINE f == FuncsOf[worker[k]][pos[k]]
<1>1. f \in Func
  <2>1. /\ worker[k] \in WorkerInfo /\ FuncsOf[worker[k]] # None
        /\ pos[k] \in Nat \ {0} /\ pos[k] <= Len(FuncsOf[worker[k]])
    BY ZenonT(60) DEF TypeOK, SubmitRetry
  <2>2. FuncsOf[worker[k]] \in Seq(Func)
    BY <2>1, ServerAssumption
  <2> HIDE DEF f
  <2> QED BY <2>1, <2>2, LenProperties, ElementOfSeq DEF f
<1>2. PICK n \in 0..Len(unstarted_calls[f]), m \in 0..Len(calls_to_retry[f]) :
        LET q == Drop(calls_to_retry[f], m) IN
        /\ deleteSomeFinishedCalls(f, n, m, finished)
        /\ unstarted_calls' = [unstarted_calls EXCEPT ![f] = Drop(@, n)]
        /\ \/ /\ q = <<>>
              /\ calls_to_retry' = [calls_to_retry EXCEPT ![f] = q]
              /\ ContinueLoop(k)
           \/ /\ q # <<>>
              /\ calls_to_retry' = [calls_to_retry EXCEPT ![f] = Tail(q)]
              /\ sendCallToWorker(k, Head(q))
  BY Zenon DEF SubmitRetry
<1> DEFINE q == Drop(calls_to_retry[f], m)
           re2 == [calls_to_retry EXCEPT ![f] = q]
<1> HIDE DEF f
<1>3. /\ Consistent(calls', assigned, finished', unstarted_calls', re2)
      /\ calls' \subseteq calls
      /\ finished' \subseteq finished
      /\ calls' \ finished' = calls \ finished
  BY Zenon, <1>1, <1>2, ScanSection
<1>4. re2[f] = q /\ calls_to_retry[f] \in Seq(Call)
  BY <1>1 DEF QueueInv, Consistent
<1>5. CASE q = <<>>
  <2>1. calls_to_retry' = re2 /\ assigned' = assigned
    BY <1>2, <1>5 DEF ContinueLoop
  <2> QED BY <2>1, <1>3 DEF ScanPost, QueueInv
<1>6. CASE q # <<>>
  <2>1. /\ calls_to_retry' = [calls_to_retry EXCEPT ![f] = Tail(q)]
        /\ assigned' = assigned \cup {Head(q)}
    BY <1>2, <1>6 DEF sendCallToWorker
  <2>2. Head(q) \notin finished
    BY <1>2, <1>4, <1>6, FrontUnfinished DEF deleteSomeFinishedCalls
  <2>3. Head(re2[f]) \notin finished' /\ re2[f] # << >>
    BY <2>2, <1>3, <1>4, <1>6
  <2>4. [re2 EXCEPT ![f] = Tail(@)] = [calls_to_retry EXCEPT ![f] = Tail(q)]
    <3>1. calls_to_retry \in [Func -> Seq(Call)] BY DEF QueueInv, Consistent
    <3> HIDE DEF q
    <3>2. [re2 EXCEPT ![f] = Tail(q)] = [calls_to_retry EXCEPT ![f] = Tail(q)]
      BY Zenon, <1>1, <3>1, ExceptTwice
    <3> QED BY Zenon, <1>4, <3>2
  <2> HIDE DEF q, re2
  <2>5. /\ Head(re2[f]) \in calls' \ assigned
        /\ Consistent(calls', assigned \cup {Head(re2[f])}, finished',
                      unstarted_calls', [re2 EXCEPT ![f] = Tail(@)])
    <3>1. PopRetryPre(calls', assigned, finished', unstarted_calls', re2, f)
      BY <1>1, <1>3, <2>3 DEF PopRetryPre
    <3> QED BY <3>1, PopRetryConsistent DEF PopRetryPost
  <2>6. QueueInv'
    BY <2>1, <2>4, <2>5, <1>3, <1>4 DEF QueueInv
  <2>7. Head(q) \in (calls \ finished) \ assigned
    BY <2>2, <2>5, <1>3, <1>4
  <2> QED BY <2>1, <2>6, <2>7, <1>3 DEF ScanPost
<1> QED BY SMTT(60), <1>5, <1>6

\* handleCallResult takes its call, and no other, off the board.
LEMMA ResultSection ==
  ASSUME QueueInv, NEW c \in calls, deleteIfPossible(c)
  PROVE  /\ QueueInv'
         /\ calls' \subseteq calls
         /\ finished' \subseteq finished \cup {c}
         /\ calls' \ finished' = (calls \ finished) \ {c}
         /\ assigned' = assigned \ {c}
<1>0. c \in Call /\ NameOf[c] \in Func /\ finished \subseteq calls
  BY ServerAssumption DEF QueueInv, Consistent
<1>1. CASE c \in assigned
  <2>1. /\ calls' = calls \ {c}
        /\ finished' = (finished \cup {c}) \ {c}
        /\ assigned' = assigned \ {c}
        /\ UNCHANGED <<unstarted_calls, calls_to_retry>>
    BY <1>1 DEF deleteIfPossible, Erase
  <2>2. QueueInv'
    BY <1>1, <2>1, EraseConsistent DEF QueueInv
  <2> QED BY <2>1, <2>2
<1>2. CASE c \notin assigned
  <2> DEFINE f == NameOf[c]
             fin == finished \cup {c}
  <2>1. PICK n \in 0..Len(unstarted_calls[f]), m \in 0..Len(calls_to_retry[f]) :
          /\ deleteSomeFinishedCalls(f, n, m, fin)
          /\ unstarted_calls' = [unstarted_calls EXCEPT ![f] = Drop(@, n)]
          /\ calls_to_retry' = [calls_to_retry EXCEPT ![f] = Drop(@, m)]
          /\ assigned' = assigned
    BY ZenonT(60), <1>2 DEF deleteIfPossible
  <2> DEFINE D == Dropped(unstarted_calls[f], n) \cup Dropped(calls_to_retry[f], m)
  <2>2. /\ FinishedPrefix(unstarted_calls[f], n, fin)
        /\ FinishedPrefix(calls_to_retry[f], m, fin)
        /\ calls' = calls \ D /\ finished' = fin \ D
    BY <2>1 DEF deleteSomeFinishedCalls, Erase
  <2>3. Consistent(calls, assigned, fin, unstarted_calls, calls_to_retry)
    BY <1>2, FinishConsistent DEF QueueInv
  <2> HIDE DEF fin, f
  <2>4. /\ D \subseteq fin
        /\ Consistent(calls \ D, assigned, fin \ D,
                      [unstarted_calls EXCEPT ![f] = Drop(@, n)],
                      [calls_to_retry EXCEPT ![f] = Drop(@, m)])
    <3>1. DeletePre(calls, assigned, fin, unstarted_calls, calls_to_retry,
                    f, n, m)
      BY <1>0, <2>2, <2>3 DEF DeletePre, f
    <3> QED BY Zenon, <3>1, DeleteConsistent DEF DeletePost
  <2>5. QueueInv'
    BY <2>1, <2>2, <2>4 DEF QueueInv
  <2>6. /\ calls \ D \subseteq calls /\ fin \ D \subseteq finished \cup {c}
        /\ (calls \ D) \ (fin \ D) = (calls \ finished) \ {c}
    <3> HIDE DEF D
    <3> QED BY <2>4 DEF fin
  <2>7. assigned' = assigned \ {c}
    BY <1>2, <2>1
  <2> QED BY <2>2, <2>5, <2>6, <2>7
<1> QED BY <1>1, <1>2

-----------------------------------------------------------------------------
(* The inductive invariant.                                                *)

\* QueueInv says the two properties of the queues at once.
LEMMA QueueInvImplies ==
  QueueInv => QueuesConsistent /\ NoFinishedCallAssigned
<1> SUFFICES ASSUME QueueInv PROVE QueuesConsistent /\ NoFinishedCallAssigned
  OBVIOUS
<1>1. NoFinishedCallAssigned
  BY DEF QueueInv, Consistent, NoFinishedCallAssigned
<1>2. QueuesConsistent
  BY Zenon DEF QueueInv, Consistent, QueuesConsistent
<1> QED BY <1>1, <1>2

\* Whatever step is taken, the queues stay consistent.
LEMMA QueueStep ==
  ASSUME TypeOK, QueueInv, [Next]_vars
  PROVE  QueueInv'
<1>1. CASE UNCHANGED queueVars
  BY <1>1 DEF queueVars, QueueInv
<1>2. ASSUME NEW k \in Conn, EvaluateQueue(k)
      PROVE  QueueInv'
  <2> DEFINE c == call[k]
  <2>0. c \in Call
    BY ZenonT(60), <1>2 DEF EvaluateQueue, TypeOK
  <2>1. CASE QueueNewCall(c)
    <3>1. c \notin calls /\ calls' = calls \cup {c} /\ assigned' = assigned
          /\ finished' = finished /\ calls_to_retry' = calls_to_retry
          /\ unstarted_calls' =
               [unstarted_calls EXCEPT ![NameOf[c]] = Append(@, c)]
      BY <2>1 DEF QueueNewCall
    <3> HIDE DEF c
    <3>2. Consistent(calls \cup {c}, assigned, finished,
                     [unstarted_calls EXCEPT ![NameOf[c]] = Append(@, c)],
                     calls_to_retry)
      BY ZenonT(60), <2>0, <3>1, AddConsistent DEF QueueInv
    <3> QED BY <3>1, <3>2 DEF QueueInv
  <2>2. CASE Requeue(c)
    <3>1. c \in assigned /\ calls' = calls /\ assigned' = assigned \ {c}
          /\ finished' = finished /\ unstarted_calls' = unstarted_calls
          /\ calls_to_retry' =
               [calls_to_retry EXCEPT ![NameOf[c]] = Append(@, c)]
      BY <2>2 DEF Requeue, TimedOut
    <3> HIDE DEF c
    <3>2. Consistent(calls, assigned \ {c}, finished, unstarted_calls,
                     [calls_to_retry EXCEPT ![NameOf[c]] = Append(@, c)])
      BY ZenonT(60), <3>1, RequeueConsistent DEF QueueInv
    <3> QED BY <3>1, <3>2 DEF QueueInv
  <2> QED BY <1>1, <1>2, <2>1, <2>2 DEF EvaluateQueue
<1>3. ASSUME NEW k \in Conn, ResultPending(k)
      PROVE  QueueInv'
  BY <1>1, <1>3, ResultSection DEF ResultPending
<1>4. ASSUME NEW k \in Conn, Handler(k)
      PROVE  QueueInv'
  <2>1. CASE EvaluateGroup(k)
    BY <2>1, <1>1 DEF EvaluateGroup
  <2>2. CASE ResultGroup(k)
    BY <2>2, <1>1 DEF ResultGroup
  <2>3. CASE StartRetryLoop(k)
    BY <2>3, <1>1 DEF StartRetryLoop
  <2>4. CASE NoPendingCall(k)
    BY <2>4, <1>1 DEF NoPendingCall
  <2>5. CASE SubmitUnstarted(k)
    BY <2>5, SubmitUnstartedSection DEF ScanPost
  <2>6. CASE SubmitRetry(k)
    BY <2>6, SubmitRetrySection DEF ScanPost
  <2> QED BY <1>2, <1>3, <1>4, <2>1, <2>2, <2>3, <2>4, <2>5, <2>6 DEF Handler
<1>5. ASSUME NEW k \in Conn, Request(k)
      PROVE  QueueInv'
  BY <1>1, <1>5
     DEF Request, EvaluateCall, PutCall, DeleteCalls, PostNode, RequestWorker
<1>6. ASSUME NEW c \in Call, MinutePasses(c)
      PROVE  QueueInv'
  BY <1>6 DEF MinutePasses, QueueInv
<1>7. CASE UNCHANGED vars
  BY <1>7, <1>1 DEF vars
<1> QED BY <1>4, <1>5, <1>6, <1>7 DEF Next

\* The part of TypeOK about the clocks of the calls.
ClockOK ==
  /\ minutes \in [Call -> Nat]
  /\ timeout_minutes \in [Call -> Nat]

\* The part of TypeOK about the handlers.
ConnOK ==
  /\ pc \in [Conn -> PC]
  /\ call \in [Conn -> Call \cup {None}]
  /\ worker \in [Conn -> WorkerInfo \cup {None}]
  /\ pos \in [Conn -> Nat]
  /\ resp \in [Conn -> Response \cup {None}]
  /\ \A k \in Conn :
       /\ pc[k] \in {"evaluate_group", "evaluate_queue", "result_group",
                     "result_pending"} => call[k] \in Call
       /\ pc[k] \in {"unstarted", "retry"} => worker[k] \in worker_groups
       /\ pos[k] # 0
       /\ resp[k] # None /\ resp[k].status = 202 => call[k] \in Call

\* The part of TypeOK about the store and the groups.
StoreOK ==
  /\ store \in [Call -> Value \cup {None}]
  /\ nodes \subseteq WorkerInfo
  /\ call_groups \subseteq Func
  /\ worker_groups \subseteq WorkerInfo
  /\ \A i \in worker_groups : FuncsOf[i] # None

\* The parts together, with the queues typed by QueueInv.
LEMMA TypeParts ==
  /\ TypeOK => ClockOK /\ ConnOK /\ StoreOK
  /\ ClockOK /\ ConnOK /\ StoreOK /\ QueueInv => TypeOK
<1>1. TypeOK => ClockOK /\ ConnOK /\ StoreOK
  BY Zenon DEF TypeOK, ClockOK, ConnOK, StoreOK
<1>2. QueueInv => /\ calls \subseteq Call /\ assigned \subseteq Call
                  /\ finished \subseteq Call
                  /\ unstarted_calls \in [Func -> Seq(Call)]
                  /\ calls_to_retry \in [Func -> Seq(Call)]
  BY DEF QueueInv, Consistent
<1>3. ClockOK /\ ConnOK /\ StoreOK /\ QueueInv => TypeOK
  BY Zenon, <1>2, Zenon DEF TypeOK, ClockOK, ConnOK, StoreOK
<1> QED BY <1>1, <1>3

\* Timeouts stay unsigned numbers: they double modulo a power of two.
LEMMA DoubleNat ==
  ASSUME NEW t \in Nat
  PROVE  DoubleTimeout(t) \in Nat
BY ServerAssumption DEF DoubleTimeout

\* Every step leaves minutes and timeouts natural numbers.
LEMMA ClockStep ==
  ASSUME ClockOK, [Next]_vars
  PROVE  ClockOK'
<1>0. /\ InitialTimeout \in Nat
      /\ \A t \in Nat : DoubleTimeout(t) \in Nat
  BY ServerAssumption, DoubleNat
<1>1. CASE UNCHANGED <<minutes, timeout_minutes>>
  BY <1>1 DEF ClockOK
<1>2. ASSUME NEW D, NEW fin, Erase(D, fin)
      PROVE  timeout_minutes' \in [Call -> Nat]
  BY <1>0, <1>2 DEF Erase, ClockOK
<1>3. ASSUME NEW f, NEW n, NEW m, NEW fin,
             deleteSomeFinishedCalls(f, n, m, fin)
      PROVE  timeout_minutes' \in [Call -> Nat]
  BY <1>2, <1>3 DEF deleteSomeFinishedCalls
<1>4. ASSUME NEW k, NEW c, sendCallToWorker(k, c)
      PROVE  minutes' \in [Call -> Nat]
  BY Zenon, <1>4 DEF sendCallToWorker, ClockOK
<1>5. ASSUME NEW k \in Conn, Handler(k)
      PROVE  ClockOK'
  <2>1. CASE EvaluateQueue(k)
    <3>1. CASE Requeue(call[k])
      BY Zenon, <3>1, <1>0 DEF Requeue, ClockOK
    <3> QED BY <2>1, <3>1, <1>1 DEF EvaluateQueue, QueueNewCall, queueVars
  <2>2. CASE ResultPending(k)
    <3>1. CASE deleteIfPossible(call[k])
      <4>1. timeout_minutes' \in [Call -> Nat]
        BY <3>1, <1>2, <1>3 DEF deleteIfPossible
      <4>2. minutes' \in [Call -> Nat]
        BY SMTT(60), <3>1 DEF deleteIfPossible, ClockOK
      <4> QED BY <4>1, <4>2 DEF ClockOK
    <3> QED BY <2>2, <3>1, <1>1 DEF ResultPending, queueVars
  <2>3. CASE SubmitUnstarted(k)
    BY ZenonT(60), <2>3, <1>3, <1>4 DEF SubmitUnstarted, ContinueLoop, ClockOK
  <2>4. CASE SubmitRetry(k)
    BY ZenonT(60), <2>4, <1>3, <1>4 DEF SubmitRetry, ContinueLoop, ClockOK
  <2>5. CASE EvaluateGroup(k) \/ ResultGroup(k) \/ StartRetryLoop(k)
             \/ NoPendingCall(k)
    BY SMTT(60), <2>5, <1>1
       DEF EvaluateGroup, ResultGroup, StartRetryLoop, NoPendingCall, queueVars
  <2> QED BY <1>5, <2>1, <2>2, <2>3, <2>4, <2>5 DEF Handler
<1>6. ASSUME NEW k \in Conn, Request(k)
      PROVE  ClockOK'
  BY <1>1, <1>6
     DEF Request, EvaluateCall, PutCall, DeleteCalls, PostNode, RequestWorker, queueVars
<1>7. ASSUME NEW c \in Call, MinutePasses(c)
      PROVE  ClockOK'
  BY <1>7 DEF MinutePasses, ClockOK
<1>8. CASE UNCHANGED vars
  BY <1>8, <1>1 DEF vars, queueVars
<1> QED BY <1>5, <1>6, <1>7, <1>8 DEF Next

\* Every step leaves the store and the groups well formed, and forgets none of
\* the groups.
LEMMA StoreStep ==
  ASSUME StoreOK, ConnOK, [Next]_vars
  PROVE  StoreOK' /\ call_groups \subseteq call_groups'
         /\ worker_groups \subseteq worker_groups'
<1> USE ServerAssumption
<1>1. CASE UNCHANGED <<store, nodes, groupVars>>
  BY SMTT(60), <1>1 DEF StoreOK, groupVars
<1>2. ASSUME NEW k \in Conn, Handler(k)
      PROVE  StoreOK' /\ call_groups \subseteq call_groups'
             /\ worker_groups \subseteq worker_groups'
  <2>1. CASE EvaluateGroup(k)
    <3>1. call[k] \in Call /\ NameOf[call[k]] \in Func
      BY <2>1 DEF EvaluateGroup, ConnOK
    <3> QED BY <2>1, <3>1 DEF EvaluateGroup, StoreOK
  <2>2. CASE UNCHANGED <<store, nodes, groupVars>>
    BY <1>1, <2>2
  <2> QED BY Zenon, <1>2, <2>1, <2>2
       DEF Handler, EvaluateQueue, ResultGroup, ResultPending, SubmitUnstarted,
           StartRetryLoop, SubmitRetry, NoPendingCall
<1>3. ASSUME NEW k \in Conn, NEW c \in Call, EvaluateCall(k, c)
      PROVE  UNCHANGED <<store, nodes, groupVars>>
  BY <1>3 DEF EvaluateCall
<1>4. ASSUME NEW k \in Conn, NEW c \in Call, NEW v \in Value, PutCall(k, c, v)
      PROVE  StoreOK' /\ call_groups \subseteq call_groups'
             /\ worker_groups \subseteq worker_groups'
  BY <1>4 DEF PutCall, StoreOK, groupVars
<1>5. ASSUME NEW k \in Conn, NEW f \in Func, DeleteCalls(k, f)
      PROVE  StoreOK' /\ call_groups \subseteq call_groups'
             /\ worker_groups \subseteq worker_groups'
  BY <1>5 DEF DeleteCalls, StoreOK, groupVars
<1>6. ASSUME NEW k \in Conn, NEW i \in WorkerInfo, PostNode(k, i)
      PROVE  StoreOK' /\ call_groups \subseteq call_groups'
             /\ worker_groups \subseteq worker_groups'
  BY <1>6 DEF PostNode, StoreOK, groupVars
<1>7. ASSUME NEW k \in Conn, NEW i \in WorkerInfo, RequestWorker(k, i)
      PROVE  StoreOK' /\ call_groups \subseteq call_groups'
             /\ worker_groups \subseteq worker_groups'
  <2>1. CASE i \in worker_groups \/ (i \in nodes /\ FuncsOf[i] # None)
    <3>1. FuncsOf[i] \in Seq(Func)
      BY <2>1 DEF StoreOK
    <3>2. {FuncsOf[i][j] : j \in 1..Len(FuncsOf[i])} \subseteq Func
      BY <3>1, LenProperties, ElementOfSeq
    <3>3. FuncsOf[i] # None
      BY <2>1 DEF StoreOK
    <3> QED BY <1>1, <1>7, <3>2, <3>3 DEF RequestWorker, StoreOK
  <2> QED BY SMTT(60), <2>1, <1>1, <1>7 DEF RequestWorker
<1>8. ASSUME NEW c \in Call, MinutePasses(c)
      PROVE  UNCHANGED <<store, nodes, groupVars>>
  BY <1>8 DEF MinutePasses
<1>9. CASE UNCHANGED vars
  BY <1>9, <1>1 DEF vars
<1> QED BY <1>1, <1>2, <1>3, <1>4, <1>5, <1>6, <1>7, <1>8, <1>9 DEF Next, Request

\* How a step may change the locals of one handler and no other.
CallOf(k, c) == call' = [call EXCEPT ![k] = c]

\* Every connection has its locals.
LEMMA ConnDomains ==
  ASSUME ConnOK, NEW k \in Conn
  PROVE  /\ k \in DOMAIN pc /\ k \in DOMAIN resp /\ k \in DOMAIN call
         /\ k \in DOMAIN worker /\ k \in DOMAIN pos
<1>1. /\ pc \in [Conn -> PC] /\ resp \in [Conn -> Response \cup {None}]
      /\ call \in [Conn -> Call \cup {None}]
      /\ worker \in [Conn -> WorkerInfo \cup {None}] /\ pos \in [Conn -> Nat]
  BY Zenon DEF ConnOK
<1>2. /\ DOMAIN pc = Conn /\ DOMAIN resp = Conn /\ DOMAIN call = Conn
      /\ DOMAIN worker = Conn /\ DOMAIN pos = Conn
  BY Zenon, <1>1
<1> QED BY <1>2

\* A response may be sent at any time; 202 is only sent about a call.
LEMMA RespondConn ==
  ASSUME ConnOK, NEW k \in Conn, NEW status \in {200, 201, 202, 204, 400},
         NEW body \in Value \cup Call \cup {None},
         NEW c \in Call \cup {None}, CallOf(k, c), status = 202 => c \in Call,
         Respond(k, status, body), worker_groups \subseteq worker_groups'
  PROVE  ConnOK'
<1>1. [status |-> status, body |-> body] \in Response
  BY DEF Response
<1>2. /\ pc' \in [Conn -> PC] /\ call' \in [Conn -> Call \cup {None}]
      /\ worker' \in [Conn -> WorkerInfo \cup {None}]
      /\ pos' \in [Conn -> Nat] /\ resp' \in [Conn -> Response \cup {None}]
  BY <1>1 DEF ConnOK, CallOf, Respond, PC
<1>3. ASSUME NEW j \in Conn, j # k
      PROVE  /\ pc'[j] = pc[j] /\ call'[j] = call[j] /\ worker'[j] = worker[j]
             /\ pos'[j] = pos[j] /\ resp'[j] = resp[j]
  BY <1>3 DEF ConnOK, CallOf, Respond
<1>4. /\ pc'[k] = "idle" /\ call'[k] = c /\ pos'[k] = 1
      /\ resp'[k] = [status |-> status, body |-> body]
  <2>1. /\ k \in DOMAIN pc /\ k \in DOMAIN call /\ k \in DOMAIN pos
        /\ k \in DOMAIN resp
    BY Zenon, ConnDomains
  <2>2. pc'[k] = "idle" /\ pos'[k] = 1
    BY <2>1 DEF Respond
  <2>3. resp'[k] = [status |-> status, body |-> body]
    BY <2>1 DEF Respond
  <2>4. call'[k] = c
    BY SMTT(60), <2>1 DEF CallOf
  <2> QED BY Zenon, <2>2, <2>3, <2>4
<1>5. ASSUME NEW j \in Conn
      PROVE  /\ pc'[j] \in {"evaluate_group", "evaluate_queue", "result_group",
                            "result_pending"} => call'[j] \in Call
             /\ pc'[j] \in {"unstarted", "retry"} => worker'[j] \in worker_groups'
             /\ pos'[j] # 0
             /\ resp'[j] # None /\ resp'[j].status = 202 => call'[j] \in Call
  <2>1. CASE j = k
    <3>1. pc'[j] = "idle" /\ call'[j] = c /\ pos'[j] # 0
      BY <2>1, <1>4
    <3>2. resp'[j].status = status
      BY <2>1, <1>4
    <3> QED BY <3>1, <3>2
  <2>2. CASE j # k
    <3>1. /\ pc[j] \in {"evaluate_group", "evaluate_queue", "result_group",
                         "result_pending"} => call[j] \in Call
          /\ pc[j] \in {"unstarted", "retry"} => worker[j] \in worker_groups
          /\ pos[j] # 0
          /\ resp[j] # None /\ resp[j].status = 202 => call[j] \in Call
      BY ZenonT(60) DEF ConnOK
    <3>2. /\ pc'[j] = pc[j] /\ call'[j] = call[j] /\ worker'[j] = worker[j]
          /\ pos'[j] = pos[j] /\ resp'[j] = resp[j]
      BY ZenonT(60), <2>2, <1>3
    <3> QED BY <3>1, <3>2
  <2> QED BY <2>1, <2>2
<1> QED BY <1>2, <1>5 DEF ConnOK

\* A handler goes on to a step that needs a call.
LEMMA GotoConn ==
  ASSUME ConnOK, NEW k \in Conn, NEW c \in Call, CallOf(k, c),
         NEW label \in {"evaluate_group", "evaluate_queue", "result_group",
                        "result_pending"},
         Goto(k, label), worker_groups \subseteq worker_groups'
  PROVE  ConnOK'
<1>1. /\ pc' \in [Conn -> PC] /\ call' \in [Conn -> Call \cup {None}]
      /\ worker' \in [Conn -> WorkerInfo \cup {None}]
      /\ pos' \in [Conn -> Nat] /\ resp' \in [Conn -> Response \cup {None}]
  BY DEF ConnOK, CallOf, Goto, PC
<1>2. ASSUME NEW j \in Conn, j # k
      PROVE  /\ pc'[j] = pc[j] /\ call'[j] = call[j] /\ worker'[j] = worker[j]
             /\ pos'[j] = pos[j] /\ resp'[j] = resp[j]
  BY <1>2 DEF ConnOK, CallOf, Goto
<1>3. /\ pc'[k] = label /\ call'[k] = c /\ pos'[k] = pos[k] /\ resp'[k] = None
  BY SMTT(60) DEF ConnOK, CallOf, Goto
<1>4. ASSUME NEW j \in Conn
      PROVE  /\ pc'[j] \in {"evaluate_group", "evaluate_queue", "result_group",
                            "result_pending"} => call'[j] \in Call
             /\ pc'[j] \in {"unstarted", "retry"} => worker'[j] \in worker_groups'
             /\ pos'[j] # 0
             /\ resp'[j] # None /\ resp'[j].status = 202 => call'[j] \in Call
  BY <1>2, <1>3 DEF ConnOK
<1> QED BY <1>1, <1>4 DEF ConnOK

\* A handler that leaves its call alone.
LEMMA CallKept ==
  ASSUME ConnOK, NEW k \in Conn, call' = call
  PROVE  CallOf(k, call[k])
BY DEF ConnOK, CallOf

\* The loops of handleRequestWorker advance or answer with a queued call.
LEMMA LoopConn ==
  ASSUME ConnOK, NEW k \in Conn, pc[k] \in {"unstarted", "retry"},
         call' = call, worker_groups \subseteq worker_groups',
         \/ ContinueLoop(k)
         \/ \E c \in Call : sendCallToWorker(k, c)
  PROVE  ConnOK'
<1>1. CASE ContinueLoop(k)
  BY <1>1 DEF ContinueLoop, ConnOK
<1>2. ASSUME NEW c \in Call, sendCallToWorker(k, c)
      PROVE  ConnOK'
  <2>1. CallOf(k, call[k]) /\ call[k] \in Call \cup {None}
    BY CallKept DEF ConnOK
  <2>2. Respond(k, 200, c)
    BY <1>2 DEF sendCallToWorker
  <2> QED BY <2>1, <2>2, RespondConn
<1> QED BY <1>1, <1>2

\* Every step leaves every handler with what its next step needs.
LEMMA ConnStep ==
  ASSUME TypeOK, QueueInv, [Next]_vars
  PROVE  ConnOK'
<1>0. ConnOK /\ StoreOK
  BY TypeParts
<1>1. worker_groups \subseteq worker_groups'
  BY <1>0, StoreStep
<1>2. CASE UNCHANGED connVars
  BY <1>0, <1>1, <1>2 DEF connVars, ConnOK
<1>3. \A c \in Call : store[c] \in Value \cup {None}
  BY <1>0 DEF StoreOK
<1>4. ASSUME NEW k \in Conn, NEW c \in Call, EvaluateCall(k, c)
      PROVE  ConnOK'
  <2>1. CallOf(k, c) /\ (Respond(k, 200, store[c]) \/ Goto(k, "evaluate_group"))
    BY <1>4 DEF EvaluateCall, CallOf
  <2> QED BY <2>1, <1>0, <1>1, <1>3, RespondConn, GotoConn
<1>5. ASSUME NEW k \in Conn, NEW c \in Call, NEW v \in Value, PutCall(k, c, v)
      PROVE  ConnOK'
  <2>1. CallOf(k, c) /\ Goto(k, "result_group")
    BY <1>5 DEF PutCall, CallOf
  <2> QED BY <2>1, <1>0, <1>1, GotoConn
<1>6. ASSUME NEW k \in Conn, NEW f \in Func, DeleteCalls(k, f)
      PROVE  ConnOK'
  <2>1. CallOf(k, None) /\ Respond(k, 204, None)
    BY <1>6 DEF DeleteCalls, CallOf
  <2> QED BY <2>1, <1>0, <1>1, RespondConn
<1>7. ASSUME NEW k \in Conn, NEW i \in WorkerInfo, PostNode(k, i)
      PROVE  ConnOK'
  <2>1. CallOf(k, None) /\ Respond(k, 201, None)
    BY SMTT(60), <1>7 DEF PostNode, CallOf
  <2> QED BY <2>1, <1>0, <1>1, RespondConn
<1>8. ASSUME NEW k \in Conn, NEW i \in WorkerInfo, RequestWorker(k, i)
      PROVE  ConnOK'
  <2>1. CASE Respond(k, 400, None)
    <3>1. CallOf(k, None)
      BY <1>8 DEF RequestWorker, CallOf
    <3> QED BY <2>1, <3>1, <1>0, <1>1, RespondConn
  <2>2. CASE /\ worker_groups' = worker_groups \cup {i}
             /\ pc' = [pc EXCEPT ![k] = "unstarted"]
             /\ worker' = [worker EXCEPT ![k] = i]
             /\ pos' = [pos EXCEPT ![k] = 1]
             /\ resp' = [resp EXCEPT ![k] = None]
    <3>1. call' = [call EXCEPT ![k] = None]
      BY <1>8 DEF RequestWorker
    <3> QED BY <2>2, <3>1, <1>0 DEF ConnOK, PC
  <2> QED BY <1>8, <2>1, <2>2 DEF RequestWorker
<1>9. ASSUME NEW k \in Conn, Handler(k)
      PROVE  ConnOK'
  <2>0. call[k] \in Call \cup {None}
    BY <1>0 DEF ConnOK
  <2>1. CASE EvaluateGroup(k) \/ EvaluateQueue(k) \/ ResultGroup(k)
             \/ ResultPending(k)
    <3>1. call[k] \in Call /\ call' = call
      BY Zenon, <2>1, <1>0
         DEF EvaluateGroup, EvaluateQueue, ResultGroup, ResultPending, ConnOK
    <3>2. CallOf(k, call[k])
      BY ZenonT(60), <3>1, <1>0, CallKept
    <3>3. \/ Goto(k, "evaluate_queue") \/ Goto(k, "result_pending")
          \/ Respond(k, 200, store[call[k]]) \/ Respond(k, 202, None)
          \/ Respond(k, 201, None)
      BY <2>1 DEF EvaluateGroup, EvaluateQueue, LookAgain, ResultGroup,
                  ResultPending
    <3> QED BY SMTT(60), <3>1, <3>2, <3>3, <1>0, <1>1, <1>3, RespondConn, GotoConn
  <2>2. CASE SubmitUnstarted(k)
    <3>1. /\ call' = call /\ pc[k] = "unstarted"
          /\ ContinueLoop(k) \/ \E c : sendCallToWorker(k, c)
      BY Zenon, <2>2 DEF SubmitUnstarted
    <3>2. ASSUME NEW c, sendCallToWorker(k, c) PROVE c \in Call
      <4>1. assigned' \subseteq Call
        BY QueueStep DEF QueueInv, Consistent
      <4> QED BY <4>1, <3>2 DEF sendCallToWorker
    <3> QED BY SMTT(60), <3>1, <3>2, <1>0, <1>1, LoopConn
  <2>3. CASE SubmitRetry(k)
    <3>1. /\ call' = call /\ pc[k] = "retry"
          /\ ContinueLoop(k) \/ \E c : sendCallToWorker(k, c)
      BY ZenonT(60), <2>3 DEF SubmitRetry
    <3>2. ASSUME NEW c, sendCallToWorker(k, c) PROVE c \in Call
      <4>1. assigned' \subseteq Call
        BY QueueStep DEF QueueInv, Consistent
      <4> QED BY <4>1, <3>2 DEF sendCallToWorker
    <3> QED BY SMTT(60), <3>1, <3>2, <1>0, <1>1, LoopConn
  <2>4. CASE StartRetryLoop(k)
    BY <2>4, <1>0, <1>1 DEF StartRetryLoop, ConnOK, PC
  <2>5. CASE NoPendingCall(k)
    <3>1. call' = call /\ Respond(k, 200, None)
      BY <2>5 DEF NoPendingCall
    <3>2. CallOf(k, call[k])
      BY Zenon, <3>1, <1>0, CallKept
    <3>3. call[k] \in Call \cup {None} /\ None \in Value \cup Call \cup {None}
      BY Zenon, <1>0 DEF ConnOK
    <3>4. 200 \in {200, 201, 202, 204, 400} /\ (200 = 202 => call[k] \in Call)
      BY SMT
    <3> QED BY SMTT(60), <3>1, <3>2, <3>3, <3>4, <1>0, <1>1, RespondConn
  <2> QED BY <1>9, <2>1, <2>2, <2>3, <2>4, <2>5 DEF Handler
<1>10. ASSUME NEW c \in Call, MinutePasses(c)
       PROVE  ConnOK'
  BY <1>10, <1>2 DEF MinutePasses
<1>11. CASE UNCHANGED vars
  BY <1>11, <1>2 DEF vars
<1> QED BY <1>4, <1>5, <1>6, <1>7, <1>8, <1>9, <1>10, <1>11 DEF Next, Request

-----------------------------------------------------------------------------
(* What the handlers promise each other between two lock sections.         *)

\* A step of one handler does not touch the locals of another.
LEMMA OthersUntouched ==
  ASSUME ConnOK, NEW k \in Conn, Request(k) \/ Handler(k), NEW j \in Conn, j # k
  PROVE  pc'[j] = pc[j] /\ call'[j] = call[j] /\ resp'[j] = resp[j]
<1>0. j \in DOMAIN pc /\ j \in DOMAIN resp /\ j \in DOMAIN call
  BY Zenon, ConnDomains
<1>1. ASSUME NEW status, NEW body, Respond(k, status, body)
      PROVE  pc'[j] = pc[j] /\ resp'[j] = resp[j]
  BY <1>0, <1>1 DEF Respond
<1>2. ASSUME NEW label, Goto(k, label)
      PROVE  pc'[j] = pc[j] /\ resp'[j] = resp[j]
  BY <1>0, <1>2 DEF Goto
<1>3. ASSUME NEW c, call' = call \/ call' = [call EXCEPT ![k] = c]
      PROVE  call'[j] = call[j]
  BY <1>0, <1>3
<1>4. CASE Request(k)
  <2>1. ASSUME NEW c, EvaluateCall(k, c)
        PROVE  pc'[j] = pc[j] /\ call'[j] = call[j] /\ resp'[j] = resp[j]
    BY ZenonT(60), <2>1, <1>1, <1>2, <1>3 DEF EvaluateCall
  <2>2. ASSUME NEW c, NEW v, PutCall(k, c, v)
        PROVE  pc'[j] = pc[j] /\ call'[j] = call[j] /\ resp'[j] = resp[j]
    BY ZenonT(60), <2>2, <1>2, <1>3 DEF PutCall
  <2>3. ASSUME NEW f, DeleteCalls(k, f)
        PROVE  pc'[j] = pc[j] /\ call'[j] = call[j] /\ resp'[j] = resp[j]
    BY ZenonT(60), <2>3, <1>1, <1>3 DEF DeleteCalls
  <2>4. ASSUME NEW i, PostNode(k, i)
        PROVE  pc'[j] = pc[j] /\ call'[j] = call[j] /\ resp'[j] = resp[j]
    BY ZenonT(60), <2>4, <1>1, <1>3 DEF PostNode
  <2>5. ASSUME NEW i, RequestWorker(k, i)
        PROVE  pc'[j] = pc[j] /\ call'[j] = call[j] /\ resp'[j] = resp[j]
    <3>0. call'[j] = call[j]
      BY ZenonT(60), <2>5, <1>3 DEF RequestWorker
    <3>1. CASE Respond(k, 400, None)
      BY ZenonT(60), <3>0, <3>1, <1>1
    <3>2. CASE /\ pc' = [pc EXCEPT ![k] = "unstarted"]
               /\ resp' = [resp EXCEPT ![k] = None]
      BY <3>0, <3>2, <1>0
    <3> QED BY ZenonT(60), <2>5, <3>1, <3>2 DEF RequestWorker
  <2> QED BY ZenonT(60), <1>4, <2>1, <2>2, <2>3, <2>4, <2>5 DEF Request
<1>5. CASE Handler(k)
  <2>1. call' = call
    BY ZenonT(60), <1>5 DEF Handler, EvaluateGroup, EvaluateQueue, ResultGroup,
                ResultPending, SubmitUnstarted, StartRetryLoop, SubmitRetry,
                NoPendingCall
  <2>2. CASE EvaluateGroup(k) \/ EvaluateQueue(k) \/ ResultGroup(k)
             \/ ResultPending(k) \/ NoPendingCall(k)
    BY ZenonT(60), <2>1, <2>2, <1>1, <1>2
       DEF EvaluateGroup, EvaluateQueue, ResultGroup, ResultPending,
           NoPendingCall
  <2>3. CASE SubmitUnstarted(k) \/ SubmitRetry(k)
    BY ZenonT(60), <2>1, <2>3, <1>1
       DEF SubmitUnstarted, SubmitRetry, ContinueLoop, sendCallToWorker
  <2>4. CASE StartRetryLoop(k)
    BY <1>0, <2>1, <2>4 DEF StartRetryLoop
  <2> QED BY ZenonT(60), <1>5, <2>2, <2>3, <2>4 DEF Handler
<1> QED BY Zenon, <1>4, <1>5

\* A result stays in the store unless its func is invalidated.
LEMMA ResultKept ==
  ASSUME StoreOK, [Next]_vars, NEW c \in Call, store[c] # None
  PROVE  store'[c] # None \/ NameOf[c] \in Invalidated
<1>1. CASE store' = store
  BY <1>1
<1>2. ASSUME NEW k \in Conn, NEW d \in Call, NEW v \in Value, PutCall(k, d, v)
      PROVE  store'[c] # None
  BY <1>2, ServerAssumption DEF PutCall, StoreOK
<1>3. ASSUME NEW k \in Conn, NEW f \in Func, DeleteCalls(k, f)
      PROVE  store'[c] # None \/ NameOf[c] \in Invalidated
  BY SMTT(60), <1>3 DEF DeleteCalls, StoreOK
<1>4. ASSUME NEW k \in Conn, Handler(k)
      PROVE  store' = store
  BY ZenonT(60), <1>4 DEF Handler, EvaluateGroup, EvaluateQueue, ResultGroup,
              ResultPending, SubmitUnstarted, StartRetryLoop, SubmitRetry,
              NoPendingCall
<1>5. ASSUME NEW k \in Conn, Request(k)
      PROVE  store'[c] # None \/ NameOf[c] \in Invalidated
  BY ZenonT(60), <1>1, <1>2, <1>3, <1>5
     DEF Request, EvaluateCall, PostNode, RequestWorker
<1>6. ASSUME NEW d \in Call, MinutePasses(d)
      PROVE  store' = store
  BY Zenon, <1>6 DEF MinutePasses
<1> QED BY <1>1, <1>4, <1>5, <1>6 DEF Next, vars

PromiseInv == HandlerAssumptions /\ NoCallPendingWithResult /\ AcceptedCallKept

Delivering(k) == pc[k] \in {"result_group", "result_pending"}

\* What a step of handler k owes the others.
StepOK(k) ==
  /\ \A c \in calls' : c \in calls \/ NameOf[c] \in call_groups'
  /\ \A c \in finished' :
       c \in finished \/ NameOf[c] \in Invalidated \/ store'[c] # None
  /\ \A c \in calls \ finished :
       c \in calls' \ finished' \/ store'[c] # None \/ NameOf[c] \in Invalidated
  /\ \A c \in calls' \ finished' : store'[c] # None =>
       \/ /\ c \in calls \ finished /\ store[c] # None
          /\ ~(Delivering(k) /\ call[k] = c)
       \/ Delivering(k)' /\ call'[k] = c
  /\ pc'[k] = "evaluate_queue" => NameOf[call'[k]] \in call_groups'
  /\ Delivering(k)' =>
       NameOf[call'[k]] \in Invalidated \/ store'[call'[k]] # None
  /\ resp'[k] # None /\ resp'[k].status = 202
       => store'[call'[k]] # None \/ call'[k] \in calls' \ finished'
          \/ NameOf[call'[k]] \in Invalidated

\* A step that pays what it owes preserves the promises.
LEMMA PromiseStep ==
  ASSUME TypeOK, QueueInv, PromiseInv, [Next]_vars,
         NEW k \in Conn, Request(k) \/ Handler(k), StepOK(k)
  PROVE  PromiseInv'
<1>1. ConnOK /\ StoreOK
  BY TypeParts
<1>2. \A j \in Conn : j # k =>
        pc'[j] = pc[j] /\ call'[j] = call[j] /\ resp'[j] = resp[j]
  BY <1>1, OthersUntouched
<1>3. call_groups \subseteq call_groups'
  BY <1>1, StoreStep
<1>4. \A c \in Call : store[c] # None =>
        store'[c] # None \/ NameOf[c] \in Invalidated
  BY ZenonT(60), <1>1, ResultKept
<1>5. finished \subseteq Call /\ calls \subseteq Call
  BY DEF TypeOK
<1>6. \A j \in Conn : Delivering(j) \/ pc[j] = "evaluate_queue"
                      \/ (resp[j] # None /\ resp[j].status = 202)
        => call[j] \in Call
  BY <1>1 DEF ConnOK, Delivering
<1>7. HandlerAssumptions'
  <2>1. \A c \in calls' : NameOf[c] \in call_groups'
    <3>1. \A c \in calls' : c \in calls \/ NameOf[c] \in call_groups'
      BY Zenon DEF StepOK
    <3>2. \A c \in calls : NameOf[c] \in call_groups
      BY Zenon DEF PromiseInv, HandlerAssumptions
    <3> QED BY Zenon, <3>1, <3>2, <1>3
  <2>2. \A c \in finished' : NameOf[c] \in Invalidated \/ store'[c] # None
    <3>1. \A c \in finished' :
            c \in finished \/ NameOf[c] \in Invalidated \/ store'[c] # None
      BY Zenon DEF StepOK
    <3>2. \A c \in finished : NameOf[c] \in Invalidated \/ store[c] # None
      BY ZenonT(60) DEF PromiseInv, HandlerAssumptions
    <3> QED BY Zenon, <3>1, <3>2, <1>4, <1>5
  <2>3. ASSUME NEW j \in Conn
        PROVE  /\ pc'[j] = "evaluate_queue" => NameOf[call'[j]] \in call_groups'
               /\ pc'[j] \in {"result_group", "result_pending"} =>
                    NameOf[call'[j]] \in Invalidated \/ store'[call'[j]] # None
    <3>1. CASE j = k
      BY ZenonT(60), <3>1 DEF StepOK, Delivering
    <3>2. CASE j # k
      BY ZenonT(60), <3>2, <1>2, <1>3, <1>4, <1>6
         DEF PromiseInv, HandlerAssumptions, Delivering
    <3> QED BY SMTT(60), <3>1, <3>2
  <2> QED BY SMTT(60), <2>1, <2>2, <2>3 DEF HandlerAssumptions
<1>8. NoCallPendingWithResult'
  <2> SUFFICES ASSUME NEW c \in calls' \ finished', store'[c] # None
               PROVE  \E j \in Conn : Delivering(j)' /\ call'[j] = c
    BY ZenonT(60) DEF NoCallPendingWithResult, ResultInFlight, Delivering
  <2>1. CASE Delivering(k)' /\ call'[k] = c
    BY ZenonT(60), <2>1
  <2>2. CASE /\ c \in calls \ finished /\ store[c] # None
             /\ ~(Delivering(k) /\ call[k] = c)
    <3>1. PICK j \in Conn : Delivering(j) /\ call[j] = c
      BY ZenonT(60), <2>2
         DEF PromiseInv, NoCallPendingWithResult, ResultInFlight, Delivering
    <3>2. j # k
      BY <2>2, <3>1
    <3> QED BY ZenonT(60), <3>1, <3>2, <1>2 DEF Delivering
  <2> QED BY ZenonT(60), <2>1, <2>2 DEF StepOK
<1>9. AcceptedCallKept'
  <2> SUFFICES ASSUME NEW j \in Conn, resp'[j] # None, resp'[j].status = 202,
                      NameOf[call'[j]] \notin Invalidated
               PROVE  store'[call'[j]] # None \/ call'[j] \in calls' \ finished'
    BY SMTT(60) DEF AcceptedCallKept
  <2>1. CASE j = k
    <3>1. resp'[k] # None /\ resp'[k].status = 202
          => store'[call'[k]] # None \/ call'[k] \in calls' \ finished'
             \/ NameOf[call'[k]] \in Invalidated
      BY ZenonT(60) DEF StepOK
    <3> QED BY <2>1, <3>1
  <2>2. CASE j # k
    <3>0. call'[j] = call[j] /\ resp'[j] = resp[j]
      BY ZenonT(60), <2>2, <1>2
    <3>1. call[j] \in Call
      BY <3>0, <1>6
    <3>a. resp[j] # None /\ resp[j].status = 202
            /\ NameOf[call[j]] \notin Invalidated
          => store[call[j]] # None \/ call[j] \in calls \ finished
      BY ZenonT(60) DEF PromiseInv, AcceptedCallKept
    <3>2. store[call[j]] # None \/ call[j] \in calls \ finished
      BY <3>0, <3>a
    <3>3. \A c \in calls \ finished :
            c \in calls' \ finished' \/ store'[c] # None \/ NameOf[c] \in Invalidated
      BY Zenon DEF StepOK
    <3>4. NameOf[call[j]] \notin Invalidated
      BY Zenon, <3>0
    <3>5. CASE store[call[j]] # None
      <4>1. store'[call[j]] # None \/ NameOf[call[j]] \in Invalidated
        BY ZenonT(60), <3>1, <3>5, <1>4
      <4>2. store'[call'[j]] # None
        BY Zenon, <3>0, <3>4, <4>1
      <4> QED BY Zenon, <4>2
    <3>6. CASE call[j] \in calls \ finished
      BY Zenon, <3>0, <3>3, <3>4, <3>6
    <3> QED BY Zenon, <3>2, <3>5, <3>6
  <2> QED BY <2>1, <2>2
<1> QED BY <1>7, <1>8, <1>9 DEF PromiseInv

\* Requests and handlers pay what they owe.
LEMMA EveryStepOK ==
  ASSUME TypeOK, QueueInv, PromiseInv, NEW k \in Conn, Request(k) \/ Handler(k)
  PROVE  StepOK(k)
<1>0. ConnOK /\ StoreOK /\ finished \subseteq calls /\ calls \subseteq Call
  BY ZenonT(60), TypeParts DEF QueueInv, Consistent
<1>a. k \in DOMAIN pc /\ k \in DOMAIN resp /\ k \in DOMAIN call
  BY ZenonT(60), <1>0, ConnDomains
<1>1. ASSUME NEW body,
             \/ Respond(k, 200, body) \/ Respond(k, 201, body)
             \/ Respond(k, 204, body) \/ Respond(k, 400, body)
      PROVE  pc'[k] = "idle" /\ resp'[k].status # 202
  <2>1. ASSUME NEW status, Respond(k, status, body)
        PROVE  pc'[k] = "idle" /\ resp'[k].status = status
    BY <1>a, <2>1 DEF Respond
  <2>2. CASE Respond(k, 200, body) BY <2>1, <2>2
  <2>3. CASE Respond(k, 201, body) BY <2>1, <2>3
  <2>4. CASE Respond(k, 204, body) BY <2>1, <2>4
  <2>5. CASE Respond(k, 400, body) BY <2>1, <2>5
  <2> QED BY <1>1, <2>2, <2>3, <2>4, <2>5
<1>2. ASSUME NEW label, Goto(k, label)
      PROVE  pc'[k] = label /\ resp'[k] = None
  BY <1>a, <1>2 DEF Goto
<1>3. ASSUME NEW c, call' = [call EXCEPT ![k] = c]
      PROVE  call'[k] = c
  BY <1>a, <1>3
<1>4. ASSUME store' = store, calls' \subseteq calls, finished' \subseteq finished,
             calls' \ finished' = calls \ finished, ~Delivering(k),
             pc'[k] \notin {"evaluate_queue", "result_group", "result_pending"},
             resp'[k] = None \/ resp'[k].status # 202
      PROVE  StepOK(k)
  BY ZenonT(60), <1>4 DEF StepOK, Delivering
<1>5. ASSUME NEW c \in Call, EvaluateCall(k, c)
      PROVE  StepOK(k)
  <2>1. /\ store' = store /\ calls' = calls /\ finished' = finished
        /\ pc[k] = "idle"
    BY ZenonT(60), <1>5 DEF EvaluateCall, queueVars
  <2>2. CASE Respond(k, 200, store[c])
    <3>1. pc'[k] = "idle" /\ resp'[k].status # 202
      BY <1>a, <2>2 DEF Respond
    <3> QED BY ZenonT(60), <2>1, <3>1, <1>4 DEF Delivering
  <2>3. CASE Goto(k, "evaluate_group")
    <3>1. pc'[k] = "evaluate_group" /\ resp'[k] = None
      BY ZenonT(60), <2>3, <1>2
    <3> QED BY ZenonT(60), <2>1, <3>1, <1>4 DEF Delivering
  <2> QED BY ZenonT(60), <1>5, <2>2, <2>3 DEF EvaluateCall
<1>6. ASSUME NEW c \in Call, NEW v \in Value, PutCall(k, c, v)
      PROVE  StepOK(k)
  <2>1. /\ store' = [store EXCEPT ![c] = v] /\ v # None
        /\ pc[k] = "idle" /\ pc'[k] = "result_group" /\ call'[k] = c
        /\ resp'[k] = None /\ calls' = calls /\ finished' = finished
    BY ZenonT(60), <1>2, <1>3, <1>6, ServerAssumption DEF PutCall, queueVars
  <2>2. store'[c] # None /\ \A d \in Call : d # c => store'[d] = store[d]
    BY <2>1, <1>0 DEF StoreOK
  <2>3. Delivering(k)' /\ ~Delivering(k) /\ pc'[k] # "evaluate_queue"
    BY Zenon, <2>1 DEF Delivering
  <2>4. \A d \in calls' \ finished' : store'[d] # None =>
          \/ d \in calls \ finished /\ store[d] # None /\ ~Delivering(k)
          \/ d = c
    BY Zenon, <2>1, <2>2, <2>3, <1>0
  <2> QED BY ZenonT(60), <2>1, <2>2, <2>3, <2>4 DEF StepOK
<1>7. ASSUME NEW f \in Func, DeleteCalls(k, f)
      PROVE  StepOK(k)
  <2>1. /\ \A c \in Call : store'[c] # None => store[c] # None
        /\ pc[k] = "idle" /\ pc'[k] = "idle"
        /\ resp'[k].status # 202 /\ calls' = calls /\ finished' = finished
    BY ZenonT(60), <1>1, <1>7 DEF DeleteCalls, queueVars
  <2> QED BY ZenonT(60), <2>1, <1>0 DEF StepOK, Delivering
<1>8. ASSUME NEW i \in WorkerInfo, PostNode(k, i)
      PROVE  StepOK(k)
  <2>1. /\ store' = store /\ calls' = calls /\ finished' = finished
        /\ pc[k] = "idle"
    BY <1>8 DEF PostNode, queueVars
  <2>2. pc'[k] = "idle" /\ resp'[k].status # 202
    BY ZenonT(60), <1>1, <1>8 DEF PostNode
  <2> QED BY ZenonT(60), <2>1, <2>2, <1>4 DEF Delivering
<1>9. ASSUME NEW i \in WorkerInfo, RequestWorker(k, i)
      PROVE  StepOK(k)
  <2>1. CASE Respond(k, 400, None)
    BY ZenonT(60), <2>1, <1>1, <1>4, <1>9 DEF RequestWorker, queueVars, Delivering
  <2>2. CASE /\ pc' = [pc EXCEPT ![k] = "unstarted"]
             /\ resp' = [resp EXCEPT ![k] = None]
    <3>1. pc'[k] = "unstarted" /\ resp'[k] = None
      BY <2>2, <1>a
    <3> QED BY ZenonT(60), <3>1, <1>4, <1>9 DEF RequestWorker, queueVars, Delivering
  <2> QED BY ZenonT(60), <1>9, <2>1, <2>2 DEF RequestWorker
<1>10. CASE EvaluateGroup(k)
  <2>1. /\ store' = store /\ calls' = calls /\ finished' = finished
        /\ call' = call /\ pc[k] = "evaluate_group"
        /\ call_groups' = call_groups \cup {NameOf[call[k]]}
    BY Zenon, <1>10 DEF EvaluateGroup, queueVars
  <2>2. pc'[k] = "evaluate_queue" /\ resp'[k] = None
    BY ZenonT(60), <1>2, <1>10 DEF EvaluateGroup
  <2>3. NameOf[call'[k]] \in call_groups'
    BY ZenonT(60), <2>1
  <2> QED BY ZenonT(60), <2>1, <2>2, <2>3 DEF StepOK, Delivering, PromiseInv
<1>11. CASE EvaluateQueue(k)
  <2> DEFINE c == call[k]
  <2>1. /\ c \in Call /\ store' = store /\ call' = call
        /\ call_groups' = call_groups
        /\ pc[k] = "evaluate_queue" /\ pc'[k] = "idle" /\ finished' = finished
        /\ NameOf[c] \in call_groups
    BY ZenonT(60), <1>0, <1>11
       DEF EvaluateQueue, LookAgain, QueueNewCall, Requeue, queueVars, groupVars, ConnOK,
           Respond, PromiseInv, HandlerAssumptions
  <2>2. CASE Respond(k, 200, store[c]) /\ UNCHANGED queueVars
    BY ZenonT(60), <1>1, <1>4, <2>1, <2>2 DEF queueVars, Delivering
  <2>3. CASE store[c] = None /\ QueueNewCall(c)
    <3>1. calls' = calls \cup {c} /\ c \notin finished
      BY ZenonT(60), <2>3, <1>0 DEF QueueNewCall
    <3> QED BY ZenonT(60), <2>1, <2>3, <3>1 DEF StepOK, Delivering
  <2>4. CASE c \in calls /\ calls' = calls /\ Respond(k, 202, None)
    BY ZenonT(60), <2>1, <2>4
       DEF StepOK, Delivering, PromiseInv, HandlerAssumptions
  <2>5. ASSUME Requeue(c) PROVE c \in calls /\ calls' = calls
    BY ZenonT(60), <2>5 DEF Requeue, TimedOut, QueueInv, Consistent
  <2> QED BY ZenonT(60), <1>11, <2>2, <2>3, <2>4, <2>5 DEF EvaluateQueue, LookAgain, queueVars
<1>12. CASE ResultGroup(k)
  <2>1. /\ store' = store /\ call' = call /\ UNCHANGED <<calls, finished>>
        /\ call_groups' = call_groups /\ Delivering(k)
        /\ \/ NameOf[call[k]] \notin call_groups /\ pc'[k] = "idle"
              /\ resp'[k].status # 202
           \/ pc'[k] = "result_pending" /\ resp'[k] = None
    BY ZenonT(60), <1>1, <1>2, <1>12
       DEF ResultGroup, queueVars, groupVars, Delivering
  <2>2. CASE /\ NameOf[call[k]] \notin call_groups /\ pc'[k] = "idle"
             /\ resp'[k].status # 202
    <3>1. call[k] \notin calls
      BY Zenon, <2>2 DEF PromiseInv, HandlerAssumptions
    <3> QED BY ZenonT(60), <2>1, <2>2, <3>1 DEF StepOK, Delivering
  <2>3. CASE pc'[k] = "result_pending" /\ resp'[k] = None
    <3>1. NameOf[call[k]] \in Invalidated \/ store[call[k]] # None
      BY Zenon, <2>1 DEF PromiseInv, HandlerAssumptions, Delivering
    <3> QED BY ZenonT(60), <2>1, <2>3, <3>1 DEF StepOK, Delivering
  <2> QED BY Zenon, <2>1, <2>2, <2>3
<1>13. CASE ResultPending(k)
  <2> DEFINE c == call[k]
  <2>1. /\ store' = store /\ call' = call /\ Delivering(k) /\ pc'[k] = "idle"
        /\ resp'[k].status # 202
        /\ NameOf[c] \in Invalidated \/ store[c] # None
    <3>1. store' = store /\ call' = call /\ Delivering(k)
      BY ZenonT(60), <1>13 DEF ResultPending, Delivering
    <3>2. pc'[k] = "idle" /\ resp'[k].status # 202
      BY ZenonT(60), <1>1, <1>13 DEF ResultPending
    <3>3. NameOf[c] \in Invalidated \/ store[c] # None
      BY Zenon, <3>1 DEF PromiseInv, HandlerAssumptions, Delivering
    <3> QED BY Zenon, <3>1, <3>2, <3>3
  <2>2. /\ calls' \subseteq calls /\ finished' \subseteq finished \cup {c}
        /\ calls' \ finished' = (calls \ finished) \ {c}
    <3>1. CASE c \notin calls /\ UNCHANGED queueVars
      BY <3>1 DEF queueVars
    <3>2. CASE c \in calls /\ deleteIfPossible(c)
      BY <3>2, ResultSection
    <3> QED BY Zenon, <1>13, <3>1, <3>2 DEF ResultPending
  <2> HIDE DEF c
  <2>3. \A d \in calls' \ finished' : d \in calls \ finished /\ d # c
    BY <2>2
  <2>4. \A d \in calls \ finished : d \in calls' \ finished' \/ d = c
    BY <2>2
  <2> QED BY ZenonT(60), <2>1, <2>2, <2>3, <2>4 DEF StepOK, Delivering, c
<1>14. CASE SubmitUnstarted(k) \/ SubmitRetry(k)
  <2>1. ScanPost
    BY SMTT(60), <1>14, SubmitUnstartedSection, SubmitRetrySection
  <2>2. /\ store' = store /\ pc[k] \in {"unstarted", "retry"}
        /\ \/ pc' = pc /\ resp' = resp
           \/ pc'[k] = "idle" /\ resp'[k].status # 202
    BY ZenonT(60), <1>1, <1>14
       DEF SubmitUnstarted, SubmitRetry, ContinueLoop, sendCallToWorker
  <2>3. CASE pc'[k] = "idle" /\ resp'[k].status # 202
    BY ZenonT(60), <2>1, <2>2, <2>3, <1>4 DEF ScanPost, Delivering
  <2>4. CASE pc' = pc /\ resp' = resp
    <3>1. resp[k] # None /\ resp[k].status = 202 =>
            store[call[k]] # None \/ call[k] \in calls \ finished
            \/ NameOf[call[k]] \in Invalidated
      BY SMTT(60) DEF PromiseInv, AcceptedCallKept
    <3>2. call' = call
      BY ZenonT(60), <1>14 DEF SubmitUnstarted, SubmitRetry
    <3>3. /\ calls' \subseteq calls /\ finished' \subseteq finished
          /\ calls' \ finished' = calls \ finished
      BY Zenon, <2>1 DEF ScanPost
    <3>4. ~Delivering(k) /\ ~Delivering(k)' /\ pc'[k] # "evaluate_queue"
      BY ZenonT(60), <2>2, <2>4 DEF Delivering
    <3> QED BY ZenonT(60), <2>2, <2>4, <3>1, <3>2, <3>3, <3>4 DEF StepOK
  <2> QED BY <2>2, <2>3, <2>4
<1>15. CASE StartRetryLoop(k)
  <2>1. /\ store' = store /\ pc[k] = "unstarted" /\ pc'[k] = "retry"
        /\ resp' = resp /\ call' = call /\ UNCHANGED <<calls, finished>>
    BY <1>a, <1>15 DEF StartRetryLoop, queueVars
  <2>2. resp[k] # None /\ resp[k].status = 202 =>
          store[call[k]] # None \/ call[k] \in calls \ finished
          \/ NameOf[call[k]] \in Invalidated
    BY DEF PromiseInv, AcceptedCallKept
  <2> QED BY ZenonT(60), <2>1, <2>2 DEF StepOK, Delivering
<1>16. CASE NoPendingCall(k)
  BY ZenonT(60), <1>1, <1>4, <1>16 DEF NoPendingCall, queueVars, Delivering
<1> QED BY ZenonT(60), <1>5, <1>6, <1>7, <1>8, <1>9, <1>10, <1>11, <1>12,
           <1>13, <1>14, <1>15, <1>16 DEF Request, Handler

-----------------------------------------------------------------------------
(* The theorems.                                                           *)

\* None of the properties is inductive alone; together they are.
ServerInv == TypeOK /\ QueueInv /\ PromiseInv

\* The server starts with empty queues and no requests.
LEMMA InitServerInv == Init => ServerInv
<1> SUFFICES ASSUME Init PROVE ServerInv
  OBVIOUS
<1>1. /\ << >> \in Seq(Call) /\ Len(<< >>) = 0
      /\ \A c : ~InQueue(<< >>, c)
      /\ NoRepeats(<< >>)
  BY SMTT(60) DEF InQueue, NoRepeats
<1>2. QueueInv
  BY Zenon, <1>1 DEF Init, QueueInv, Consistent
<1>3. StoreOK /\ ClockOK
  BY ServerAssumption DEF Init, StoreOK, ClockOK
<1>4. ConnOK
  BY SMTT(60) DEF Init, ConnOK, PC
<1>5. PromiseInv
  BY ZenonT(60) DEF Init, PromiseInv, HandlerAssumptions, NoCallPendingWithResult,
         AcceptedCallKept
<1> QED BY <1>2, <1>3, <1>4, <1>5, TypeParts DEF ServerInv

\* Every step of every handler, and the passing of time, preserves it.
LEMMA NextServerInv == ServerInv /\ [Next]_vars => ServerInv'
<1> SUFFICES ASSUME TypeOK, QueueInv, PromiseInv, [Next]_vars
             PROVE  ServerInv'
  BY DEF ServerInv
<1>1. QueueInv'
  BY QueueStep
<1>2. ClockOK' /\ ConnOK' /\ StoreOK'
  BY TypeParts, ClockStep, ConnStep, StoreStep
<1>3. TypeOK'
  <2>1. (ClockOK /\ ConnOK /\ StoreOK /\ QueueInv => TypeOK)'
    BY TypeParts, PTL
  <2> QED BY <1>1, <1>2, <2>1
<1>4. PromiseInv'
  <2>1. ASSUME NEW k \in Conn, Request(k) \/ Handler(k)
        PROVE  PromiseInv'
    BY SMTT(60), <2>1, EveryStepOK, PromiseStep
  <2>2. CASE UNCHANGED vars \/ \E c \in Call : MinutePasses(c)
    <3>1. UNCHANGED <<store, calls, finished, call_groups, pc, call, resp>>
      BY <2>2 DEF vars, connVars, queueVars, groupVars, MinutePasses
    <3> QED BY ZenonT(60), <3>1 DEF PromiseInv, HandlerAssumptions, AcceptedCallKept,
                        NoCallPendingWithResult, ResultInFlight
  <2> QED BY <2>1, <2>2 DEF Next
<1> QED BY <1>1, <1>3, <1>4 DEF ServerInv

\* The inductive invariant holds in every reachable state of the server.
THEOREM ServerInvariant == Spec => []ServerInv
BY InitServerInv, NextServerInv, PTL DEF Spec

\* All fields and locals keep their types, and no handler dereferences a call
\* or a worker group that is not there.
THEOREM TypeCorrect == Spec => []TypeOK
<1>1. ServerInv => TypeOK BY DEF ServerInv
<1> QED BY <1>1, ServerInvariant, PTL

\* The pointers in the queues are to live PendingCalls, each of them queued
\* once and exactly while it is not assigned.
THEOREM QueuesAlwaysConsistent == Spec => []QueuesConsistent
<1>1. ServerInv => QueuesConsistent BY QueueInvImplies DEF ServerInv
<1> QED BY <1>1, ServerInvariant, PTL

\* No worker is given a job that is already finished.
THEOREM FinishedNeverAssigned == Spec => []NoFinishedCallAssigned
<1>1. ServerInv => NoFinishedCallAssigned BY QueueInvImplies DEF ServerInv
<1> QED BY <1>1, ServerInvariant, PTL

\* For any number of concurrent handlers, the groups and results that a handler
\* relies on after it released a mutex stay, and the window between the look at the
\* store and the creation of a PendingCall is closed.
THEOREM HandlersNeverSurprised == Spec => []NoHandlerSurprised
<1>1. ServerInv => NoHandlerSurprised BY DEF ServerInv, PromiseInv, NoHandlerSurprised
<1> QED BY <1>1, ServerInvariant, PTL

\* A call answered with 202 Accepted is not forgotten before its result is
\* stored.
THEOREM AcceptedNeverLost == Spec => []AcceptedCallKept
<1>1. ServerInv => AcceptedCallKept BY DEF ServerInv, PromiseInv
<1> QED BY <1>1, ServerInvariant, PTL

-----------------------------------------------------------------------------
(* The server implements JobBoard.                                         *)

\* Only the unfinished calls, and which of them are assigned, show.
LEMMA SameBoard ==
  ASSUME calls' \ finished' = calls \ finished,
         \A c \in calls \ finished : c \in assigned' <=> c \in assigned
  PROVE  boardJob' = boardJob
BY DEF boardJob

\* One unfinished call moves and the others stay where they are.
LEMMA MoveBoard ==
  ASSUME NEW c \in Call, NEW to,
         to = IF c \notin calls' \ finished' THEN "none"
              ELSE IF c \in assigned' THEN "running" ELSE "waiting",
         \A d \in Call \ {c} :
           /\ d \in calls' \ finished' <=> d \in calls \ finished
           /\ d \in assigned' <=> d \in assigned
  PROVE  boardJob' = [boardJob EXCEPT ![c] = to]
BY ZenonT(60) DEF boardJob

\* Every step of the server is a step of the board, or does not show on it.
LEMMA BoardStep ==
  ASSUME ServerInv, [Next]_vars
  PROVE  [Board!BoardNext]_<<boardJob, store>>
<1> USE DEF Board!BoardNext, Board!boardVars
<1>0. /\ TypeOK /\ QueueInv /\ PromiseInv
      /\ calls \subseteq Call /\ assigned \subseteq calls
      /\ finished \subseteq calls /\ \A c \in finished : c \notin assigned
  BY DEF ServerInv, QueueInv, Consistent
<1>1. CASE UNCHANGED <<store, calls, finished, assigned>>
  BY <1>1 DEF boardJob
<1>2. ASSUME NEW k \in Conn, NEW c \in Call, NEW v \in Value, PutCall(k, c, v)
      PROVE  Board!Publish(c, v)
  BY <1>2 DEF PutCall, queueVars, boardJob, Board!Publish
<1>3. ASSUME NEW k \in Conn, NEW f \in Func, DeleteCalls(k, f)
      PROVE  Board!Withdraw(f)
  BY SMTT(60), <1>3 DEF DeleteCalls, queueVars, boardJob, Board!Withdraw
<1>4. ASSUME NEW k \in Conn, Request(k)
      PROVE  [Board!BoardNext]_<<boardJob, store>>
  BY ZenonT(60), <1>1, <1>2, <1>3, <1>4
     DEF Request, EvaluateCall, PostNode, RequestWorker, queueVars
<1>5. ASSUME NEW k \in Conn, EvaluateQueue(k)
      PROVE  [Board!BoardNext]_<<boardJob, store>>
  <2> DEFINE c == call[k]
  <2>0. c \in Call /\ store' = store
    BY ZenonT(60), <1>0, <1>5 DEF EvaluateQueue, TypeOK
  <2>1. CASE store[c] = None /\ QueueNewCall(c)
    <3>1. /\ c \notin calls /\ calls' = calls \cup {c}
          /\ finished' = finished /\ assigned' = assigned
      BY <2>1 DEF QueueNewCall
    <3>2. boardJob[c] = "none"
      BY <2>0, <3>1 DEF boardJob
    <3>3. boardJob' = [boardJob EXCEPT ![c] = "waiting"]
      <4> HIDE DEF c
      <4> QED BY <1>0, <2>0, <3>1, MoveBoard
    <3> QED BY ZenonT(60), <2>0, <2>1, <3>2, <3>3 DEF Board!Submit, Board!Move
  <2>2. CASE store[c] = None /\ Requeue(c)
    <3>1. /\ c \in assigned /\ calls' = calls
          /\ finished' = finished /\ assigned' = assigned \ {c}
      BY <2>2 DEF Requeue, TimedOut
    <3>2. boardJob[c] = "running"
      BY <1>0, <2>0, <3>1 DEF boardJob
    <3>3. boardJob' = [boardJob EXCEPT ![c] = "waiting"]
      <4> HIDE DEF c
      <4> QED BY SMTT(60), <1>0, <2>0, <3>1, MoveBoard
    <3> QED BY ZenonT(60), <2>0, <2>2, <3>2, <3>3 DEF Board!GiveUp, Board!Move
  <2> QED BY ZenonT(60), <1>1, <1>5, <2>0, <2>1, <2>2 DEF EvaluateQueue, LookAgain, queueVars
<1>6. ASSUME NEW k \in Conn, ResultPending(k)
      PROVE  [Board!BoardNext]_<<boardJob, store>>
  <2> DEFINE c == call[k]
  <2>0. /\ c \in Call /\ store' = store
        /\ store[c] # None \/ NameOf[c] \in Invalidated
    BY ZenonT(60), <1>0, <1>6
       DEF ResultPending, TypeOK, PromiseInv, HandlerAssumptions
  <2>1. CASE c \in calls /\ deleteIfPossible(c)
    <3>1. /\ calls' \ finished' = (calls \ finished) \ {c}
          /\ assigned' = assigned \ {c}
      BY <1>0, <2>1, ResultSection
    <3> HIDE DEF c
    <3>2. boardJob' = [boardJob EXCEPT ![c] = "none"]
      BY SMTT(60), <2>0, <3>1, MoveBoard
    <3>3. CASE c \in finished
      <4>1. boardJob' = boardJob
        BY <1>0, <3>1, <3>3, SameBoard
      <4> QED BY <2>0, <4>1
    <3>4. CASE c \notin finished
      <4>1. boardJob[c] = "running" \/ boardJob[c] = "waiting"
        BY <2>0, <2>1, <3>4 DEF boardJob
      <4> QED BY ZenonT(60), <2>0, <3>2, <4>1 DEF Board!Retire, Board!Move
    <3> QED BY <3>3, <3>4
  <2>2. CASE UNCHANGED queueVars
    <3>1. UNCHANGED <<store, calls, finished, assigned>>
      BY Zenon, <2>0, <2>2 DEF queueVars
    <3> QED BY Zenon, <1>1, <3>1
  <2> QED BY Zenon, <1>6, <2>1, <2>2 DEF ResultPending
<1>7. ASSUME NEW k \in Conn, SubmitUnstarted(k) \/ SubmitRetry(k)
      PROVE  [Board!BoardNext]_<<boardJob, store>>
  <2>1. store' = store /\ ScanPost
    BY ZenonT(60), <1>0, <1>7, SubmitUnstartedSection, SubmitRetrySection
       DEF SubmitUnstarted, SubmitRetry
  <2>2. CASE assigned' = assigned
    <3>1. boardJob' = boardJob
      BY <2>1, <2>2, SameBoard DEF ScanPost
    <3> QED BY <2>1, <3>1
  <2>3. ASSUME NEW c \in (calls \ finished) \ assigned,
               assigned' = assigned \cup {c}
        PROVE  Board!Take(c) /\ c \in Call
    <3>1. boardJob[c] = "waiting" /\ c \in Call
      BY <1>0 DEF boardJob
    <3>2. boardJob' = [boardJob EXCEPT ![c] = "running"]
      BY ZenonT(60), <2>1, <2>3, <3>1, MoveBoard DEF ScanPost
    <3> QED BY <2>1, <3>1, <3>2 DEF Board!Take, Board!Move
  <2> QED BY <2>1, <2>2, <2>3 DEF ScanPost
<1>8. ASSUME NEW k \in Conn, Handler(k)
      PROVE  [Board!BoardNext]_<<boardJob, store>>
  BY ZenonT(60), <1>1, <1>5, <1>6, <1>7, <1>8
     DEF Handler, EvaluateGroup, ResultGroup, StartRetryLoop, NoPendingCall,
         queueVars
<1>9. ASSUME NEW c \in Call, MinutePasses(c)
      PROVE  UNCHANGED <<store, calls, finished, assigned>>
  BY <1>9 DEF MinutePasses
<1> QED BY <1>1, <1>4, <1>8, <1>9 DEF Next, vars, queueVars

\* The server implements the board: no interleaving of handlers, deliveries
\* and timeouts shows clients or workers anything the board does not allow.
THEOREM ServerImplementsBoard == Spec => ImplementsJobBoard
<1>1. Init => Board!BoardInit
  BY DEF Init, Board!BoardInit, boardJob
<1>2. ServerInv /\ [Next]_vars => [Board!BoardNext]_<<boardJob, store>>
  BY BoardStep
<1> QED BY <1>1, <1>2, ServerInvariant, PTL
        DEF Spec, ImplementsJobBoard, Board!BoardSpec, Board!boardVars

\* A call goes back from a worker to calls_to_retry only after its timeout.
THEOREM RequeuedOnlyLate == Spec => RequeueOnlyAfterTimeout
<1> DEFINE Late(c) ==
      /\ minutes[c] >= timeout_minutes[c]
      /\ calls_to_retry'[NameOf[c]] = Append(calls_to_retry[NameOf[c]], c)
<1>1. ASSUME ServerInv, [Next]_vars, NEW c \in assigned, c \in calls' \ assigned'
      PROVE  Late(c)
  <2>0. /\ TypeOK /\ QueueInv
        /\ c \in Call /\ NameOf[c] \in Func
        /\ calls_to_retry \in [Func -> Seq(Call)]
    BY <1>1, ServerAssumption DEF ServerInv, TypeOK
  <2>1. CASE UNCHANGED assigned
    BY SMTT(60), <1>1, <2>1
  <2>2. ASSUME NEW k \in Conn, EvaluateQueue(k)
        PROVE  Late(c)
    <3>1. CASE Requeue(call[k])
      <4>1. /\ TimedOut(call[k]) /\ assigned' = assigned \ {call[k]}
            /\ calls_to_retry' =
                 [calls_to_retry EXCEPT ![NameOf[call[k]]] = Append(@, call[k])]
        BY <3>1 DEF Requeue
      <4>2. c = call[k]
        BY ZenonT(60), <4>1, <1>1
      <4> QED BY SMTT(60), <2>0, <4>1, <4>2 DEF TimedOut
    <3> QED BY ZenonT(60), <2>1, <2>2, <3>1 DEF EvaluateQueue, QueueNewCall, queueVars
  <2>3. ASSUME NEW k \in Conn, ResultPending(k)
        PROVE  UNCHANGED assigned
    <3>1. CASE call[k] \in assigned /\ deleteIfPossible(call[k])
      <4>1. calls' = calls \ {call[k]} /\ assigned' = assigned \ {call[k]}
        BY ZenonT(60), <3>1 DEF deleteIfPossible, Erase
      <4> QED BY SMTT(60), <4>1, <1>1
    <3> QED BY ZenonT(60), <2>3, <3>1 DEF ResultPending, deleteIfPossible, queueVars
  <2>4. ASSUME NEW k \in Conn, SubmitUnstarted(k) \/ SubmitRetry(k)
        PROVE  assigned \subseteq assigned'
    BY <2>0, <2>4, SubmitUnstartedSection, SubmitRetrySection DEF ScanPost
  <2>5. ASSUME NEW k \in Conn, Request(k)
        PROVE  UNCHANGED assigned
    BY ZenonT(60), <2>5 DEF Request, EvaluateCall, PutCall, DeleteCalls, PostNode,
                RequestWorker, queueVars
  <2>6. ASSUME NEW k \in Conn, Handler(k)
        PROVE  Late(c)
    BY ZenonT(60), <1>1, <2>1, <2>2, <2>3, <2>4, <2>6
       DEF Handler, EvaluateGroup, ResultGroup, StartRetryLoop, NoPendingCall,
           queueVars
  <2>7. ASSUME NEW d \in Call, MinutePasses(d)
        PROVE  UNCHANGED assigned
    BY ZenonT(60), <2>7 DEF MinutePasses
  <2> QED BY ZenonT(60), <1>1, <2>1, <2>5, <2>6, <2>7 DEF Next, vars, queueVars
<1>2. ServerInv /\ [Next]_vars =>
        [\A c \in assigned : c \in calls' \ assigned' => Late(c)]_vars
  BY ZenonT(60), <1>1
<1> QED BY <1>2, ServerInvariant, PTL DEF Spec, RequeueOnlyAfterTimeout
=============================================================================

--------------------------- MODULE RocksDBProofs ---------------------------
(***************************************************************************)
(* Proofs about RocksDBStore, for any number of threads, heads, calls and  *)
(* blocks: the "refs" family misses nobody, heads and blocks leave nothing *)
(* dangling in it, an unfinished database is empty, and the store keeps    *)
(* the promise of Store.                                                   *)
(*                                                                         *)
(* The invariants are not inductive by themselves.  What set and           *)
(* head_delete remove from "refs" is the ref of the value they have read,  *)
(* so the proof needs that a transaction that can still commit has read    *)
(* the value that is there, and where each thread is in its request        *)
(* (Working).                                                              *)
(***************************************************************************)
EXTENDS RocksDBStore, TLAPS

-----------------------------------------------------------------------------
(* The inductive invariant *)

\* The variables are functions on the threads, and the families hold what they
\* should.
DataOK ==
  /\ DOMAIN op = Thread /\ DOMAIN pc = Thread /\ DOMAIN target = Thread
  /\ DOMAIN old = Thread /\ DOMAIN busy = Thread /\ DOMAIN todo = Thread
  /\ blocks \subseteq Block
  /\ names \in [Name -> CID \cup {None}]
  /\ refs \subseteq CID \X (Block \cup Name)

Idle(t) == pc[t] = "idle" /\ op[t] = None /\ todo[t] = {}

Putting(t) ==
  /\ pc[t] \in {"get", "write"}
  /\ op[t] # None /\ op[t].op = "put" /\ op[t].name \in Block
  /\ todo[t] = {}

\* A transaction of set or head_delete that is not busy has read the value that is
\* still there.
Setting(t) ==
  /\ pc[t] \in {"begin", "commit"}
  /\ op[t] # None /\ target[t] = op[t].name
  /\ \/ op[t].op = "set" /\ target[t] \in Name /\ op[t].ref \in CID
     \/ op[t].op = "delete" /\ target[t] \in Head /\ op[t].ref = None
  /\ todo[t] = {}
  /\ pc[t] = "commit" /\ ~busy[t] => old[t] = names[target[t]]

\* An iterator shows each call once.
Functional(entries) ==
  /\ entries \subseteq Call \X CID
  /\ \A e \in entries, f \in entries : e[1] = f[1] => e = f

Invalidating(t) ==
  /\ pc[t] \in {"next", "begin", "commit"}
  /\ op[t] # None /\ op[t].op = "invalidate" /\ op[t].ref = None
  /\ Functional(todo[t])
  /\ pc[t] # "next" => target[t] \in Call /\ <<target[t], old[t]>> \in todo[t]

Working(t) == Idle(t) \/ Putting(t) \/ Setting(t) \/ Invalidating(t)

ProcessOK ==
  /\ process = "up" => default = {"format", "version"}
  /\ process = "creating" => default = {"format"}
  /\ process # "up" => \A t \in Thread : Idle(t)
  /\ RefusedOnlyIfEmpty

\* "refs" as the families of blocks, heads and calls see it.
BlockRefsOK ==
  /\ \A b \in blocks : \A x \in LinksOf[b] \ Identity : <<x, b>> \in refs
  /\ \A b \in Block, x \in CID : <<x, b>> \in refs => b \in blocks /\ x \in LinksOf[b]

NameRefsOK ==
  \A n \in Name : names[n] # None =>
    \A x \in Used(n, names[n]) \ Identity : <<x, n>> \in refs

HeadRefsOK == \A h \in Head, x \in CID : <<x, h>> \in refs => names[h] = x

StoreInv ==
  /\ DataOK /\ ProcessOK /\ BlockRefsOK /\ NameRefsOK /\ HeadRefsOK
  /\ \A t \in Thread : Working(t)

-----------------------------------------------------------------------------
(* The threads *)

\* The invariant holds before the database is created.
LEMMA InitInv == ASSUME Init PROVE StoreInv
<1>1. DataOK
  BY DEF Init, DataOK
<1>2. \A t \in Thread : Idle(t)
  BY Zenon DEF Init, Idle
<1>3. ProcessOK
  BY <1>2 DEF Init, ProcessOK, RefusedOnlyIfEmpty
<1>4. BlockRefsOK /\ NameRefsOK /\ HeadRefsOK
  BY DEF Init, BlockRefsOK, NameRefsOK, HeadRefsOK
<1> QED BY <1>1, <1>2, <1>3, <1>4 DEF StoreInv, Working

\* What thread u itself can see of a step that is not its own.
Untouched(u) ==
  /\ pc'[u] = pc[u] /\ op'[u] = op[u] /\ target'[u] = target[u]
  /\ old'[u] = old[u] /\ todo'[u] = todo[u]

\* A thread is not disturbed by a step of another: if the value its transaction has
\* read changes, the transaction becomes busy.
LEMMA OthersKeepWorking ==
  ASSUME NEW u \in Thread, Working(u), Untouched(u),
         ~busy'[u] => ~busy[u] /\ (names'[target[u]] = names[target[u]] \/ pc[u] # "commit")
  PROVE  Working(u)'
<1>1. CASE Idle(u)
  BY <1>1 DEF Idle, Working, Untouched
<1>2. CASE Putting(u)
  BY <1>2 DEF Putting, Working, Untouched
<1>3. CASE Setting(u)
  BY <1>3 DEF Setting, Working, Untouched
<1>4. CASE Invalidating(u)
  BY <1>4 DEF Invalidating, Working, Untouched
<1> QED BY <1>1, <1>2, <1>3, <1>4 DEF Working

\* What every step but Commit leaves alone of the other threads.
Quiet(t) ==
  /\ names' = names
  /\ \A u \in Thread \ {t} : Untouched(u) /\ (~busy'[u] => ~busy[u])

\* A step of a thread other than Commit is quiet and keeps the thread working.
LEMMA QuietStep ==
  ASSUME DataOK, NEW t \in Thread, Working(t),
         \/ Client(t) \/ PutFound(t) \/ PutMissing(t) \/ PutWrite(t)
         \/ Iterate(t) \/ IterateEnd(t) \/ Buffer(t) \/ Retry(t)
  PROVE  Quiet(t) /\ Working(t)'
<1> USE DEF DataOK
<1>1. ASSUME NEW b \in Block, Put(t, b) PROVE Quiet(t) /\ Working(t)'
  <2>1. Quiet(t)
    BY <1>1 DEF Put, Begin, Quiet, Untouched, dbVars
  <2>2. op'[t] = [op |-> "put", name |-> b, ref |-> None] /\ pc'[t] = "get" /\ todo' = todo
    BY <1>1 DEF Put, Begin
  <2>3. todo[t] = {}
    BY <1>1 DEF Put, Begin, Working, Idle, Putting, Setting, Invalidating
  <2>4. op'[t] # None
    BY <2>2, NoneAssumption DEF Promise!Request
  <2> QED BY <2>1, <2>2, <2>3, <2>4 DEF Working, Putting
<1>2. ASSUME NEW n \in Name, NEW ref \in CID, Set(t, n, ref)
      PROVE  Quiet(t) /\ Working(t)'
  <2>1. Quiet(t)
    BY <1>2 DEF Set, Begin, Quiet, Untouched, dbVars
  <2>2. /\ op'[t] = [op |-> "set", name |-> n, ref |-> ref] /\ pc'[t] = "begin"
        /\ todo' = todo /\ target'[t] = n
    BY <1>2 DEF Set, Begin
  <2>3. todo[t] = {}
    BY <1>2 DEF Set, Begin, Working, Idle, Putting, Setting, Invalidating
  <2>4. op'[t] # None
    BY <2>2, NoneAssumption DEF Promise!Request, Promise!Name, Name
  <2> QED BY <2>1, <2>2, <2>3, <2>4 DEF Working, Setting
<1>3. ASSUME NEW h \in Head, DeleteHead(t, h)
      PROVE  Quiet(t) /\ Working(t)'
  <2>1. Quiet(t)
    BY <1>3 DEF DeleteHead, Begin, Quiet, Untouched, dbVars
  <2>2. /\ op'[t] = [op |-> "delete", name |-> h, ref |-> None] /\ pc'[t] = "begin"
        /\ todo' = todo /\ target'[t] = h
    BY <1>3 DEF DeleteHead, Begin
  <2>3. todo[t] = {}
    BY <1>3 DEF DeleteHead, Begin, Working, Idle, Putting, Setting, Invalidating
  <2>4. op'[t] # None
    BY <2>2, NoneAssumption DEF Promise!Request
  <2> QED BY <2>1, <2>2, <2>3, <2>4 DEF Working, Setting
<1>4. ASSUME NEW f \in Func, Invalidate(t, f)
      PROVE  Quiet(t) /\ Working(t)'
  <2>1. Quiet(t)
    BY <1>4 DEF Invalidate, Begin, Quiet, Untouched, dbVars
  <2>2. /\ op'[t] = [op |-> "invalidate", name |-> f, ref |-> None] /\ pc'[t] = "next"
        /\ todo'[t] = Snapshot(f)
    BY <1>4 DEF Invalidate, Begin
  <2>3. Functional(Snapshot(f))
    BY StoreAssumption DEF Functional, Snapshot, Name
  <2>4. op'[t] # None
    BY <2>2, NoneAssumption DEF Promise!Request
  <2> QED BY <2>1, <2>2, <2>3, <2>4 DEF Working, Invalidating
<1>5. CASE PutFound(t) \/ PutWrite(t) \/ IterateEnd(t)
  <2>1. Quiet(t)
    BY <1>5 DEF PutFound, PutWrite, IterateEnd, Finish, Quiet, Untouched, dbVars
  <2>2. pc'[t] = "idle" /\ op'[t] = None /\ todo' = todo
    BY ZenonT(60), <1>5 DEF PutFound, PutWrite, IterateEnd, Finish
  <2>3. todo[t] = {}
    BY <1>5 DEF PutFound, PutWrite, IterateEnd, Working, Idle, Putting, Setting,
                Invalidating
  <2> QED BY <2>1, <2>2, <2>3 DEF Working, Idle
<1>6. CASE PutMissing(t)
  BY <1>6 DEF PutMissing, Quiet, Untouched, dbVars, Working, Idle, Putting, Setting,
              Invalidating
<1>7. CASE Iterate(t)
  <2>1. Quiet(t)
    BY <1>7 DEF Iterate, Quiet, Untouched, dbVars
  <2>2. PICK e \in todo[t] : target'[t] = e[1] /\ old'[t] = e[2]
    BY <1>7 DEF Iterate
  <2>3. pc[t] = "next" /\ pc'[t] = "begin" /\ op' = op /\ todo' = todo
    BY <1>7 DEF Iterate
  <2>4. Invalidating(t)
    BY <2>3 DEF Working, Idle, Putting, Setting
  <2>5. e[1] \in Call /\ <<e[1], e[2]>> = e
    BY <2>4 DEF Invalidating, Functional
  <2> QED BY <2>1, <2>2, <2>3, <2>4, <2>5 DEF Working, Invalidating
<1>8. CASE Buffer(t)
  <2>1. Quiet(t)
    BY <1>8 DEF Buffer, Quiet, Untouched, dbVars
  <2>2. /\ pc[t] = "begin" /\ pc'[t] = "commit" /\ old'[t] = ReadForUpdate(t)
        /\ op' = op /\ target' = target /\ todo' = todo /\ names' = names
    <3>1. /\ pc[t] = "begin" /\ pc' = [pc EXCEPT ![t] = "commit"]
          /\ old' = [old EXCEPT ![t] = ReadForUpdate(t)]
          /\ op' = op /\ target' = target /\ todo' = todo /\ names' = names
      BY Zenon, <1>8 DEF Buffer, dbVars
    <3>2. DOMAIN pc = Thread /\ DOMAIN old = Thread
      BY Zenon DEF DataOK
    <3> QED BY <3>1, <3>2
  <2>3. CASE Setting(t)
    BY SMTT(60), <2>1, <2>2, <2>3 DEF Working, Setting, ReadForUpdate
  <2>4. CASE Invalidating(t)
    BY ZenonT(60), <2>1, <2>2, <2>4 DEF Working, Invalidating, ReadForUpdate
  <2> QED BY <2>2, <2>3, <2>4 DEF Working, Idle, Putting
<1>9. CASE Retry(t)
  <2>1. Quiet(t)
    BY <1>9 DEF Retry, Quiet, Untouched, dbVars
  <2>2. /\ pc[t] = "commit" /\ pc'[t] = "begin" /\ old' = old
        /\ op' = op /\ target' = target /\ todo' = todo
    BY SMTT(60), <1>9 DEF Retry
  <2>3. CASE Setting(t)
    BY ZenonT(60), <2>1, <2>2, <2>3 DEF Working, Setting
  <2>4. CASE Invalidating(t)
    BY <2>1, <2>2, <2>4 DEF Working, Invalidating
  <2> QED BY <2>2, <2>3, <2>4 DEF Working, Idle, Putting
<1> QED BY <1>1, <1>2, <1>3, <1>4, <1>5, <1>6, <1>7, <1>8, <1>9 DEF Client

\* A commit makes every transaction busy that has read the value it replaces.
LEMMA CommitStep ==
  ASSUME DataOK, NEW t \in Thread, Commit(t), \A u \in Thread : Working(u)
  PROVE  \A u \in Thread : Working(u)'
<1>1. ASSUME NEW u \in Thread, u # t PROVE Working(u)'
  <2>1. Untouched(u)
    BY <1>1 DEF Commit, Finish, Untouched, DataOK
  <2>2. ~busy'[u] => ~busy[u] /\ ~(pc[u] = "commit" /\ target[u] = target[t])
    <3>1. busy' = Conflicts(t)
      BY DEF Commit
    <3> QED BY Zenon, <1>1, <3>1 DEF Conflicts
  <2>3. target[u] # target[t] => names'[target[u]] = names[target[u]]
    BY DEF Commit, DataOK
  <2> QED BY <2>1, <2>2, <2>3, OthersKeepWorking
<1>2. CASE Setting(t)
  <2>1. Finish(t) /\ todo' = todo /\ todo[t] = {}
    BY <1>2 DEF Setting, Commit
  <2>2. Idle(t)'
    BY <2>1 DEF Finish, Idle, DataOK
  <2> QED BY <1>1, <2>2 DEF Working
<1>3. CASE Invalidating(t)
  <2>1. /\ pc'[t] = "next" /\ op' = op
        /\ todo'[t] = todo[t] \ {<<target[t], old[t]>>}
    BY <1>3 DEF Invalidating, Commit, DataOK
  <2>2. Functional(todo'[t])
    BY <1>3, <2>1 DEF Invalidating, Functional
  <2>3. Invalidating(t)'
    BY <1>3, <2>1, <2>2 DEF Invalidating
  <2> QED BY <1>1, <2>3 DEF Working
<1> QED BY <1>2, <1>3 DEF Working, Idle, Putting, Commit

-----------------------------------------------------------------------------
(* The families *)

\* What a transaction that commits does to "refs": it only touches refs of its
\* name, and what it puts there are CIDs.
LEMMA CommitRefs ==
  ASSUME NEW t \in Thread, Commit(t), Setting(t) \/ Invalidating(t)
  PROVE  /\ target[t] \in Name
         /\ Added(t) \subseteq CID \X {target[t]}
         /\ \A x, n : n # target[t] => (<<x, n>> \in refs' <=> <<x, n>> \in refs)
<1>1. target[t] \in Name
  BY DEF Setting, Invalidating, Commit, Name
<1>2. op[t].op = "set" => Used(target[t], op[t].ref) \subseteq CID
  BY <1>1, StoreAssumption DEF Setting, Invalidating, Used, Name
<1>3. Added(t) \subseteq CID \X {target[t]}
  BY <1>2 DEF Added, RefsTo
<1>4. ASSUME NEW x, NEW n, n # target[t]
      PROVE  <<x, n>> \in refs' <=> <<x, n>> \in refs
  <2>1. <<x, n>> \notin Deleted(t)
    BY <1>4 DEF Deleted
  <2>2. <<x, n>> \notin Added(t)
    BY <1>3, <1>4
  <2> QED BY <2>1, <2>2 DEF Commit
<1> QED BY <1>1, <1>3, <1>4

\* The families keep their shape.
LEMMA DataStep ==
  ASSUME StoreInv, Next
  PROVE  DataOK'
<1>1. DataOK /\ \A t \in Thread : Working(t)
  BY DEF StoreInv
<1>2. CASE Lifecycle
  BY <1>1, <1>2 DEF Lifecycle, OpenExisting, OpenRefused, OpenEmpty, OpenCreated, Close,
                    Crash, DataOK, dbVars, threadVars
<1>3. ASSUME NEW t \in Thread, Client(t)
      PROVE  DataOK'
  BY <1>1, <1>3 DEF Client, Put, Set, DeleteHead, Invalidate, Begin, DataOK, dbVars
<1>4. ASSUME NEW t \in Thread, PutWrite(t)
      PROVE  DataOK'
  <2>0. Working(t) /\ pc[t] = "write"
    BY <1>1, <1>4 DEF PutWrite
  <2>1. op[t].name \in Block
    BY <2>0 DEF Working, Idle, Putting, Setting, Invalidating
  <2>2. LinksOf[op[t].name] \subseteq CID
    BY <2>1, StoreAssumption
  <2> QED BY <1>1, <1>4, <2>1, <2>2 DEF PutWrite, Finish, DataOK, RefsTo
<1>5. ASSUME NEW t \in Thread, Commit(t)
      PROVE  DataOK'
  <2>0. Working(t) /\ pc[t] = "commit"
    BY <1>1, <1>5 DEF Commit
  <2>1. Setting(t) \/ Invalidating(t)
    BY <2>0 DEF Working, Idle, Putting
  <2>2. target[t] \in Name /\ Added(t) \subseteq CID \X {target[t]}
    BY <1>5, <2>1, CommitRefs
  <2>3. op[t].ref \in CID \cup {None}
    BY <2>1 DEF Setting, Invalidating
  <2>4. refs' \subseteq CID \X (Block \cup Name)
    BY <1>1, <1>5, <2>2 DEF Commit, DataOK
  <2>5. names' \in [Name -> CID \cup {None}] /\ blocks' = blocks
    BY <1>1, <1>5, <2>2, <2>3 DEF Commit, DataOK
  <2>6. /\ DOMAIN op' = Thread /\ DOMAIN pc' = Thread /\ DOMAIN target' = Thread
        /\ DOMAIN old' = Thread /\ DOMAIN busy' = Thread /\ DOMAIN todo' = Thread
    <3>1. DOMAIN busy' = Thread
      BY <1>5 DEF Commit, Conflicts
    <3>2. CASE op[t].op = "invalidate"
      BY <1>1, <1>5, <3>1, <3>2 DEF Commit, DataOK
    <3>3. CASE op[t].op # "invalidate"
      BY SMTT(60), <1>1, <1>5, <3>1, <3>3 DEF Commit, Finish, DataOK
    <3> QED BY <3>2, <3>3
  <2> QED BY <1>1, <2>4, <2>5, <2>6 DEF DataOK
<1>6. ASSUME NEW t \in Thread,
             \/ PutFound(t) \/ PutMissing(t) \/ Iterate(t) \/ IterateEnd(t)
             \/ Buffer(t) \/ Retry(t)
      PROVE  DataOK'
  BY <1>1, <1>6 DEF PutFound, PutMissing, Iterate, IterateEnd, Buffer, Retry, Finish,
                    DataOK, dbVars
<1> QED BY <1>2, <1>3, <1>4, <1>5, <1>6 DEF Next, Step

\* "refs" keeps up with the blocks, the heads and the calls.
LEMMA RefsStep ==
  ASSUME StoreInv, Next
  PROVE  BlockRefsOK' /\ NameRefsOK' /\ HeadRefsOK'
<1>1. /\ DataOK /\ BlockRefsOK /\ NameRefsOK /\ HeadRefsOK
      /\ \A t \in Thread : Working(t)
  BY DEF StoreInv
<1>2. CASE blocks' = blocks /\ names' = names /\ refs' = refs
  <2>1. BlockRefsOK'
    BY <1>1, <1>2 DEF BlockRefsOK
  <2>2. NameRefsOK'
    BY <1>1, <1>2 DEF NameRefsOK, Used
  <2>3. HeadRefsOK'
    BY <1>1, <1>2 DEF HeadRefsOK
  <2> QED BY <2>1, <2>2, <2>3
<1>3. ASSUME NEW t \in Thread, PutWrite(t)
      PROVE  BlockRefsOK' /\ NameRefsOK' /\ HeadRefsOK'
  <2> DEFINE b == op[t].name
  <2>0. Working(t) /\ pc[t] = "write"
    BY <1>1, <1>3 DEF PutWrite
  <2>1. b \in Block /\ b \notin Name
    BY <2>0, StoreAssumption DEF Working, Idle, Putting, Setting, Invalidating, Name
  <2>2. blocks' = blocks \cup {b} /\ names' = names
    BY <1>3 DEF PutWrite
  <2>3. \A x, n : <<x, n>> \in refs' <=>
                    <<x, n>> \in refs \/ (n = b /\ x \in LinksOf[b] \ Identity)
    BY <1>3 DEF PutWrite, RefsTo
  <2> HIDE DEF b
  <2>4. BlockRefsOK'
    BY <1>1, <2>1, <2>2, <2>3 DEF BlockRefsOK
  <2>5. NameRefsOK'
    BY <1>1, <2>1, <2>2, <2>3 DEF NameRefsOK, Used
  <2>6. HeadRefsOK'
    BY <1>1, <2>1, <2>2, <2>3 DEF HeadRefsOK, Name
  <2> QED BY <2>4, <2>5, <2>6
<1>4. ASSUME NEW t \in Thread, Commit(t)
      PROVE  BlockRefsOK' /\ NameRefsOK' /\ HeadRefsOK'
  <2> DEFINE n == target[t]
             ref == op[t].ref
  <2>0. Working(t) /\ pc[t] = "commit" /\ ~busy[t]
    BY <1>1, <1>4 DEF Commit
  <2>1. Setting(t) \/ Invalidating(t)
    BY <2>0 DEF Working, Idle, Putting
  <2>2. /\ n \in Name
        /\ \A x, m : m # n => (<<x, m>> \in refs' <=> <<x, m>> \in refs)
    BY <1>4, <2>1, CommitRefs
  <2>3. /\ blocks' = blocks
        /\ \A m \in Name : names'[m] = IF m = n THEN ref ELSE names[m]
    BY <1>1, <1>4 DEF Commit, DataOK
  <2>4. n \notin Block
    BY <2>2, StoreAssumption DEF Name
  <2>5. ref # None => \A x \in Used(n, ref) \ Identity : <<x, n>> \in refs'
    <3>1. ref # None => op[t].op = "set"
      BY <2>1 DEF Setting, Invalidating
    <3> QED BY <1>4, <3>1 DEF Commit, Added, RefsTo
  <2>6. n \in Head => \A x \in CID : <<x, n>> \in refs' => ref = x
    <3> SUFFICES ASSUME n \in Head, NEW x \in CID, <<x, n>> \in refs'
                 PROVE  ref = x
      OBVIOUS
    <3>0. n \notin Call
      BY StoreAssumption
    <3>1. Setting(t)
      BY <2>1, <2>0, <3>0 DEF Invalidating
    <3>2. old[t] = names[n] /\ op[t].op # "invalidate"
      BY <2>0, <3>1 DEF Setting
    <3>3. <<x, n>> \notin refs \ Deleted(t)
      <4>1. <<x, n>> \in refs => x = old[t] /\ x # None
        BY <1>1, <3>2, StoreAssumption DEF HeadRefsOK
      <4> QED BY <3>2, <4>1 DEF Deleted
    <3>4. <<x, n>> \in Added(t)
      BY <1>4, <3>3 DEF Commit
    <3> QED BY <3>0, <3>4 DEF Added, RefsTo, Used
  <2> HIDE DEF n, ref
  <2>7. BlockRefsOK'
    <3>1. blocks \subseteq Block
      BY <1>1 DEF DataOK
    <3>2. \A b \in Block : \A x : <<x, b>> \in refs' <=> <<x, b>> \in refs
      BY <2>2, <2>4
    <3> QED BY <1>1, <2>3, <3>1, <3>2 DEF BlockRefsOK
  <2>8. NameRefsOK'
    <3> SUFFICES ASSUME NEW m \in Name, names'[m] # None,
                        NEW x \in Used(m, names'[m]) \ Identity
                 PROVE  <<x, m>> \in refs'
      BY DEF NameRefsOK, Used
    <3>1. CASE m = n
      BY <2>3, <2>5, <3>1
    <3>2. CASE m # n
      BY <1>1, <2>2, <2>3, <3>2 DEF NameRefsOK
    <3> QED BY <3>1, <3>2
  <2>9. HeadRefsOK'
    BY <1>1, <2>2, <2>3, <2>6 DEF HeadRefsOK, Name
  <2> QED BY <2>7, <2>8, <2>9
<1>5. CASE Lifecycle
  BY <1>2, <1>5 DEF Lifecycle, OpenExisting, OpenRefused, OpenEmpty, OpenCreated, Close,
                    Crash, dbVars
<1>6. ASSUME NEW t \in Thread, Client(t)
      PROVE  blocks' = blocks /\ names' = names /\ refs' = refs
  BY ZenonT(60), <1>6 DEF Client, Put, Set, DeleteHead, Invalidate, dbVars
<1>7. ASSUME NEW t \in Thread,
             \/ PutFound(t) \/ PutMissing(t) \/ Iterate(t) \/ IterateEnd(t)
             \/ Buffer(t) \/ Retry(t)
      PROVE  blocks' = blocks /\ names' = names /\ refs' = refs
  BY ZenonT(60), <1>7 DEF PutFound, PutMissing, Iterate, IterateEnd, Buffer, Retry, dbVars
<1> QED BY <1>2, <1>3, <1>4, <1>5, <1>6, <1>7 DEF Next, Step

\* Requests are only served by a process that has opened a complete database.
LEMMA ProcessStep ==
  ASSUME StoreInv, Next
  PROVE  ProcessOK'
<1>1. DataOK /\ ProcessOK /\ \A t \in Thread : Working(t)
  BY DEF StoreInv
<1>2. CASE OpenExisting \/ OpenRefused \/ OpenEmpty \/ OpenCreated
  <2>1. \A t \in Thread : Idle(t)'
    BY <1>1, <1>2 DEF ProcessOK, OpenExisting, OpenRefused, OpenEmpty, OpenCreated,
                      threadVars, Idle
  <2>2. /\ blocks' = blocks /\ names' = names /\ refs' = refs
        /\ default # {"format", "version"}
           \/ (default' = default /\ process' = "up")
    BY <1>1, <1>2 DEF ProcessOK, OpenExisting, OpenRefused, OpenEmpty, OpenCreated, dbVars
  <2>3. RefusedOnlyIfEmpty'
    BY <1>1, <2>2 DEF ProcessOK, RefusedOnlyIfEmpty
  <2>4. /\ process' = "up" => default' = {"format", "version"}
        /\ process' = "creating" => default' = {"format"}
    BY <1>1, <1>2 DEF ProcessOK, OpenExisting, OpenRefused, OpenEmpty, OpenCreated, dbVars
  <2> QED BY <2>1, <2>3, <2>4 DEF ProcessOK
<1>3. CASE Close
  <2>1. ASSUME NEW t \in Thread PROVE Idle(t)
    <3>1. Working(t) /\ pc[t] = "idle"
      BY Zenon, <1>1, <1>3 DEF Close
    <3> QED BY <3>1 DEF Working, Putting, Setting, Invalidating
  <2> QED BY <1>1, <1>3, <2>1
          DEF Close, ProcessOK, RefusedOnlyIfEmpty, Idle, dbVars, threadVars
<1>4. CASE Crash
  <2>1. \A t \in Thread : Idle(t)'
    BY <1>4 DEF Crash, Idle
  <2>2. RefusedOnlyIfEmpty' /\ process' = "down"
    BY <1>1, <1>4 DEF Crash, ProcessOK, RefusedOnlyIfEmpty, dbVars
  <2> QED BY <2>1, <2>2 DEF ProcessOK
<1>5. ASSUME NEW t \in Thread, Client(t) \/ Step(t)
      PROVE  ProcessOK'
  <2>1. process = "up"
    <3>1. CASE Client(t)
      BY <3>1 DEF Client, Put, Set, DeleteHead, Invalidate, Begin
    <3>2. CASE Step(t)
      <4>1. pc[t] # "idle"
        BY <3>2 DEF Step, PutFound, PutMissing, PutWrite, Iterate, IterateEnd, Buffer,
                    Retry, Commit
      <4> QED BY <1>1, <4>1 DEF ProcessOK, Idle
    <3> QED BY <1>5, <3>1, <3>2
  <2>2. process' = process /\ default' = default
    <3>1. CASE Client(t)
      BY ZenonT(60), <3>1 DEF Client, Put, Set, DeleteHead, Invalidate, dbVars
    <3>2. CASE Step(t)
      BY ZenonT(60), <3>2 DEF Step, PutFound, PutMissing, PutWrite, Iterate, IterateEnd,
                              Buffer, Retry, Commit, dbVars
    <3> QED BY <1>5, <3>1, <3>2
  <2> QED BY <1>1, <2>1, <2>2 DEF ProcessOK, RefusedOnlyIfEmpty
<1> QED BY <1>2, <1>3, <1>4, <1>5 DEF Next, Lifecycle

\* A thread keeps its place when neither the threads nor the names change.
LEMMA KeepWorking ==
  ASSUME NEW t \in Thread, Working(t), names' = names,
         op' = op, pc' = pc, target' = target, old' = old, busy' = busy, todo' = todo
  PROVE  Working(t)'
<1>1. CASE Idle(t)
  <2>1. Idle(t)'
    BY Zenon, <1>1 DEF Idle
  <2> QED BY Zenon, <2>1 DEF Working
<1>2. CASE Putting(t)
  <2>1. Putting(t)'
    BY Zenon, <1>2 DEF Putting
  <2> QED BY Zenon, <2>1 DEF Working
<1>3. CASE Setting(t)
  <2>1. Setting(t)'
    BY Zenon, <1>3 DEF Setting
  <2> QED BY Zenon, <2>1 DEF Working
<1>4. CASE Invalidating(t)
  <2>1. Invalidating(t)'
    BY Zenon, <1>4 DEF Invalidating, Functional
  <2> QED BY Zenon, <2>1 DEF Working
<1> QED BY Zenon, <1>1, <1>2, <1>3, <1>4 DEF Working

\* The invariant is inductive.
LEMMA InvStep ==
  ASSUME StoreInv, [Next]_vars
  PROVE  StoreInv'
<1>1. CASE UNCHANGED vars
  <2>1. /\ default' = default /\ blocks' = blocks /\ names' = names /\ refs' = refs
        /\ process' = process /\ op' = op /\ pc' = pc /\ target' = target /\ old' = old
        /\ busy' = busy /\ todo' = todo
    BY Zenon, <1>1 DEF vars, dbVars, threadVars
  <2>2. DataOK' /\ BlockRefsOK' /\ HeadRefsOK'
    BY <2>1 DEF StoreInv, DataOK, BlockRefsOK, HeadRefsOK
  <2>3. NameRefsOK'
    BY <2>1 DEF StoreInv, NameRefsOK, Used
  <2>4. \A t \in Thread : Idle(t)' = Idle(t)
    BY <2>1 DEF Idle
  <2>5. ProcessOK'
    BY <2>1, <2>4 DEF StoreInv, ProcessOK, RefusedOnlyIfEmpty
  <2>6. \A t \in Thread : Working(t)'
    <3>1. \A t \in Thread : Working(t)
      BY Zenon DEF StoreInv
    <3> QED BY Zenon, <2>1, <3>1, KeepWorking
  <2> QED BY <2>2, <2>3, <2>5, <2>6 DEF StoreInv
<1>2. CASE Next
  <2>1. DataOK' /\ ProcessOK' /\ BlockRefsOK' /\ NameRefsOK' /\ HeadRefsOK'
    BY <1>2, DataStep, ProcessStep, RefsStep
  <2>2. DataOK /\ \A t \in Thread : Working(t)
    BY DEF StoreInv
  <2>3. ASSUME Lifecycle
        PROVE  \A u \in Thread : Working(u)'
    <3>1. CASE Crash
      BY ZenonT(60), <3>1 DEF Crash, Working, Idle
    <3>2. CASE threadVars' = threadVars /\ names' = names
      <4>1. /\ op' = op /\ pc' = pc /\ target' = target /\ old' = old
            /\ busy' = busy /\ todo' = todo
        BY Zenon, <3>2 DEF threadVars
      <4> QED BY Zenon, <2>2, <3>2, <4>1, KeepWorking
    <3>3. Crash \/ (threadVars' = threadVars /\ names' = names)
      BY <2>3 DEF Lifecycle, OpenExisting, OpenRefused, OpenEmpty, OpenCreated, Close,
                  dbVars
    <3> QED BY <3>1, <3>2, <3>3
  <2>4. ASSUME NEW t \in Thread, Client(t) \/ Step(t)
        PROVE  \A u \in Thread : Working(u)'
    <3>1. CASE Commit(t)
      BY ZenonT(60), <2>2, <3>1, CommitStep
    <3>2. CASE Quiet(t) /\ Working(t)'
      BY <2>2, <3>2, OthersKeepWorking DEF Quiet
    <3> QED BY <2>2, <2>4, <3>1, <3>2, QuietStep DEF Step
  <2> QED BY <1>2, <2>1, <2>3, <2>4 DEF Next, StoreInv
<1> QED BY ZenonT(60), <1>1, <1>2

-----------------------------------------------------------------------------
(* The theorems about "refs" and the life of a database *)

\* The invariant in the words of list_names_using.
LEMMA InvImplies ==
  ASSUME StoreInv
  PROVE  RefsComplete /\ NoDanglingHeadRefs /\ RefusedOnlyIfEmpty
<1>1. /\ DataOK /\ ProcessOK /\ BlockRefsOK /\ NameRefsOK /\ HeadRefsOK
  BY DEF StoreInv
<1>2. RefsComplete
  <2> SUFFICES ASSUME NEW cid \in CID \ Identity, NEW user \in Users(cid)
               PROVE  user \in Block \cup Name /\ <<cid, user>> \in refs
    BY DEF RefsComplete, list_names_using
  <2>1. CASE user \in blocks /\ cid \in LinksOf[user]
    BY <1>1, <2>1 DEF BlockRefsOK, DataOK
  <2>2. CASE user \in Name /\ names[user] # None /\ cid \in Used(user, names[user])
    BY <1>1, <2>2 DEF NameRefsOK
  <2> QED BY <2>1, <2>2 DEF Users
<1>3. NoDanglingHeadRefs
  <2> SUFFICES ASSUME NEW cid \in CID, NEW user \in list_names_using(cid) \ Call
               PROVE  user \in Users(cid)
    BY DEF NoDanglingHeadRefs
  <2>0. <<cid, user>> \in refs /\ (user \in Block \/ user \in Head)
    BY DEF list_names_using, Name
  <2>1. CASE user \in Block
    BY <1>1, <2>0, <2>1 DEF BlockRefsOK, Users
  <2>2. CASE user \in Head
    <3>1. names[user] = cid
      BY <1>1, <2>0, <2>2 DEF HeadRefsOK
    <3> QED BY <2>2, <3>1, StoreAssumption DEF Users, Used, Name
  <2> QED BY <2>0, <2>1, <2>2
<1>4. RefusedOnlyIfEmpty
  BY <1>1 DEF ProcessOK
<1> QED BY <1>2, <1>3, <1>4

\* The inductive invariant holds in every reachable state.
THEOREM InvHolds == Spec => []StoreInv
<1> QED BY InitInv, InvStep, PTL DEF Spec

\* No user is ever missing from list_names_using: for any threads, calls and links,
\* and wherever the process dies, "refs" covers every stored block, head and call.
THEOREM RefsCompleteHolds == Spec => []RefsComplete
<1>1. StoreInv => RefsComplete
  BY InvImplies
<1> QED BY <1>1, InvHolds, PTL

\* However many threads set and delete heads at once, no head and no block is
\* listed under a CID it does not refer to.
THEOREM NoDanglingHeadRefsHolds == Spec => []NoDanglingHeadRefs
<1>1. StoreInv => NoDanglingHeadRefs
  BY InvImplies
<1> QED BY <1>1, InvHolds, PTL

\* A database that open refuses because its creation was cut short is empty.
THEOREM RefusedOnlyIfEmptyHolds == Spec => []RefusedOnlyIfEmpty
<1>1. StoreInv => RefusedOnlyIfEmpty
  BY InvImplies
<1> QED BY <1>1, InvHolds, PTL

-----------------------------------------------------------------------------
(* The promise of Store *)

\* A step that changes the list of one thread.
LEMMA LeftStep ==
  ASSUME NEW t \in Thread, NEW S \in SUBSET Call,
         \A c \in Call : c \in S <=> \E e \in todo'[t] : e[1] = c,
         \A u \in Thread \ {t} : todo'[u] = todo[u]
  PROVE  Left' = [Left EXCEPT ![t] = S]
<1>1. ASSUME NEW u \in Thread, NEW c
      PROVE  /\ c \in Left[u] <=> c \in Call /\ \E e \in todo[u] : e[1] = c
             /\ c \in Left'[u] <=> c \in Call /\ \E e \in todo'[u] : e[1] = c
  BY DEF Left
<1>2. Left'[t] = S
  <2>1. \A c : c \in Left'[t] <=> c \in S
    BY <1>1
  <2> QED BY Zenon, <2>1, SetExtensionality
<1>3. ASSUME NEW u \in Thread \ {t} PROVE Left'[u] = Left[u]
  <2>1. \A c : c \in Left'[u] <=> c \in Left[u]
    BY <1>1
  <2> QED BY Zenon, <2>1, SetExtensionality
<1>4. /\ Left = [u \in Thread |-> Left[u]] /\ Left' = [u \in Thread |-> Left'[u]]
  BY DEF Left
<1> QED BY <1>2, <1>3, <1>4

\* A thread asks for something: it was idle, and the results to invalidate are those
\* the iterator was made with.
LEMMA AskStep ==
  ASSUME StoreInv, NEW t \in Thread, Client(t)
  PROVE  \E r \in Promise!Request : Promise!Ask(t, r)
<1>0. DataOK /\ Working(t) /\ pc[t] = "idle"
  BY DEF StoreInv, Client, Put, Set, DeleteHead, Invalidate, Begin
<1>1. op[t] = None /\ todo[t] = {}
  BY <1>0 DEF Working, Idle, Putting, Setting, Invalidating
<1>2. blocks' = blocks /\ names' = names
  BY ZenonT(60) DEF Client, Put, Set, DeleteHead, Invalidate, dbVars
<1>3. ASSUME todo' = todo
      PROVE  Left' = [Left EXCEPT ![t] = {}]
  <2>1. \A c \in Call : c \in {} <=> \E e \in todo'[t] : e[1] = c
    BY <1>1, <1>3
  <2> QED BY Zenon, <1>3, <2>1, LeftStep
<1>4. ASSUME NEW b \in Block, Put(t, b)
      PROVE  \E r \in Promise!Request : Promise!Ask(t, r)
  <2> DEFINE r == [op |-> "put", name |-> b, ref |-> None]
  <2>1. r \in Promise!Request /\ r.op # "invalidate"
    BY Zenon DEF Promise!Request
  <2>2. op' = [op EXCEPT ![t] = r] /\ todo' = todo
    BY ZenonT(60), <1>4 DEF Put, Begin
  <2>3. Promise!Ask(t, r)
    BY <1>1, <1>2, <1>3, <2>1, <2>2 DEF Promise!Ask
  <2> QED BY <2>1, <2>3
<1>5. ASSUME NEW n \in Name, NEW ref \in CID, Set(t, n, ref)
      PROVE  \E r \in Promise!Request : Promise!Ask(t, r)
  <2> DEFINE r == [op |-> "set", name |-> n, ref |-> ref]
  <2>1. r \in Promise!Request /\ r.op # "invalidate"
    BY DEF Promise!Request, Promise!Name, Name
  <2>2. op' = [op EXCEPT ![t] = r] /\ todo' = todo
    BY Zenon, <1>5 DEF Set, Begin
  <2>3. Promise!Ask(t, r)
    BY <1>1, <1>2, <1>3, <2>1, <2>2 DEF Promise!Ask
  <2> QED BY <2>1, <2>3
<1>6. ASSUME NEW h \in Head, DeleteHead(t, h)
      PROVE  \E r \in Promise!Request : Promise!Ask(t, r)
  <2> DEFINE r == [op |-> "delete", name |-> h, ref |-> None]
  <2>1. r \in Promise!Request /\ r.op # "invalidate"
    BY DEF Promise!Request
  <2>2. op' = [op EXCEPT ![t] = r] /\ todo' = todo
    BY <1>6 DEF DeleteHead, Begin
  <2>3. Promise!Ask(t, r)
    BY <1>1, <1>2, <1>3, <2>1, <2>2 DEF Promise!Ask
  <2> QED BY <2>1, <2>3
<1>7. ASSUME NEW f \in Func, Invalidate(t, f)
      PROVE  \E r \in Promise!Request : Promise!Ask(t, r)
  <2> DEFINE r == [op |-> "invalidate", name |-> f, ref |-> None]
  <2>1. r \in Promise!Request /\ r.op = "invalidate" /\ r.name = f
    BY DEF Promise!Request
  <2>2. op' = [op EXCEPT ![t] = r] /\ todo' = [todo EXCEPT ![t] = Snapshot(f)]
    BY <1>7 DEF Invalidate, Begin
  <2>3. \A c \in Call : c \in Promise!CallsOf(f) <=> \E e \in todo'[t] : e[1] = c
    <3>1. todo'[t] = Snapshot(f)
      BY <1>0, <2>2 DEF DataOK
    <3>2. ASSUME NEW c \in Call, c \in Promise!CallsOf(f)
          PROVE  \E e \in Snapshot(f) : e[1] = c
      <4>1. <<c, names[c]>> \in Snapshot(f)
        BY <3>2 DEF Snapshot, Promise!CallsOf
      <4> QED BY <4>1
    <3>3. ASSUME NEW e \in Snapshot(f)
          PROVE  e[1] \in Promise!CallsOf(f)
      BY DEF Snapshot, Promise!CallsOf
    <3> QED BY <3>1, <3>2, <3>3
  <2>4. Left' = [Left EXCEPT ![t] = Promise!CallsOf(f)]
    <3>1. Promise!CallsOf(f) \subseteq Call
      BY DEF Promise!CallsOf
    <3>2. \A u \in Thread \ {t} : todo'[u] = todo[u]
      BY <1>0, <2>2 DEF DataOK
    <3> QED BY ZenonT(60), <2>3, <3>1, <3>2, LeftStep
  <2>5. Promise!Ask(t, r)
    BY <1>1, <1>2, <2>1, <2>2, <2>4 DEF Promise!Ask
  <2> QED BY <2>1, <2>5
<1> QED BY ZenonT(60), <1>4, <1>5, <1>6, <1>7 DEF Client

\* A step of a request: its effect, one call removed, its return, or nothing that
\* shows.
LEMMA WorkStep ==
  ASSUME StoreInv, NEW t \in Thread, Step(t)
  PROVE  \/ Promise!Take(t) \/ Promise!Remove(t) \/ Promise!Return(t)
         \/ UNCHANGED Promise!storeVars
<1>0. DataOK /\ Working(t)
  BY DEF StoreInv
<1>1. CASE PutMissing(t) \/ Iterate(t) \/ Buffer(t) \/ Retry(t)
  <2>1. blocks' = blocks /\ names' = names /\ op' = op /\ todo' = todo
    BY Zenon, <1>1 DEF PutMissing, Iterate, Buffer, Retry, dbVars
  <2> QED BY ZenonT(60), <2>1 DEF Promise!storeVars, Left
<1>2. CASE PutFound(t) \/ PutWrite(t)
  <2>1. pc[t] \in {"get", "write"} /\ todo' = todo /\ Finish(t) /\ names' = names
    BY <1>2 DEF PutFound, PutWrite, dbVars
  <2>2. op[t] # None /\ op[t].op = "put"
    BY ZenonT(60), <1>0, <2>1 DEF Working, Idle, Putting, Setting, Invalidating
  <2>3. blocks' = blocks \cup {op[t].name}
    BY <1>2 DEF PutFound, PutWrite, dbVars
  <2>4. Left' = Left
    BY <2>1 DEF Left
  <2> QED BY <2>1, <2>2, <2>3, <2>4 DEF Promise!Take, Finish
<1>3. CASE IterateEnd(t)
  <2>1. /\ pc[t] = "next" /\ todo[t] = {} /\ todo' = todo /\ Finish(t)
        /\ blocks' = blocks /\ names' = names
    BY ZenonT(60), <1>3 DEF IterateEnd, dbVars
  <2>2. op[t] # None /\ op[t].op = "invalidate"
    BY <1>0, <2>1 DEF Working, Idle, Putting, Setting, Invalidating
  <2>3. Left' = Left
    BY <2>1 DEF Left
  <2>4. Left[t] = {}
    BY <2>1 DEF Left
  <2> QED BY <2>1, <2>2, <2>3, <2>4 DEF Promise!Return, Finish
<1>4. CASE Commit(t)
  <2>0. /\ pc[t] = "commit" /\ blocks' = blocks
        /\ names' = [names EXCEPT ![target[t]] = op[t].ref]
    BY Zenon, <1>4 DEF Commit
  <2>1. CASE Setting(t)
    <3>1. todo' = todo /\ op' = [op EXCEPT ![t] = None]
      BY ZenonT(60), <1>4, <2>1 DEF Commit, Setting, Finish
    <3>2. op[t] # None /\ op[t].op \in {"set", "delete"} /\ target[t] = op[t].name
      BY ZenonT(60), <2>1 DEF Setting
    <3>3. Left' = Left
      BY ZenonT(60), <3>1 DEF Left
    <3> QED BY SMTT(60), <2>0, <3>1, <3>2, <3>3 DEF Promise!Take
  <2>2. CASE Invalidating(t)
    <3> DEFINE c == target[t]
    <3>1. /\ c \in Call /\ <<c, old[t]>> \in todo[t] /\ op[t].ref = None
          /\ Functional(todo[t]) /\ op' = op
          /\ todo' = [todo EXCEPT ![t] = @ \ {<<c, old[t]>>}]
      BY Zenon, <1>4, <2>0, <2>2 DEF Commit, Invalidating
    <3>2. Left[t] \subseteq Call /\ c \in Left[t]
      BY <3>1 DEF Left
    <3>3. \A d \in Call : d \in Left[t] <=> \E e \in todo[t] : e[1] = d
      BY ZenonT(60) DEF Left
    <3>4. todo'[t] = todo[t] \ {<<c, old[t]>>}
      BY <1>0, <3>1 DEF DataOK
    <3>5. ASSUME NEW d \in Call
          PROVE  d \in Left[t] \ {c} <=> \E e \in todo'[t] : e[1] = d
      <4>1. ASSUME NEW e \in todo[t], e[1] = c PROVE e = <<c, old[t]>>
        BY <3>1, <4>1 DEF Functional
      <4>2. CASE d = c
        BY <3>4, <4>1, <4>2
      <4>3. CASE d # c
        BY <3>3, <3>4, <4>3
      <4> QED BY <4>2, <4>3
    <3>6. Left' = [Left EXCEPT ![t] = Left[t] \ {c}]
      <4>1. \A u \in Thread \ {t} : todo'[u] = todo[u]
        BY <1>0, <3>1 DEF DataOK
      <4>2. Left[t] \ {c} \in SUBSET Call
        BY <3>2
      <4> QED BY ZenonT(60), <3>5, <4>1, <4>2, LeftStep
    <3> QED BY ZenonT(60), <2>0, <3>1, <3>2, <3>6 DEF Promise!Remove
  <2> QED BY <1>0, <2>0, <2>1, <2>2 DEF Working, Idle, Putting
<1> QED BY <1>1, <1>2, <1>3, <1>4 DEF Step

\* The store implements Store: every request takes effect once, however often its
\* transaction is retried, call_invalidate removes the results it found one after
\* the other, and a crash loses only what has not taken effect.
THEOREM ImplementsStoreHolds == Spec => ImplementsStore
<1>1. Init => Promise!StoreInit
  BY DEF Init, Promise!StoreInit, Promise!Name, Name, Left
<1>2. ASSUME StoreInv, [Next]_vars
      PROVE  [Promise!StoreNext]_(Promise!storeVars)
  <2>1. CASE UNCHANGED vars
    BY <2>1 DEF vars, dbVars, threadVars, Promise!storeVars, Left
  <2>2. ASSUME NEW t \in Thread, Client(t) \/ Step(t)
        PROVE  [Promise!StoreNext]_(Promise!storeVars)
    BY <1>2, <2>2, AskStep, WorkStep DEF Promise!StoreNext
  <2>3. CASE Crash
    <3>1. Left' = [t \in Thread |-> {}]
      BY <2>3 DEF Crash, Left
    <3> QED BY <2>3, <3>1 DEF Crash, dbVars, Promise!StoreNext, Promise!Lose
  <2>4. CASE OpenExisting \/ OpenRefused \/ OpenEmpty \/ OpenCreated \/ Close
    BY <2>4 DEF OpenExisting, OpenRefused, OpenEmpty, OpenCreated, Close, dbVars,
                threadVars, Promise!storeVars, Left
  <2> QED BY <1>2, <2>1, <2>2, <2>3, <2>4 DEF Next, Lifecycle
<1> QED BY <1>1, <1>2, InvHolds, PTL DEF Spec, ImplementsStore, Promise!StoreSpec

=============================================================================

---------------------------- MODULE RocksDBStore ----------------------------
(***************************************************************************)
(* RocksDBStore (memodb/lib/RocksDB.cpp): the column families of a MemoDB  *)
(* database, and the threads of one process that read and change them      *)
(* through optimistic transactions and write batches.  The "heads" and     *)
(* "calls" families are the function names; "refs" is a set of pairs (used *)
(* CID, user).  A block stands for its own CID.                            *)
(*                                                                         *)
(* RocksDB itself is external.  A transaction conflicts with every commit  *)
(* that wrote one of its keys after it first touched the key.  Every       *)
(* transaction here writes the record of the head or call it is about, and *)
(* refs keys that end in that name, so two of them conflict when they are  *)
(* about the same name; the batches of put write other keys.               *)
(***************************************************************************)
CONSTANTS
  Thread,    \* threads that share the store
  Head, Call, Func,
  NameOf,    \* the func of each call
  ArgsOf,    \* the set of CIDs among the arguments of each call
  Block,     \* nodes stored as blocks
  LinksOf,   \* the CIDs each block links to
  Identity,  \* CIDs that hold their node themselves and are not stored
  None

CID == Block \cup Identity
Name == Head \cup Call

ASSUME StoreAssumption ==
  /\ Head \cap Call = {} /\ Head \cap Block = {} /\ Call \cap Block = {}
  /\ Block \cap Identity = {}
  /\ NameOf \in [Call -> Func]
  /\ ArgsOf \in [Call -> SUBSET CID]
  /\ LinksOf \in [Block -> SUBSET CID]
  /\ None \notin CID

VARIABLES
  default,  \* the magic values in the "default" family
  blocks,   \* the "blocks" family
  names,    \* the "heads" and "calls" families: CID or None
  refs,     \* the "refs" family
  process,  \* "down", "creating" (between the two magic values), "up", "refused"
  op,       \* each thread's request in progress, or None
  pc,       \* where each thread is in it
  target,   \* the name each thread's transaction is about
  old,      \* the value it has read or iterated over
  busy,     \* whether another commit conflicts with it
  todo      \* what the iterator of call_invalidate has yet to visit

dbVars == <<default, blocks, names, refs>>
threadVars == <<op, pc, target, old, busy, todo>>
vars == <<dbVars, process, threadVars>>

\* The pairs addRef and addRefs put in "refs": none for identity CIDs.
RefsTo(cids, user) == {<<to, user>> : to \in cids \ Identity}

\* The CIDs whose refs name n has while it is set to ref: a call's arguments are
\* among them.
Used(n, ref) == {ref} \cup (IF n \in Call THEN ArgsOf[n] ELSE {})

\* What an iterator over the calls of func f sees: the values when it was made.
Snapshot(f) ==
  {<<c, names[c]>> : c \in {d \in Call : NameOf[d] = f /\ names[d] # None}}

\* The calls each thread's call_invalidate has not come to.
Left == [t \in Thread |-> {c \in Call : \E e \in todo[t] : e[1] = c}]

Promise == INSTANCE Store WITH HeadName <- Head, pending <- op, left <- Left, gone <- {}

ASSUME NoneAssumption == None \notin Promise!Request

TypeOK ==
  /\ default \subseteq {"format", "version"}
  /\ blocks \subseteq Block
  /\ names \in [Name -> CID \cup {None}]
  /\ refs \subseteq CID \X (Block \cup Name)
  /\ process \in {"down", "creating", "up", "refused"}
  /\ op \in [Thread -> Promise!Request \cup {None}]
  /\ pc \in [Thread -> {"idle", "get", "write", "begin", "commit", "next"}]
  /\ target \in [Thread -> Name \cup {None}]
  /\ old \in [Thread -> CID \cup {None}]
  /\ busy \in [Thread -> BOOLEAN]
  /\ todo \in [Thread -> SUBSET (Call \X CID)]

Init ==
  /\ default = {} /\ blocks = {} /\ refs = {}
  /\ names = [n \in Name |-> None]
  /\ process = "down"
  /\ op = [t \in Thread |-> None]
  /\ pc = [t \in Thread |-> "idle"]
  /\ target = [t \in Thread |-> None]
  /\ old = [t \in Thread |-> None]
  /\ busy = [t \in Thread |-> FALSE]
  /\ todo = [t \in Thread |-> {}]

-----------------------------------------------------------------------------
(* open and the destructor *)

\* An existing database whose magic values are right.
OpenExisting ==
  /\ process = "down" /\ default = {"format", "version"}
  /\ process' = "up"
  /\ UNCHANGED <<dbVars, threadVars>>

\* An existing database whose magic values are not all there: a fatal error.
OpenRefused ==
  /\ process = "down" /\ default # {} /\ default # {"format", "version"}
  /\ process' = "refused"
  /\ UNCHANGED <<dbVars, threadVars>>

\* Mutant: the database is in use before both magic values are there.
OpenEmptyEarly ==
  /\ process = "down" /\ default = {}
  /\ process' = "up"
  /\ default' = {"format"}
  /\ UNCHANGED <<blocks, names, refs, threadVars>>

\* An empty database: the magic values are put one after the other.
OpenEmpty ==
  /\ process = "down" /\ default = {}
  /\ process' = "creating"
  /\ default' = {"format"}
  /\ UNCHANGED <<blocks, names, refs, threadVars>>

OpenCreated ==
  /\ process = "creating"
  /\ process' = "up"
  /\ default' = default \cup {"version"}
  /\ UNCHANGED <<blocks, names, refs, threadVars>>

Close ==
  /\ process = "up" /\ \A t \in Thread : pc[t] = "idle"
  /\ process' = "down"
  /\ UNCHANGED <<dbVars, threadVars>>

\* The process dies; RocksDB keeps what was committed.
Crash ==
  /\ process # "down"
  /\ process' = "down"
  /\ op' = [t \in Thread |-> None]
  /\ pc' = [t \in Thread |-> "idle"]
  /\ target' = [t \in Thread |-> None]
  /\ old' = [t \in Thread |-> None]
  /\ busy' = [t \in Thread |-> FALSE]
  /\ todo' = [t \in Thread |-> {}]
  /\ UNCHANGED dbVars

-----------------------------------------------------------------------------
(* put *)

\* A thread's request is done.
Finish(t) ==
  /\ op' = [op EXCEPT ![t] = None]
  /\ pc' = [pc EXCEPT ![t] = "idle"]
  /\ target' = [target EXCEPT ![t] = None]
  /\ old' = [old EXCEPT ![t] = None]

Begin(t, r, label) ==
  /\ process = "up" /\ pc[t] = "idle"
  /\ op' = [op EXCEPT ![t] = r]
  /\ pc' = [pc EXCEPT ![t] = label]

Put(t, b) ==
  /\ Begin(t, [op |-> "put", name |-> b, ref |-> None], "get")
  /\ UNCHANGED <<dbVars, process, target, old, busy, todo>>

\* The Get before the write.
PutFound(t) ==
  /\ pc[t] = "get" /\ op[t].name \in blocks
  /\ Finish(t)
  /\ UNCHANGED <<dbVars, process, busy, todo>>

PutMissing(t) ==
  /\ pc[t] = "get" /\ op[t].name \notin blocks
  /\ pc' = [pc EXCEPT ![t] = "write"]
  /\ UNCHANGED <<dbVars, process, op, target, old, busy, todo>>

\* The batch: the block and its refs.
PutWrite(t) ==
  /\ pc[t] = "write"
  /\ blocks' = blocks \cup {op[t].name}
  /\ refs' = refs \cup RefsTo(LinksOf[op[t].name], op[t].name)
  /\ Finish(t)
  /\ UNCHANGED <<default, names, process, busy, todo>>

-----------------------------------------------------------------------------
(* set, head_delete and call_invalidate *)

Set(t, n, ref) ==
  /\ Begin(t, [op |-> "set", name |-> n, ref |-> ref], "begin")
  /\ target' = [target EXCEPT ![t] = n]
  /\ UNCHANGED <<dbVars, process, old, busy, todo>>

DeleteHead(t, h) ==
  /\ Begin(t, [op |-> "delete", name |-> h, ref |-> None], "begin")
  /\ target' = [target EXCEPT ![t] = h]
  /\ UNCHANGED <<dbVars, process, old, busy, todo>>

Invalidate(t, f) ==
  /\ Begin(t, [op |-> "invalidate", name |-> f, ref |-> None], "next")
  /\ todo' = [todo EXCEPT ![t] = Snapshot(f)]
  /\ UNCHANGED <<dbVars, process, target, old, busy>>

\* The iterator moves to the next call: its key and value are the iterator's.
Iterate(t) == \E e \in todo[t] :
  /\ pc[t] = "next"
  /\ pc' = [pc EXCEPT ![t] = "begin"]
  /\ target' = [target EXCEPT ![t] = e[1]]
  /\ old' = [old EXCEPT ![t] = e[2]]
  /\ UNCHANGED <<dbVars, process, op, busy, todo>>

IterateEnd(t) ==
  /\ pc[t] = "next" /\ todo[t] = {}
  /\ Finish(t)
  /\ UNCHANGED <<dbVars, process, busy, todo>>

\* What the transaction of set and head_delete works with: GetForUpdate.  That
\* of call_invalidate reads nothing.
ReadForUpdate(t) ==
  IF op[t].op = "invalidate" THEN old[t] ELSE names[target[t]]

\* BeginTransaction and the buffered reads and writes.
Buffer(t) ==
  /\ pc[t] = "begin"
  /\ pc' = [pc EXCEPT ![t] = "commit"]
  /\ old' = [old EXCEPT ![t] = ReadForUpdate(t)]
  /\ busy' = [busy EXCEPT ![t] = FALSE]
  /\ UNCHANGED <<dbVars, process, op, target, todo>>

\* Mutant: a transaction that is busy is given up.
RetryDropped(t) ==
  /\ pc[t] = "commit"
  /\ op[t].op # "invalidate"
  /\ Finish(t)
  /\ UNCHANGED <<dbVars, process, busy, todo>>

\* Commit returned Busy because of a conflict, or TryAgain.
Retry(t) ==
  /\ pc[t] = "commit"
  /\ pc' = [pc EXCEPT ![t] = "begin"]
  /\ UNCHANGED <<dbVars, process, op, target, old, busy, todo>>

\* Mutant: set does not add the refs to the arguments again.
AddedResultOnly(t) ==
  IF op[t].op = "set" THEN RefsTo({op[t].ref}, target[t]) ELSE {}

\* The refs deleted and added by a transaction, in the order of the code: the
\* additions are the last writes.
Deleted(t) ==
  IF op[t].op = "invalidate"
  THEN {<<to, target[t]>> : to \in Used(target[t], old[t])}
  ELSE {<<to, target[t]>> : to \in {old[t]} \ {None}}

Added(t) ==
  IF op[t].op = "set" THEN RefsTo(Used(target[t], op[t].ref), target[t]) ELSE {}

\* Mutant: the value is read without tracking its key.
ConflictsNone(t) == busy

\* The transactions that a commit of t about the same name makes busy.
Conflicts(t) ==
  [u \in Thread |-> busy[u] \/ (u # t /\ pc[u] = "commit" /\ target[u] = target[t])]

Commit(t) ==
  /\ pc[t] = "commit" /\ ~busy[t]
  /\ names' = [names EXCEPT ![target[t]] = op[t].ref]
  /\ refs' = (refs \ Deleted(t)) \cup Added(t)
  /\ busy' = Conflicts(t)
  /\ IF op[t].op = "invalidate"
     THEN /\ todo' = [todo EXCEPT ![t] = @ \ {<<target[t], old[t]>>}]
          /\ pc' = [pc EXCEPT ![t] = "next"]
          /\ UNCHANGED <<op, target, old>>
     ELSE Finish(t) /\ UNCHANGED todo
  /\ UNCHANGED <<default, blocks, process>>

-----------------------------------------------------------------------------
Lifecycle ==
  OpenExisting \/ OpenRefused \/ OpenEmpty \/ OpenCreated \/ Close \/ Crash

Client(t) ==
  \/ \E b \in Block : Put(t, b)
  \/ \E n \in Name, ref \in CID : Set(t, n, ref)
  \/ \E h \in Head : DeleteHead(t, h)
  \/ \E f \in Func : Invalidate(t, f)

Step(t) ==
  \/ PutFound(t) \/ PutMissing(t) \/ PutWrite(t)
  \/ Iterate(t) \/ IterateEnd(t) \/ Buffer(t) \/ Retry(t) \/ Commit(t)

Next == Lifecycle \/ \E t \in Thread : Client(t) \/ Step(t)

Spec == Init /\ [][Next]_vars

-----------------------------------------------------------------------------
\* What list_names_using returns: the users in "refs" under a CID.
list_names_using(cid) == {user \in Block \cup Name : <<cid, user>> \in refs}

\* The names and blocks that do refer to a CID.
Users(cid) ==
  {b \in blocks : cid \in LinksOf[b]} \cup
  {n \in Name : names[n] # None /\ cid \in Used(n, names[n])}

\* No user is missing from list_names_using: whatever the threads do at once and
\* wherever the process dies, a stored block, head or call is listed under every
\* non-identity CID it links to, is set to or has as an argument.
RefsComplete == \A cid \in CID \ Identity : Users(cid) \subseteq list_names_using(cid)

\* Blocks and heads are listed only where they belong, even when several threads
\* set and delete one head at once: the ref that set and head_delete remove is
\* that of the value they replace.
NoDanglingHeadRefs ==
  \A cid \in CID : list_names_using(cid) \ Call \subseteq Users(cid)

\* The comment on the families wants no dangling refs: nothing is listed under a
\* CID it does not refer to.
NoDanglingRefs == \A cid \in CID : list_names_using(cid) \subseteq Users(cid)

\* A process that dies while it creates a database may leave one that open
\* refuses for good, but never one that holds anything.
RefusedOnlyIfEmpty ==
  default # {"format", "version"} =>
    blocks = {} /\ refs = {} /\ \A n \in Name : names[n] = None

\* The store keeps the promise of Store: requests take effect once and whole,
\* retries included, and a crash loses only those that have not.
ImplementsStore == Promise!StoreSpec

=============================================================================

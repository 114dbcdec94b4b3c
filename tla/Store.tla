------------------------------- MODULE Store -------------------------------
(***************************************************************************)
(* What a MemoDB store promises the threads that share it, whichever       *)
(* database is behind it: a request to change the store takes effect once, *)
(* whole, at some moment between the call and the return.  call_invalidate *)
(* is the exception: it removes the results it finds when it is called one *)
(* after the other.  A process that dies loses the requests that have not  *)
(* taken effect and nothing else.                                          *)
(***************************************************************************)
CONSTANTS
  Thread,  \* the threads of the process that has the store open
  HeadName,    \* names of heads
  Call,    \* func name and arguments
  Func,    \* func names
  NameOf,  \* the func of each call
  Block,   \* nodes that are stored as a block, each standing for its CID
  CID,     \* every CID: the blocks' and the identity CIDs
  None

Name == HeadName \cup Call

(***************************************************************************)
(* The arguments of put, set, head_delete and call_invalidate.             *)
(***************************************************************************)
Request ==
  [op : {"put"}, name : Block, ref : {None}] \cup
  [op : {"set"}, name : Name, ref : CID] \cup
  [op : {"delete"}, name : HeadName, ref : {None}] \cup
  [op : {"invalidate"}, name : Func, ref : {None}]

VARIABLES
  blocks,   \* the blocks stored
  names,    \* what each head and call is set to, or None
  pending,  \* each thread's request that has not taken effect, or None
  left,     \* the results each thread's call_invalidate has yet to remove
  gone      \* the clients that have not opened the store, or have died (AtomicSpec only)

storeVars == <<blocks, names, pending, left>>

\* The results of a func the store holds.
CallsOf(f) == {c \in Call : NameOf[c] = f /\ names[c] # None}

StoreInit ==
  /\ blocks = {}
  /\ names = [n \in Name |-> None]
  /\ pending = [t \in Thread |-> None]
  /\ left = [t \in Thread |-> {}]

Ask(t, r) ==
  /\ pending[t] = None
  /\ pending' = [pending EXCEPT ![t] = r]
  /\ left' = [left EXCEPT ![t] = IF r.op = "invalidate" THEN CallsOf(r.name) ELSE {}]
  /\ UNCHANGED <<blocks, names>>

\* put, set and head_delete take effect in one step.
Take(t) ==
  LET r == pending[t] IN
  /\ r # None
  /\ \/ /\ r.op = "put"
        /\ blocks' = blocks \cup {r.name}
        /\ UNCHANGED names
     \/ /\ r.op \in {"set", "delete"}
        /\ names' = [names EXCEPT ![r.name] = r.ref]
        /\ UNCHANGED blocks
  /\ pending' = [pending EXCEPT ![t] = None]
  /\ UNCHANGED left

\* call_invalidate removes one of the results it found.
Remove(t) == \E c \in left[t] :
  /\ names' = [names EXCEPT ![c] = None]
  /\ left' = [left EXCEPT ![t] = @ \ {c}]
  /\ UNCHANGED <<blocks, pending>>

Return(t) ==
  /\ pending[t] # None
  /\ pending[t].op = "invalidate"
  /\ left[t] = {}
  /\ pending' = [pending EXCEPT ![t] = None]
  /\ UNCHANGED <<blocks, names, left>>

\* The process dies.
Lose ==
  /\ pending' = [t \in Thread |-> None]
  /\ left' = [t \in Thread |-> {}]
  /\ UNCHANGED <<blocks, names>>

StoreNext ==
  \/ \E t \in Thread :
        (\E r \in Request : Ask(t, r)) \/ Take(t) \/ Remove(t) \/ Return(t)
  \/ Lose

StoreSpec == StoreInit /\ [][StoreNext]_storeVars

-----------------------------------------------------------------------------
(* A store whose every change takes effect once and whole between the call *)
(* and the return, call_invalidate included, and whose clients may die one *)
(* by one: only a client that dies loses its request, and only that one.   *)

atomicVars == <<storeVars, gone>>

AtomicInit == StoreInit /\ gone = Thread

Enter(t) == gone' = gone \ {t} /\ UNCHANGED storeVars

AskWhole(t, r) ==
  /\ t \notin gone /\ pending[t] = None
  /\ pending' = [pending EXCEPT ![t] = r]
  /\ UNCHANGED <<blocks, names, left, gone>>

TakeWhole(t) == Take(t) /\ UNCHANGED gone

TakeInvalidate(t) ==
  /\ pending[t] # None /\ pending[t].op = "invalidate"
  /\ names' = [n \in Name |-> IF n \in CallsOf(pending[t].name) THEN None ELSE names[n]]
  /\ pending' = [pending EXCEPT ![t] = None]
  /\ UNCHANGED <<blocks, left, gone>>

Die(t) ==
  /\ pending' = [pending EXCEPT ![t] = None]
  /\ gone' = gone \cup {t}
  /\ UNCHANGED <<blocks, names, left>>

AtomicNext == \E t \in Thread :
  \/ Enter(t) \/ TakeWhole(t) \/ TakeInvalidate(t) \/ Die(t)
  \/ \E r \in Request : AskWhole(t, r)

AtomicSpec == AtomicInit /\ [][AtomicNext]_atomicVars

=============================================================================

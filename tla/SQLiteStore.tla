---------------------------- MODULE SQLiteStore ----------------------------
(***************************************************************************)
(* The SQLite store (memodb/lib/SQLite.cpp), used at once by threads of    *)
(* one or several processes, each with its own connection.  What is        *)
(* written between BEGIN EXCLUSIVE and COMMIT is seen by nobody else and   *)
(* nobody else writes meanwhile, so a transaction is two steps: the lock   *)
(* is taken, and everything is written and committed.  A statement outside *)
(* of a transaction is a transaction of its own.                           *)
(*                                                                         *)
(* A bid and a funcid are never reused and stand for their CID and func; a *)
(* callid is the largest plus one and may be reused.                       *)
(***************************************************************************)
EXTENDS Integers

CONSTANTS
  Client,    \* threads, each with its connection
  Head, Call, Func,
  NameOf,    \* the func of each call
  Args,      \* the set of CIDs each call is applied to
  Block,     \* CIDs of nodes that need a block
  Identity,  \* CIDs that contain their node
  Links,     \* the CIDs in each node
  MaxCallId, \* bound on the ids of calls
  None

CID == Block \cup Identity
Name == Head \cup Call

Request ==
  [op : {"put"}, name : Block, ref : {None}] \cup
  [op : {"set"}, name : Name, ref : CID] \cup
  [op : {"delete"}, name : Head, ref : {None}] \cup
  [op : {"invalidate"}, name : Func, ref : {None}] \cup
  [op : {"resolve"}, name : Call, ref : {None}]

ASSUME SQLiteAssumption ==
  /\ Block \cap Identity = {} /\ Head \cap Call = {}
  /\ None \notin CID \cup Client \cup Request
  /\ MaxCallId \in Nat
  /\ Links \in [CID -> SUBSET CID] /\ Args \in [Call -> SUBSET CID]
  /\ NameOf \in [Call -> Func]

VARIABLES
  db,    \* the tables: created, blocks, block_refs, heads, funcs, calls, call_refs
  lock,  \* the client in an exclusive transaction, or None
  at,    \* where each client is
  req    \* the request it works on, or None

vars == <<db, lock, at, req>>

-----------------------------------------------------------------------------
(* What statements do to the tables *)

\* T has the CIDs of S without a row, and with every CID the identity CIDs without a
\* row that its node links to.
Closed(d, S, T) ==
  /\ S \ d.blocks \subseteq T
  /\ \A c \in T : (Links[c] \cap Identity) \ d.blocks \subseteq T

\* The rows that putInternal and cid_to_bid add for the CIDs of S: those without
\* one, and the identity CIDs their nodes link to, and so on.
Missing(d, S) == {c \in CID : \A T \in SUBSET CID : Closed(d, S, T) => c \in T}

Insert(d, S) ==
  LET new == Missing(d, S) IN
  [d EXCEPT !.blocks = @ \cup new,
            !.block_refs = @ \cup UNION {{<<c, dest>> : dest \in Links[c]} : c \in new}]

\* cid_to_bid is fatal for a CID that needs a block and has none, those that a new
\* node links to included.
Unknown(d, S) ==
  \E c \in Missing(d, S) : \E dest \in Links[c] \cap Block : dest \notin d.blocks

\* The id of the next row of calls.
NextCallId(d) ==
  LET ids == {row.id : row \in d.calls} IN
  IF ids = {} THEN 1 ELSE 1 + CHOOSE i \in ids : \A j \in ids : i >= j

\* Mutant: a call that has a result gets another row.
SetCallAgain(d, call, ref) ==
  [d EXCEPT !.calls = @ \cup {[id |-> NextCallId(d), call |-> call, result |-> ref]},
            !.call_refs = @ \cup {<<NameOf[call], NextCallId(d), dest>> : dest \in Args[call]}]

\* An existing row is updated and its call_refs stay.
SetCall(d, call, ref) ==
  LET old == {row \in d.calls : row.call = call} IN
  IF old # {}
  THEN [d EXCEPT !.calls = (@ \ old) \cup {[row EXCEPT !.result = ref] : row \in old}]
  ELSE [d EXCEPT !.calls = @ \cup {[id |-> NextCallId(d), call |-> call, result |-> ref]},
                 !.call_refs = @ \cup {<<NameOf[call], NextCallId(d), dest>> : dest \in Args[call]}]

\* Mutant: the references of the calls are left behind.
DeleteCallsOnly(d, f) == [d EXCEPT !.calls = {row \in @ : NameOf[row.call] # f}]

DeleteCalls(d, f) ==
  [d EXCEPT !.calls = {row \in @ : NameOf[row.call] # f},
            !.call_refs = {ref \in @ : ref[1] # f}]

-----------------------------------------------------------------------------
Init ==
  /\ db = [created |-> FALSE, blocks |-> {}, block_refs |-> {},
           heads |-> [h \in Head |-> None], funcs |-> {}, calls |-> {}, call_refs |-> {}]
  /\ lock = None
  /\ at = [t \in Client |-> "closed"]
  /\ req = [t \in Client |-> None]

Goto(t, label) == at' = [at EXCEPT ![t] = label]
Return(t) == Goto(t, "idle") /\ req' = [req EXCEPT ![t] = None]

\* get_db and upgrade_schema, up to the transaction.
Open(t) ==
  /\ at[t] = "closed"
  /\ Goto(t, IF db.created THEN "idle" ELSE "upgrade")
  /\ UNCHANGED <<db, lock, req>>

Ask(t) == \E r \in Request :
  /\ at[t] = "idle"
  /\ req' = [req EXCEPT ![t] = r]
  /\ Goto(t, "start")
  /\ UNCHANGED <<db, lock>>

\* Mutant: set does not add the func of a call.
FirstStageFuncless(t) == IF req[t].op = "put" /\ req[t].name \in db.blocks THEN "return" ELSE "main"

\* What a request has to do after its look at the tables: nothing more, a
\* transaction that gives CIDs their rows, one that adds the func, or its own.
FirstStage(t) ==
  LET r == req[t] IN
  CASE r.op = "put" -> IF r.name \in db.blocks THEN "return" ELSE "main"
    [] r.op = "set" /\ r.name \in Head -> IF r.ref \in db.blocks THEN "main" ELSE "insert"
    [] r.op = "set" /\ r.name \in Call ->
         IF NameOf[r.name] \in db.funcs THEN "main" ELSE "func"
    [] r.op = "invalidate" -> IF r.name \in db.funcs THEN "main" ELSE "nothing"
    [] r.op = "delete" -> "main"
    [] r.op = "resolve" -> IF Args[r.name] \subseteq db.blocks THEN "return" ELSE "insert"

\* BEGIN EXCLUSIVE; busy_callback waits until the lock is free.
Begin(t) ==
  /\ at[t] \in {"upgrade", "insert", "func", "main", "nothing"} /\ lock = None
  /\ lock' = t
  /\ UNCHANGED <<db, at, req>>

\* The CIDs that get their rows before, or with, the request's own change.
Needed(t) ==
  LET r == req[t] IN
  CASE r.op = "put" -> {r.name}
    [] r.op = "set" /\ r.name \in Call -> Args[r.name] \cup {r.ref}
    [] r.op = "set" /\ r.name \in Head -> {r.ref}
    [] r.op = "resolve" -> Args[r.name]
    [] OTHER -> {}

Given(t) == IF req[t].op = "put" THEN {req[t].name} ELSE {}

\* cid_to_bid fails for one of them.
UnknownCID(t) ==
  Unknown(db, Needed(t)) \/ \E c \in Needed(t) \cap Block : c \notin db.blocks \cup Given(t)

\* A fatal error: the tables were created since Open looked, or a CID is unknown, in
\* the transaction or, for resolveOptional and the target of a head, before it.
Doomed(t) ==
  \/ at[t] = "upgrade" /\ lock = t /\ db.created
  \/ at[t] \in {"insert", "main"} /\ lock = t /\ UnknownCID(t)
  \/ at[t] = "start" /\ (req[t].op = "resolve" \/ req[t].name \in Head) /\ UnknownCID(t)

Fatal(t) ==
  /\ Doomed(t)
  /\ lock' = IF lock = t THEN None ELSE lock
  /\ Goto(t, "failed")
  /\ UNCHANGED <<db, req>>

Finished(t) == FirstStage(t) = "return"

Look(t) ==
  /\ at[t] = "start" /\ ~Doomed(t)
  /\ IF Finished(t) THEN Return(t) ELSE Goto(t, FirstStage(t)) /\ UNCHANGED req
  /\ UNCHANGED <<db, lock>>

\* The tables after a transaction's statements.
Written(t) ==
  LET r == req[t] IN
  CASE at[t] = "upgrade" -> [db EXCEPT !.created = TRUE]
    [] at[t] = "insert" -> Insert(db, Needed(t))
    [] at[t] = "func" -> [db EXCEPT !.funcs = @ \cup {NameOf[r.name]}]
    [] at[t] = "nothing" -> db
    [] at[t] = "main" /\ r.op = "put" -> Insert(db, {r.name})
    [] at[t] = "main" /\ r.op = "set" /\ r.name \in Head ->
         [db EXCEPT !.heads[r.name] = r.ref]
    [] at[t] = "main" /\ r.op = "set" /\ r.name \in Call ->
         SetCall(Insert(db, Needed(t)), r.name, r.ref)
    [] at[t] = "main" /\ r.op = "delete" -> [db EXCEPT !.heads[r.name] = None]
    [] at[t] = "main" /\ r.op = "invalidate" -> DeleteCalls(db, r.name)

Commit(t) ==
  /\ lock = t /\ ~Doomed(t)
  /\ db' = Written(t)
  /\ \A row \in db'.calls : row.id <= MaxCallId
  /\ lock' = None
  /\ IF at[t] \in {"insert", "func"} /\ req[t].op = "set"
     THEN Goto(t, "main") /\ UNCHANGED req
     ELSE Return(t)

\* The client's process ends, or has ended with an error; it may come back.
Crash(t) ==
  /\ at[t] # "closed"
  /\ Goto(t, "closed") /\ req' = [req EXCEPT ![t] = None]
  /\ lock' = IF lock = t THEN None ELSE lock
  /\ UNCHANGED db

Next == \E t \in Client :
  Open(t) \/ Ask(t) \/ Look(t) \/ Begin(t) \/ Fatal(t) \/ Commit(t) \/ Crash(t)

Spec == Init /\ [][Next]_vars

-----------------------------------------------------------------------------
Table ==
  [created : BOOLEAN, blocks : SUBSET CID, block_refs : SUBSET (CID \X CID),
   heads : [Head -> CID \cup {None}], funcs : SUBSET Func,
   calls : SUBSET [id : Nat, call : Call, result : CID],
   call_refs : SUBSET (Func \X Nat \X CID)]

TypeOK ==
  /\ db \in Table
  /\ lock \in Client \cup {None}
  /\ at \in [Client -> {"closed", "upgrade", "idle", "start", "insert", "func", "main",
                        "nothing", "failed"}]
  /\ req \in [Client -> Request \cup {None}]

\* list_names_using: the blocks, heads, results and arguments that are this CID.
list_names_using(c) ==
  {ref[1] : ref \in {r \in db.block_refs : r[2] = c}} \cup
  {h \in Head : db.heads[h] = c} \cup
  {row.call : row \in {r \in db.calls : r.result = c}} \cup
  {row.call : row \in {r \in db.calls : <<NameOf[r.call], r.id, c>> \in db.call_refs}}

\* What really uses a CID.
Users(c) ==
  {b \in db.blocks : c \in Links[b]} \cup {h \in Head : db.heads[h] = c} \cup
  {row.call : row \in {r \in db.calls : c = r.result \/ c \in Args[r.call]}}

\* "Only the sqlite store tracks every link": list_names_using gives exactly the
\* users, through updated, invalidated and set again calls, whose ids are reused,
\* and identity CIDs; every ref has rows at both ends.
TracksEveryLink ==
  /\ \A c \in db.blocks : list_names_using(c) = Users(c)
  /\ \A ref \in db.call_refs : \E row \in db.calls : row.id = ref[2] /\ NameOf[row.call] = ref[1]

\* Foreign keys are not enforced, yet every node a row refers to is there: all the
\* links of a block, the target of every head, the arguments and results of calls.
NoDanglingRow ==
  /\ \A b \in db.blocks : Links[b] \subseteq db.blocks
  /\ \A h \in Head : db.heads[h] # None => db.heads[h] \in db.blocks
  /\ \A row \in db.calls : {row.result} \cup Args[row.call] \subseteq db.blocks
  /\ \A row \in db.calls : NameOf[row.call] \in db.funcs

-----------------------------------------------------------------------------
(* The tables implement the atomic store *)

\* resolveOptional reads the first row it finds.
ResultOf(d, c) ==
  LET rows == {row \in d.calls : row.call = c} IN
  IF rows = {} THEN None ELSE (CHOOSE row \in rows : \A x \in rows : row.id <= x.id).result

NamesIn(d) == [n \in Name |-> IF n \in Head THEN d.heads[n] ELSE ResultOf(d, n)]

\* A request that has nothing left to do has taken effect.
Pending(t) ==
  IF req[t] = None \/ at[t] \in {"nothing", "failed"} THEN None
  ELSE IF req[t].op = "resolve" THEN None ELSE req[t]

pendingRequests == [t \in Client |-> Pending(t)]
outside == {t \in Client : at[t] \in {"closed", "upgrade", "failed"}}
noneLeft == [t \in Client |-> {}]

Abstract == INSTANCE Store WITH
  Thread <- Client, HeadName <- Head,
  blocks <- db.blocks \cap Block,
  names <- NamesIn(db),
  pending <- pendingRequests,
  left <- noneLeft,
  gone <- outside

\* Every put, set, head_delete and call_invalidate takes effect once and whole, in
\* whatever order clients look, wait for the lock, write and die; nobody sees a part.
ImplementsAtomicStore == Abstract!AtomicSpec

=============================================================================

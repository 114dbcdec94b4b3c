----------------------------- MODULE MemoDBTool -----------------------------
(***************************************************************************)
(* The commands of the memodb program (memodb/tools/memodb/memodb.cpp)     *)
(* that use a store: add, get, delete, set, refs-to and paths-to, run by   *)
(* several users at once.  A command may be killed between two calls of    *)
(* the store.  get and delete are requests to a server in the program.     *)
(* export is in CARFile, evaluate in ThreadPool and ClientEvaluator;       *)
(* transfer is left out.                                                   *)
(***************************************************************************)
EXTENDS Handlers

CONSTANTS
  User,
  Formats  \* values of --format

\* What ReadRef is given: a node on the standard input or in a file (None if it cannot
\* be read in the format), or a name.
Input == {<<"-", c>> : c \in CID} \cup {<<"-", None>>} \cup
         {<<"name", n>> : n \in Name} \cup {<<"cid", c>> : c \in CID}

Path == {<<"head", h>> : h \in HeadName} \cup {<<"call", f>> : f \in Func} \cup
        {<<"call", c[1], c[2]>> : c \in Call} \cup {<<"cid", c>> : c \in CID}

Command ==
  [cmd : {"add"}, on : {None}, input : {i \in Input : i[1] = "-"}] \cup
  [cmd : {"get"}, on : Path, input : Formats] \cup
  [cmd : {"delete"}, on : Path, input : {None}] \cup
  [cmd : {"set"}, on : Name, input : Input] \cup
  [cmd : {"refs-to", "paths-to"}, on : {None}, input : Input]

VARIABLES
  db,       \* the store
  running,  \* each user's command, or None
  ref,      \* what ReadRef returned to it, or None while it has not
  exit,     \* the status of the command that just ended, with its user and command, or None
  told      \* CIDs that users gave as /cid/...

vars == <<db, running, ref, exit, told>>

Init ==
  /\ db = [blocks |-> {}, names |-> [n \in Name |-> None]]
  /\ running = [u \in User |-> None]
  /\ ref = [u \in User |-> None]
  /\ exit = None /\ told = {}

Run(u) == \E c \in Command :
  /\ running[u] = None
  /\ running' = [running EXCEPT ![u] = c]
  /\ told' = IF c.cmd = "set" /\ c.input[1] = "cid" THEN told \cup {c.input[2]} ELSE told
  /\ exit' = None
  /\ UNCHANGED <<db, ref>>

End(u, status) ==
  /\ running' = [running EXCEPT ![u] = None]
  /\ ref' = [ref EXCEPT ![u] = None]
  /\ exit' = [cmd |-> running[u], status |-> status]
  /\ UNCHANGED told

\* Db.put in ReadRef.
Stored(c) == put(db, c)

\* The store after ReadRef: a node that was read is put.
Read(u, found) == IF running[u].input[1] = "-" /\ found # None THEN Stored(found) ELSE db

\* ReadRef, and the end of a command whose value cannot be read or is not found.
ReadRef(u) ==
  LET input == running[u].input
      found == IF input[1] = "name" THEN db.names[input[2]] ELSE input[2]
  IN  /\ running[u] # None /\ running[u].cmd \notin {"get", "delete"} /\ ref[u] = None
      /\ db' = Read(u, found)
      /\ IF found = None THEN End(u, 1)
         ELSE ref' = [ref EXCEPT ![u] = found] /\ exit' = None /\ UNCHANGED <<running, told>>

\* The rest of add, set, refs-to and paths-to.
UseRef(u) ==
  /\ ref[u] # None
  /\ db' = IF running[u].cmd = "set" THEN set(db, running[u].on, ref[u]) ELSE db
  /\ End(u, 0)

\* A format that cannot hold the node is a fatal error.
Unprintable(format, response) ==
  format = "raw" /\ response.status = 200 /\ ~(response.body[2][1] = "node" /\ response.body[2][2] \in Bytes)

\* get and delete: CLIRequest, and the exit of sendError and sendMethodNotAllowed.
Serve(u) ==
  LET c == running[u]
      request == [method |-> IF c.cmd = "get" THEN "GET" ELSE "DELETE", path |-> c.on, depth |-> 0,
                  accept |-> <<"application", "/", "cbor">>, tags |-> {}, ctype |-> None, body |-> None]
  IN  /\ c # None /\ c.cmd \in {"get", "delete"}
      /\ \E answer \in {handleNewRequest(db, request)} :
           /\ db' = answer.db
           /\ End(u, IF answer.response.status \in {200, 201, 204} /\ ~Unprintable(c.input, answer.response) THEN 0 ELSE 1)

Kill(u) ==
  /\ running[u] # None
  /\ running' = [running EXCEPT ![u] = None]
  /\ ref' = [ref EXCEPT ![u] = None]
  /\ exit' = None
  /\ UNCHANGED <<db, told>>

Next == \E u \in User : Run(u) \/ ReadRef(u) \/ UseRef(u) \/ Serve(u) \/ Kill(u)

Spec == Init /\ [][Next]_vars

-----------------------------------------------------------------------------
\* However commands overlap and are killed, a head or call leads to a node that is in
\* the store, unless a user gave its CID as /cid/..., which nothing looks up.
NamesLeadSomewhere ==
  \A n \in Name : db.names[n] # None => db.names[n] \in told \/ getOptional(db, db.names[n])

\* A command that ends with an error has changed no name, and one that only looks
\* changes none either.
FailureStep ==
  exit' # None /\ exit' # exit /\ (exit'.status = 1 \/ exit'.cmd.cmd \notin {"set", "delete"})
    => UNCHANGED db.names

=============================================================================

----------------------------- MODULE HTTPStore -----------------------------
(***************************************************************************)
(* The store that is a server somewhere else (HTTPStore in                 *)
(* memodb/lib/Client.cpp), as the fibers of several threads use it: each   *)
(* operation writes one request to the thread's connection and reads one   *)
(* response from it, without a fiber switch in between.  The server        *)
(* handles what it finds on a connection, also after the client's death,   *)
(* unless the connection is lost first.                                    *)
(***************************************************************************)
EXTENDS Handlers, TLAPS

CONSTANTS
  Fiber,     \* the fibers of all threads
  ThreadOf   \* the thread of each

Thread == {ThreadOf[f] : f \in Fiber}

Request ==
  [op : {"put"}, name : Block, ref : {None}] \cup
  [op : {"set"}, name : Name, ref : CID] \cup
  [op : {"delete"}, name : HeadName, ref : {None}] \cup
  [op : {"invalidate", "calls"}, name : Func, ref : {None}] \cup
  [op : {"get"}, name : CID, ref : {None}] \cup
  [op : {"resolve"}, name : Name, ref : {None}] \cup
  [op : {"heads", "funcs"}, name : {None}, ref : {None}]

VARIABLES
  db,       \* the server's store
  at,       \* each fiber: "closed", "idle", "waiting", "failed" or "dead"
  req,      \* its operation, or None
  running,  \* the fiber that is between write and read on each thread, or None
  conn,     \* each thread's connection: requests and responses, with their fibers
  result    \* what the operation that just returned gave, and what the server's store said

vars == <<db, at, req, running, conn, result>>

-----------------------------------------------------------------------------
NamePath(name) == IF name \in HeadName THEN <<"head", name>> ELSE <<"call", name[1], name[2]>>

CBORHeader == <<"application", "/", "cbor">>

\* buildRequest.
Build(method, path, body) ==
  [method |-> method, path |-> path, depth |-> 0, accept |-> CBORHeader, tags |-> {},
   ctype |-> IF body = None THEN None ELSE "cbor", body |-> body]

\* The request of each operation.
Sent(r) ==
  CASE r.op = "put" -> Build("POST", <<"cid">>, <<"node", r.name>>)
    [] r.op = "set" -> Build("PUT", NamePath(r.name), <<"link", r.ref>>)
    [] r.op = "invalidate" -> Build("DELETE", <<"call", r.name>>, None)
    [] r.op = "get" -> Build("GET", <<"cid", r.name>>, None)
    [] r.op = "resolve" -> Build("GET", NamePath(r.name), None)
    [] r.op = "heads" -> Build("GET", <<"head">>, None)
    [] r.op = "calls" -> Build("GET", <<"call", r.name>>, None)
    [] r.op = "funcs" -> Build("GET", <<"call">>, None)

Expected(op) ==
  CASE op \in {"put", "set"} -> {201}
    [] op = "invalidate" -> {204}
    [] op \in {"get", "resolve"} -> {200, 404}
    [] OTHER -> {200}

\* getResponse, and what each operation makes of it: only CBOR is a body.  <<"fatal">>
\* ends the program.
Returned(r, response) ==
  IF response.status \notin Expected(r.op) THEN <<"fatal">>
  ELSE CASE response.status = 404 -> <<"none">>
         [] response.status = 201 /\ r.op = "put" -> <<"is", response.location[2]>>
         [] response.status \in {201, 204} /\ r.op # "put" -> <<"done">>
         [] OTHER -> IF response.type = "CBOR" THEN <<"is", response.body[2][2]>> ELSE <<"fatal">>

\* The same operation on the server's own store.
Truth(r) ==
  LET optional(x) == IF x = None THEN <<"none">> ELSE <<"is", x>> IN
  CASE r.op = "put" -> <<"is", r.name>>
    [] r.op \in {"set", "invalidate"} -> <<"done">>
    [] r.op = "get" -> optional(IF getOptional(db, r.name) THEN r.name ELSE None)
    [] r.op = "resolve" -> optional(db.names[r.name])
    [] r.op = "heads" -> <<"is", {h \in HeadName : db.names[h] # None}>>
    [] r.op = "calls" -> <<"is", eachCall(db, r.name)>>
    [] r.op = "funcs" -> <<"is", list_funcs(db)>>

\* A call is its func and its arguments, which a path's text is never taken for; None is
\* nothing else; and of the forms a node has, a client that accepts CBOR is sent that.
WellFormed ==
  /\ None \notin CID \cup Fiber \cup Request \cup {"GET", "PUT", "POST", "DELETE", "error"}
  /\ \A c \in CID : <<"node", c>> # None /\ <<"link", c>> # None
  /\ \A r \in Request : r.op # "delete" => Sent(r).path # None
  /\ HeadName \cap Call = {} /\ BadText \notin CID
  /\ \A c \in Call : c = <<c[1], c[2]>> /\ c[1] \in Func /\ c[2] # BadText
  /\ \A isBytes \in BOOLEAN : NodeForm[CBORHeader][isBytes] = "CBOR"

-----------------------------------------------------------------------------
Init ==
  /\ db = [blocks |-> {}, names |-> [n \in Name |-> None]]
  /\ at = [f \in Fiber |-> "closed"]
  /\ req = [f \in Fiber |-> None]
  /\ running = [t \in Thread |-> None]
  /\ conn = [t \in Thread |-> [in |-> <<>>, out |-> <<>>]]
  /\ result = <<>>

\* open and getConn: the thread has its connection.
Open(f) ==
  /\ at[f] = "closed" /\ \A g \in Fiber : ThreadOf[g] = ThreadOf[f] => at[g] # "dead"
  /\ at' = [at EXCEPT ![f] = "idle"]
  /\ result' = <<>> /\ UNCHANGED <<db, req, running, conn>>

\* Mutant: another fiber of the thread may run between write and read.
MayRunAlways(f) == TRUE

MayRun(f) == running[ThreadOf[f]] = None

\* head_delete is not implemented.
Ask(f) == \E r \in Request :
  LET t == ThreadOf[f] IN
  /\ at[f] = "idle" /\ MayRun(f)
  /\ IF r.op = "delete"
     THEN at' = [at EXCEPT ![f] = "failed"] /\ UNCHANGED <<req, running, conn>>
     ELSE /\ at' = [at EXCEPT ![f] = "waiting"]
          /\ req' = [req EXCEPT ![f] = r]
          /\ running' = [running EXCEPT ![t] = f]
          /\ conn' = [conn EXCEPT ![t] = [in |-> Append(@.in, [fiber |-> f, req |-> r]), out |-> @.out]]
  /\ result' = <<>> /\ UNCHANGED db

Handle(t) ==
  /\ conn[t].in # <<>>
  /\ LET m == conn[t].in[1] IN \E answer \in {handleNewRequest(db, Sent(m.req))} :
      /\ db' = answer.db
      /\ conn' = [conn EXCEPT ![t] =
                    [in |-> Tail(@.in),
                     out |-> Append(@.out, [response |-> answer.response, truth |-> Truth(m.req)])]]
  /\ result' = <<>> /\ UNCHANGED <<at, req, running>>

Read(f) ==
  LET t == ThreadOf[f]
      m == conn[t].out[1]
      value == Returned(req[f], m.response)
  IN  /\ at[f] = "waiting" /\ conn[t].out # <<>>
      /\ at' = [at EXCEPT ![f] = IF value = <<"fatal">> THEN "failed" ELSE "idle"]
      /\ req' = [req EXCEPT ![f] = None]
      /\ running' = [running EXCEPT ![t] = None]
      /\ conn' = [conn EXCEPT ![t] = [in |-> @.in, out |-> Tail(@.out)]]
      /\ result' = <<value, m.truth>>
      /\ UNCHANGED db

\* The process of a thread ends.  Its request may still be on the connection.
Die(t) ==
  /\ at' = [f \in Fiber |-> IF ThreadOf[f] = t /\ at[f] # "closed" THEN "dead" ELSE at[f]]
  /\ at' # at
  /\ result' = <<>> /\ UNCHANGED <<db, req, running, conn>>

\* The connection of a process that has ended is gone, with what was on it.
Lose(f) ==
  LET t == ThreadOf[f] IN
  /\ at[f] = "dead"
  /\ at' = [at EXCEPT ![f] = "closed"]
  /\ req' = [req EXCEPT ![f] = None]
  /\ IF req[f] # None
     THEN /\ running' = [running EXCEPT ![t] = None]
          /\ conn' = [conn EXCEPT ![t] = [in |-> <<>>, out |-> <<>>]]
     ELSE UNCHANGED <<running, conn>>
  /\ result' = <<>> /\ UNCHANGED db

Next ==
  \/ \E f \in Fiber : Open(f) \/ Ask(f) \/ Read(f) \/ Lose(f)
  \/ \E t \in Thread : Handle(t) \/ Die(t)

Spec == Init /\ [][Next]_vars

-----------------------------------------------------------------------------
\* "each thread makes only 1 HTTP request at a time": whatever fibers and clients do,
\* an operation returns what the same one on the server's own store gives at some
\* moment in between, through paths, statuses, content types and Locations.
AnswersAsTheStore == result # <<>> => result[1] = result[2]

\* No operation but head_delete ends the program.
NeverFatalStep == \A f \in Fiber : at[f] = "waiting" => at'[f] # "failed"

\* The operation r of a fiber if its request waits among those to be handled, and is one
\* that changes the store.
Unhandled(in, f, r) ==
  IF \E j \in 1 .. Len(in) : in[j].fiber = f /\ in[j].req.op \in {"put", "set", "invalidate"}
  THEN r ELSE None

Pending(f) == Unhandled(conn[ThreadOf[f]].in, f, req[f])

Abstract == INSTANCE Store WITH
  Thread <- Fiber, NameOf <- [c \in Call |-> c[1]],
  blocks <- db.blocks, names <- db.names,
  pending <- [f \in Fiber |-> Pending(f)],
  left <- [f \in Fiber |-> {}],
  gone <- {f \in Fiber : at[f] = "closed"}

\* Every put, set and call_invalidate takes effect once and whole on the server,
\* between the request and its response, or after the client's death while its
\* request is on the way; a lost connection loses only what was not handled.
AtomicStep == Abstract!AtomicNext \/ UNCHANGED Abstract!atomicVars

-----------------------------------------------------------------------------
(* The proofs *)

\* What an operation does to the server's store.
Effect(d, r) ==
  CASE r.op = "put" -> put(d, r.name)
    [] r.op = "set" -> set(d, r.name, r.ref)
    [] r.op = "invalidate" -> call_invalidate(d, r.name)
    [] OTHER -> d

\* A thread has one request on its connection, or the response to it, which the fiber
\* that runs will take for what it is.
Busy(t, f) ==
  /\ ThreadOf[f] = t /\ at[f] \in {"waiting", "dead"}
  /\ req[f] \in Request /\ req[f].op # "delete"
  /\ \/ conn[t] = [in |-> <<[fiber |-> f, req |-> req[f]]>>, out |-> <<>>]
     \/ /\ conn[t] = [in |-> <<>>, out |-> <<conn[t].out[1]>>]
        /\ Returned(req[f], conn[t].out[1].response) = conn[t].out[1].truth
        /\ conn[t].out[1].truth # <<"fatal">>

StoreOK ==
  /\ db = [blocks |-> db.blocks, names |-> db.names]
  /\ db.blocks \subseteq Block /\ db.names \in [Name -> CID \cup {None}]

FieldsOK ==
  /\ at \in [Fiber -> {"closed", "idle", "waiting", "failed", "dead"}]
  /\ req \in [Fiber -> Request \cup {None}]
  /\ running \in [Thread -> Fiber \cup {None}]
  /\ conn = [t \in Thread |-> conn[t]]

ThreadsOK ==
  \A t \in Thread :
    /\ running[t] = None => conn[t] = [in |-> <<>>, out |-> <<>>]
    /\ running[t] # None => Busy(t, running[t])

FibersOK ==
  \A f \in Fiber : running[ThreadOf[f]] # f => req[f] = None /\ at[f] # "waiting"

Inv == StoreOK /\ FieldsOK /\ ThreadsOK /\ FibersOK /\ AnswersAsTheStore

\* What becomes of a response that has no body.
LEMMA DeliveredBare ==
  ASSUME WellFormed, NEW q, NEW d, NEW path
  PROVE  /\ Delivered(q, Done(d, sendCreated(path))) = Done(d, sendCreated(path))
         /\ Delivered(q, Done(d, sendDeleted)) = Done(d, sendDeleted)
         /\ Delivered(q, Done(d, sendError(404))).db = d
         /\ Delivered(q, Done(d, sendError(404))).response.status = 404
<1>1. None # "error"
  BY Zenon DEF WellFormed
<1>2. /\ sendCreated(path).type = None /\ sendCreated(path).status = 201
      /\ sendDeleted.type = None /\ sendDeleted.status = 204
      /\ sendError(404) = [status |-> 404, cache |-> "Ephemeral", etag |-> None, type |-> "error",
                           body |-> None, location |-> None]
  BY DEF sendCreated, sendDeleted, sendError, Response
<1>3. Delivered(q, Done(d, sendCreated(path))) = Done(d, sendCreated(path))
  BY <1>1, <1>2 DEF Delivered, Done
<1>4. Delivered(q, Done(d, sendDeleted)) = Done(d, sendDeleted)
  BY <1>1, <1>2 DEF Delivered, Done
<1> DEFINE e == [status |-> 404, cache |-> "Ephemeral", etag |-> None, type |-> ErrorForm[q.accept],
                 body |-> None, location |-> None]
<1>5. Delivered(q, Done(d, sendError(404))) = [db |-> d, response |-> e]
  BY <1>2 DEF Delivered, Done
<1> QED  BY <1>3, <1>4, <1>5

\* A node or a list is sent in CBOR to a client that accepts that.
LEMMA DeliveredContent ==
  ASSUME WellFormed, NEW r, NEW d, NEW kind, NEW x, NEW when, Sent(r).accept = CBORHeader,
         Sent(r).tags = {}, Sent(r).depth = 0
  PROVE  LET answer == Delivered(Sent(r), Done(d, sendContent(<<kind, x>>, when)))
         IN  /\ answer.db = d /\ answer.response.status = 200 /\ answer.response.type = "CBOR"
             /\ answer.response.body[2][2] = x
<1> DEFINE content == <<kind, x>>
           etag == ETag("CBOR", Hashed(content, <<"CBOR", content>>))
           full == [status |-> 200, cache |-> when, etag |-> etag, type |-> "CBOR",
                    body |-> <<"CBOR", content>>, location |-> None]
<1>1. ContentType(Sent(r), content) = "CBOR"
  BY Zenon DEF ContentType, WellFormed
<1>2. Body("CBOR", content, 0) = <<"CBOR", content>>
  BY DEF Body
<1>3. sendContentAs("CBOR", d, Sent(r), content, when) = full
  <2>1. "CBOR" # "JSON" /\ etag \notin Sent(r).tags
    OBVIOUS
  <2> HIDE DEF content
  <2> QED  BY Zenon, <1>2, <2>1 DEF sendContentAs
<1>4. /\ sendContent(content, when).type = None /\ sendContent(content, when).status = 200
      /\ sendContent(content, when).body = content /\ sendContent(content, when).cache = when
  BY DEF sendContent, Response
<1>5. None # "error"
  BY Zenon DEF WellFormed
<1>6. Delivered(Sent(r), Done(d, sendContent(content, when))) = [db |-> d, response |-> full]
  <2> DEFINE c == sendContent(content, when)
  <2>1. sendContentNode(d, Sent(r), content, when) = full
    BY Zenon, <1>1, <1>3 DEF sendContentNode
  <2> HIDE DEF full, content, c
  <2>2. c.type # "error" /\ c.status = 200 /\ c.body = content /\ c.cache = when
    BY <1>4, <1>5 DEF c
  <2>3. Delivered(Sent(r), [db |-> d, response |-> c]) = [db |-> d, response |-> full]
    BY <2>1, <2>2 DEF Delivered
  <2> QED  BY <2>3 DEF Done, c
<1> QED  BY <1>6

\* What is sent for each operation.
LEMMA SentIs ==
  ASSUME WellFormed, NEW r \in Request, r.op # "delete"
  PROVE  /\ Sent(r).accept = CBORHeader /\ Sent(r).tags = {} /\ Sent(r).depth = 0
         /\ Sent(r).path # None
         /\ r.op = "put" => r.name \in Block /\ Sent(r) = Build("POST", <<"cid">>, <<"node", r.name>>)
         /\ r.op = "set" => r.name \in Name /\ r.ref \in CID /\ Sent(r) = Build("PUT", NamePath(r.name), <<"link", r.ref>>)
         /\ r.op = "invalidate" => r.name \in Func /\ Sent(r) = Build("DELETE", <<"call", r.name>>, None)
         /\ r.op = "get" => r.name \in CID /\ Sent(r) = Build("GET", <<"cid", r.name>>, None)
         /\ r.op = "resolve" => r.name \in Name /\ Sent(r) = Build("GET", NamePath(r.name), None)
         /\ r.op = "heads" => Sent(r) = Build("GET", <<"head">>, None)
         /\ r.op = "calls" => r.name \in Func /\ Sent(r) = Build("GET", <<"call", r.name>>, None)
         /\ r.op = "funcs" => Sent(r) = Build("GET", <<"call">>, None)
         /\ r.op \in {"put", "set", "invalidate", "get", "resolve", "heads", "calls", "funcs"}
<1>1. r.op \in {"put", "set", "invalidate", "get", "resolve", "heads", "calls", "funcs"}
  BY DEF Request
<1>2. /\ r.op = "put" => r.name \in Block
      /\ r.op = "set" => r.name \in Name /\ r.ref \in CID
      /\ r.op \in {"invalidate", "calls"} => r.name \in Func
      /\ r.op = "get" => r.name \in CID
      /\ r.op = "resolve" => r.name \in Name
  BY DEF Request
<1>3. /\ r.op = "put" => Sent(r) = Build("POST", <<"cid">>, <<"node", r.name>>)
      /\ r.op = "set" => Sent(r) = Build("PUT", NamePath(r.name), <<"link", r.ref>>)
      /\ r.op = "invalidate" => Sent(r) = Build("DELETE", <<"call", r.name>>, None)
      /\ r.op = "get" => Sent(r) = Build("GET", <<"cid", r.name>>, None)
      /\ r.op = "resolve" => Sent(r) = Build("GET", NamePath(r.name), None)
      /\ r.op = "heads" => Sent(r) = Build("GET", <<"head">>, None)
      /\ r.op = "calls" => Sent(r) = Build("GET", <<"call", r.name>>, None)
      /\ r.op = "funcs" => Sent(r) = Build("GET", <<"call">>, None)
  BY DEF Sent
<1>4. \A m, p, b : Build(m, p, b).accept = CBORHeader /\ Build(m, p, b).tags = {} /\ Build(m, p, b).depth = 0
  BY DEF Build
<1>5. Sent(r).accept = CBORHeader /\ Sent(r).tags = {} /\ Sent(r).depth = 0
  BY <1>1, <1>3, <1>4
<1>6. Sent(r).path # None
  BY Zenon DEF WellFormed
<1> QED  BY <1>1, <1>2, <1>3, <1>5, <1>6

\* A name's request goes to the handler of that name.
LEMMA NameRouted ==
  ASSUME WellFormed, NEW d, NEW name \in Name, NEW q, NEW method \in {"GET", "PUT"},
         q.path = NamePath(name), q.method = method, q.path # None
  PROVE  Handled(d, q) = IF method = "GET" THEN Resolve(d, q, name) ELSE Assign(d, q, name)
<1>1. method # None
  BY DEF WellFormed
<1>2. CASE name \in HeadName
  <2>1. q.path = <<"head", name>>
    BY <1>2 DEF NamePath
  <2>2. q.path # <<>> /\ Len(q.path) = 2 /\ q.path[1] = "head" /\ q.path[2] = name
    BY <2>1
  <2>3. Handled(d, q) = handleRequestHead(d, q)
    BY <1>1, <2>2 DEF Handled
  <2>4. handleRequestHead(d, q) = IF method = "GET" THEN Resolve(d, q, name) ELSE Assign(d, q, name)
    BY <1>2, <2>2 DEF handleRequestHead
  <2> QED  BY <2>3, <2>4
<1>3. CASE name \notin HeadName
  <2>1. name \in Call /\ name = <<name[1], name[2]>> /\ name[1] \in Func /\ name[2] # BadText
    BY <1>3 DEF Name, WellFormed
  <2>2. q.path = <<"call", name[1], name[2]>>
    BY <1>3 DEF NamePath
  <2>3. /\ q.path # <<>> /\ Len(q.path) = 3 /\ q.path[1] = "call" /\ q.path[2] = name[1]
        /\ q.path[3] = name[2]
    BY <2>2
  <2>4. Handled(d, q) = handleRequestCall(d, q)
    BY <1>1, <2>3 DEF Handled
  <2>5. handleRequestCall(d, q) = IF method = "GET" THEN Resolve(d, q, name) ELSE Assign(d, q, name)
    <3>1. <<q.path[2], q.path[3]>> = name
      BY <2>1, <2>3
    <3> QED  BY <2>1, <2>3, <3>1 DEF handleRequestCall
  <2> QED  BY <2>4, <2>5
<1> QED  BY <1>2, <1>3

\* The server does what the operation asks for, and the client makes of the response what
\* the operation on the server's own store would have given.
LEMMA Answered ==
  ASSUME WellFormed, StoreOK, NEW r \in Request, r.op # "delete"
  PROVE  /\ handleNewRequest(db, Sent(r)).db = Effect(db, r)
         /\ Returned(r, handleNewRequest(db, Sent(r)).response) = Truth(r)
<1> DEFINE q == Sent(r)
           done == handleNewRequest(db, q)
<1> HIDE DEF q, done
<1>1. q.accept = CBORHeader /\ q.tags = {} /\ q.depth = 0 /\ q.path # None
  BY Zenon, SentIs DEF q
<1>2. None \notin {"GET", "PUT", "POST", "DELETE"} /\ None \notin CID
  BY Zenon DEF WellFormed
<1>3. ASSUME NEW kind, NEW x, NEW when, Handled(db, q) = Done(db, sendContent(<<kind, x>>, when))
      PROVE  /\ done.db = db /\ done.response.status = 200 /\ done.response.type = "CBOR"
             /\ done.response.body[2][2] = x
  <2>1. done = Delivered(q, Done(db, sendContent(<<kind, x>>, when)))
    BY Zenon, <1>3 DEF handleNewRequest, done
  <2> DEFINE answer == Delivered(q, Done(db, sendContent(<<kind, x>>, when)))
  <2>2. /\ answer.db = db /\ answer.response.status = 200 /\ answer.response.type = "CBOR"
        /\ answer.response.body[2][2] = x
    BY <1>1, DeliveredContent DEF q
  <2> QED  BY <2>1, <2>2
<1>4. ASSUME Handled(db, q) = Done(db, sendError(404))
      PROVE  done.db = db /\ done.response.status = 404
  <2>1. done = Delivered(q, Done(db, sendError(404)))
    BY Zenon, <1>4 DEF handleNewRequest, done
  <2>2. Delivered(q, Done(db, sendError(404))).db = db /\ Delivered(q, Done(db, sendError(404))).response.status = 404
    BY DeliveredBare
  <2> QED  BY <2>1, <2>2
<1>a. ASSUME NEW d, NEW path, Handled(db, q) = Done(d, sendCreated(path))
      PROVE  done = Done(d, sendCreated(path))
  <2>1. Delivered(q, Done(d, sendCreated(path))) = Done(d, sendCreated(path))
    BY DeliveredBare
  <2> QED  BY Zenon, <1>a, <2>1 DEF handleNewRequest, done
<1>b. ASSUME NEW d, Handled(db, q) = Done(d, sendDeleted)
      PROVE  done = Done(d, sendDeleted)
  <2>1. Delivered(q, Done(d, sendDeleted)) = Done(d, sendDeleted)
    BY DeliveredBare
  <2> QED  BY Zenon, <1>b, <2>1 DEF handleNewRequest, done
<1>5. CASE r.op = "put"
  <2>1. r.name \in Block /\ q = Build("POST", <<"cid">>, <<"node", r.name>>)
    BY Zenon, <1>5, SentIs DEF q
  <2>2. /\ q.method = "POST" /\ q.path = <<"cid">> /\ q.body = <<"node", r.name>> /\ q.body # None
        /\ q.ctype = "cbor"
    <3>1. <<"node", r.name>> # None
      BY Zenon, <2>1 DEF WellFormed, CID
    <3> QED  BY <2>1, <3>1 DEF Build
  <2>3. q.path # <<>> /\ Len(q.path) = 1 /\ q.path[1] = "cid"
    BY <2>2
  <2>4. Handled(db, q) = handleRequestCID(db, q)
    BY <1>1, <1>2, <2>2, <2>3 DEF Handled
  <2>5. BadBody(q) = 0 /\ ContentNode(q) = <<"node", r.name>>
    BY <2>2 DEF BadBody, ContentNode
  <2>6. CIDOf(<<"node", r.name>>) = r.name
    BY DEF CIDOf
  <2>7. handleRequestCID(db, q) = Done(put(db, r.name), sendCreated(<<"cid", r.name>>))
    BY <2>2, <2>3, <2>5, <2>6 DEF handleRequestCID
  <2>8. done = Done(put(db, r.name), sendCreated(<<"cid", r.name>>))
    BY Zenon, <1>a, <2>4, <2>7
  <2>9. /\ done.db = put(db, r.name) /\ done.response.status = 201
        /\ done.response.location[2] = r.name
    BY <2>8 DEF Done, sendCreated, Response
  <2>10. Returned(r, done.response) = <<"is", r.name>>
    BY <1>5, <2>9 DEF Returned, Expected
  <2>11. Truth(r) = <<"is", r.name>> /\ Effect(db, r) = put(db, r.name)
    BY <1>5 DEF Truth, Effect
  <2> QED  BY <2>9, <2>10, <2>11 DEF done, q
<1>6. CASE r.op = "set"
  <2>1. r.name \in Name /\ r.ref \in CID /\ q = Build("PUT", NamePath(r.name), <<"link", r.ref>>)
    BY Zenon, <1>6, SentIs DEF q
  <2>2. /\ q.method = "PUT" /\ q.path = NamePath(r.name) /\ q.body = <<"link", r.ref>> /\ q.body # None
        /\ q.ctype = "cbor"
    <3>1. <<"link", r.ref>> # None
      BY Zenon, <2>1 DEF WellFormed
    <3> QED  BY <2>1, <3>1 DEF Build
  <2>3. Handled(db, q) = Assign(db, q, r.name)
    <3>1. "PUT" \in {"GET", "PUT"} /\ "PUT" # "GET"
      OBVIOUS
    <3> QED  BY Zenon, <1>1, <2>1, <2>2, <3>1, NameRouted
  <2>4. BadBody(q) = 0 /\ ContentNode(q) = <<"link", r.ref>>
    BY <2>2 DEF BadBody, ContentNode
  <2>5. Assign(db, q, r.name) = Done(set(db, r.name, r.ref), sendCreated(None))
    BY <2>4 DEF Assign, NotACID
  <2>6. done = Done(set(db, r.name, r.ref), sendCreated(None))
    BY Zenon, <1>a, <2>3, <2>5
  <2>7. done.db = set(db, r.name, r.ref) /\ done.response.status = 201
    BY <2>6 DEF Done, sendCreated, Response
  <2>8. Returned(r, done.response) = <<"done">>
    BY <1>6, <2>7 DEF Returned, Expected
  <2>9. Truth(r) = <<"done">> /\ Effect(db, r) = set(db, r.name, r.ref)
    BY <1>6 DEF Truth, Effect
  <2> QED  BY <2>7, <2>8, <2>9 DEF done, q
<1>7. CASE r.op = "invalidate"
  <2>1. r.name \in Func /\ q = Build("DELETE", <<"call", r.name>>, None)
    BY Zenon, <1>7, SentIs DEF q
  <2>2. q.method = "DELETE" /\ q.path = <<"call", r.name>>
    BY <2>1 DEF Build
  <2>3. q.path # <<>> /\ Len(q.path) = 2 /\ q.path[1] = "call" /\ q.path[2] = r.name
    BY <2>2
  <2>4. Handled(db, q) = handleRequestCall(db, q)
    BY <1>1, <1>2, <2>2, <2>3 DEF Handled
  <2>5. handleRequestCall(db, q) = Done(call_invalidate(db, r.name), sendDeleted)
    BY <2>1, <2>2, <2>3 DEF handleRequestCall
  <2>6. done = Done(call_invalidate(db, r.name), sendDeleted)
    BY Zenon, <1>b, <2>4, <2>5
  <2>7. done.db = call_invalidate(db, r.name) /\ done.response.status = 204
    BY <2>6 DEF Done, sendDeleted, Response
  <2>8. Returned(r, done.response) = <<"done">>
    BY <1>7, <2>7 DEF Returned, Expected
  <2>9. Truth(r) = <<"done">> /\ Effect(db, r) = call_invalidate(db, r.name)
    BY <1>7 DEF Truth, Effect
  <2> QED  BY <2>7, <2>8, <2>9 DEF done, q
<1>8. CASE r.op = "get"
  <2>1. r.name \in CID /\ q = Build("GET", <<"cid", r.name>>, None)
    BY Zenon, <1>8, SentIs DEF q
  <2>2. q.method = "GET" /\ q.path = <<"cid", r.name>>
    BY <2>1 DEF Build
  <2>3. q.path # <<>> /\ Len(q.path) = 2 /\ q.path[1] = "cid" /\ q.path[2] = r.name /\ r.name # BadText
    BY <2>1, <2>2 DEF WellFormed
  <2>4. Handled(db, q) = handleRequestCID(db, q)
    BY <1>1, <1>2, <2>2, <2>3 DEF Handled
  <2>5. handleRequestCID(db, q) =
          IF getOptional(db, r.name) THEN Done(db, sendContent(<<"node", r.name>>, "Immutable"))
          ELSE Done(db, sendError(404))
    BY <2>2, <2>3 DEF handleRequestCID
  <2>7. Effect(db, r) = db /\ r.name # None
    BY <1>2, <1>8, <2>1 DEF Effect
  <2>8. CASE getOptional(db, r.name)
    <3>1. /\ done.db = db /\ done.response.status = 200 /\ done.response.type = "CBOR"
          /\ done.response.body[2][2] = r.name
      BY <1>3, <2>4, <2>5, <2>8
    <3>2. Returned(r, done.response) = <<"is", r.name>>
      BY <1>8, <3>1 DEF Returned, Expected
    <3>3. Truth(r) = <<"is", r.name>>
      BY <1>8, <2>7, <2>8 DEF Truth
    <3> QED  BY <2>7, <3>1, <3>2, <3>3 DEF done, q
  <2>9. CASE ~getOptional(db, r.name)
    <3>1. done.db = db /\ done.response.status = 404
      BY Zenon, <1>4, <2>4, <2>5, <2>9
    <3>2. Returned(r, done.response) = <<"none">>
      BY <1>8, <3>1 DEF Returned, Expected
    <3>3. Truth(r) = <<"none">>
      BY <1>8, <2>9 DEF Truth
    <3> QED  BY <2>7, <3>1, <3>2, <3>3 DEF done, q
  <2> QED  BY <2>8, <2>9
<1>9. CASE r.op = "resolve"
  <2>1. r.name \in Name /\ q = Build("GET", NamePath(r.name), None)
    BY Zenon, <1>9, SentIs DEF q
  <2>2. q.method = "GET" /\ q.path = NamePath(r.name)
    BY <2>1 DEF Build
  <2>3. Handled(db, q) = Resolve(db, q, r.name)
    <3>1. "GET" \in {"GET", "PUT"}
      OBVIOUS
    <3> QED  BY Zenon, <1>1, <2>1, <2>2, <3>1, NameRouted
  <2>5. Effect(db, r) = db
    BY <1>9 DEF Effect
  <2>6. CASE db.names[r.name] # None
    <3>1. /\ done.db = db /\ done.response.status = 200 /\ done.response.type = "CBOR"
          /\ done.response.body[2][2] = db.names[r.name]
      BY <1>3, <2>3, <2>6 DEF Resolve
    <3>2. Returned(r, done.response) = <<"is", db.names[r.name]>>
      BY <1>9, <3>1 DEF Returned, Expected
    <3>3. Truth(r) = <<"is", db.names[r.name]>>
      BY <1>9, <2>6 DEF Truth
    <3> QED  BY <2>5, <3>1, <3>2, <3>3 DEF done, q
  <2>7. CASE db.names[r.name] = None
    <3>1. done.db = db /\ done.response.status = 404
      BY Zenon, <1>4, <2>3, <2>7 DEF Resolve
    <3>2. Returned(r, done.response) = <<"none">>
      BY <1>9, <3>1 DEF Returned, Expected
    <3>3. Truth(r) = <<"none">>
      BY <1>9, <2>7 DEF Truth
    <3> QED  BY <2>5, <3>1, <3>2, <3>3 DEF done, q
  <2> QED  BY <2>6, <2>7
<1>10. CASE r.op = "heads"
  <2>1. q.method = "GET" /\ q.path = <<"head">>
    BY <1>10, SentIs DEF Build, q
  <2>2. q.path # <<>> /\ Len(q.path) = 1 /\ q.path[1] = "head"
    BY <2>1
  <2>3. Handled(db, q) = handleRequestHead(db, q)
    BY <1>1, <1>2, <2>1, <2>2 DEF Handled
  <2> DEFINE heads == {h \in HeadName : db.names[h] # None}
  <2>4. handleRequestHead(db, q) = Done(db, sendContent(<<"uris", heads>>, Mutable))
    BY <2>1, <2>2 DEF handleRequestHead
  <2>5. Truth(r) = <<"is", heads>>
    BY Zenon, <1>10 DEF Truth
  <2> HIDE DEF heads
  <2>6. /\ done.db = db /\ done.response.status = 200 /\ done.response.type = "CBOR"
        /\ done.response.body[2][2] = heads
    BY <1>3, <2>3, <2>4
  <2>7. Returned(r, done.response) = <<"is", heads>> /\ Effect(db, r) = db
    BY <1>10, <2>6 DEF Returned, Expected, Effect
  <2> QED  BY <2>5, <2>6, <2>7 DEF done, q
<1>11. CASE r.op = "calls"
  <2>1. q.method = "GET" /\ q.path = <<"call", r.name>> /\ r.name \in Func
    BY <1>11, SentIs DEF Build, q
  <2>2. q.path # <<>> /\ Len(q.path) = 2 /\ q.path[1] = "call" /\ q.path[2] = r.name
    BY <2>1
  <2>3. Handled(db, q) = handleRequestCall(db, q)
    BY <1>1, <1>2, <2>1, <2>2 DEF Handled
  <2>4. handleRequestCall(db, q) = Done(db, sendContent(<<"uris", eachCall(db, r.name)>>, Mutable))
    BY <2>1, <2>2 DEF handleRequestCall
  <2>5. /\ done.db = db /\ done.response.status = 200 /\ done.response.type = "CBOR"
        /\ done.response.body[2][2] = eachCall(db, r.name)
    BY <1>3, <2>3, <2>4
  <2>6. Returned(r, done.response) = Truth(r) /\ Effect(db, r) = db
    BY <1>11, <2>5 DEF Returned, Expected, Truth, Effect
  <2> QED  BY <2>5, <2>6 DEF done, q
<1>12. CASE r.op = "funcs"
  <2>1. q.method = "GET" /\ q.path = <<"call">>
    BY <1>12, SentIs DEF Build, q
  <2>2. q.path # <<>> /\ Len(q.path) = 1 /\ q.path[1] = "call"
    BY <2>1
  <2>3. Handled(db, q) = handleRequestCall(db, q)
    BY <1>1, <1>2, <2>1, <2>2 DEF Handled
  <2>4. handleRequestCall(db, q) = Done(db, sendContent(<<"uris", list_funcs(db)>>, Mutable))
    BY <2>1, <2>2 DEF handleRequestCall
  <2>5. /\ done.db = db /\ done.response.status = 200 /\ done.response.type = "CBOR"
        /\ done.response.body[2][2] = list_funcs(db)
    BY <1>3, <2>3, <2>4
  <2>6. Returned(r, done.response) = Truth(r) /\ Effect(db, r) = db
    BY <1>12, <2>5 DEF Returned, Expected, Truth, Effect
  <2> QED  BY <2>5, <2>6 DEF done, q
<1> QED
  <2>1. r.op \in {"put", "set", "invalidate", "get", "resolve", "heads", "calls", "funcs"}
    BY Zenon, SentIs
  <2> QED  BY <1>5, <1>6, <1>7, <1>8, <1>9, <1>10, <1>11, <1>12, <2>1

\* No operation on the server's own store ends a program.
LEMMA TruthIsNoError ==
  ASSUME WellFormed, NEW r \in Request, r.op # "delete"
  PROVE  Truth(r) # <<"fatal">>
<1>1. r.op \in {"put", "set", "invalidate", "get", "resolve", "heads", "calls", "funcs"}
  BY Zenon, SentIs
<1>2. \A x : <<"is", x>> # <<"fatal">> /\ <<"none">> # <<"fatal">> /\ <<"done">> # <<"fatal">>
  OBVIOUS
<1>3. CASE r.op \in {"put", "set", "invalidate", "get", "resolve"}
  BY <1>2, <1>3 DEF Truth
<1>4. CASE r.op = "heads"
  <2>1. Truth(r) = <<"is", {h \in HeadName : db.names[h] # None}>>
    BY Zenon, <1>4 DEF Truth
  <2> QED  BY Zenon, <1>2, <2>1
<1>5. CASE r.op \in {"calls", "funcs"}
  BY <1>2, <1>5 DEF Truth
<1> QED  BY <1>1, <1>3, <1>4, <1>5

\* What the server holds stays of its type.
LEMMA EffectTyped ==
  ASSUME WellFormed, StoreOK, NEW r \in Request, r.op # "delete", db' = Effect(db, r)
  PROVE  /\ StoreOK'
         /\ r.op = "put" => db'.blocks = db.blocks \cup {r.name} /\ db'.names = db.names
         /\ r.op = "set" => db'.blocks = db.blocks /\ db'.names = [db.names EXCEPT ![r.name] = r.ref]
         /\ r.op = "invalidate" =>
              /\ db'.blocks = db.blocks
              /\ db'.names = [n \in Name |-> IF n \in eachCall(db, r.name) THEN None ELSE db.names[n]]
         /\ r.op \notin {"put", "set", "invalidate"} => db' = db
<1>1. /\ db = [blocks |-> db.blocks, names |-> db.names]
      /\ db.blocks \subseteq Block /\ db.names \in [Name -> CID \cup {None}]
  BY Zenon DEF StoreOK
<1>2. CASE r.op = "put"
  <2>1. r.name \in Block
    BY Zenon, <1>2, SentIs
  <2>2. db' = [blocks |-> db.blocks \cup {r.name}, names |-> db.names]
    BY <1>1, <1>2, <2>1 DEF Effect, put
  <2> QED  BY <1>1, <1>2, <2>1, <2>2 DEF StoreOK
<1>3. CASE r.op = "set"
  <2>1. r.name \in Name /\ r.ref \in CID
    BY Zenon, <1>3, SentIs
  <2>2. db' = [blocks |-> db.blocks, names |-> [db.names EXCEPT ![r.name] = r.ref]]
    BY <1>1, <1>3 DEF Effect, set
  <2> QED  BY <1>1, <1>3, <2>1, <2>2 DEF StoreOK
<1>4. CASE r.op = "invalidate"
  <2> DEFINE left == [n \in Name |-> IF n \in eachCall(db, r.name) THEN None ELSE db.names[n]]
  <2>1. db' = [blocks |-> db.blocks, names |-> left]
    BY <1>1, <1>4 DEF Effect, call_invalidate
  <2>2. left \in [Name -> CID \cup {None}]
    BY <1>1
  <2> HIDE DEF left
  <2>3. StoreOK' /\ db'.blocks = db.blocks /\ db'.names = left
    BY <1>1, <2>1, <2>2 DEF StoreOK
  <2> QED  BY <1>4, <2>3 DEF left
<1>5. CASE r.op \notin {"put", "set", "invalidate"}
  <2>1. db' = db
    BY <1>5 DEF Effect
  <2> QED  BY <1>1, <1>5, <2>1 DEF StoreOK
<1> QED  BY <1>2, <1>3, <1>4, <1>5

\* A thread whose connection and whose running fiber are left alone.
LEMMA BusyKept ==
  ASSUME NEW t, NEW g, Busy(t, g), conn'[t] = conn[t], req'[g] = req[g], at'[g] \in {"waiting", "dead"}
  PROVE  Busy(t, g)'
BY Zenon DEF Busy

\* A fiber opens the store.
LEMMA OpenInv ==
  ASSUME WellFormed, Inv, NEW f \in Fiber, Open(f)
  PROVE  Inv'
<1>1. /\ at[f] = "closed" /\ at' = [at EXCEPT ![f] = "idle"] /\ result' = <<>>
      /\ db' = db /\ req' = req /\ running' = running /\ conn' = conn
  BY DEF Open
<1>2. StoreOK' /\ FieldsOK' /\ AnswersAsTheStore'
  BY <1>1 DEF Inv, StoreOK, FieldsOK, AnswersAsTheStore
<1>3. \A g \in Fiber : at[g] \in {"waiting", "dead"} => at'[g] = at[g]
  BY <1>1 DEF Inv, FieldsOK
<1>4. ThreadsOK'
  <2> SUFFICES ASSUME NEW t \in Thread
               PROVE  /\ running[t] = None => conn[t] = [in |-> <<>>, out |-> <<>>]
                      /\ running[t] # None => Busy(t, running[t])'
    BY Zenon, <1>1 DEF ThreadsOK
  <2>1. running[t] = None => conn[t] = [in |-> <<>>, out |-> <<>>]
    BY Zenon DEF Inv, ThreadsOK
  <2>2. ASSUME running[t] # None PROVE Busy(t, running[t])'
    <3>1. running[t] \in Fiber /\ Busy(t, running[t])
      BY <2>2 DEF Inv, FieldsOK, ThreadsOK
    <3>2. PICK g \in Fiber : g = running[t]
      BY <3>1
    <3>3. Busy(t, g) /\ at[g] \in {"waiting", "dead"}
      BY <3>1, <3>2 DEF Busy
    <3>4. Busy(t, g)'
      BY Zenon, <1>1, <1>3, <3>3, BusyKept
    <3> QED  BY <1>1, <3>2, <3>4
  <2> QED  BY <2>1, <2>2
<1>5. FibersOK'
  BY <1>1 DEF Inv, FieldsOK, FibersOK
<1> QED  BY Zenon, <1>2, <1>4, <1>5 DEF Inv

\* What a step of thread t leaves of the others.
LEMMA OthersKept ==
  ASSUME WellFormed, Inv, NEW t,
         \A u \in Thread : u # t => conn'[u] = conn[u] /\ running'[u] = running[u],
         \A g \in Fiber : ThreadOf[g] # t => req'[g] = req[g] /\ at'[g] = at[g]
  PROVE  /\ \A u \in Thread : u # t =>
              /\ running'[u] = None => conn'[u] = [in |-> <<>>, out |-> <<>>]
              /\ running'[u] # None => Busy(u, running[u])'
         /\ \A g \in Fiber : ThreadOf[g] # t /\ running'[ThreadOf[g]] # g =>
              req'[g] = None /\ at'[g] # "waiting"
<1>1. ASSUME NEW u \in Thread, u # t, running[u] # None
      PROVE  \E g \in Fiber : running[u] = g /\ Busy(u, g)'
  <2>1. PICK g \in Fiber : running[u] = g /\ Busy(u, g)
    BY <1>1 DEF Inv, FieldsOK, ThreadsOK
  <2>2. ThreadOf[g] = u /\ at[g] \in {"waiting", "dead"}
    BY <2>1 DEF Busy
  <2>3. conn'[u] = conn[u] /\ req'[g] = req[g] /\ at'[g] \in {"waiting", "dead"}
    BY <1>1, <2>2
  <2>4. Busy(u, g)'
    BY Zenon, <2>1, <2>3, BusyKept
  <2> QED  BY Zenon, <2>1, <2>4
<1>2. ASSUME NEW u \in Thread, u # t, running[u] # None
      PROVE  Busy(u, running[u])'
  <2>1. PICK g \in Fiber : running[u] = g /\ Busy(u, g)'
    BY Zenon, <1>1, <1>2
  <2>2. running'[u] = g
    BY <1>2, <2>1
  <2> QED  BY Zenon, <2>1, <2>2 DEF Busy
<1>3. \A u \in Thread : running[u] = None => conn[u] = [in |-> <<>>, out |-> <<>>]
  BY Zenon DEF Inv, ThreadsOK
<1>4. \A g \in Fiber : ThreadOf[g] \in Thread
  BY DEF Thread
<1>5. \A g \in Fiber : running[ThreadOf[g]] # g => req[g] = None /\ at[g] # "waiting"
  BY Zenon DEF Inv, FibersOK
<1> QED  BY <1>2, <1>3, <1>4, <1>5

\* The invariant after a step of thread t, from what is true of t.
LEMMA ThreadStep ==
  ASSUME WellFormed, Inv, NEW t \in Thread,
         \A u \in Thread : u # t => conn'[u] = conn[u] /\ running'[u] = running[u],
         \A g \in Fiber : ThreadOf[g] # t => req'[g] = req[g] /\ at'[g] = at[g],
         StoreOK', FieldsOK', AnswersAsTheStore',
         running'[t] = None => conn'[t] = [in |-> <<>>, out |-> <<>>],
         running'[t] # None => Busy(t, running[t])',
         \A g \in Fiber : ThreadOf[g] = t /\ running'[t] # g => req'[g] = None /\ at'[g] # "waiting"
  PROVE  Inv'
<1>1. /\ \A u \in Thread : u # t =>
           /\ running'[u] = None => conn'[u] = [in |-> <<>>, out |-> <<>>]
           /\ running'[u] # None => Busy(u, running[u])'
      /\ \A g \in Fiber : ThreadOf[g] # t /\ running'[ThreadOf[g]] # g =>
           req'[g] = None /\ at'[g] # "waiting"
  BY Zenon, OthersKept
<1>2. ThreadsOK'
  BY Zenon, <1>1 DEF ThreadsOK
<1>3. FibersOK'
  BY Zenon, <1>1 DEF FibersOK
<1> QED  BY Zenon, <1>2, <1>3 DEF Inv

\* What is known of the thread of a fiber.
LEMMA OfThread ==
  ASSUME WellFormed, Inv, NEW f \in Fiber
  PROVE  /\ ThreadOf[f] \in Thread /\ f # None
         /\ running[ThreadOf[f]] = f => Busy(ThreadOf[f], f)
         /\ running[ThreadOf[f]] # f => req[f] = None /\ at[f] # "waiting"
         /\ running[ThreadOf[f]] = None => conn[ThreadOf[f]] = [in |-> <<>>, out |-> <<>>]
<1>1. ThreadOf[f] \in Thread
  BY DEF Thread
<1>2. f # None
  BY Zenon DEF WellFormed
<1>3. running[ThreadOf[f]] = f => Busy(ThreadOf[f], f)
  BY Zenon, <1>1, <1>2 DEF Inv, ThreadsOK
<1> QED  BY Zenon, <1>1, <1>2, <1>3 DEF Inv, FibersOK, ThreadsOK

\* A fiber writes the request of an operation.
LEMMA AskInv ==
  ASSUME WellFormed, Inv, NEW f \in Fiber, Ask(f)
  PROVE  Inv'
<1>1. PICK r \in Request :
        /\ at[f] = "idle" /\ running[ThreadOf[f]] = None
        /\ IF r.op = "delete"
           THEN at' = [at EXCEPT ![f] = "failed"] /\ UNCHANGED <<req, running, conn>>
           ELSE /\ at' = [at EXCEPT ![f] = "waiting"]
                /\ req' = [req EXCEPT ![f] = r]
                /\ running' = [running EXCEPT ![ThreadOf[f]] = f]
                /\ conn' = [conn EXCEPT ![ThreadOf[f]] =
                             [in |-> Append(@.in, [fiber |-> f, req |-> r]), out |-> @.out]]
        /\ result' = <<>> /\ db' = db
  BY Zenon DEF Ask, MayRun
<1>2. PICK t \in Thread : t = ThreadOf[f] /\ conn[t] = [in |-> <<>>, out |-> <<>>] /\ f # None
  BY Zenon, <1>1, OfThread
<1>3. StoreOK' /\ AnswersAsTheStore'
  BY <1>1 DEF Inv, StoreOK, AnswersAsTheStore
<1>4. FieldsOK
  BY Zenon DEF Inv
<1>5. \A g \in Fiber : ThreadOf[g] = t => req[g] = None /\ at[g] # "waiting"
  <2>1. \A g \in Fiber : g # None
    BY Zenon DEF WellFormed
  <2> QED  BY <1>1, <1>2, <2>1 DEF Inv, FibersOK
<1>6. CASE r.op = "delete"
  <2>1. at' = [at EXCEPT ![f] = "failed"] /\ req' = req /\ running' = running /\ conn' = conn
    BY <1>1, <1>6
  <2>2. FieldsOK'
    BY <1>4, <2>1 DEF FieldsOK
  <2>3. running'[t] = None
    BY <1>1, <1>2, <2>1
  <2>4. \A g \in Fiber : ThreadOf[g] = t => req'[g] = None /\ at'[g] # "waiting"
    BY <1>4, <1>5, <2>1 DEF FieldsOK
  <2>5. \A g \in Fiber : ThreadOf[g] # t => req'[g] = req[g] /\ at'[g] = at[g]
    BY <1>2, <1>4, <2>1 DEF FieldsOK
  <2> QED  BY Zenon, <1>2, <1>3, <2>1, <2>2, <2>3, <2>4, <2>5, ThreadStep
<1>7. CASE r.op # "delete"
  <2>1. /\ at' = [at EXCEPT ![f] = "waiting"] /\ req' = [req EXCEPT ![f] = r]
        /\ running' = [running EXCEPT ![t] = f]
        /\ conn' = [conn EXCEPT ![t] = [in |-> Append(@.in, [fiber |-> f, req |-> r]), out |-> @.out]]
    BY <1>1, <1>2, <1>7
  <2>2. conn' = [conn EXCEPT ![t] = [in |-> <<[fiber |-> f, req |-> r]>>, out |-> <<>>]]
    BY <1>2, <2>1
  <2>3. FieldsOK'
    BY Zenon, <1>4, <2>1, <2>2 DEF FieldsOK
  <2>4. /\ running'[t] = f /\ req'[f] = r /\ at'[f] = "waiting"
        /\ conn'[t] = [in |-> <<[fiber |-> f, req |-> r]>>, out |-> <<>>]
    BY <1>4, <2>1, <2>2 DEF FieldsOK
  <2>5. Busy(t, f)'
    <3>1. at'[f] \in {"waiting", "dead"}
      BY <2>4
    <3> QED  BY Zenon, <1>2, <1>7, <2>4, <3>1 DEF Busy
  <2>6. Busy(t, running[t])'
    BY Zenon, <2>4, <2>5 DEF Busy
  <2>7. \A g \in Fiber : g # f => req'[g] = req[g] /\ at'[g] = at[g]
    BY <1>4, <2>1 DEF FieldsOK
  <2>8. \A u \in Thread : u # t => conn'[u] = conn[u] /\ running'[u] = running[u]
    BY <1>4, <2>1, <2>2 DEF FieldsOK
  <2>9. \A g \in Fiber : ThreadOf[g] = t /\ running'[t] # g => req'[g] = None /\ at'[g] # "waiting"
    BY Zenon, <1>5, <2>4, <2>7
  <2>10. \A g \in Fiber : ThreadOf[g] # t => req'[g] = req[g] /\ at'[g] = at[g]
    BY Zenon, <1>2, <2>7
  <2>11. running'[t] # None
    BY Zenon, <1>2, <2>4
  <2> QED  BY Zenon, <1>3, <2>3, <2>6, <2>8, <2>9, <2>10, <2>11, ThreadStep
<1> QED  BY <1>6, <1>7

\* The server handles the request: the fiber that runs will take the response for what
\* the store said.
LEMMA HandleInv ==
  ASSUME WellFormed, Inv, NEW t \in Thread, Handle(t)
  PROVE  /\ Inv'
         /\ \E f \in Fiber :
              /\ running[t] = f /\ ThreadOf[f] = t /\ req[f] \in Request /\ req[f].op # "delete"
              /\ conn[t].in = <<[fiber |-> f, req |-> req[f]]>> /\ conn'[t].in = <<>>
              /\ db' = Effect(db, req[f])
<1>1. PICK m, answer :
        /\ conn[t].in # <<>> /\ m = conn[t].in[1] /\ answer = handleNewRequest(db, Sent(m.req))
        /\ db' = answer.db
        /\ conn' = [conn EXCEPT ![t] =
             [in |-> Tail(@.in), out |-> Append(@.out, [response |-> answer.response, truth |-> Truth(m.req)])]]
        /\ result' = <<>> /\ at' = at /\ req' = req /\ running' = running
  BY Zenon DEF Handle
<1>2. FieldsOK /\ StoreOK
  BY Zenon DEF Inv
<1>3. PICK f \in Fiber : running[t] = f /\ f # None /\ Busy(t, f)
  <2>1. running[t] # None
    BY SMTT(20), <1>1 DEF Inv, ThreadsOK
  <2> QED  BY Zenon, <1>2, <2>1 DEF Inv, ThreadsOK, FieldsOK
<1>4. /\ conn[t] = [in |-> <<[fiber |-> f, req |-> req[f]]>>, out |-> <<>>]
      /\ ThreadOf[f] = t /\ at[f] \in {"waiting", "dead"} /\ req[f] \in Request /\ req[f].op # "delete"
  BY <1>1, <1>3 DEF Busy
<1>5. PICK r \in Request : r = req[f] /\ r.op # "delete"
  BY Zenon, <1>4
<1>6. m.req = r
  BY <1>1, <1>4, <1>5
<1>7. /\ answer.db = Effect(db, r) /\ Returned(r, answer.response) = Truth(r)
      /\ Truth(r) # <<"fatal">>
  BY Zenon, <1>1, <1>2, <1>5, <1>6, Answered, TruthIsNoError
<1>8. StoreOK'
  BY Zenon, <1>1, <1>2, <1>5, <1>7, EffectTyped
<1>9. PICK rec : rec = [response |-> answer.response, truth |-> Truth(r)]
  BY Zenon
<1>10. conn' = [conn EXCEPT ![t] = [in |-> <<>>, out |-> <<rec>>]]
  <2>1. Tail(conn[t].in) = <<>> /\ Append(conn[t].out, rec) = <<rec>>
    BY <1>4
  <2>2. rec = [response |-> answer.response, truth |-> Truth(m.req)]
    BY Zenon, <1>6, <1>9
  <2> QED  BY Zenon, <1>1, <2>1, <2>2
<1>11. conn'[t] = [in |-> <<>>, out |-> <<rec>>] /\ \A u \in Thread : u # t => conn'[u] = conn[u]
  BY <1>2, <1>10 DEF FieldsOK
<1>12. FieldsOK'
  BY Zenon, <1>1, <1>2, <1>10 DEF FieldsOK
<1>13. rec.response = answer.response /\ rec.truth = Truth(r) /\ conn'[t].out[1] = rec
  BY <1>9, <1>11
<1>14. Busy(t, f)'
  BY Zenon, <1>1, <1>4, <1>5, <1>7, <1>11, <1>13 DEF Busy
<1>15. Busy(t, running[t])'
  BY Zenon, <1>1, <1>3, <1>14 DEF Busy
<1>16. AnswersAsTheStore'
  BY Zenon, <1>1 DEF AnswersAsTheStore
<1>17. \A g \in Fiber : ThreadOf[g] = t /\ running'[t] # g => req'[g] = None /\ at'[g] # "waiting"
  BY Zenon, <1>1 DEF Inv, FibersOK
<1>18. running'[t] # None /\ \A u \in Thread : running'[u] = running[u]
  BY Zenon, <1>1, <1>3
<1>19. \A g \in Fiber : req'[g] = req[g] /\ at'[g] = at[g]
  BY Zenon, <1>1
<1>20. Inv'
  BY ZenonT(60), <1>8, <1>11, <1>12, <1>15, <1>16, <1>17, <1>18, <1>19, ThreadStep
<1>21. conn[t].in = <<[fiber |-> f, req |-> req[f]]>> /\ conn'[t].in = <<>>
  BY <1>4, <1>11
<1> QED  BY Zenon, <1>1, <1>3, <1>4, <1>5, <1>7, <1>20, <1>21

\* A fiber reads the response to its own request.
LEMMA ReadInv ==
  ASSUME WellFormed, Inv, NEW f \in Fiber, Read(f)
  PROVE  /\ Inv' /\ at'[f] = "idle" /\ \A g \in Fiber : g # f => at'[g] = at[g] /\ req'[g] = req[g]
         /\ conn[ThreadOf[f]].in = <<>> /\ conn'[ThreadOf[f]].in = <<>>
         /\ \A u \in Thread : u # ThreadOf[f] => conn'[u] = conn[u]
<1>0. PICK t \in Thread : t = ThreadOf[f]
  BY Zenon, OfThread
<1>a. PICK m, value : m = conn[t].out[1] /\ value = Returned(req[f], m.response)
  BY Zenon
<1>1. /\ at[f] = "waiting" /\ conn[t].out # <<>>
      /\ at' = [at EXCEPT ![f] = IF value = <<"fatal">> THEN "failed" ELSE "idle"]
      /\ req' = [req EXCEPT ![f] = None]
      /\ running' = [running EXCEPT ![t] = None]
      /\ conn' = [conn EXCEPT ![t] = [in |-> @.in, out |-> Tail(@.out)]]
      /\ result' = <<value, m.truth>> /\ db' = db
  BY Zenon, <1>0, <1>a DEF Read
<1>2. FieldsOK /\ StoreOK
  BY Zenon DEF Inv
<1>3. running[t] = f /\ Busy(t, f) /\ f # None
  BY Zenon, <1>0, <1>1, OfThread
<1>4. /\ conn[t] = [in |-> <<>>, out |-> <<m>>] /\ value = m.truth /\ value # <<"fatal">>
  <2>1. conn[t] # [in |-> <<[fiber |-> f, req |-> req[f]]>>, out |-> <<>>]
    BY <1>1
  <2>2. /\ conn[t] = [in |-> <<>>, out |-> <<conn[t].out[1]>>]
        /\ Returned(req[f], conn[t].out[1].response) = conn[t].out[1].truth
        /\ conn[t].out[1].truth # <<"fatal">>
    BY Zenon, <1>3, <2>1 DEF Busy
  <2> QED  BY Zenon, <1>a, <2>2
<1>5. conn' = [conn EXCEPT ![t] = [in |-> <<>>, out |-> <<>>]]
  BY <1>1, <1>4
<1>6. conn'[t] = [in |-> <<>>, out |-> <<>>] /\ \A u \in Thread : u # t => conn'[u] = conn[u]
  BY <1>2, <1>5 DEF FieldsOK
<1>7. /\ at' = [at EXCEPT ![f] = "idle"] /\ at'[f] = "idle" /\ req'[f] = None
      /\ \A g \in Fiber : g # f => at'[g] = at[g] /\ req'[g] = req[g]
  BY Zenon, <1>1, <1>2, <1>4 DEF FieldsOK
<1>8. running'[t] = None /\ \A u \in Thread : u # t => running'[u] = running[u]
  BY <1>1, <1>2 DEF FieldsOK
<1>9. FieldsOK'
  <2>1. at' \in [Fiber -> {"closed", "idle", "waiting", "failed", "dead"}]
    BY <1>2, <1>7 DEF FieldsOK
  <2>2. req' \in [Fiber -> Request \cup {None}] /\ running' \in [Thread -> Fiber \cup {None}]
    BY <1>1, <1>2 DEF FieldsOK
  <2>3. conn' = [u \in Thread |-> conn'[u]]
    BY Zenon, <1>2, <1>5 DEF FieldsOK
  <2> QED  BY Zenon, <2>1, <2>2, <2>3 DEF FieldsOK
<1>10. AnswersAsTheStore'
  <2>1. result'[1] = value /\ result'[2] = m.truth
    BY <1>1
  <2> QED  BY Zenon, <1>4, <2>1 DEF AnswersAsTheStore
<1>11. StoreOK'
  BY Zenon, <1>1, <1>2 DEF StoreOK
<1>12. \A g \in Fiber : ThreadOf[g] = t /\ running'[t] # g => req'[g] = None /\ at'[g] # "waiting"
  <2>1. \A g \in Fiber : ThreadOf[g] = t /\ g # f => req[g] = None /\ at[g] # "waiting"
    BY Zenon, <1>3 DEF Inv, FibersOK
  <2>2. at'[f] # "waiting"
    BY <1>7
  <2> QED  BY Zenon, <1>7, <2>1, <2>2
<1>13. \A g \in Fiber : ThreadOf[g] # t => req'[g] = req[g] /\ at'[g] = at[g]
  BY Zenon, <1>0, <1>7
<1>14. Inv'
  BY Zenon, <1>6, <1>8, <1>9, <1>10, <1>11, <1>12, <1>13, ThreadStep
<1>15. conn[t].in = <<>> /\ conn'[t].in = <<>>
  BY <1>4, <1>6
<1> QED  BY Zenon, <1>0, <1>6, <1>7, <1>14, <1>15

\* The process of a thread ends, and leaves its request or the response on the connection.
LEMMA DieInv ==
  ASSUME WellFormed, Inv, NEW t \in Thread, Die(t)
  PROVE  Inv'
<1>1. /\ at' = [f \in Fiber |-> IF ThreadOf[f] = t /\ at[f] # "closed" THEN "dead" ELSE at[f]]
      /\ result' = <<>> /\ db' = db /\ req' = req /\ running' = running /\ conn' = conn
  BY Zenon DEF Die
<1>2. FieldsOK /\ StoreOK
  BY Zenon DEF Inv
<1>3. \A g \in Fiber : at'[g] = "dead" \/ at'[g] = at[g]
  BY Zenon, <1>1
<1>4. \A g \in Fiber : ThreadOf[g] # t => at'[g] = at[g]
  BY Zenon, <1>1
<1>5. at' \in [Fiber -> {"closed", "idle", "waiting", "failed", "dead"}]
  BY <1>1, <1>2 DEF FieldsOK
<1>6. FieldsOK' /\ StoreOK' /\ AnswersAsTheStore'
  BY Zenon, <1>1, <1>2, <1>5 DEF FieldsOK, StoreOK, AnswersAsTheStore
<1>7. ASSUME running'[t] # None PROVE Busy(t, running[t])'
  <2>1. PICK g \in Fiber : running[t] = g /\ Busy(t, g)
    BY Zenon, <1>1, <1>2, <1>7 DEF Inv, FieldsOK, ThreadsOK
  <2>2. at'[g] \in {"waiting", "dead"}
    BY <1>3, <2>1 DEF Busy
  <2>3. Busy(t, g)'
    BY Zenon, <1>1, <2>1, <2>2, BusyKept
  <2> QED  BY Zenon, <1>1, <2>1, <2>3 DEF Busy
<1>8. running'[t] = None => conn'[t] = [in |-> <<>>, out |-> <<>>]
  BY Zenon, <1>1 DEF Inv, ThreadsOK
<1>9. \A g \in Fiber : ThreadOf[g] = t /\ running'[t] # g => req'[g] = None /\ at'[g] # "waiting"
  <2>1. "dead" # "waiting"
    OBVIOUS
  <2> QED  BY Zenon, <1>1, <1>3, <2>1 DEF Inv, FibersOK
<1>10. \A g \in Fiber : ThreadOf[g] # t => req'[g] = req[g] /\ at'[g] = at[g]
  BY Zenon, <1>1, <1>4
<1>11. \A u \in Thread : conn'[u] = conn[u] /\ running'[u] = running[u]
  BY Zenon, <1>1
<1> QED  BY ZenonT(60), <1>6, <1>7, <1>8, <1>9, <1>10, <1>11, ThreadStep

\* The connection of a process that has ended is lost.
LEMMA LoseInv ==
  ASSUME WellFormed, Inv, NEW f \in Fiber, Lose(f)
  PROVE  /\ Inv'
         /\ \A g \in Fiber : g # f /\ ThreadOf[g] = ThreadOf[f] =>
              req[g] = None \/ conn'[ThreadOf[f]] = conn[ThreadOf[f]]
         /\ \A u \in Thread : u # ThreadOf[f] => conn'[u] = conn[u]
<1>1. PICK t \in Thread :
        /\ t = ThreadOf[f] /\ at[f] = "dead"
        /\ at' = [at EXCEPT ![f] = "closed"] /\ req' = [req EXCEPT ![f] = None]
        /\ IF req[f] # None
           THEN /\ running' = [running EXCEPT ![t] = None]
                /\ conn' = [conn EXCEPT ![t] = [in |-> <<>>, out |-> <<>>]]
           ELSE running' = running /\ conn' = conn
        /\ result' = <<>> /\ db' = db
  BY Zenon, OfThread DEF Lose
<1>2. FieldsOK /\ StoreOK
  BY Zenon DEF Inv
<1>3. /\ at' \in [Fiber -> {"closed", "idle", "waiting", "failed", "dead"}]
      /\ req' \in [Fiber -> Request \cup {None}]
      /\ at'[f] = "closed" /\ req'[f] = None
  BY <1>1, <1>2 DEF FieldsOK
<1>4. \A g \in Fiber : g # f => at'[g] = at[g] /\ req'[g] = req[g]
  BY <1>1, <1>2 DEF FieldsOK
<1>5. StoreOK' /\ AnswersAsTheStore'
  BY Zenon, <1>1, <1>2 DEF StoreOK, AnswersAsTheStore
<1>6. \A g \in Fiber : ThreadOf[g] # t => req'[g] = req[g] /\ at'[g] = at[g]
  BY Zenon, <1>1, <1>4
<1>7. at'[f] # "waiting"
  BY <1>3
<1>8. CASE req[f] # None
  <2>1. running[t] = f
    BY Zenon, <1>1, <1>8, OfThread
  <2>2. /\ running' = [running EXCEPT ![t] = None]
        /\ conn' = [conn EXCEPT ![t] = [in |-> <<>>, out |-> <<>>]]
    BY Zenon, <1>1, <1>8
  <2>3. /\ running'[t] = None /\ conn'[t] = [in |-> <<>>, out |-> <<>>]
        /\ \A u \in Thread : u # t => conn'[u] = conn[u] /\ running'[u] = running[u]
    BY <1>2, <2>2 DEF FieldsOK
  <2>4. running' \in [Thread -> Fiber \cup {None}]
    BY <1>2, <2>2 DEF FieldsOK
  <2>5. conn' = [u \in Thread |-> conn'[u]]
    BY Zenon, <1>2, <2>2 DEF FieldsOK
  <2>6. FieldsOK'
    BY Zenon, <1>3, <2>4, <2>5 DEF FieldsOK
  <2>7. \A g \in Fiber : ThreadOf[g] = t /\ g # f => req[g] = None /\ at[g] # "waiting"
    BY Zenon, <2>1 DEF Inv, FibersOK
  <2>8. \A g \in Fiber : ThreadOf[g] = t /\ running'[t] # g => req'[g] = None /\ at'[g] # "waiting"
    BY Zenon, <1>3, <1>4, <1>7, <2>7
  <2>9. Inv'
    BY Zenon, <1>5, <1>6, <2>3, <2>6, <2>8, ThreadStep
  <2> QED  BY Zenon, <1>1, <2>3, <2>7, <2>9
<1>9. CASE req[f] = None
  <2>1. running' = running /\ conn' = conn
    BY Zenon, <1>1, <1>9
  <2>2. FieldsOK'
    BY Zenon, <1>2, <1>3, <2>1 DEF FieldsOK
  <2>3. running[t] # f
    <3>1. None \notin Request
      BY Zenon DEF WellFormed
    <3> QED  BY Zenon, <1>1, <1>9, <3>1, OfThread DEF Busy
  <2>4. running'[t] = None => conn'[t] = [in |-> <<>>, out |-> <<>>]
    BY Zenon, <2>1 DEF Inv, ThreadsOK
  <2>5. ASSUME running'[t] # None PROVE Busy(t, running[t])'
    <3>1. PICK g \in Fiber : running[t] = g /\ Busy(t, g) /\ g # f
      BY Zenon, <1>2, <2>1, <2>3, <2>5 DEF Inv, FieldsOK, ThreadsOK
    <3>2. at[g] \in {"waiting", "dead"}
      BY Zenon, <3>1 DEF Busy
    <3>3. Busy(t, g)'
      BY Zenon, <1>4, <2>1, <3>1, <3>2, BusyKept
    <3> QED  BY Zenon, <2>1, <3>1, <3>3 DEF Busy
  <2>6. \A g \in Fiber : ThreadOf[g] = t /\ running'[t] # g => req'[g] = None /\ at'[g] # "waiting"
    <3>1. \A g \in Fiber : ThreadOf[g] = t /\ running[t] # g => req[g] = None /\ at[g] # "waiting"
      BY Zenon DEF Inv, FibersOK
    <3> QED  BY Zenon, <1>3, <1>4, <1>7, <2>1, <3>1
  <2>7. \A u \in Thread : conn'[u] = conn[u] /\ running'[u] = running[u]
    BY Zenon, <2>1
  <2>8. Inv'
    BY Zenon, <1>5, <1>6, <2>2, <2>4, <2>5, <2>6, <2>7, ThreadStep
  <2> QED  BY Zenon, <1>1, <2>1, <2>7, <2>8
<1> QED  BY Zenon, <1>8, <1>9

\* Before a fiber opens the store there is nothing on any connection.
LEMMA InitInv ==
  ASSUME WellFormed, Init
  PROVE  Inv
<1>1. StoreOK /\ AnswersAsTheStore
  BY DEF Init, StoreOK, AnswersAsTheStore
<1>2. FieldsOK
  BY DEF Init, FieldsOK
<1>3. ThreadsOK
  BY DEF Init, ThreadsOK
<1>4. FibersOK
  <2>1. \A f \in Fiber : req[f] = None /\ at[f] = "closed"
    BY DEF Init
  <2> QED  BY <2>1 DEF FibersOK
<1> QED  BY Zenon, <1>1, <1>2, <1>3, <1>4 DEF Inv

\* A step of something else.
LEMMA StutterInv ==
  ASSUME Inv, UNCHANGED vars
  PROVE  Inv'
<1>1. db' = db /\ at' = at /\ req' = req /\ running' = running /\ conn' = conn /\ result' = result
  BY DEF vars
<1>2. StoreOK' /\ FieldsOK' /\ AnswersAsTheStore'
  BY Zenon, <1>1 DEF Inv, StoreOK, FieldsOK, AnswersAsTheStore
<1>3. ThreadsOK' /\ FibersOK'
  BY Zenon, <1>1 DEF Inv, ThreadsOK, FibersOK, Busy
<1> QED  BY Zenon, <1>2, <1>3 DEF Inv

\* Every step keeps the invariant.
LEMMA NextInv ==
  ASSUME WellFormed, Inv, [Next]_vars
  PROVE  Inv'
<1>1. ASSUME NEW f \in Fiber, Open(f) \/ Ask(f) \/ Read(f) \/ Lose(f) PROVE Inv'
  BY Zenon, <1>1, OpenInv, AskInv, ReadInv, LoseInv
<1>2. ASSUME NEW t \in Thread, Handle(t) \/ Die(t) PROVE Inv'
  BY Zenon, <1>2, HandleInv, DieInv
<1>3. CASE UNCHANGED vars
  BY Zenon, <1>3, StutterInv
<1> QED  BY Zenon, <1>1, <1>2, <1>3 DEF Next

\* The invariant: a connection carries one request or the one response to it, which the
\* fiber that runs on the thread will take for what the store said.
THEOREM ConnectionInvariant == WellFormed /\ Spec => [](WellFormed /\ Inv)
<1>1. WellFormed /\ Init => WellFormed /\ Inv
  BY Zenon, InitInv
<1>2. (WellFormed /\ Inv) /\ [Next]_vars => (WellFormed /\ Inv)'
  <2>1. WellFormed /\ Inv /\ [Next]_vars => Inv'
    BY Zenon, NextInv
  <2>2. WellFormed => WellFormed'
    BY DEF WellFormed
  <2> QED  BY Zenon, <2>1, <2>2
<1> QED  BY <1>1, <1>2, PTL DEF Spec

\* "each thread makes only 1 HTTP request at a time": every operation of a fiber returns
\* what the same one on the server's own store gives while it runs, and none meets a
\* response it does not expect.
THEOREM AnswersAsTheStoreHolds == WellFormed /\ Spec => []AnswersAsTheStore
<1>1. WellFormed /\ Inv => AnswersAsTheStore
  BY Zenon DEF Inv
<1> QED  BY <1>1, ConnectionInvariant, PTL

\* No fiber is answered with what it does not expect.
THEOREM NeverFatal == WellFormed /\ Spec => [][NeverFatalStep]_vars
<1>1. WellFormed /\ Inv /\ [Next]_vars => [NeverFatalStep]_vars
  <2> SUFFICES ASSUME WellFormed, Inv, Next, NEW f \in Fiber, at[f] = "waiting"
               PROVE  at'[f] # "failed"
    BY Zenon DEF NeverFatalStep
  <2>1. at \in [Fiber -> {"closed", "idle", "waiting", "failed", "dead"}]
    BY Zenon DEF Inv, FieldsOK
  <2>2. ASSUME NEW g \in Fiber, Open(g) PROVE at'[f] # "failed"
    BY <2>1, <2>2 DEF Open
  <2>3. ASSUME NEW g \in Fiber, Ask(g) PROVE at'[f] # "failed"
    <3>1. at[g] = "idle" /\ \E x : at' = [at EXCEPT ![g] = x]
      BY Zenon, <2>3 DEF Ask
    <3> QED  BY <2>1, <3>1
  <2>4. ASSUME NEW g \in Fiber, Read(g) PROVE at'[f] # "failed"
    <3>1. at'[g] = "idle" /\ (g # f => at'[f] = at[f])
      BY Zenon, <2>4, ReadInv
    <3> QED  BY <3>1
  <2>5. ASSUME NEW g \in Fiber, Lose(g) PROVE at'[f] # "failed"
    <3>1. at' = [at EXCEPT ![g] = "closed"]
      BY Zenon, <2>5 DEF Lose
    <3> QED  BY <2>1, <3>1
  <2>6. ASSUME NEW t \in Thread, Handle(t) PROVE at'[f] # "failed"
    <3>1. at' = at
      BY Zenon, <2>6 DEF Handle
    <3> QED  BY <3>1
  <2>7. ASSUME NEW t \in Thread, Die(t) PROVE at'[f] # "failed"
    <3>1. at'[f] \in {"dead", at[f]}
      BY Zenon, <2>7 DEF Die
    <3> QED  BY <3>1
  <2> QED  BY Zenon, <2>2, <2>3, <2>4, <2>5, <2>6, <2>7 DEF Next
<1> QED  BY <1>1, ConnectionInvariant, PTL DEF Spec

\* What waits on a connection that carries nothing, or one request.
LEMMA UnhandledIs ==
  /\ \A f, r : Unhandled(<<>>, f, r) = None
  /\ \A f, r, k, q : Unhandled(<<[fiber |-> k, req |-> q]>>, f, r) =
       IF f = k /\ q.op \in {"put", "set", "invalidate"} THEN r ELSE None
<1>1. \A f, r : Unhandled(<<>>, f, r) = None
  BY DEF Unhandled
<1>2. ASSUME NEW f, NEW r, NEW k, NEW q
      PROVE  Unhandled(<<[fiber |-> k, req |-> q]>>, f, r) =
               IF f = k /\ q.op \in {"put", "set", "invalidate"} THEN r ELSE None
  <2> DEFINE in == <<[fiber |-> k, req |-> q]>>
  <2>1. Len(in) = 1 /\ in[1].fiber = k /\ in[1].req = q
    OBVIOUS
  <2> HIDE DEF in
  <2>2. \A j : j \in 1 .. Len(in) <=> j = 1
    BY <2>1
  <2>3. Unhandled(in, f, r) = IF f = k /\ q.op \in {"put", "set", "invalidate"} THEN r ELSE None
    BY Zenon, <2>1, <2>2 DEF Unhandled
  <2> QED  BY Zenon, <2>3 DEF in
<1> QED  BY Zenon, <1>1, <1>2

\* What a step that is about one fiber does to the requests that wait.
LEMMA PendingChange ==
  ASSUME NEW f \in Fiber, NEW x, Pending(f)' = x, \A g \in Fiber : g # f => Pending(g)' = Pending(g)
  PROVE  [g \in Fiber |-> Pending(g)]' = [[g \in Fiber |-> Pending(g)] EXCEPT ![f] = x]
BY Zenon

\* The requests of threads that a step leaves alone.
LEMMA PendingKept ==
  ASSUME NEW g \in Fiber, conn'[ThreadOf[g]].in = conn[ThreadOf[g]].in, req'[g] = req[g]
  PROVE  Pending(g)' = Pending(g)
BY Zenon DEF Pending

\* A step that neither the store nor its clients see.
LEMMA Unseen ==
  ASSUME \A g \in Fiber : Pending(g)' = Pending(g), db' = db,
         \A g \in Fiber : at'[g] = "closed" <=> at[g] = "closed"
  PROVE  AtomicStep
<1>1. [g \in Fiber |-> Pending(g)]' = [g \in Fiber |-> Pending(g)]
  OBVIOUS
<1>2. {g \in Fiber : at[g] = "closed"}' = {g \in Fiber : at[g] = "closed"}
  OBVIOUS
<1> QED  BY Zenon, <1>1, <1>2 DEF AtomicStep, Abstract!atomicVars, Abstract!storeVars

\* A fiber that opens the store enters it.
LEMMA OpenAtomic ==
  ASSUME WellFormed, Inv, NEW f \in Fiber, Open(f)
  PROVE  AtomicStep
<1>1. at' = [at EXCEPT ![f] = "idle"] /\ db' = db /\ req' = req /\ conn' = conn
  BY Zenon DEF Open
<1>2. [g \in Fiber |-> Pending(g)]' = [g \in Fiber |-> Pending(g)]
  BY Zenon, <1>1, PendingKept
<1>3. {g \in Fiber : at[g] = "closed"}' = {g \in Fiber : at[g] = "closed"} \ {f}
  BY <1>1 DEF Inv, FieldsOK
<1>4. Abstract!Enter(f)
  BY Zenon, <1>1, <1>2, <1>3 DEF Abstract!Enter, Abstract!storeVars
<1> QED  BY Zenon, <1>4 DEF AtomicStep, Abstract!AtomicNext

\* The request of a change is that change, asked of the atomic store.
LEMMA AskAtomic ==
  ASSUME WellFormed, Inv, NEW f \in Fiber, Ask(f)
  PROVE  AtomicStep
<1>1. PICK r \in Request :
        /\ at[f] = "idle" /\ running[ThreadOf[f]] = None
        /\ IF r.op = "delete"
           THEN at' = [at EXCEPT ![f] = "failed"] /\ UNCHANGED <<req, running, conn>>
           ELSE /\ at' = [at EXCEPT ![f] = "waiting"]
                /\ req' = [req EXCEPT ![f] = r]
                /\ running' = [running EXCEPT ![ThreadOf[f]] = f]
                /\ conn' = [conn EXCEPT ![ThreadOf[f]] =
                             [in |-> Append(@.in, [fiber |-> f, req |-> r]), out |-> @.out]]
        /\ db' = db
  BY Zenon DEF Ask, MayRun
<1>2. PICK t \in Thread : t = ThreadOf[f] /\ conn[t] = [in |-> <<>>, out |-> <<>>]
  BY Zenon, <1>1, OfThread
<1>3. FieldsOK
  BY Zenon DEF Inv
<1>4. \A g \in Fiber : at'[g] = "closed" <=> at[g] = "closed"
  <2>1. PICK x \in {"failed", "waiting"} : at' = [at EXCEPT ![f] = x]
    BY <1>1
  <2> QED  BY <1>1, <1>3, <2>1 DEF FieldsOK
<1>5. CASE r.op = "delete"
  <2>1. req' = req /\ conn' = conn
    BY Zenon, <1>1, <1>5
  <2> QED  BY Zenon, <1>1, <1>4, <2>1, PendingKept, Unseen
<1>6. CASE r.op # "delete"
  <2>1. req' = [req EXCEPT ![f] = r]
        /\ conn' = [conn EXCEPT ![t] = [in |-> Append(@.in, [fiber |-> f, req |-> r]), out |-> @.out]]
    BY Zenon, <1>1, <1>2, <1>6
  <2>2. conn' = [conn EXCEPT ![t] = [in |-> <<[fiber |-> f, req |-> r]>>, out |-> <<>>]]
    BY <1>2, <2>1
  <2>3. /\ conn'[t].in = <<[fiber |-> f, req |-> r]>> /\ conn[t].in = <<>>
        /\ \A u \in Thread : u # t => conn'[u] = conn[u]
    BY <1>2, <1>3, <2>2 DEF FieldsOK
  <2>4. req'[f] = r /\ \A g \in Fiber : g # f => req'[g] = req[g]
    BY <1>3, <2>1 DEF FieldsOK
  <2>5. \A g \in Fiber : g # f => Pending(g)' = Pending(g)
    <3>1. ASSUME NEW g \in Fiber, g # f, ThreadOf[g] = t PROVE Pending(g)' = None /\ Pending(g) = None
      <4>1. Pending(g)' = Unhandled(<<[fiber |-> f, req |-> r]>>, g, req'[g])
        BY Zenon, <2>3, <3>1 DEF Pending
      <4>2. Pending(g) = Unhandled(<<>>, g, req[g])
        BY Zenon, <2>3, <3>1 DEF Pending
      <4> QED  BY Zenon, <3>1, <4>1, <4>2, UnhandledIs
    <3>2. ASSUME NEW g \in Fiber, g # f, ThreadOf[g] # t PROVE Pending(g)' = Pending(g)
      <4>1. ThreadOf[g] \in Thread
        BY DEF Thread
      <4> QED  BY Zenon, <2>3, <2>4, <3>2, <4>1, PendingKept
    <3> QED  BY Zenon, <3>1, <3>2
  <2>6. /\ Pending(f) = None
        /\ Pending(f)' = IF r.op \in {"put", "set", "invalidate"} THEN r ELSE None
    <3>1. Pending(f)' = Unhandled(<<[fiber |-> f, req |-> r]>>, f, r)
      BY Zenon, <1>2, <2>3, <2>4 DEF Pending
    <3>2. Pending(f) = Unhandled(<<>>, f, req[f])
      BY Zenon, <1>2, <2>3 DEF Pending
    <3> QED  BY ZenonT(60), <3>1, <3>2, UnhandledIs
  <2>7. CASE r.op \notin {"put", "set", "invalidate"}
    BY Zenon, <1>1, <1>4, <2>5, <2>6, <2>7, Unseen
  <2>8. CASE r.op \in {"put", "set", "invalidate"}
    <3>1. r \in Abstract!Request
      BY <2>8 DEF Request, Name, Abstract!Request, Abstract!Name
    <3>2. [g \in Fiber |-> Pending(g)]' = [[g \in Fiber |-> Pending(g)] EXCEPT ![f] = r]
      BY Zenon, <2>5, <2>6, <2>8, PendingChange
    <3>3. {g \in Fiber : at[g] = "closed"}' = {g \in Fiber : at[g] = "closed"}
      BY <1>4
    <3>4. f \notin {g \in Fiber : at[g] = "closed"}
      BY <1>1
    <3>5. Abstract!AskWhole(f, r)
      BY Zenon, <1>1, <2>6, <3>2, <3>3, <3>4 DEF Abstract!AskWhole
    <3> QED  BY Zenon, <3>1, <3>5 DEF AtomicStep, Abstract!AtomicNext
  <2> QED  BY Zenon, <2>7, <2>8
<1> QED  BY Zenon, <1>5, <1>6

\* The server makes the change that was asked, whole, or none.
LEMMA HandleAtomic ==
  ASSUME WellFormed, Inv, NEW t \in Thread, Handle(t)
  PROVE  AtomicStep
<1>1. PICK f \in Fiber :
        /\ running[t] = f /\ ThreadOf[f] = t /\ req[f] \in Request /\ req[f].op # "delete"
        /\ conn[t].in = <<[fiber |-> f, req |-> req[f]]>> /\ conn'[t].in = <<>>
        /\ db' = Effect(db, req[f])
  BY Zenon, HandleInv
<1>2. PICK r \in Request : r = req[f] /\ r.op # "delete" /\ db' = Effect(db, r)
  BY Zenon, <1>1
<1>3. /\ at' = at /\ req' = req
      /\ \E x : conn' = [conn EXCEPT ![t] = x]
  BY Zenon DEF Handle
<1>4. FieldsOK /\ StoreOK
  BY Zenon DEF Inv
<1>5. \A u \in Thread : u # t => conn'[u] = conn[u]
  BY <1>3, <1>4 DEF FieldsOK
<1>6. \A g \in Fiber : g # f => Pending(g)' = Pending(g)
  <2>1. ASSUME NEW g \in Fiber, g # f, ThreadOf[g] = t PROVE Pending(g)' = Pending(g)
    <3>1. Pending(g)' = Unhandled(<<>>, g, req'[g])
      BY Zenon, <1>1, <2>1 DEF Pending
    <3>2. Pending(g) = Unhandled(<<[fiber |-> f, req |-> req[f]]>>, g, req[g])
      BY Zenon, <1>1, <2>1 DEF Pending
    <3> QED  BY Zenon, <2>1, <3>1, <3>2, UnhandledIs
  <2>2. ASSUME NEW g \in Fiber, ThreadOf[g] # t PROVE Pending(g)' = Pending(g)
    <3>1. ThreadOf[g] \in Thread
      BY DEF Thread
    <3> QED  BY Zenon, <1>3, <1>5, <2>2, <3>1, PendingKept
  <2> QED  BY Zenon, <2>1, <2>2
<1>7. /\ Pending(f)' = None
      /\ Pending(f) = IF r.op \in {"put", "set", "invalidate"} THEN r ELSE None
  <2>1. Pending(f)' = Unhandled(<<>>, f, req'[f])
    BY Zenon, <1>1 DEF Pending
  <2>2. Pending(f) = Unhandled(<<[fiber |-> f, req |-> r]>>, f, r)
    BY Zenon, <1>1, <1>2 DEF Pending
  <2> QED  BY ZenonT(60), <2>1, <2>2, UnhandledIs
<1>8. /\ r.op = "put" => db'.blocks = db.blocks \cup {r.name} /\ db'.names = db.names
      /\ r.op = "set" => db'.blocks = db.blocks /\ db'.names = [db.names EXCEPT ![r.name] = r.ref]
      /\ r.op = "invalidate" =>
           /\ db'.blocks = db.blocks
           /\ db'.names = [n \in Name |-> IF n \in eachCall(db, r.name) THEN None ELSE db.names[n]]
  BY Zenon, <1>2, <1>4, EffectTyped
<1>9. /\ [g \in Fiber |-> Pending(g)]' = [[g \in Fiber |-> Pending(g)] EXCEPT ![f] = None]
      /\ {g \in Fiber : at[g] = "closed"}' = {g \in Fiber : at[g] = "closed"}
  BY Zenon, <1>3, <1>6, <1>7, PendingChange
<1>10. r.op \in {"put", "set", "invalidate"} =>
         [g \in Fiber |-> Pending(g)][f] = r /\ r # None
  <2>1. None \notin Request
    BY Zenon DEF WellFormed
  <2> QED  BY Zenon, <1>7, <2>1
<1>11. CASE r.op = "put"
  <2>1. r.op \in {"put", "set", "invalidate"}
    BY <1>11
  <2>2. Abstract!TakeWhole(f)
    BY Zenon, <1>8, <1>9, <1>10, <1>11, <2>1 DEF Abstract!TakeWhole, Abstract!Take
  <2> QED  BY Zenon, <2>2 DEF AtomicStep, Abstract!AtomicNext
<1>12. CASE r.op = "set"
  <2>1. r.op \in {"put", "set", "invalidate"} /\ r.op \in {"set", "delete"}
    BY <1>12
  <2>2. Abstract!TakeWhole(f)
    BY Zenon, <1>8, <1>9, <1>10, <1>12, <2>1 DEF Abstract!TakeWhole, Abstract!Take
  <2> QED  BY Zenon, <2>2 DEF AtomicStep, Abstract!AtomicNext
<1>13. CASE r.op = "invalidate"
  <2>1. r.op \in {"put", "set", "invalidate"}
    BY <1>13
  <2>2. Abstract!CallsOf(r.name) = eachCall(db, r.name) /\ Abstract!Name = Name
    BY DEF Abstract!CallsOf, Abstract!Name, eachCall, Name
  <2>3. PICK x : x = [g \in Fiber |-> Pending(g)][f] /\ x = r
    BY Zenon, <1>10, <2>1
  <2>4. db'.names = [n \in Abstract!Name |-> IF n \in Abstract!CallsOf(x.name) THEN None ELSE db.names[n]]
    <3>1. db'.names = [n \in Name |-> IF n \in eachCall(db, r.name) THEN None ELSE db.names[n]]
      BY Zenon, <1>8, <1>13
    <3> QED  BY ZenonT(60), <2>2, <2>3, <3>1
  <2>5. Abstract!TakeInvalidate(f)
    BY Zenon, <1>8, <1>9, <1>10, <1>13, <2>1, <2>3, <2>4 DEF Abstract!TakeInvalidate
  <2> QED  BY Zenon, <2>5 DEF AtomicStep, Abstract!AtomicNext
<1>14. CASE r.op \notin {"put", "set", "invalidate"}
  <2>1. db' = db
    BY <1>2, <1>14 DEF Effect
  <2>2. \A g \in Fiber : Pending(g)' = Pending(g)
    BY Zenon, <1>6, <1>7, <1>14
  <2> QED  BY Zenon, <1>3, <2>1, <2>2, Unseen
<1> QED  BY Zenon, <1>11, <1>12, <1>13, <1>14

\* A response that is read changes nothing more.
LEMMA ReadAtomic ==
  ASSUME WellFormed, Inv, NEW f \in Fiber, Read(f)
  PROVE  AtomicStep
<1>1. db' = db /\ at[f] = "waiting"
  BY Zenon DEF Read
<1>2. /\ at'[f] = "idle" /\ \A g \in Fiber : g # f => at'[g] = at[g] /\ req'[g] = req[g]
      /\ conn[ThreadOf[f]].in = <<>> /\ conn'[ThreadOf[f]].in = <<>>
      /\ \A u \in Thread : u # ThreadOf[f] => conn'[u] = conn[u]
  BY Zenon, ReadInv
<1>3. \A g \in Fiber : at'[g] = "closed" <=> at[g] = "closed"
  BY <1>1, <1>2
<1>4. ASSUME NEW g \in Fiber PROVE Pending(g)' = Pending(g)
  <2>1. CASE ThreadOf[g] = ThreadOf[f]
    <3>1. Pending(g)' = Unhandled(<<>>, g, req'[g]) /\ Pending(g) = Unhandled(<<>>, g, req[g])
      BY Zenon, <1>2, <2>1 DEF Pending
    <3> QED  BY Zenon, <3>1, UnhandledIs
  <2>2. CASE ThreadOf[g] # ThreadOf[f]
    <3>1. ThreadOf[g] \in Thread
      BY DEF Thread
    <3> QED  BY Zenon, <1>2, <2>2, <3>1, PendingKept
  <2> QED  BY Zenon, <2>1, <2>2
<1> QED  BY Zenon, <1>1, <1>3, <1>4, Unseen

\* A process that ends leaves its request to be handled.
LEMMA DieAtomic ==
  ASSUME WellFormed, Inv, NEW t \in Thread, Die(t)
  PROVE  AtomicStep
<1>1. /\ at' = [f \in Fiber |-> IF ThreadOf[f] = t /\ at[f] # "closed" THEN "dead" ELSE at[f]]
      /\ db' = db /\ req' = req /\ conn' = conn
  BY Zenon DEF Die
<1>2. \A g \in Fiber : at'[g] = "closed" <=> at[g] = "closed"
  BY <1>1
<1> QED  BY Zenon, <1>1, <1>2, PendingKept, Unseen

\* Only with the connection is a request lost.
LEMMA LoseAtomic ==
  ASSUME WellFormed, Inv, NEW f \in Fiber, Lose(f)
  PROVE  AtomicStep
<1>1. PICK t \in Thread :
        /\ t = ThreadOf[f] /\ db' = db
        /\ at' = [at EXCEPT ![f] = "closed"] /\ req' = [req EXCEPT ![f] = None]
        /\ req[f] # None => conn' = [conn EXCEPT ![t] = [in |-> <<>>, out |-> <<>>]]
        /\ req[f] = None => conn' = conn
  BY Zenon, OfThread DEF Lose
<1>2. FieldsOK
  BY Zenon DEF Inv
<1>3. req'[f] = None /\ \A g \in Fiber : g # f => req'[g] = req[g]
  BY <1>1, <1>2 DEF FieldsOK
<1>4. {g \in Fiber : at[g] = "closed"}' = {g \in Fiber : at[g] = "closed"} \cup {f}
  BY <1>1, <1>2 DEF FieldsOK
<1>5. Pending(f)' = None
  BY Zenon, <1>3 DEF Pending, Unhandled
<1>6. ASSUME NEW g \in Fiber, g # f PROVE Pending(g)' = Pending(g)
  <2>1. CASE req[f] = None \/ ThreadOf[g] # t
    <3>1. conn'[ThreadOf[g]] = conn[ThreadOf[g]]
      <4>1. ThreadOf[g] \in Thread
        BY DEF Thread
      <4> QED  BY <1>1, <1>2, <2>1, <4>1 DEF FieldsOK
    <3> QED  BY Zenon, <1>3, <1>6, <3>1, PendingKept
  <2>2. CASE req[f] # None /\ ThreadOf[g] = t
    <3>1. running[t] = f /\ running[t] # g
      BY Zenon, <1>1, <1>6, <2>2, OfThread
    <3>2. req[g] = None
      BY Zenon, <2>2, <3>1 DEF Inv, FibersOK
    <3> QED  BY Zenon, <1>3, <1>6, <3>2 DEF Pending, Unhandled
  <2> QED  BY Zenon, <2>1, <2>2
<1>7. [g \in Fiber |-> Pending(g)]' = [[g \in Fiber |-> Pending(g)] EXCEPT ![f] = None]
  BY Zenon, <1>5, <1>6, PendingChange
<1>8. Abstract!Die(f)
  BY Zenon, <1>1, <1>4, <1>7 DEF Abstract!Die
<1> QED  BY Zenon, <1>8 DEF AtomicStep, Abstract!AtomicNext

\* Every put, set and call_invalidate of a remote store takes effect once and whole,
\* between the request and its response or after the client's death; a lost connection
\* loses only what was not handled.
THEOREM RemoteStoreIsAtomic == WellFormed /\ Spec => Abstract!AtomicSpec
<1>1. WellFormed /\ Init => Abstract!AtomicInit
  <2> SUFFICES ASSUME WellFormed, Init PROVE Abstract!AtomicInit
    BY Zenon
  <2>1. \A f \in Fiber : req[f] = None /\ at[f] = "closed"
    BY DEF Init
  <2>2. \A f \in Fiber : Pending(f) = None
    BY Zenon, <2>1 DEF Pending, Unhandled
  <2>3. db.blocks = {} /\ db.names = [n \in Name |-> None] /\ Abstract!Name = Name
    BY DEF Init, Name, Abstract!Name
  <2>4. {f \in Fiber : at[f] = "closed"} = Fiber
    BY <2>1
  <2>5. [f \in Fiber |-> Pending(f)] = [f \in Fiber |-> None]
    BY Zenon, <2>2
  <2> QED  BY Zenon, <2>3, <2>4, <2>5 DEF Abstract!AtomicInit, Abstract!StoreInit
<1>2. WellFormed /\ Inv /\ [Next]_vars => [Abstract!AtomicNext]_Abstract!atomicVars
  <2> SUFFICES ASSUME WellFormed, Inv, [Next]_vars PROVE AtomicStep
    BY Zenon DEF AtomicStep
  <2>1. ASSUME NEW f \in Fiber, Open(f) \/ Ask(f) \/ Read(f) \/ Lose(f) PROVE AtomicStep
    BY Zenon, <2>1, OpenAtomic, AskAtomic, ReadAtomic, LoseAtomic
  <2>2. ASSUME NEW t \in Thread, Handle(t) \/ Die(t) PROVE AtomicStep
    BY Zenon, <2>2, HandleAtomic, DieAtomic
  <2>3. CASE UNCHANGED vars
    <3>1. db' = db /\ at' = at /\ req' = req /\ conn' = conn
      BY Zenon, <2>3 DEF vars
    <3> QED  BY Zenon, <3>1, PendingKept, Unseen
  <2> QED  BY Zenon, <2>1, <2>2, <2>3 DEF Next
<1> QED  BY <1>1, <1>2, ConnectionInvariant, PTL DEF Spec, Abstract!AtomicSpec

=============================================================================

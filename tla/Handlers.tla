------------------------------ MODULE Handlers ------------------------------
(***************************************************************************)
(* What the server answers a request with and does to its store            *)
(* (memodb/lib/Server.cpp, Request.cpp, HTTP.cpp).  Every handler makes at *)
(* most one call of the store, so a request is one function of the store's *)
(* contents: db.blocks are the blocks stored and db.names what each head   *)
(* and call is set to, or None.  Evaluation and workers are in Server.     *)
(*                                                                         *)
(* A request is [method, path, depth, accept, tags, ctype, body]: path is  *)
(* the URI's sequence of segments or None, tags what If-None-Match lists.  *)
(* A body is None, "invalid" for its content type, <<"node", c>>, the node *)
(* of the CID c, or <<"link", c>>, a node that is a link to c.             *)
(***************************************************************************)
EXTENDS Integers, Sequences

CONSTANTS
  HeadName, Func,  \* names
  Call,        \* pairs of a func and its arguments, a sequence of CIDs
  Block,       \* CIDs of nodes that need a block
  Identity,    \* CIDs that contain their node
  Links,       \* the CIDs in each node
  Bytes,       \* the CIDs of byte strings
  Raw,         \* the CID of the byte string that a body is
  ErrorForm,   \* what each Accept header makes the content type of an error
  NodeForm,    \* and that of a node, which may be a byte string: see Negotiation
  BadText,     \* a path segment that is no CID
  None

CID == Block \cup Identity
Name == HeadName \cup Call

\* What the store's functions return.
getOptional(db, c) == c \in Identity \cup db.blocks
list_names_using(db, c) ==
  {b \in db.blocks : c \in Links[b]} \cup {n \in Name : db.names[n] = c} \cup
  {n \in Call : db.names[n] # None /\ \E i \in 1 .. Len(n[2]) : n[2][i] = c}
eachCall(db, func) == {c \in Call : c[1] = func /\ db.names[c] # None}
list_funcs(db) == {c[1] : c \in {n \in Call : db.names[n] # None}}

put(db, c) == [db EXCEPT !.blocks = @ \cup ({c} \cap Block)]
set(db, name, ref) == [db EXCEPT !.names[name] = ref]
\* Mutant: the heads go too.
call_invalidateAll(db, func) == [db EXCEPT !.names = [n \in Name |-> None]]

call_invalidate(db, func) ==
  [db EXCEPT !.names = [n \in Name |-> IF n \in eachCall(db, func) THEN None ELSE @[n]]]

-----------------------------------------------------------------------------
(* Responses: [status, cache, etag, type, body, location] *)

Response(status, cache) ==
  [status |-> status, cache |-> cache, etag |-> None, type |-> None, body |-> None, location |-> None]

\* Of an error, and of content, Delivered chooses the form below.
sendError(status) == [Response(status, "Ephemeral") EXCEPT !.type = "error"]
sendMethodNotAllowed == [Response(405, "Mutable") EXCEPT !.type = "error"]
sendContent(content, cache) == [Response(200, cache) EXCEPT !.body = content]
sendCreated(path) == [Response(201, "Ephemeral") EXCEPT !.location = path]
sendDeleted == Response(204, "Ephemeral")
\* The process ends.
NoResponse == Response(0, None)

\* A link in JSON, with what it leads to down to a depth: CustomJSONEncoder.
JSONLink(c, depth) ==
  LET tree[d \in 0 .. depth] ==
        [x \in CID |-> IF d = 0 THEN <<"cid", x>> ELSE <<"in", x, {tree[d - 1][l] : l \in Links[x]}>>]
  IN  tree[depth][c]

\* The nodes that it reads from the store.
Followed(content, depth) ==
  LET next(S) == UNION {Links[c] : c \in S}
      at[d \in 0 .. depth] ==
        IF d > 0 THEN next(at[d - 1])
        ELSE IF content[1] = "link" THEN {content[2]} ELSE IF content[1] = "node" THEN Links[content[2]] ELSE {}
  IN  UNION {at[d] : d \in 0 .. depth - 1}

\* The body for a node: <<"node", c>>, <<"link", c>> or <<"uris", set of paths>>.
Body(type, content, depth) ==
  CASE type = "JSON" /\ content[1] = "link" -> <<type, JSONLink(content[2], depth)>>
    [] type = "JSON" /\ content[1] = "node" -> <<type, <<content[2], {JSONLink(l, depth) : l \in Links[content[2]]}>>>>
    [] OTHER -> <<type, content>>

ContentType(req, content) ==
  NodeForm[req.accept][content[1] = "node" /\ content[2] \in Bytes]

\* Mutant: the tag does not depend on the content type.
ETagUntyped(type, hashed) == <<"any", hashed>>

\* The tag is the content type plus a hash, of the CID if it is known and else of the
\* body; equal hashes of different things are left out.
ETag(type, hashed) == <<type, hashed>>

Hashed(content, body) == IF content[1] = "node" THEN content[2] ELSE body

\* sendContentNode and sendContentURIs, with sendETag and sendContent.
sendContentAs(type, db, req, content, cache) ==
  LET body == Body(type, content, req.depth)
      etag == ETag(type, Hashed(content, body))
      lost == type = "JSON" /\ ~\A c \in Followed(content, req.depth) : getOptional(db, c)
  IN  IF content[1] # "node" /\ lost THEN NoResponse
      ELSE IF etag \in req.tags THEN [Response(304, cache) EXCEPT !.etag = etag]
      ELSE IF lost THEN NoResponse
      ELSE [status |-> 200, cache |-> cache, etag |-> etag, type |-> type, body |-> body, location |-> None]
sendContentNode(db, req, content, cache) ==
  sendContentAs(ContentType(req, content), db, req, content, cache)

\* A handler's response on its way: the Accept header chooses its form.
Delivered(req, done) ==
  LET sent == done.response IN
  [done EXCEPT !.response =
     IF sent.type = "error" THEN [sent EXCEPT !.type = ErrorForm[req.accept]]
     ELSE IF sent.status = 200 THEN sendContentNode(done.db, req, sent.body, sent.cache) ELSE sent]

-----------------------------------------------------------------------------
(* Handlers: the response, and the store after it *)

Done(db, response) == [db |-> db, response |-> response]

\* getContentNode: a node, or an error.
BadBody(req) ==
  CASE req.body = None -> 400
    [] req.body # None /\ req.ctype \in {"cbor", "json"} -> IF req.body[1] = "invalid" THEN 400 ELSE 0
    [] req.body # None /\ req.ctype = "octet" -> 0
    [] OTHER -> 415
ContentNode(req) == IF req.ctype = "octet" THEN <<"node", Raw[req.body]>> ELSE req.body

\* The CID of a node: a link is an identity CID of its own that Links leads from.
CIDOf(node) == IF node[1] = "node" THEN node[2] ELSE CHOOSE c \in Identity : Links[c] = {node[2]}

\* The caching of answers that depend on the store.
Mutable == "Mutable"

handleRequestCID(db, req) ==
  LET path == req.path
      cid == path[2]
  IN  IF Len(path) = 1
      THEN CASE req.method # "POST" -> Done(db, sendMethodNotAllowed)
             [] req.method = "POST" /\ BadBody(req) # 0 -> Done(db, sendError(BadBody(req)))
             [] OTHER -> LET c == CIDOf(ContentNode(req)) IN Done(put(db, c), sendCreated(<<"cid", c>>))
      ELSE CASE req.method # "GET" -> Done(db, sendMethodNotAllowed)
             [] req.method = "GET" /\ cid = BadText -> Done(db, sendError(400))
             [] req.method = "GET" /\ cid # BadText /\ Len(path) = 3 ->
                  IF path[3] = "users" THEN Done(db, sendContent(<<"uris", list_names_using(db, cid)>>, Mutable))
                  ELSE Done(db, sendError(404))
             [] OTHER -> IF getOptional(db, cid) THEN Done(db, sendContent(<<"node", cid>>, "Immutable"))
                         ELSE Done(db, sendError(404))

\* GET and PUT of a head or call; a call's PUT goes on in handleCallResult.
Resolve(db, req, name) ==
  IF db.names[name] = None THEN Done(db, sendError(404))
  ELSE Done(db, sendContent(<<"link", db.names[name]>>, Mutable))

NotACID(node) == node[1] # "link"

Assign(db, req, name) ==
  CASE BadBody(req) # 0 -> Done(db, sendError(BadBody(req)))
    [] BadBody(req) = 0 /\ NotACID(ContentNode(req)) -> Done(db, sendError(400))
    [] OTHER -> Done(set(db, name, ContentNode(req)[2]), sendCreated(None))

handleRequestHead(db, req) ==
  LET head == req.path[2] IN
  IF Len(req.path) = 1
  THEN IF req.method = "GET" THEN Done(db, sendContent(<<"uris", {h \in HeadName : db.names[h] # None}>>, Mutable))
       ELSE Done(db, sendMethodNotAllowed)
  ELSE CASE req.method = "GET" /\ head \in HeadName -> Resolve(db, req, head)
         [] req.method = "GET" /\ head \notin HeadName -> Done(db, sendError(404))
         [] req.method = "PUT" -> IF head \in HeadName THEN Assign(db, req, head) ELSE Done(db, sendError(400))
         [] OTHER -> Done(db, sendMethodNotAllowed)

handleRequestCall(db, req) ==
  LET path == req.path
      func == path[2]
      call == <<func, path[3]>>
  IN  CASE Len(path) = 1 ->
             IF req.method = "GET" THEN Done(db, sendContent(<<"uris", list_funcs(db)>>, Mutable))
             ELSE Done(db, sendMethodNotAllowed)
        [] Len(path) > 1 /\ func \notin Func -> Done(db, sendError(400))
        [] Len(path) = 2 /\ func \in Func ->
             (CASE req.method = "GET" -> Done(db, sendContent(<<"uris", eachCall(db, func)>>, Mutable))
                [] req.method = "DELETE" -> Done(call_invalidate(db, func), sendDeleted)
                [] OTHER -> Done(db, sendMethodNotAllowed))
        [] Len(path) > 2 /\ func \in Func /\ path[3] = BadText -> Done(db, sendError(400))
        [] Len(path) = 3 /\ func \in Func /\ path[3] # BadText ->
             (CASE req.method = "GET" -> Resolve(db, req, call)
                [] req.method = "PUT" -> Assign(db, req, call)
                [] OTHER -> Done(db, sendMethodNotAllowed))
        [] OTHER -> Done(db, IF path[4] # "evaluate" THEN sendError(404) ELSE sendMethodNotAllowed)

\* Whether handleNewRequest leads to evaluation or to a worker's job, which Server models.
ForServer(req) ==
  /\ req.path # None /\ req.method = "POST"
  /\ \/ req.path = <<"worker">>
     \/ Len(req.path) = 4 /\ req.path[1] = "call" /\ req.path[4] = "evaluate"

Handled(db, req) ==
  CASE req.method = None -> Done(db, sendError(501))
    [] req.method # None /\ req.path = None -> Done(db, sendError(400))
    [] OTHER ->
         LET path == req.path
             is(first, most) == path # <<>> /\ path[1] = first /\ Len(path) <= most
         IN  CASE is("cid", 3) -> handleRequestCID(db, req)
               [] is("head", 2) -> handleRequestHead(db, req)
               [] is("call", 4) -> handleRequestCall(db, req)
               [] is("worker", 1) -> Done(db, sendMethodNotAllowed)
               [] OTHER -> Done(db, sendError(404))

handleNewRequest(db, req) == Delivered(req, Handled(db, req))

=============================================================================

------------------------------ MODULE WebCache ------------------------------
(***************************************************************************)
(* A client of the server that keeps responses: it asks for a URI with the *)
(* tags of what it holds for it, as docs/rest-api.md says clients can use  *)
(* If-None-Match, ETag and Cache-Control, while other clients change the   *)
(* store.                                                                  *)
(***************************************************************************)
EXTENDS Handlers, FiniteSets

CONSTANTS
  Gets,     \* requests without tags of the caching client
  Changes,  \* requests of the others, and requests that fail
  MaxCache  \* bound on the responses kept

VARIABLES
  db,    \* the store
  cache  \* responses kept, each with its request

vars == <<db, cache>>

Init ==
  /\ db = [blocks |-> {}, names |-> [n \in Name |-> None]]
  /\ cache = {}

Answer(req) == handleNewRequest(db, req).response

\* What the client holds for a URI.
HeldFor(req) == {e \in cache : e.req.path = req.path /\ e.req.depth = req.depth}

\* The request with the tags of what the client holds.
Tagged(req) == [req EXCEPT !.tags = {e.response.etag : e \in HeldFor(req)}]

\* The caching client asks, with or without the tags.
Get == \E req \in Gets : \E response \in {Answer(sent) : sent \in {req, Tagged(req)}} :
  /\ response.status = 200
  /\ cache' = cache \cup {[req |-> req, response |-> response]}
  /\ Cardinality(cache') <= MaxCache
  /\ UNCHANGED db

Change == \E req \in Changes :
  /\ db' = handleNewRequest(db, req).db
  /\ UNCHANGED cache

Next == Get \/ Change

Spec == Init /\ [][Next]_vars

-----------------------------------------------------------------------------
TypeOK ==
  /\ db.blocks \subseteq Block /\ db.names \in [Name -> CID \cup {None}]
  /\ \A e \in cache : e.response.status = 200 /\ e.req \in Gets

\* A 304 answer is only sent to a client that holds, for the same URI, the very body
\* and content type that a 200 answer would bring, whichever form it asked for before
\* and however often the store changed in between.
NotModifiedIsTrue ==
  \A req \in Gets : Answer(Tagged(req)).status = 304 =>
    \E response \in {Answer(req)}, e \in HeldFor(req) : response.status = 200 =>
      e.response.body = response.body /\ e.response.type = response.type

\* "max-age=604800, immutable": a response that may be kept for a week without asking
\* again is the one that the server would still send.
ImmutableStays ==
  \A e \in cache : e.response.cache = "Immutable" => Answer(e.req).body = e.response.body

\* The name in the path of a head or call.
NameIn(path) == IF path[1] = "head" THEN path[2] ELSE <<path[2], path[3]>>

\* Only a POST, PUT or DELETE that is answered by 201 or 204 changes the store, and
\* what the answer says is so: the node is at its Location, the name has the CID that
\* was sent, no call of the func is left.
AnswersAreTrue ==
  \A req \in Changes :
    \A done \in {handleNewRequest(db, req)} :
      LET after == done.db
          r == done.response
      IN  IF r.status \in {201, 204}
          THEN CASE req.method = "POST" -> getOptional(after, r.location[2])
                 [] req.method = "PUT" -> req.body[1] = "link" /\ after.names[NameIn(req.path)] = req.body[2]
                 [] req.method = "DELETE" -> eachCall(after, req.path[2]) = {}
                 [] OTHER -> FALSE
          ELSE after = db

=============================================================================

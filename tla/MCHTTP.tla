------------------------------- MODULE MCHTTP -------------------------------
(***************************************************************************)
(* The server seen from outside, one view per behaviour (part): a          *)
(* connection, the store of a program that uses the server, with two       *)
(* fibers of one thread or with two threads, the commands of two users,    *)
(* and a client with a cache.  Block b links to a, a byte string; i1 is a  *)
(* link to b.                                                              *)
(***************************************************************************)
EXTENDS HTTPSession

CONSTANTS
  a, b, i1, h, f, bad, f1, f2, u1, u2,
  None, HeadName, Func, Call, Links, Bytes, Raw, ErrorForm, NodeForm, BadText, Gets, Changes  \* of the modules

VARIABLES part, db, at, req, running, conn, result, ref, exit, told, cache

webVars == <<part, db, at, req, running, conn, result, ref, exit, told, cache>>

MCCall == {<<f, <<a>>>>}
MCLinks == [c \in {a, b, i1} |-> CASE c = b -> {a} [] c = i1 -> {b} [] OTHER -> {}]
MCRaw == [x \in {<<"node", a>>} |-> a]

Cbor == <<"application", "/", "cbor">>
Json == <<"application", "/", "json">>
Any == <<"*", "/", "*">>
Raw1 == <<"application", "/", "octet-stream", ",", "application", "/", "cbor", ";", "q", "=", "0", ".", "5">>
Html == <<"text", "/", "html">>
Accepts == {None, Cbor, Json, Any, Raw1, Html}

N == INSTANCE Negotiation WITH Headers <- {}, Tags <- {}, header <- None, tags <- None, chosen <- None

MCErrorForm == [accept \in Accepts |-> N!ErrorType(accept)]
MCNodeForm == [accept \in Accepts |-> [isBytes \in BOOLEAN |-> N!chooseNodeContentType(accept, isBytes)]]

Fibers == INSTANCE HTTPStore WITH Block <- {a, b}, Identity <- {},
  Fiber <- {f1, f2}, ThreadOf <- [x \in {f1, f2} |-> 1]

Threads == INSTANCE HTTPStore WITH Block <- {a}, Identity <- {},
  Fiber <- {f1, f2}, ThreadOf <- [x \in {f1, f2} |-> x]

ASSUME StoreAssumption == Fibers!WellFormed /\ Threads!WellFormed

Tool == INSTANCE MemoDBTool WITH Block <- {a}, Identity <- {},
  User <- {u1, u2}, Formats <- {"raw"}

Ask(method, path, depth, accept, ctype, body) ==
  [method |-> method, path |-> path, depth |-> depth, accept |-> accept, tags |-> {}, ctype |-> ctype, body |-> body]

MCGets ==
  {Ask("GET", path, 0, accept, None, None) :
     path \in {<<"cid", a>>, <<"cid", a, "users">>, <<"head", h>>}, accept \in {None, Raw1}} \cup
  {Ask("GET", path, 0, Html, None, None) : path \in {<<"head", h>>, <<"head">>, <<"call">>, <<"call", f>>}} \cup
  {Ask("GET", path, depth, Json, None, None) : path \in {<<"head", h>>, <<"cid", b>>}, depth \in 1 .. 2}

Changes1 ==
  {Ask("POST", <<"cid">>, 0, None, "cbor", <<"node", c>>) : c \in {a, b, i1}} \cup
  {Ask("POST", <<"cid">>, 0, None, ctype, <<"node", a>>) : ctype \in {"octet", "text"}} \cup
  {Ask("PUT", path, 0, Any, "json", body) :
     path \in {<<"head", h>>, <<"call", f, <<a>>>>}, body \in {<<"link", a>>, <<"link", b>>, <<"node", b>>, <<"invalid">>, None}} \cup
  {Ask("DELETE", <<"call", f>>, 0, None, None, None)} \cup
  {Ask(method, path, 0, Html, None, None) :
     method \in {None, "GET", "PUT", "POST", "DELETE"},
     path \in {None, <<>>, <<"cid">>, <<"cid", bad>>, <<"cid", a, "other">>, <<"cid", i1>>, <<"head">>, <<"head", "">>, <<"head", h>>,
               <<"call">>, <<"call", "">>, <<"call", f, bad>>, <<"call", f, <<a>>, "evaluate">>,
               <<"call", f, <<a>>, "other">>, <<"worker">>, <<"other">>, <<"cid", a, "users", "x">>}}

MCChanges == {r \in Changes1 : ~Fibers!ForServer(r)}

Web == INSTANCE WebCache WITH Block <- {a, b}, Identity <- {i1}, MaxCache <- 1

NoStore == at = None /\ req = None /\ conn = None /\ result = None
NoTool == ref = None /\ exit = None /\ told = None
NoCache == cache = None

HTTPInit ==
  /\ Init
  /\ \/ part = "session" /\ db = None /\ running = None /\ NoStore /\ NoTool /\ NoCache
     \/ part = "fibers" /\ Fibers!Init /\ NoTool /\ NoCache
     \/ part = "threads" /\ Threads!Init /\ NoTool /\ NoCache
     \/ part = "tool" /\ Tool!Init /\ NoStore /\ NoCache
     \/ part = "cache" /\ Web!Init /\ running = None /\ NoStore /\ NoTool

HTTPNext ==
  \/ part = "session" /\ Next /\ UNCHANGED webVars
  \/ part = "fibers" /\ Fibers!Next /\ UNCHANGED <<vars, part, ref, exit, told, cache>>
  \/ part = "threads" /\ Threads!Next /\ UNCHANGED <<vars, part, ref, exit, told, cache>>
  \/ part = "tool" /\ Tool!Next /\ UNCHANGED <<vars, part, at, req, conn, result, cache>>
  \/ part = "cache" /\ Web!Next /\ UNCHANGED <<vars, part, at, req, running, conn, result, ref, exit, told>>

HTTPSpec ==
  /\ HTTPInit /\ [][HTTPNext]_<<vars, webVars>>
  /\ WF_vars(part = "session" /\ OnAccept) /\ WF_vars(part = "session" /\ OnRead)
  /\ WF_vars(part = "session" /\ OnEnd) /\ WF_vars(part = "session" /\ OnWrite)

-----------------------------------------------------------------------------
\* An operation of a remote store returns what the server's own store gives at some
\* moment in between (HTTPStore!AnswersAsTheStore).
AnswersAsTheStore == (part = "fibers" => Fibers!AnswersAsTheStore) /\ (part = "threads" => Threads!AnswersAsTheStore)

\* Every change asked of a remote store happens once and whole, also when its client
\* dies (each step is one of the atomic store in Store), no operation but head_delete
\* ends the program, and a memodb command that fails changes no name
\* (HTTPStore!AtomicStep, NeverFatalStep, MemoDBTool!FailureStep).
EveryChangeOnce ==
  [][/\ part = "threads" => Threads!AtomicStep /\ Threads!NeverFatalStep
     /\ part = "fibers" => Fibers!NeverFatalStep
     /\ part = "tool" => Tool!FailureStep]_<<vars, webVars>>

\* What the server says is so: "not modified" only of what the client holds, "immutable"
\* only of what stays, "created" if and only if the change was made; and a name that a
\* user set leads to a node in the store, unless they gave its CID (WebCache!NotModifiedIsTrue,
\* ImmutableStays, AnswersAreTrue, MemoDBTool!NamesLeadSomewhere).
AnswersAreTrue ==
  /\ part = "cache" => Web!TypeOK /\ Web!NotModifiedIsTrue /\ Web!ImmutableStays /\ Web!AnswersAreTrue
  /\ part = "tool" => Tool!NamesLeadSomewhere

=============================================================================

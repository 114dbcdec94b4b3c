---------------------------- MODULE HTTPSession ----------------------------
(***************************************************************************)
(* A connection to memodb-server (HTTPSession and Listener in              *)
(* memodb/tools/memodb-server/memodb-server.cpp).  The client may send     *)
(* requests before it has the responses to earlier ones.  Boost completes  *)
(* an asynchronous read or write some time after it was started; a strand  *)
(* runs the completions of one connection one after the other.             *)
(***************************************************************************)
EXTENDS Integers, Sequences, SequenceTheorems, TLAPS

CONSTANTS
  limit,        \* responses that may be queued
  MaxRequests,  \* bound on the requests of the client
  Versions      \* the versions of HTTP clients use: 10 and 11

ASSUME SessionAssumption == limit \in Nat \ {0} /\ Versions \subseteq {10, 11}

VARIABLES
  sent,     \* the client's requests: [version]
  eof,      \* the client will not send any more
  taken,    \* how many requests were read
  reads,    \* async_reads that have not completed
  items,    \* Queue::items: the requests they answer
  writes,   \* async_writes that have not completed
  written,  \* the requests whose responses the client got
  shut,     \* the server has shut its side down
  broken,   \* a read or a write has failed
  accepted  \* the connection's async_accept has completed

vars == <<sent, eof, taken, reads, items, writes, written, shut, broken, accepted>>

Init ==
  /\ sent = <<>> /\ eof = FALSE /\ taken = 0
  /\ reads = 0 /\ items = <<>> /\ writes = 0 /\ written = <<>>
  /\ shut = FALSE /\ broken = FALSE
  /\ accepted = FALSE

\* onAccept and run: a session, and its first doRead; or an error, and no session.
OnAccept == \E ok \in BOOLEAN :
  /\ ~accepted /\ accepted' = TRUE
  /\ IF ok THEN reads' = 1 /\ UNCHANGED broken ELSE broken' = TRUE /\ UNCHANGED reads
  /\ UNCHANGED <<sent, eof, taken, items, writes, written, shut>>

Send == \E version \in Versions :
  /\ ~eof /\ Len(sent) < MaxRequests
  /\ sent' = Append(sent, [version |-> version])
  /\ UNCHANGED <<eof, taken, reads, items, writes, written, shut, broken, accepted>>

Finish ==
  /\ ~eof
  /\ eof' = TRUE
  /\ UNCHANGED <<sent, taken, reads, items, writes, written, shut, broken, accepted>>

-----------------------------------------------------------------------------
isFull(queue) == Len(queue) >= limit

Queued(queue, n) == Append(queue, n)

\* onRead: the handler responds before it returns; the response is queued, and
\* written if it is alone.
OnRead ==
  /\ reads > 0 /\ taken < Len(sent)
  /\ taken' = taken + 1
  /\ items' = Queued(items, taken + 1)
  /\ writes' = IF Len(items') = 1 THEN writes + 1 ELSE writes
  /\ reads' = IF isFull(items') THEN reads - 1 ELSE reads - 1 + 1
  /\ UNCHANGED <<sent, eof, written, shut, broken, accepted>>

\* onRead at the end of the stream: doClose.
OnEnd ==
  /\ reads > 0 /\ taken = Len(sent) /\ eof
  /\ reads' = reads - 1
  /\ shut' = TRUE
  /\ UNCHANGED <<sent, eof, taken, items, writes, written, broken, accepted>>

\* onRead or onWrite with an error.
OnError ==
  /\ \/ reads > 0 /\ reads' = reads - 1 /\ UNCHANGED writes
     \/ writes > 0 /\ writes' = writes - 1 /\ UNCHANGED reads
  /\ broken' = TRUE
  /\ UNCHANGED <<sent, eof, taken, items, written, shut, accepted>>

\* msg.need_eof: the response has the request's version and no Connection field.
NeedEOF(n) == sent[n].version = 10

\* Mutant: the session reads again after every write.
ReadsAgainAlways(was_full) == TRUE

\* Mutant: the queue is looked at after the response is removed.
ReadsAgainNever(was_full) == FALSE

ReadsAgain(was_full) == was_full

\* onWrite: the connection is closed, or the next response is written, and the session
\* reads again if the queue was full.
OnWrite ==
  /\ writes > 0 /\ ~shut
  /\ written' = Append(written, items[1])
  /\ IF NeedEOF(items[1])
     THEN shut' = TRUE /\ writes' = writes - 1 /\ UNCHANGED <<items, reads>>
     ELSE /\ items' = Tail(items)
          /\ writes' = IF items' # <<>> THEN writes ELSE writes - 1
          /\ reads' = IF ReadsAgain(isFull(items)) THEN reads + 1 ELSE reads
          /\ UNCHANGED shut
  /\ UNCHANGED <<sent, eof, taken, broken, accepted>>

Next == OnAccept \/ Send \/ Finish \/ OnRead \/ OnEnd \/ OnError \/ OnWrite

\* Completions come: the threads of the server run the io_context for ever.
Spec == Init /\ [][Next]_vars /\ WF_vars(OnAccept) /\ WF_vars(OnRead) /\ WF_vars(OnEnd) /\ WF_vars(OnWrite)

-----------------------------------------------------------------------------
\* The session never has two reads or two writes of its stream under way, which Boost
\* does not allow, and never queues more than its limit.
OneAtATime == reads <= 1 /\ writes <= 1 /\ Len(items) <= limit

\* Responses come in the order of the requests, each once, however far ahead the
\* client sends.
InOrder == \A k \in 1 .. Len(written) : written[k] = k

\* However many requests a client sends ahead, the stream is used by one read and one
\* write, and the responses are those of the requests, in order and each once.
AnsweredInOrder == OneAtATime /\ InOrder

\* A client that goes on using HTTP/1.1 without ending gets the response to every
\* request, also to those it sent while the queue was full, unless the network fails.
EveryRequestAnswered ==
  \A n \in 1 .. MaxRequests :
    Len(sent) >= n ~> Len(written) >= n \/ eof \/ broken \/ \E k \in 1 .. Len(sent) : sent[k].version = 10

-----------------------------------------------------------------------------
(* Proofs *)

TypeOK ==
  /\ taken \in Nat /\ reads \in Nat /\ writes \in Nat
  /\ items \in Seq(Nat) /\ written \in Seq(Nat)

\* A read is under way only while the queue has room, a write only while it has a
\* response, and neither before the connection is accepted.
OnlyWithRoom ==
  /\ reads > 0 => Len(items) < limit
  /\ writes > 0 => items # <<>>
  /\ ~accepted => reads = 0 /\ items = <<>>

\* While responses are written, the queue has the requests that follow those
\* answered, as far as they were read.
QueueFollows ==
  ~shut => /\ taken = Len(written) + Len(items)
           /\ \A k \in 1 .. Len(items) : items[k] = Len(written) + k

Inv == TypeOK /\ OneAtATime /\ OnlyWithRoom /\ QueueFollows /\ InOrder

\* Every step of a connection keeps the invariant.
LEMMA InvStep == Inv /\ [Next]_vars => Inv'
<1> SUFFICES ASSUME Inv, [Next]_vars PROVE Inv'
  OBVIOUS
<1> USE SessionAssumption DEF Inv
<1>1. CASE OnAccept
  BY <1>1 DEF OnAccept, TypeOK, OneAtATime, OnlyWithRoom, QueueFollows, InOrder
<1>2. CASE Send
  BY <1>2 DEF Send, TypeOK, OneAtATime, OnlyWithRoom, QueueFollows, InOrder
<1>3. CASE Finish
  BY <1>3 DEF Finish, TypeOK, OneAtATime, OnlyWithRoom, QueueFollows, InOrder
<1>4. CASE OnRead
  <2>1. /\ items' \in Seq(Nat) /\ Len(items') = Len(items) + 1
        /\ \A k \in 1 .. Len(items) : items'[k] = items[k]
        /\ items'[Len(items) + 1] = taken + 1
    BY <1>4, AppendProperties DEF OnRead, Queued, TypeOK
  <2>2. TypeOK' /\ OneAtATime'
    BY <1>4, <2>1 DEF OnRead, isFull, TypeOK, OneAtATime, OnlyWithRoom
  <2>3. OnlyWithRoom'
    <3>1. accepted /\ accepted' = accepted
      BY <1>4 DEF OnRead, OnlyWithRoom, TypeOK
    <3>2. items' # <<>>
      BY <2>1 DEF TypeOK
    <3>3. reads' > 0 => Len(items') < limit
      BY <1>4, <2>1 DEF OnRead, isFull, TypeOK, OneAtATime
    <3> QED  BY <3>1, <3>2, <3>3 DEF OnlyWithRoom
  <2>4. written' = written /\ shut' = shut /\ taken' = taken + 1
    BY <1>4 DEF OnRead
  <2>5. QueueFollows'
    <3> SUFFICES ASSUME ~shut
                 PROVE  /\ taken' = Len(written) + Len(items')
                        /\ \A k \in 1 .. Len(items') : items'[k] = Len(written) + k
      BY <2>4 DEF QueueFollows
    <3>1. taken = Len(written) + Len(items) /\ \A k \in 1 .. Len(items) : items[k] = Len(written) + k
      BY DEF QueueFollows
    <3>2. taken' = Len(written) + Len(items')
      BY <2>1, <2>4, <3>1 DEF TypeOK
    <3>3. ASSUME NEW k \in 1 .. Len(items') PROVE items'[k] = Len(written) + k
      <4>1. k \in 1 .. Len(items) \/ k = Len(items) + 1
        BY <2>1 DEF TypeOK
      <4>2. CASE k \in 1 .. Len(items)
        BY <2>1, <3>1, <4>2
      <4>3. CASE k = Len(items) + 1
        <5>1. items'[k] = taken + 1
          BY <2>1, <4>3
        <5> QED  BY <3>1, <4>3, <5>1 DEF TypeOK
      <4> QED  BY <4>1, <4>2, <4>3
    <3> QED  BY <3>2, <3>3
  <2>6. InOrder'
    BY <2>4 DEF InOrder
  <2> QED  BY <2>2, <2>3, <2>5, <2>6
<1>5. CASE OnEnd
  BY <1>5 DEF OnEnd, TypeOK, OneAtATime, OnlyWithRoom, QueueFollows, InOrder
<1>6. CASE OnError
  BY <1>6 DEF OnError, TypeOK, OneAtATime, OnlyWithRoom, QueueFollows, InOrder
<1>7. CASE OnWrite
  <2>1. /\ writes = 1 /\ ~shut /\ items # <<>> /\ items[1] = Len(written) + 1
        /\ written' = Append(written, items[1]) /\ InOrder'
    BY <1>7 DEF OnWrite, TypeOK, OneAtATime, OnlyWithRoom, QueueFollows, InOrder
  <2>2. CASE NeedEOF(items[1])
    BY <1>7, <2>1, <2>2 DEF OnWrite, TypeOK, OneAtATime, OnlyWithRoom, QueueFollows
  <2>3. CASE ~NeedEOF(items[1])
    <3>0. items' = Tail(items)
      BY <1>7, <2>3 DEF OnWrite
    <3>1. /\ items' \in Seq(Nat) /\ Len(items') = Len(items) - 1
          /\ \A k \in 1 .. Len(items') : items'[k] = items[k + 1]
      BY <2>1, <3>0, HeadTailProperties DEF TypeOK
    <3>2. /\ reads' = IF isFull(items) THEN reads + 1 ELSE reads
          /\ writes' = IF items' # <<>> THEN writes ELSE writes - 1
          /\ taken' = taken /\ shut' = shut /\ accepted' = accepted
      BY <1>7, <2>3 DEF OnWrite, ReadsAgain
    <3>3. written' \in Seq(Nat) /\ Len(written') = Len(written) + 1
      BY <2>1 DEF TypeOK
    <3>4. TypeOK' /\ OneAtATime'
      BY <2>1, <3>1, <3>2, <3>3 DEF isFull, TypeOK, OneAtATime, OnlyWithRoom
    <3>5. reads' > 0 => Len(items') < limit
      BY <2>1, <3>1, <3>2 DEF isFull, TypeOK, OneAtATime
    <3>6. OnlyWithRoom'
      BY <2>1, <3>2, <3>5 DEF OnlyWithRoom
    <3>7. QueueFollows'
      BY <2>1, <3>1, <3>2, <3>3 DEF TypeOK, QueueFollows
    <3> QED  BY <2>1, <3>4, <3>6, <3>7
  <2> QED  BY <2>2, <2>3
<1>8. CASE UNCHANGED vars
  BY <1>8 DEF vars, TypeOK, OneAtATime, OnlyWithRoom, QueueFollows, InOrder
<1> QED
  BY <1>1, <1>2, <1>3, <1>4, <1>5, <1>6, <1>7, <1>8 DEF Next

\* The invariant holds in every state of a connection.
THEOREM SessionInvariant == Spec => []Inv
<1>1. Init => Inv
  BY SessionAssumption DEF Init, Inv, TypeOK, OneAtATime, OnlyWithRoom, QueueFollows, InOrder
<1> QED
  BY <1>1, InvStep, PTL DEF Spec

\* At most one read and one write are ever under way, the queue is never longer than its
\* limit, and responses come in the order of the requests, each once, for every limit
\* and every client.
THEOREM AnsweredInOrderHolds == Spec => []AnsweredInOrder
<1>1. Inv => AnsweredInOrder
  BY DEF Inv, AnsweredInOrder
<1> QED
  BY <1>1, SessionInvariant, PTL

=============================================================================

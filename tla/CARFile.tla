------------------------------ MODULE CARFile ------------------------------
(***************************************************************************)
(* CAR files (memodb/lib/CAR.cpp): memodb export walks a store, that other *)
(* processes may still change, and writes what it finds; a CARStore opens  *)
(* the file and answers from it.  The exporter may be killed anywhere, and *)
(* the reader may try the file at any time.  The file is the header's      *)
(* place, the padding's place, the blocks behind them, each standing for   *)
(* the CID it begins with, and last the root node.                         *)
(***************************************************************************)
EXTENDS Integers, FiniteSets, SequencesExt, SequenceTheorems, FiniteSetTheorems, WellFoundedInduction, TLAPS

CONSTANTS
  HeadName, Call,
  NameOf,    \* the func of each call
  Args,      \* the sequence of CIDs each call is applied to
  Block,     \* CIDs of nodes that need a block
  Identity,  \* CIDs that contain their node, no blocks
  Links,     \* the sequence of CIDs in each node
  Absent,    \* blocks the exported store does not have
  Base,      \* multibases a CID can be written in
  Chosen,    \* the names given on the command line; none for all
  MaxChange, \* bound on the changes others make to the store
  None

CID == Block \cup Identity
Name == HeadName \cup Call

\* A call is its func and its arguments, of which there is at least one.
WellFormed ==
  /\ IsFiniteSet(HeadName) /\ IsFiniteSet(Call) /\ MaxChange \in Nat
  /\ HeadName \cap Call = {} /\ CID \cap Name = {} /\ Block \cap Identity = {}
  /\ None \notin CID /\ Absent \subseteq Block
  /\ Links \in [CID -> Seq(CID)] /\ Chosen \in Seq(Name \cup CID)
  /\ Args \in [Call -> Seq(CID) \ {<<>>}]
  /\ \A m, n \in Call : NameOf[m] = NameOf[n] /\ Args[m] = Args[n] => m = n

VARIABLES
  names,    \* the heads and calls of the store that is exported
  changes,  \* how often others have changed them
  file,     \* whether header, padding and root node are written; the blocks
  todo,     \* names to export
  more,     \* the calls have yet to be listed
  stack,    \* CIDs that exportRef has to visit, next first
  written,  \* AlreadyWritten
  root,     \* the root node: its maps of heads and calls, and its ids
  base,     \* the exporter's -cid-base
  pc,       \* where the exporter is
  reader    \* a CARStore: not opened, open or failed; its BlockPositions and Root

store == <<names, changes>>
walk == <<todo, more, stack, written, root>>
vars == <<names, changes, file, todo, more, stack, written, root, base, pc, reader>>

\* Where a call is in the root node: its func's map, and the key there, which is the
\* call's CIDs written in base b.
Key(call, b) == <<NameOf[call], b, Args[call]>>

Present(f, x) == IF x \in DOMAIN f THEN f[x] ELSE None
With(f, x, v) == [y \in DOMAIN f \cup {x} |-> IF y = x THEN v ELSE f[y]]

Init ==
  /\ names \in [Name -> CID \cup {None}]
  /\ changes = 0
  /\ file = [header |-> FALSE, padding |-> FALSE, blocks |-> <<>>, rooted |-> FALSE]
  /\ todo = <<>> /\ more = FALSE /\ stack = <<>> /\ written = {}
  /\ root = [heads |-> <<>>, calls |-> <<>>, ids |-> {}]
  /\ base \in Base
  /\ pc = "start"
  /\ reader = [state |-> "none", positions |-> <<>>, root |-> root]

\* Another process sets or deletes a head, or sets or invalidates a call.
Change == \E n \in Name, c \in CID \cup {None} :
  /\ changes < MaxChange
  /\ names' = [names EXCEPT ![n] = c]
  /\ changes' = changes + 1
  /\ UNCHANGED <<file, walk, base, pc, reader>>

-----------------------------------------------------------------------------
(* exportToCARFile *)

\* The orders in which the store may list the names that are set.
Listings(S) ==
  LET set == {n \in S : names[n] # None}
  IN  {s \in [1 .. Cardinality(set) -> set] : ToSet(s) = set}

\* The names given, or the heads that eachHead finds.
Start ==
  /\ pc = "start"
  /\ todo' \in IF Chosen # <<>> THEN {Chosen} ELSE Listings(HeadName)
  /\ more' = (Chosen = <<>>)
  /\ pc' = "name"
  /\ UNCHANGED <<store, file, stack, written, root, base, reader>>

\* list_funcs and eachCall, when the heads are exported: the calls of every func at once,
\* where the code lists the next func's when one's are exported.
ListCalls ==
  /\ pc = "name" /\ todo = <<>> /\ more
  /\ todo' \in Listings(Call)
  /\ more' = FALSE
  /\ UNCHANGED <<store, file, stack, written, root, base, pc, reader>>

\* resolveOptional finds nothing.
Gone(n) == names[n] = None

\* addName, up to the first walk.  resolve is fatal for a name that is gone.
AddName ==
  LET n == Head(todo) IN
  /\ pc = "name" /\ todo # <<>>
  /\ CASE n \in CID -> stack' = <<n>> /\ pc' = "walk" /\ UNCHANGED root
       [] n \in Call -> stack' = Args[n] /\ pc' = "args" /\ UNCHANGED root
       [] n \in HeadName /\ ~Gone(n) ->
            /\ root' = [root EXCEPT !.heads = With(@, n, names[n])]
            /\ stack' = <<names[n]>> /\ pc' = "walk"
       [] OTHER -> pc' = "failed" /\ UNCHANGED <<stack, root>>
  /\ UNCHANGED <<store, file, todo, more, written, base, reader>>

Met(c) == c \in written

\* Mutant: links are followed only from what a name is set to.
FollowFirst(c) == IF Len(stack) = 1 /\ written = {} THEN Links[c] ELSE <<>>

Follow(c) == Links[c]

WriteBlock(c) == file' = [file EXCEPT !.blocks = Append(@, c)]

\* exportRef and exportValue of the next CID: the block is written before the blocks
\* it links to; an identity CID has no block and its links are followed all the same.
Visit ==
  LET c == Head(stack) IN
  /\ pc \in {"walk", "args"} /\ stack # <<>>
  /\ IF Met(c) THEN stack' = Tail(stack) /\ UNCHANGED <<written, file, pc>>
     ELSE /\ written' = written \cup {c}
          /\ IF c \in Absent THEN pc' = "failed" /\ UNCHANGED <<stack, file>>
             ELSE /\ stack' = Follow(c) \o Tail(stack)
                  /\ IF c \in Identity THEN UNCHANGED file ELSE WriteBlock(c)
                  /\ UNCHANGED pc
  /\ UNCHANGED <<store, todo, more, root, base, reader>>

\* The arguments of a call are written: its result is looked up.
AddResult ==
  LET n == Head(todo) IN
  /\ pc = "args" /\ stack = <<>>
  /\ IF Gone(n) THEN pc' = "failed" /\ UNCHANGED <<stack, root>>
     ELSE /\ root' = [root EXCEPT !.calls =
                        With(@, Key(n, base), [args |-> Args[n], result |-> names[n]])]
          /\ stack' = <<names[n]>>
          /\ pc' = "walk"
  /\ UNCHANGED <<store, file, todo, more, written, base, reader>>

NameDone ==
  /\ pc = "walk" /\ stack = <<>>
  /\ root' = IF Head(todo) \in CID THEN [root EXCEPT !.ids = @ \cup {Head(todo)}] ELSE root
  /\ todo' = Tail(todo)
  /\ pc' = "name"
  /\ UNCHANGED <<store, file, more, stack, written, base, reader>>

\* The root node, at last; then the header, that is only now known, and the padding.
Finish ==
  \/ pc = "name" /\ todo = <<>> /\ ~more /\ pc' = "header" /\ file' = [file EXCEPT !.rooted = TRUE]
  \/ pc = "header" /\ pc' = "padding" /\ file' = [file EXCEPT !.header = TRUE]
  \/ pc = "padding" /\ pc' = "done" /\ file' = [file EXCEPT !.padding = TRUE]

Write == Finish /\ UNCHANGED <<store, walk, base, reader>>

\* The exporter is killed; the file stays as it is.
Kill ==
  /\ pc \notin {"done", "failed", "killed"}
  /\ pc' = "killed"
  /\ UNCHANGED <<store, file, walk, base, reader>>

-----------------------------------------------------------------------------
(* CARStore *)

\* The last block with each CID.
LastPositions(blocks) ==
  [c \in {c \in Block : Contains(blocks, c)} |-> SelectLastInSeq(blocks, LAMBDA b : b = c)]

BlockPositions == LastPositions(file.blocks)

\* What readVarInt, readCID and readValue find: zeros in the place of the header or of
\* the padding are no CBOR and no CID.
Readable == file.header /\ file.padding

\* open; the root node must be there.
Open ==
  /\ reader.state = "none" /\ pc # "start"
  /\ reader' = IF Readable /\ file.rooted
               THEN [state |-> "open", positions |-> BlockPositions, root |-> root]
               ELSE [reader EXCEPT !.state = "failed"]
  /\ UNCHANGED <<store, file, walk, base, pc>>

Next ==
  Change \/ Start \/ ListCalls \/ AddName \/ Visit \/ AddResult \/ NameDone \/ Write \/ Kill \/ Open

Spec == Init /\ [][Next]_vars

Opened == reader.state = "open"

getOptional(c) ==
  IF c \in Identity THEN c
  ELSE IF c \in DOMAIN reader.positions THEN file.blocks[reader.positions[c]] ELSE None

\* The keys resolveOptional tries.
Keys(call) == {Key(call, b) : b \in Base}

resolveOptional(n) ==
  IF n \in HeadName THEN Present(reader.root.heads, n)
  ELSE LET found == Keys(n) \cap DOMAIN reader.root.calls IN
       IF found = {} THEN None ELSE reader.root.calls[CHOOSE k \in found : TRUE].result

\* list_funcs and eachCall.
eachCall == {n \in Call : \E k \in DOMAIN reader.root.calls :
              k[1] = NameOf[n] /\ reader.root.calls[k].args = Args[n]}

-----------------------------------------------------------------------------
TypeOK ==
  /\ names \in [Name -> CID \cup {None}] /\ changes \in 0 .. MaxChange
  /\ {file.header, file.padding, file.rooted} \subseteq BOOLEAN /\ file.blocks \in Seq(Block)
  /\ todo \in Seq(Name \cup CID) /\ more \in BOOLEAN /\ stack \in Seq(CID) /\ written \subseteq CID
  /\ base \in Base
  /\ pc \in {"start", "name", "args", "walk", "header", "padding", "done", "failed", "killed"}

\* Every CID a root node names.
NamedBy(r) ==
  r.ids \cup {r.heads[h] : h \in DOMAIN r.heads} \cup
  UNION {{r.calls[k].result} \cup ToSet(r.calls[k].args) : k \in DOMAIN r.calls}

Rooted == NamedBy(root)

\* A file that open accepts is complete: whenever the exporter was killed and whatever
\* others changed meanwhile, every node reachable from the names in it can be read.
OpensComplete ==
  Opened =>
    /\ \A c \in Rooted : getOptional(c) = c
    /\ \A c \in written : \A d \in ToSet(Links[c]) : getOptional(d) = d

\* The CARStore resolves the names that were exported, whatever multibase the exporter
\* was told to write, to what they were; it lists the calls it resolves.
AnswersExported ==
  Opened =>
    /\ \A h \in HeadName : resolveOptional(h) = Present(root.heads, h)
    /\ \A n \in Call : resolveOptional(n) =
         (IF Key(n, base) \in DOMAIN root.calls THEN root.calls[Key(n, base)].result ELSE None)
    /\ eachCall = {n \in Call : resolveOptional(n) # None}

\* Without names on the command line the export of a store nobody changes is the whole
\* of it, and no block is in the file twice.
ExportsWhole ==
  /\ IsInjective(file.blocks)
  /\ pc = "done" /\ changes = 0 /\ Chosen = <<>> =>
       /\ \A h \in HeadName : Present(root.heads, h) = names[h]
       /\ \A n \in Call : names[n] # None =>
            /\ Key(n, base) \in DOMAIN root.calls
            /\ root.calls[Key(n, base)] = [args |-> Args[n], result |-> names[n]]

\* A file that open accepts is complete, whenever the exporter was killed; the CARStore
\* resolves and lists what was exported, which for a store nobody changes is all of it.
FileHoldsExport == TypeOK /\ OpensComplete /\ AnswersExported /\ ExportsWhole

-----------------------------------------------------------------------------
(* The proof that FileHoldsExport is an invariant *)

\* What the exporter has written or will.
Seen == written \cup ToSet(stack)

\* The file, the root node and the reader are records; the root node has heads and calls
\* that were set, each call under its key.
Shapes ==
  /\ file = [header |-> file.header, padding |-> file.padding, blocks |-> file.blocks, rooted |-> file.rooted]
  /\ root = [heads |-> root.heads, calls |-> root.calls, ids |-> root.ids]
  /\ reader = [state |-> reader.state, positions |-> reader.positions, root |-> reader.root]
  /\ root.heads \in [DOMAIN root.heads -> CID] /\ DOMAIN root.heads \subseteq HeadName
  /\ root.calls \in [DOMAIN root.calls -> [args : Seq(CID), result : CID]]
  /\ \A k \in DOMAIN root.calls : \E n \in Call : k = Key(n, base) /\ root.calls[k].args = Args[n]
  /\ root.ids \subseteq CID

\* The file has the blocks of what was written, each once.
BlocksOK ==
  /\ ToSet(file.blocks) = {c \in written : c \in Block /\ c \notin Absent}
  /\ IsInjective(file.blocks)

\* Until a block is found missing, what is written leads to what is written or will be.
Closed ==
  pc # "failed" => \A c \in written : c \notin Absent /\ ToSet(Links[c]) \subseteq Seen

RootedSeen == Rooted \subseteq Seen

\* Where the exporter is in the walk of a name.
Places ==
  /\ pc = "args" => todo # <<>> /\ Head(todo) \in Call /\ ToSet(Args[Head(todo)]) \subseteq Seen
  /\ pc = "walk" =>
       /\ todo # <<>>
       /\ Head(todo) \in CID => Head(todo) \in Seen
       /\ Head(todo) \in HeadName => Head(todo) \in DOMAIN root.heads
       /\ Head(todo) \in Call => Key(Head(todo), base) \in DOMAIN root.calls
  /\ pc \in {"start", "name", "header", "padding", "done"} => stack = <<>>
  /\ pc \in {"header", "padding", "done"} => todo = <<>> /\ ~more

\* The padding comes last, so whoever opens the file finds all of it.
Ends ==
  /\ file.padding => pc = "done"
  /\ Opened => pc = "done" /\ reader.root = root /\ reader.positions = BlockPositions

\* While nobody changes the store, the root node says what the store does.
Current ==
  changes = 0 =>
    /\ \A h \in DOMAIN root.heads : root.heads[h] = names[h]
    /\ \A n \in Call : Key(n, base) \in DOMAIN root.calls => root.calls[Key(n, base)].result = names[n]

\* And every name that is set is exported, or listed, or will be listed.
Listed ==
  changes = 0 /\ Chosen = <<>> /\ pc \notin {"start", "failed", "killed"} =>
    /\ \A h \in HeadName : names[h] # None => h \in DOMAIN root.heads \cup ToSet(todo)
    /\ ~more => \A n \in Call : names[n] # None =>
                  n \in ToSet(todo) \/ Key(n, base) \in DOMAIN root.calls

Inv ==
  /\ TypeOK /\ Shapes /\ BlocksOK /\ Closed /\ RootedSeen /\ Places /\ Ends /\ Current /\ Listed

-----------------------------------------------------------------------------
(* Sequences and what is in them *)

\* The elements of a sequence with a first element, and of an empty one.
LEMMA ElementsFrom ==
  ASSUME NEW S, NEW s \in Seq(S)
  PROVE  /\ ToSet(s) \subseteq S /\ ToSet(<<>>) = {}
         /\ s # <<>> => Head(s) \in S /\ Tail(s) \in Seq(S) /\ ToSet(s) = {Head(s)} \cup ToSet(Tail(s))
<1>1. ToSet(s) \subseteq S /\ ToSet(<<>>) = {}
  BY DEF ToSet
<1>2. ASSUME s # <<>> PROVE ToSet(s) = {Head(s)} \cup ToSet(Tail(s))
  <2>1. /\ Len(s) \in Nat \ {0} /\ DOMAIN s = 1 .. Len(s) /\ Head(s) = s[1]
        /\ Tail(s) \in Seq(S) /\ Len(Tail(s)) = Len(s) - 1 /\ DOMAIN Tail(s) = 1 .. (Len(s) - 1)
        /\ \A i \in 1 .. (Len(s) - 1) : Tail(s)[i] = s[i + 1]
    BY <1>2, HeadTailProperties
  <2>2. ASSUME NEW x \in ToSet(s) PROVE x \in {Head(s)} \cup ToSet(Tail(s))
    <3>1. PICK i \in 1 .. Len(s) : x = s[i]
      BY <2>1 DEF ToSet
    <3>2. CASE i = 1
      BY <2>1, <3>1, <3>2
    <3>3. CASE i # 1
      <4>1. i - 1 \in 1 .. (Len(s) - 1) /\ Tail(s)[i - 1] = x
        BY <2>1, <3>1, <3>3
      <4> QED  BY Zenon, <2>1, <4>1 DEF ToSet
    <3> QED  BY <3>2, <3>3
  <2>3. ASSUME NEW x \in {Head(s)} \cup ToSet(Tail(s)) PROVE x \in ToSet(s)
    <3>1. CASE x = Head(s)
      BY <2>1, <3>1 DEF ToSet
    <3>2. CASE x \in ToSet(Tail(s))
      <4>1. PICK i \in 1 .. (Len(s) - 1) : x = s[i + 1]
        BY <2>1, <3>2 DEF ToSet
      <4>2. i + 1 \in 1 .. Len(s)
        BY <2>1
      <4> QED  BY <2>1, <4>1, <4>2 DEF ToSet
    <3> QED  BY <2>3, <3>1, <3>2
  <2> QED  BY <2>2, <2>3
<1> QED  BY <1>1, <1>2, HeadTailProperties

\* The elements of two sequences, one after the other.
LEMMA ElementsOfBoth ==
  ASSUME NEW S, NEW s \in Seq(S), NEW t \in Seq(S)
  PROVE  s \o t \in Seq(S) /\ ToSet(s \o t) = ToSet(s) \cup ToSet(t)
<1>1. /\ s \o t \in Seq(S) /\ Len(s) \in Nat /\ Len(t) \in Nat
      /\ DOMAIN s = 1 .. Len(s) /\ DOMAIN t = 1 .. Len(t) /\ DOMAIN (s \o t) = 1 .. (Len(s) + Len(t))
      /\ \A i \in 1 .. (Len(s) + Len(t)) : (s \o t)[i] = IF i <= Len(s) THEN s[i] ELSE t[i - Len(s)]
  BY ConcatProperties
<1>2. ASSUME NEW x \in ToSet(s \o t) PROVE x \in ToSet(s) \cup ToSet(t)
  <2>1. PICK i \in 1 .. (Len(s) + Len(t)) : x = IF i <= Len(s) THEN s[i] ELSE t[i - Len(s)]
    BY <1>1 DEF ToSet
  <2>2. i <= Len(s) => i \in 1 .. Len(s)
    BY <1>1
  <2>3. ~(i <= Len(s)) => i - Len(s) \in 1 .. Len(t)
    BY <1>1
  <2> QED  BY <1>1, <2>1, <2>2, <2>3 DEF ToSet
<1>3. ASSUME NEW x \in ToSet(s) PROVE x \in ToSet(s \o t)
  <2>1. PICK i \in 1 .. Len(s) : x = s[i]
    BY <1>1 DEF ToSet
  <2>2. i \in 1 .. (Len(s) + Len(t)) /\ i <= Len(s)
    BY <1>1
  <2> QED  BY <1>1, <2>1, <2>2 DEF ToSet
<1>4. ASSUME NEW x \in ToSet(t) PROVE x \in ToSet(s \o t)
  <2>1. PICK i \in 1 .. Len(t) : x = t[i]
    BY <1>1 DEF ToSet
  <2>2. i + Len(s) \in 1 .. (Len(s) + Len(t)) /\ ~(i + Len(s) <= Len(s)) /\ i + Len(s) - Len(s) = i
    BY <1>1
  <2>3. (s \o t)[i + Len(s)] = t[i]
    BY <1>1, <2>2
  <2> QED  BY SMTT(20), <1>1, <2>1, <2>2, <2>3 DEF ToSet
<1> QED  BY SMTT(20), <1>1, <1>2, <1>3, <1>4

\* A sequence of different elements stays one when a new element is added.
LEMMA ElementsWith ==
  ASSUME NEW S, NEW s \in Seq(S), NEW x \in S
  PROVE  /\ Append(s, x) \in Seq(S) /\ ToSet(Append(s, x)) = ToSet(s) \cup {x}
         /\ IsInjective(s) /\ x \notin ToSet(s) => IsInjective(Append(s, x))
<1>1. /\ Append(s, x) \in Seq(S) /\ Len(s) \in Nat /\ DOMAIN s = 1 .. Len(s)
      /\ DOMAIN Append(s, x) = 1 .. (Len(s) + 1)
      /\ \A i \in 1 .. Len(s) : Append(s, x)[i] = s[i]
      /\ Append(s, x)[Len(s) + 1] = x
  BY AppendProperties
<1>2. \A i \in 1 .. (Len(s) + 1) : i = Len(s) + 1 \/ i \in 1 .. Len(s)
  BY <1>1
<1>3. Len(s) + 1 \in 1 .. (Len(s) + 1) /\ 1 .. Len(s) \subseteq 1 .. (Len(s) + 1)
  BY <1>1
<1>4. ToSet(Append(s, x)) = ToSet(s) \cup {x}
  <2>1. \A y \in ToSet(Append(s, x)) : y \in ToSet(s) \cup {x}
    BY <1>1, <1>2 DEF ToSet
  <2>2. \A y \in ToSet(s) \cup {x} : y \in ToSet(Append(s, x))
    BY <1>1, <1>3 DEF ToSet
  <2> QED  BY <2>1, <2>2
<1>5. ASSUME IsInjective(s), x \notin ToSet(s) PROVE IsInjective(Append(s, x))
  <2>1. \A i \in 1 .. Len(s) : s[i] # x
    BY <1>1, <1>5 DEF ToSet
  <2> QED  BY SMTT(20), <1>1, <1>2, <1>5, <2>1 DEF IsInjective
<1> QED  BY <1>1, <1>4, <1>5

\* A sequence of one.
LEMMA ElementsOfOne == ASSUME NEW S, NEW x \in S PROVE <<x>> \in Seq(S) /\ ToSet(<<x>>) = {x}
BY DEF ToSet

\* A set of positions has a last one.
LEMMA LastExists ==
  ASSUME NEW n \in Nat, NEW S, S \subseteq 1 .. n, S # {}
  PROVE  Max(S) \in S
<1> DEFINE T == {n - i : i \in S}
<1>0. S \subseteq Int /\ \A i \in S : n - i \in Nat
  OBVIOUS
<1>1. T \subseteq Nat /\ T # {}
  BY Zenon, <1>0
<1>2. PICK x \in T : \A y \in T : ~(<<y, x>> \in OpToRel(<, Nat))
  BY Zenon, <1>1, WFMin, NatLessThanWellFounded
<1>3. \A y \in T : ~(y < x)
  BY Zenon, <1>1, <1>2 DEF OpToRel
<1>4. PICK i \in S : x = n - i
  OBVIOUS
<1>5. ASSUME NEW j \in S PROVE i >= j
  <2>1. ~(n - j < n - i)
    BY Zenon, <1>0, <1>3, <1>4
  <2> QED  BY <1>0, <2>1
<1>6. \E m \in S : \A j \in S : m >= j
  BY Zenon, <1>5
<1> QED  BY Zenon, <1>6 DEF Max

-----------------------------------------------------------------------------
(* The steps of the exporter, of the others and of the reader *)

\* What a step keeps that leaves the file, the written blocks and the root node alone.
LEMMA WritesNothing ==
  ASSUME Inv, file' = file, root' = root, reader' = reader, base' = base, written' = written
  PROVE  Shapes' /\ BlocksOK'
<1>1. Shapes'
  BY DEF Inv, Shapes, Key
<1>2. BlocksOK'
  BY DEF Inv, BlocksOK
<1> QED  BY <1>1, <1>2

\* A step that leaves the exporter's place alone as well.
LEMMA WalksNowhere ==
  ASSUME Inv, file' = file, root' = root, base' = base, written' = written, stack' = stack,
         todo' = todo, more' = more, pc' = pc
  PROVE  Closed' /\ RootedSeen' /\ Places'
<1>0. Seen' = Seen
  BY Zenon DEF Seen
<1>1. Closed'
  BY Zenon, <1>0 DEF Inv, Closed
<1>2. Rooted' = Rooted
  BY Zenon DEF Rooted
<1>3. RootedSeen'
  BY Zenon, <1>0, <1>2 DEF Inv, RootedSeen
<1>4. Places'
  <2>1. Places
    BY Zenon DEF Inv
  <2>2. pc = "args" => todo # <<>> /\ Head(todo) \in Call /\ ToSet(Args[Head(todo)]) \subseteq Seen
    BY Zenon, <2>1 DEF Places
  <2>3. pc = "walk" => todo # <<>> /\ (Head(todo) \in CID => Head(todo) \in Seen)
    BY Zenon, <2>1 DEF Places
  <2> QED  BY <1>0, <2>1 DEF Places, Key
<1> QED  BY <1>1, <1>3, <1>4

\* Another process changes a name.
LEMMA ChangeInv == ASSUME WellFormed, Inv, Change PROVE Inv'
<1>1. /\ file' = file /\ todo' = todo /\ more' = more /\ stack' = stack /\ written' = written /\ root' = root
      /\ base' = base /\ pc' = pc /\ reader' = reader
  BY DEF Change, walk
<1>2. names' \in [Name -> CID \cup {None}] /\ changes' \in 0 .. MaxChange /\ changes' # 0
  BY DEF Inv, TypeOK, Change, WellFormed
<1>3. TypeOK'
  BY Zenon, <1>1, <1>2 DEF Inv, TypeOK
<1>4. Shapes' /\ BlocksOK'
  BY Zenon, <1>1, WritesNothing
<1>5. Closed' /\ RootedSeen' /\ Places'
  BY Zenon, <1>1, WalksNowhere
<1>6. Ends'
  BY Zenon, <1>1 DEF Inv, Ends, Opened, BlockPositions
<1>7. Current' /\ Listed'
  BY Zenon, <1>2 DEF Current, Listed
<1> QED  BY Zenon, <1>3, <1>4, <1>5, <1>6, <1>7 DEF Inv

\* The orders in which names may be listed have all of those that are set.
LEMMA ListingsAre ==
  ASSUME WellFormed, NEW S, S \in {HeadName, Call}, NEW s \in Listings(S)
  PROVE  s \in Seq(Name) /\ ToSet(s) = {n \in S : names[n] # None}
<1> DEFINE set == {n \in S : names[n] # None}
<1>1. s \in [1 .. Cardinality(set) -> set] /\ ToSet(s) = set
  BY DEF Listings
<1>2. IsFiniteSet(S) /\ S \subseteq Name
  BY DEF WellFormed, Name
<1>3. IsFiniteSet(set)
  BY <1>2, FS_Subset
<1>4. Cardinality(set) \in Nat
  BY <1>3, FS_CardinalityType
<1>5. set \subseteq Name
  BY <1>2
<1> HIDE DEF set
<1>6. s \in Seq(Name)
  BY <1>1, <1>4, <1>5
<1> QED  BY <1>1, <1>6 DEF set

\* The exporter starts.
LEMMA StartInv == ASSUME WellFormed, Inv, Start PROVE Inv'
<1>1. /\ names' = names /\ changes' = changes /\ file' = file /\ stack' = stack /\ written' = written
      /\ root' = root /\ base' = base /\ reader' = reader /\ pc = "start" /\ pc' = "name"
  BY DEF Start, store
<1>2. more' = (Chosen = <<>>) /\ todo' \in IF Chosen # <<>> THEN {Chosen} ELSE Listings(HeadName)
  BY DEF Start
<1>3. todo' \in Seq(Name \cup CID) /\ (Chosen = <<>> => ToSet(todo') = {n \in HeadName : names[n] # None})
  <2>1. CASE Chosen = <<>>
    <3>1. todo' \in Seq(Name) /\ ToSet(todo') = {n \in HeadName : names[n] # None}
      BY Zenon, <1>2, <2>1, ListingsAre
    <3> QED  BY <3>1
  <2>2. CASE Chosen # <<>>
    BY <1>2, <2>2 DEF WellFormed
  <2> QED  BY <2>1, <2>2
<1>4. TypeOK'
  <2>1. more' \in BOOLEAN
    BY Zenon, <1>2
  <2> QED  BY Zenon, <1>1, <1>3, <2>1 DEF Inv, TypeOK
<1>5. Shapes' /\ BlocksOK'
  BY Zenon, <1>1, WritesNothing
<1>6. stack = <<>> /\ pc # "failed"
  BY <1>1 DEF Inv, Places
<1>7. Closed' /\ RootedSeen'
  <2>1. Seen' = Seen /\ Rooted' = Rooted
    BY Zenon, <1>1 DEF Seen, Rooted
  <2> QED  BY <1>1, <1>6, <2>1 DEF Inv, Closed, RootedSeen
<1>8. Places'
  BY <1>1, <1>6 DEF Places
<1>9. Ends'
  <2>1. ~file.padding /\ ~Opened
    BY Zenon, <1>1 DEF Inv, Ends
  <2> QED  BY Zenon, <1>1, <2>1 DEF Ends, Opened
<1>10. Current'
  BY Zenon, <1>1 DEF Inv, Current, Key
<1>11. Listed'
  BY ZenonT(60), <1>1, <1>2, <1>3 DEF Listed
<1> QED  BY ZenonT(60), <1>4, <1>5, <1>7, <1>8, <1>9, <1>10, <1>11 DEF Inv

\* The calls are listed.
LEMMA ListCallsInv == ASSUME WellFormed, Inv, ListCalls PROVE Inv'
<1>1. /\ names' = names /\ changes' = changes /\ file' = file /\ stack' = stack /\ written' = written
      /\ root' = root /\ base' = base /\ reader' = reader /\ pc = "name" /\ pc' = "name"
      /\ todo = <<>> /\ todo' \in Listings(Call)
  BY DEF ListCalls, store
<1>2. more' = FALSE
  BY DEF ListCalls
<1>3. todo' \in Seq(Name) /\ ToSet(todo') = {n \in Call : names[n] # None}
  BY Zenon, <1>1, ListingsAre
<1>4. todo' \in Seq(Name \cup CID)
  BY <1>3
<1>5. TypeOK'
  <2>1. more' \in BOOLEAN
    BY Zenon, <1>2
  <2> QED  BY Zenon, <1>1, <1>4, <2>1 DEF Inv, TypeOK
<1>6. Shapes' /\ BlocksOK'
  BY Zenon, <1>1, WritesNothing
<1>7. stack = <<>> /\ pc # "failed"
  BY <1>1 DEF Inv, Places
<1>8. Closed' /\ RootedSeen'
  <2>1. Seen' = Seen /\ Rooted' = Rooted
    BY Zenon, <1>1 DEF Seen, Rooted
  <2> QED  BY <1>1, <1>7, <2>1 DEF Inv, Closed, RootedSeen
<1>9. Places'
  BY <1>1, <1>7 DEF Places
<1>10. Ends'
  BY Zenon, <1>1 DEF Inv, Ends, Opened, BlockPositions
<1>11. Current'
  BY Zenon, <1>1 DEF Inv, Current, Key
<1>12. Listed'
  <2>1. ToSet(todo) = {}
    BY <1>1 DEF ToSet
  <2> QED  BY Zenon, <1>1, <1>3, <2>1 DEF Inv, Listed
<1> QED  BY Zenon, <1>5, <1>6, <1>8, <1>9, <1>10, <1>11, <1>12 DEF Inv

\* What With adds to a map.
LEMMA WithIs ==
  ASSUME NEW f, NEW x, NEW v
  PROVE  /\ DOMAIN With(f, x, v) = DOMAIN f \cup {x}
         /\ With(f, x, v)[x] = v
         /\ \A y \in DOMAIN f : y # x => With(f, x, v)[y] = f[y]
BY DEF With

\* The CIDs of a root node with another head or another call.
LEMMA NamedByMore ==
  ASSUME NEW r, NEW x, NEW c, NEW a
  PROVE  /\ NamedBy([heads |-> With(r.heads, x, c), calls |-> r.calls, ids |-> r.ids])
              \subseteq NamedBy(r) \cup {c}
         /\ NamedBy([heads |-> r.heads, calls |-> With(r.calls, x, [args |-> a, result |-> c]), ids |-> r.ids])
              \subseteq NamedBy(r) \cup {c} \cup ToSet(a)
         /\ NamedBy([heads |-> r.heads, calls |-> r.calls, ids |-> r.ids \cup {c}])
              \subseteq NamedBy(r) \cup {c}
<1> DEFINE hs == With(r.heads, x, c)
           k == With(r.calls, x, [args |-> a, result |-> c])
<1>1. DOMAIN hs = DOMAIN r.heads \cup {x} /\ hs[x] = c /\ \A y \in DOMAIN r.heads : y # x => hs[y] = r.heads[y]
  BY DEF With
<1>2. /\ DOMAIN k = DOMAIN r.calls \cup {x} /\ k[x] = [args |-> a, result |-> c]
      /\ \A y \in DOMAIN r.calls : y # x => k[y] = r.calls[y]
  BY DEF With
<1> HIDE DEF hs, k
<1>3. NamedBy([heads |-> hs, calls |-> r.calls, ids |-> r.ids]) \subseteq NamedBy(r) \cup {c}
  BY <1>1 DEF NamedBy
<1>4. NamedBy([heads |-> r.heads, calls |-> k, ids |-> r.ids]) \subseteq NamedBy(r) \cup {c} \cup ToSet(a)
  <2> SUFFICES ASSUME NEW z \in NamedBy([heads |-> r.heads, calls |-> k, ids |-> r.ids])
               PROVE  z \in NamedBy(r) \cup {c} \cup ToSet(a)
    OBVIOUS
  <2>1. CASE z \in r.ids \/ \E y \in DOMAIN r.heads : z = r.heads[y]
    BY <2>1 DEF NamedBy
  <2>2. CASE \E y \in DOMAIN k : z \in {k[y].result} \cup ToSet(k[y].args)
    <3>1. PICK y \in DOMAIN k : z \in {k[y].result} \cup ToSet(k[y].args)
      BY <2>2
    <3>2. CASE y = x
      BY SMTT(20), <1>2, <3>1, <3>2
    <3>3. CASE y # x
      <4>1. y \in DOMAIN r.calls /\ k[y] = r.calls[y]
        BY <1>2, <3>3
      <4>2. z \in {r.calls[y].result} \cup ToSet(r.calls[y].args)
        BY SMTT(20), <3>1, <4>1
      <4> QED  BY <4>1, <4>2 DEF NamedBy
    <3> QED  BY <3>2, <3>3
  <2> QED  BY <2>1, <2>2 DEF NamedBy
<1>5. NamedBy([heads |-> r.heads, calls |-> r.calls, ids |-> r.ids \cup {c}]) \subseteq NamedBy(r) \cup {c}
  BY DEF NamedBy
<1> QED  BY <1>3, <1>4, <1>5 DEF hs, k

\* Nothing that was seen is forgotten.
LEMMA StillClosed ==
  ASSUME Inv, pc # "failed", written' = written, Seen \subseteq Seen'
  PROVE  Closed'
BY DEF Inv, Closed

\* A step of the exporter that leaves the store, the file and the reader alone: what
\* remains to be shown is about the root node and the walk.
LEMMA ExporterInv ==
  ASSUME WellFormed, Inv, names' = names, changes' = changes, file' = file, base' = base,
         reader' = reader, written' = written, more' = more, pc \in {"name", "args", "walk"},
         pc' \in {"name", "args", "walk", "failed"},
         todo' \in Seq(Name \cup CID), stack' \in Seq(CID),
         Shapes', Closed', RootedSeen', Places', Current', Listed'
  PROVE  Inv'
<1>1. TypeOK'
  <2>1. pc' \in {"start", "name", "args", "walk", "header", "padding", "done", "failed", "killed"}
    OBVIOUS
  <2> QED  BY Zenon, <2>1 DEF Inv, TypeOK
<1>2. BlocksOK'
  BY DEF Inv, BlocksOK
<1>3. Ends'
  <2>1. pc # "done"
    OBVIOUS
  <2>2. ~file.padding /\ ~Opened
    BY Zenon, <2>1 DEF Inv, Ends
  <2> QED  BY Zenon, <2>2 DEF Ends, Opened
<1> QED  BY Zenon, <1>1, <1>2, <1>3 DEF Inv

\* The root node gets a head.
LEMMA HeadAdded ==
  ASSUME WellFormed, Inv, NEW n \in HeadName, names[n] # None,
         root' = [root EXCEPT !.heads = With(@, n, names[n])],
         names' = names, changes' = changes, base' = base, file' = file, reader' = reader
  PROVE  /\ Shapes' /\ Current' /\ Rooted' \subseteq Rooted \cup {names[n]} /\ names[n] \in CID
         /\ DOMAIN root'.heads = DOMAIN root.heads \cup {n} /\ root'.calls = root.calls
<1>1. names[n] \in CID
  BY DEF Inv, TypeOK, Name
<1>2. root = [heads |-> root.heads, calls |-> root.calls, ids |-> root.ids]
  BY DEF Inv, Shapes
<1>3. root' = [heads |-> With(root.heads, n, names[n]), calls |-> root.calls, ids |-> root.ids]
  BY <1>2
<1>4. /\ root'.heads = With(root.heads, n, names[n]) /\ root'.calls = root.calls /\ root'.ids = root.ids
  BY <1>3
<1>5. /\ DOMAIN root'.heads = DOMAIN root.heads \cup {n} /\ root'.heads[n] = names[n]
      /\ \A y \in DOMAIN root.heads : y # n => root'.heads[y] = root.heads[y]
  BY <1>4 DEF With
<1>6. root'.heads \in [DOMAIN root'.heads -> CID] /\ DOMAIN root'.heads \subseteq HeadName
  <2>1. root.heads \in [DOMAIN root.heads -> CID] /\ DOMAIN root.heads \subseteq HeadName
    BY DEF Inv, Shapes
  <2> QED  BY <1>1, <1>4, <2>1 DEF With
<1>7. Shapes'
  <2>1. root' = [heads |-> root'.heads, calls |-> root'.calls, ids |-> root'.ids]
    BY Zenon, <1>3, <1>4
  <2> QED  BY <1>4, <1>6, <2>1 DEF Inv, Shapes, Key
<1>8. Current'
  BY <1>4, <1>5 DEF Inv, Current, Key
<1>9. Rooted' \subseteq Rooted \cup {names[n]}
  BY Zenon, <1>3, NamedByMore DEF Rooted
<1> QED  BY SMTT(20), <1>1, <1>4, <1>5, <1>7, <1>8, <1>9

\* The root node gets a call.
LEMMA CallAdded ==
  ASSUME WellFormed, Inv, NEW n \in Call, names[n] # None,
         root' = [root EXCEPT !.calls = With(@, Key(n, base), [args |-> Args[n], result |-> names[n]])],
         names' = names, changes' = changes, base' = base, file' = file, reader' = reader
  PROVE  /\ Shapes' /\ Current' /\ Rooted' \subseteq Rooted \cup {names[n]} \cup ToSet(Args[n])
         /\ names[n] \in CID /\ root'.heads = root.heads
         /\ DOMAIN root'.calls = DOMAIN root.calls \cup {Key(n, base)}
<1>1. names[n] \in CID
  BY DEF Inv, TypeOK, Name
<1> DEFINE k == Key(n, base)
           v == [args |-> Args[n], result |-> names[n]]
<1>2. root = [heads |-> root.heads, calls |-> root.calls, ids |-> root.ids]
  BY DEF Inv, Shapes
<1>3. root' = [heads |-> root.heads, calls |-> With(root.calls, k, v), ids |-> root.ids]
  BY <1>2
<1>4. /\ root'.calls = With(root.calls, k, v) /\ root'.heads = root.heads /\ root'.ids = root.ids
  BY <1>3
<1>5. /\ DOMAIN root'.calls = DOMAIN root.calls \cup {k} /\ root'.calls[k] = v
      /\ \A y \in DOMAIN root.calls : y # k => root'.calls[y] = root.calls[y]
  BY <1>4 DEF With
<1>6. Args[n] \in Seq(CID) /\ v \in [args : Seq(CID), result : CID]
  BY <1>1 DEF WellFormed
<1>7. root'.calls \in [DOMAIN root'.calls -> [args : Seq(CID), result : CID]]
  <2>1. root.calls \in [DOMAIN root.calls -> [args : Seq(CID), result : CID]]
    BY DEF Inv, Shapes
  <2> DEFINE T == [args : Seq(CID), result : CID]
  <2>2. v \in T /\ root.calls \in [DOMAIN root.calls -> T]
    BY <1>6, <2>1
  <2> HIDE DEF v, k, T
  <2>3. root'.calls \in [DOMAIN root'.calls -> T]
    BY <1>4, <2>2 DEF With
  <2> QED  BY <2>3 DEF T
<1>8. \A m \in Call : Key(m, base) = k => m = n
  BY DEF WellFormed, Key
<1>9. \A y \in DOMAIN root'.calls : \E m \in Call : y = Key(m, base) /\ root'.calls[y].args = Args[m]
  <2> SUFFICES ASSUME NEW y \in DOMAIN root'.calls
               PROVE  \E m \in Call : y = Key(m, base) /\ root'.calls[y].args = Args[m]
    OBVIOUS
  <2>1. CASE y = k
    BY <1>5, <2>1
  <2>2. CASE y # k
    <3>1. y \in DOMAIN root.calls /\ root'.calls[y] = root.calls[y]
      BY <1>5, <2>2
    <3>2. \A z \in DOMAIN root.calls : \E m \in Call : z = Key(m, base) /\ root.calls[z].args = Args[m]
      BY DEF Inv, Shapes
    <3> QED  BY <3>1, <3>2
  <2> QED  BY <2>1, <2>2
<1>10. Shapes'
  <2>1. root' = [heads |-> root'.heads, calls |-> root'.calls, ids |-> root'.ids]
    BY Zenon, <1>3, <1>4
  <2>2. \A m : Key(m, base)' = Key(m, base)
    BY DEF Key
  <2> QED  BY SMTT(20), <1>4, <1>7, <1>9, <2>1, <2>2 DEF Inv, Shapes
<1>11. Current'
  <2> SUFFICES ASSUME changes = 0, NEW m \in Call, Key(m, base) \in DOMAIN root'.calls
               PROVE  root'.calls[Key(m, base)].result = names[m]
    BY <1>4 DEF Inv, Current, Key
  <2>1. CASE m = n
    BY <1>5, <2>1
  <2>2. CASE m # n
    <3>1. Key(m, base) # k
      BY <1>8, <2>2
    <3> HIDE DEF k
    <3>2. Key(m, base) \in DOMAIN root.calls /\ root'.calls[Key(m, base)] = root.calls[Key(m, base)]
      BY <1>5, <3>1
    <3> QED  BY <3>2 DEF Inv, Current
  <2> QED  BY <2>1, <2>2
<1>12. Rooted' \subseteq Rooted \cup {names[n]} \cup ToSet(Args[n])
  <2>1. \A r, x, c, a :
          NamedBy([heads |-> r.heads, calls |-> With(r.calls, x, [args |-> a, result |-> c]), ids |-> r.ids])
            \subseteq NamedBy(r) \cup {c} \cup ToSet(a)
    BY Zenon, NamedByMore
  <2>2. NamedBy([heads |-> root.heads, calls |-> With(root.calls, k, v), ids |-> root.ids])
          \subseteq NamedBy(root) \cup {names[n]} \cup ToSet(Args[n])
    BY Zenon, <2>1
  <2> QED  BY Zenon, <1>3, <2>2 DEF Rooted
<1> QED  BY SMTT(20), <1>1, <1>4, <1>5, <1>10, <1>11, <1>12

\* What a step keeps that leaves the root node, the list of names and the store alone.
LEMMA NamesNothing ==
  ASSUME Inv, names' = names, changes' = changes, base' = base, root' = root, todo' = todo, more' = more,
         pc \notin {"start", "failed", "killed"}
  PROVE  Current' /\ Listed' /\ Rooted' = Rooted
<1>1. Current'
  BY Zenon DEF Inv, Current, Key
<1>2. Listed'
  BY Zenon DEF Inv, Listed, Key
<1> QED  BY Zenon, <1>1, <1>2 DEF Rooted

\* addName starts the walk of a name.
LEMMA AddNameInv == ASSUME WellFormed, Inv, AddName PROVE Inv'
<1>1. PICK n : n = Head(todo)
  OBVIOUS
<1>2. /\ names' = names /\ changes' = changes /\ file' = file /\ todo' = todo /\ more' = more
      /\ written' = written /\ base' = base /\ reader' = reader /\ pc = "name" /\ todo # <<>>
  BY DEF AddName, store
<1>3. /\ n \in CID => stack' = <<n>> /\ pc' = "walk" /\ root' = root
      /\ n \in Call => stack' = Args[n] /\ pc' = "args" /\ root' = root
      /\ n \in HeadName /\ ~Gone(n) =>
           /\ root' = [root EXCEPT !.heads = With(@, n, names[n])]
           /\ stack' = <<names[n]>> /\ pc' = "walk"
      /\ n \in HeadName /\ Gone(n) => pc' = "failed" /\ stack' = stack /\ root' = root
  BY <1>1 DEF AddName, WellFormed, Name
<1>4. todo \in Seq(Name \cup CID) /\ written \subseteq CID /\ stack = <<>> /\ stack \in Seq(CID)
  BY <1>2 DEF Inv, TypeOK, Places
<1>5. n \in Name \cup CID
  BY SMTT(20), <1>1, <1>2, <1>4
<1>6. ToSet(stack) = {} /\ Seen = written
  BY <1>4 DEF Seen, ToSet
<1>7. Closed /\ RootedSeen
  BY Zenon DEF Inv
<1>8. CASE n \in CID
  <2>1. stack' \in Seq(CID) /\ ToSet(stack') = {n}
    BY Zenon, <1>3, <1>8, ElementsOfOne
  <2>2. Seen' = Seen \cup {n}
    BY <1>2, <1>6, <2>1 DEF Seen
  <2>3. Shapes' /\ Current' /\ Listed' /\ Rooted' = Rooted
    BY ZenonT(60), <1>2, <1>3, <1>8, WritesNothing, NamesNothing
  <2>4. Closed' /\ RootedSeen'
    BY SMTT(20), <1>2, <1>7, <2>2, <2>3, StillClosed DEF RootedSeen
  <2>5. Places'
    BY SMTT(20), <1>1, <1>2, <1>3, <1>8, <2>2 DEF Places, WellFormed, Name
  <2> QED  BY ZenonT(60), <1>2, <1>3, <1>4, <1>8, <2>1, <2>3, <2>4, <2>5, ExporterInv
<1>9. CASE n \in Call
  <2>1. stack' \in Seq(CID) /\ ToSet(stack') = ToSet(Args[n])
    BY <1>3, <1>9 DEF WellFormed
  <2>2. Seen' = Seen \cup ToSet(Args[n])
    BY <1>2, <1>6, <2>1 DEF Seen
  <2>3. Shapes' /\ Current' /\ Listed' /\ Rooted' = Rooted
    BY ZenonT(60), <1>2, <1>3, <1>9, WritesNothing, NamesNothing
  <2>4. Closed' /\ RootedSeen'
    BY SMTT(20), <1>2, <1>7, <2>2, <2>3, StillClosed DEF RootedSeen
  <2>5. Places'
    BY SMTT(20), <1>1, <1>2, <1>3, <1>9, <2>2 DEF Places
  <2> QED  BY ZenonT(60), <1>2, <1>3, <1>4, <1>9, <2>1, <2>3, <2>4, <2>5, ExporterInv
<1>10. CASE n \in HeadName /\ ~Gone(n)
  <2>1. /\ Shapes' /\ Current' /\ Rooted' \subseteq Rooted \cup {names[n]} /\ names[n] \in CID
        /\ DOMAIN root'.heads = DOMAIN root.heads \cup {n} /\ root'.calls = root.calls
    BY Zenon, <1>2, <1>3, <1>10, HeadAdded DEF Gone
  <2>2. stack' \in Seq(CID) /\ ToSet(stack') = {names[n]}
    <3>1. \A c \in CID : <<c>> \in Seq(CID) /\ ToSet(<<c>>) = {c}
      BY Zenon, ElementsOfOne
    <3> QED  BY Zenon, <1>3, <1>10, <2>1, <3>1
  <2>3. Seen' = Seen \cup {names[n]}
    BY SMTT(20), <1>2, <1>6, <2>2 DEF Seen
  <2>4. Closed' /\ RootedSeen'
    BY SMTT(20), <1>2, <1>7, <2>1, <2>3, StillClosed DEF RootedSeen
  <2>5. Places'
    BY SMTT(20), <1>1, <1>2, <1>3, <1>10, <2>1 DEF Places, WellFormed, Name
  <2>6. Listed'
    BY <1>2, <2>1 DEF Inv, Listed, Key
  <2> QED  BY ZenonT(60), <1>2, <1>3, <1>4, <1>10, <2>1, <2>2, <2>4, <2>5, <2>6, ExporterInv
<1>11. CASE n \in HeadName /\ Gone(n)
  <2>1. Shapes' /\ Current' /\ Listed' /\ Rooted' = Rooted
    BY ZenonT(60), <1>2, <1>3, <1>11, WritesNothing, NamesNothing
  <2>2. Seen' = Seen
    BY Zenon, <1>2, <1>3, <1>11 DEF Seen
  <2>3. Closed' /\ RootedSeen' /\ Places'
    BY SMTT(20), <1>3, <1>7, <1>11, <2>1, <2>2 DEF Closed, RootedSeen, Places
  <2> QED  BY ZenonT(60), <1>2, <1>3, <1>4, <1>11, <2>1, <2>3, ExporterInv
<1> QED  BY SMTT(20), <1>5, <1>8, <1>9, <1>10, <1>11 DEF Name

\* The result of a call whose arguments are written is looked up.
LEMMA AddResultInv == ASSUME WellFormed, Inv, AddResult PROVE Inv'
<1>1. PICK n : n = Head(todo)
  OBVIOUS
<1>2. /\ names' = names /\ changes' = changes /\ file' = file /\ todo' = todo /\ more' = more
      /\ written' = written /\ base' = base /\ reader' = reader /\ pc = "args" /\ stack = <<>>
  BY DEF AddResult, store
<1>3. IF Gone(n) THEN pc' = "failed" /\ stack' = stack /\ root' = root
      ELSE /\ root' = [root EXCEPT !.calls = With(@, Key(n, base), [args |-> Args[n], result |-> names[n]])]
           /\ stack' = <<names[n]>>
           /\ pc' = "walk"
  BY <1>1 DEF AddResult
<1>4. todo \in Seq(Name \cup CID) /\ written \subseteq CID /\ stack \in Seq(CID)
  BY DEF Inv, TypeOK
<1>5. todo # <<>> /\ n \in Call /\ ToSet(Args[n]) \subseteq Seen
  BY <1>1, <1>2 DEF Inv, Places
<1>6. ToSet(stack) = {} /\ Seen = written
  BY <1>2 DEF Seen, ToSet
<1>7. Closed /\ RootedSeen
  BY Zenon DEF Inv
<1>8. CASE Gone(n)
  <2>1. Shapes' /\ Current' /\ Listed' /\ Rooted' = Rooted
    BY ZenonT(60), <1>2, <1>3, <1>8, WritesNothing, NamesNothing
  <2>2. Seen' = Seen
    BY Zenon, <1>2, <1>3, <1>8 DEF Seen
  <2>3. Closed' /\ RootedSeen' /\ Places'
    BY SMTT(20), <1>3, <1>7, <1>8, <2>1, <2>2 DEF Closed, RootedSeen, Places
  <2> QED  BY ZenonT(60), <1>2, <1>3, <1>4, <1>8, <2>1, <2>3, ExporterInv
<1>9. CASE ~Gone(n)
  <2>1. /\ Shapes' /\ Current' /\ Rooted' \subseteq Rooted \cup {names[n]} \cup ToSet(Args[n])
        /\ names[n] \in CID /\ root'.heads = root.heads
        /\ DOMAIN root'.calls = DOMAIN root.calls \cup {Key(n, base)}
    BY ZenonT(60), <1>2, <1>3, <1>5, <1>9, CallAdded DEF Gone
  <2>2. stack' \in Seq(CID) /\ ToSet(stack') = {names[n]}
    <3>1. \A c \in CID : <<c>> \in Seq(CID) /\ ToSet(<<c>>) = {c}
      BY Zenon, ElementsOfOne
    <3> QED  BY ZenonT(60), <1>3, <1>9, <2>1, <3>1
  <2>3. Seen' = Seen \cup {names[n]}
    BY SMTT(20), <1>2, <1>6, <2>2 DEF Seen
  <2>4. Closed' /\ RootedSeen'
    BY SMTT(20), <1>2, <1>5, <1>7, <2>1, <2>3, StillClosed DEF RootedSeen
  <2>5. Places'
    BY SMTT(20), <1>1, <1>2, <1>3, <1>5, <1>9, <2>1 DEF Places, WellFormed, Name, Key
  <2>6. Listed'
    BY <1>2, <2>1 DEF Inv, Listed, Key
  <2> QED  BY ZenonT(60), <1>2, <1>3, <1>4, <1>9, <2>1, <2>2, <2>4, <2>5, <2>6, ExporterInv
<1> QED  BY <1>8, <1>9

\* The walk of a name is over.
LEMMA NameDoneInv == ASSUME WellFormed, Inv, NameDone PROVE Inv'
<1>1. PICK n : n = Head(todo)
  OBVIOUS
<1>2. /\ names' = names /\ changes' = changes /\ file' = file /\ more' = more /\ stack' = stack
      /\ written' = written /\ base' = base /\ reader' = reader /\ pc = "walk" /\ stack = <<>>
      /\ todo' = Tail(todo) /\ pc' = "name"
  BY DEF NameDone, store
<1>3. root' = IF n \in CID THEN [root EXCEPT !.ids = @ \cup {n}] ELSE root
  BY <1>1 DEF NameDone
<1>4. todo \in Seq(Name \cup CID) /\ stack \in Seq(CID)
  BY DEF Inv, TypeOK
<1>5. /\ todo # <<>>
      /\ n \in CID => n \in Seen
      /\ n \in HeadName => n \in DOMAIN root.heads
      /\ n \in Call => Key(n, base) \in DOMAIN root.calls
  BY <1>1, <1>2 DEF Inv, Places
<1>6. n \in Name \cup CID /\ todo' \in Seq(Name \cup CID) /\ ToSet(todo) = {n} \cup ToSet(todo')
  BY SMTT(20), <1>1, <1>2, <1>4, <1>5, ElementsFrom
<1>7. /\ root'.heads = root.heads /\ root'.calls = root.calls
      /\ root'.ids = IF n \in CID THEN root.ids \cup {n} ELSE root.ids
      /\ root' = [heads |-> root'.heads, calls |-> root'.calls, ids |-> root'.ids]
  <2>1. root = [heads |-> root.heads, calls |-> root.calls, ids |-> root.ids]
    BY Zenon DEF Inv, Shapes
  <2>2. CASE n \in CID
    <3>1. root' = [heads |-> root.heads, calls |-> root.calls, ids |-> root.ids \cup {n}]
      BY Zenon, <1>3, <2>1, <2>2
    <3> QED  BY <2>2, <3>1
  <2>3. CASE n \notin CID
    BY SMTT(20), <1>3, <2>1, <2>3
  <2> QED  BY <2>2, <2>3
<1>8. Shapes'
  <2>1. root'.ids \subseteq CID
    BY <1>7 DEF Inv, Shapes
  <2> QED  BY SMTT(20), <1>2, <1>7, <2>1 DEF Inv, Shapes, Key
<1>9. Rooted' \subseteq Rooted \cup (IF n \in CID THEN {n} ELSE {})
  BY <1>7 DEF Rooted, NamedBy
<1>10. Seen' = Seen
  BY Zenon, <1>2 DEF Seen
<1>11. RootedSeen'
  BY <1>5, <1>9, <1>10 DEF Inv, RootedSeen
<1>12. Closed'
  BY <1>2, <1>10, StillClosed
<1>13. Places'
  BY <1>2 DEF Places
<1>14. Current'
  BY <1>2, <1>7 DEF Inv, Current, Key
<1>15. Listed'
  <2>1. \A h \in HeadName : h # n \/ h \in DOMAIN root.heads
    BY <1>5
  <2>2. \A m \in Call : m # n \/ Key(m, base) \in DOMAIN root.calls
    BY <1>5
  <2>3. Key(n, base)' = Key(n, base) /\ \A m : Key(m, base)' = Key(m, base)
    BY <1>2 DEF Key
  <2> QED  BY SMTT(20), <1>2, <1>6, <1>7, <2>1, <2>2, <2>3 DEF Inv, Listed
<1> QED  BY ZenonT(60), <1>2, <1>4, <1>6, <1>8, <1>11, <1>12, <1>13, <1>14, <1>15, ExporterInv

\* exportRef writes a block or passes it.
LEMMA VisitInv == ASSUME WellFormed, Inv, Visit PROVE Inv'
<1>1. PICK c : c = Head(stack)
  OBVIOUS
<1>2. /\ names' = names /\ changes' = changes /\ todo' = todo /\ more' = more /\ root' = root
      /\ base' = base /\ reader' = reader /\ pc \in {"walk", "args"} /\ stack # <<>>
  BY DEF Visit, store
<1>3. IF c \in written THEN stack' = Tail(stack) /\ written' = written /\ file' = file /\ pc' = pc
      ELSE /\ written' = written \cup {c}
           /\ IF c \in Absent THEN pc' = "failed" /\ stack' = stack /\ file' = file
              ELSE /\ stack' = Links[c] \o Tail(stack)
                   /\ file' = IF c \in Identity THEN file ELSE [file EXCEPT !.blocks = Append(@, c)]
                   /\ pc' = pc
  BY <1>1 DEF Visit, Met, Follow, WriteBlock
<1>4. TypeOK /\ Shapes /\ BlocksOK /\ Closed /\ RootedSeen /\ Places /\ Ends
  BY Zenon DEF Inv
<1>5. stack \in Seq(CID) /\ written \subseteq CID /\ file.blocks \in Seq(Block)
  BY <1>4 DEF TypeOK
<1>6. c \in CID /\ Tail(stack) \in Seq(CID) /\ ToSet(stack) = {c} \cup ToSet(Tail(stack))
  BY SMTT(20), <1>1, <1>2, <1>5, ElementsFrom
<1>7. Current' /\ Listed' /\ Rooted' = Rooted
  <2>1. pc \notin {"start", "failed", "killed"}
    BY <1>2
  <2> QED  BY Zenon, <1>2, <2>1, NamesNothing
<1>8. ~file.padding /\ ~Opened
  <2>1. pc # "done"
    BY <1>2
  <2> QED  BY Zenon, <1>4, <2>1 DEF Ends
<1>9. CASE c \in written
  <2>1. Seen' = Seen
    BY Zenon, <1>3, <1>6, <1>9 DEF Seen
  <2>2. stack' \in Seq(CID) /\ written' = written /\ file' = file /\ pc' = pc
    BY <1>3, <1>6, <1>9
  <2>3. Shapes'
    BY Zenon, <1>2, <2>2, WritesNothing
  <2>4. Closed' /\ RootedSeen'
    BY SMTT(20), <1>2, <1>4, <1>7, <2>1, <2>2 DEF Closed, RootedSeen
  <2>5. Places'
    BY SMTT(20), <1>2, <1>4, <2>1, <2>2 DEF Places, Key
  <2>6. pc' \in {"name", "args", "walk", "failed"} /\ pc \in {"name", "args", "walk"} /\ todo' \in Seq(Name \cup CID)
    BY <1>2, <1>4, <2>2 DEF TypeOK
  <2> QED  BY ZenonT(60), <1>2, <1>7, <2>2, <2>3, <2>4, <2>5, <2>6, ExporterInv
<1>10. CASE c \notin written /\ c \in Absent
  <2>1. stack' = stack /\ file' = file /\ pc' = "failed" /\ written' = written \cup {c}
    BY <1>3, <1>10
  <2>2. Seen' = Seen
    BY <1>6, <2>1 DEF Seen
  <2>3. TypeOK'
    <3>1. written' \subseteq CID
      BY <1>5, <1>6, <2>1
    <3>2. pc' \in {"start", "name", "args", "walk", "header", "padding", "done", "failed", "killed"}
      BY <2>1
    <3> QED  BY ZenonT(60), <1>2, <1>4, <2>1, <3>1, <3>2 DEF TypeOK
  <2>4. Shapes'
    BY <1>2, <1>4, <2>1 DEF Shapes, Key
  <2>5. BlocksOK'
    BY SMTT(20), <1>4, <1>10, <2>1 DEF BlocksOK
  <2>6. Closed' /\ RootedSeen' /\ Places'
    BY SMTT(20), <1>4, <1>7, <2>1, <2>2 DEF Closed, RootedSeen, Places
  <2>7. Ends'
    BY Zenon, <1>2, <1>8, <2>1 DEF Ends, Opened
  <2> QED  BY ZenonT(60), <1>7, <2>3, <2>4, <2>5, <2>6, <2>7 DEF Inv
<1>11. CASE c \notin written /\ c \notin Absent
  <2>1. /\ stack' = Links[c] \o Tail(stack) /\ pc' = pc /\ written' = written \cup {c}
        /\ file' = IF c \in Identity THEN file ELSE [file EXCEPT !.blocks = Append(@, c)]
    BY Zenon, <1>3, <1>11
  <2>2. stack' \in Seq(CID) /\ ToSet(stack') = ToSet(Links[c]) \cup ToSet(Tail(stack))
    <3>1. Links[c] \in Seq(CID)
      BY <1>6 DEF WellFormed
    <3>2. \A s, t \in Seq(CID) : s \o t \in Seq(CID) /\ ToSet(s \o t) = ToSet(s) \cup ToSet(t)
      BY Zenon, ElementsOfBoth
    <3> QED  BY ZenonT(60), <1>6, <2>1, <3>1, <3>2
  <2>3. Seen' = Seen \cup ToSet(Links[c])
    BY SMTT(20), <1>6, <2>1, <2>2 DEF Seen
  <2>4. /\ file'.header = file.header /\ file'.padding = file.padding /\ file'.rooted = file.rooted
        /\ file' = [header |-> file'.header, padding |-> file'.padding, blocks |-> file'.blocks,
                    rooted |-> file'.rooted]
        /\ file'.blocks = IF c \in Identity THEN file.blocks ELSE Append(file.blocks, c)
    <3>1. file = [header |-> file.header, padding |-> file.padding, blocks |-> file.blocks, rooted |-> file.rooted]
      BY Zenon, <1>4 DEF Shapes
    <3>2. CASE c \in Identity
      BY SMTT(20), <2>1, <3>1, <3>2
    <3>3. CASE c \notin Identity
      <4>1. file' = [header |-> file.header, padding |-> file.padding, blocks |-> Append(file.blocks, c),
                     rooted |-> file.rooted]
        BY ZenonT(60), <2>1, <3>1, <3>3
      <4> QED  BY <3>3, <4>1
    <3> QED  BY <3>2, <3>3
  <2>5. file'.blocks \in Seq(Block) /\ BlocksOK'
    <3>1. CASE c \in Identity
      <4>1. file'.blocks = file.blocks /\ c \notin Block
        BY SMTT(20), <2>4, <3>1 DEF WellFormed
      <4> QED  BY ZenonT(60), <1>4, <1>5, <2>1, <4>1 DEF BlocksOK
    <3>2. CASE c \notin Identity
      <4>1. file'.blocks = Append(file.blocks, c) /\ c \in Block
        BY SMTT(20), <1>6, <2>4, <3>2 DEF CID
      <4>2. c \notin ToSet(file.blocks)
        BY <1>4, <1>11 DEF BlocksOK
      <4>3. /\ file'.blocks \in Seq(Block) /\ ToSet(file'.blocks) = ToSet(file.blocks) \cup {c}
            /\ IsInjective(file'.blocks)
        <5>1. IsInjective(file.blocks)
          BY Zenon, <1>4 DEF BlocksOK
        <5>2. \A b \in Seq(Block) : \A x \in Block :
                /\ Append(b, x) \in Seq(Block) /\ ToSet(Append(b, x)) = ToSet(b) \cup {x}
                /\ IsInjective(b) /\ x \notin ToSet(b) => IsInjective(Append(b, x))
          BY Zenon, ElementsWith
        <5> QED  BY ZenonT(60), <1>5, <4>1, <4>2, <5>1, <5>2
      <4> QED  BY SMTT(20), <1>4, <1>11, <2>1, <4>1, <4>3 DEF BlocksOK
    <3> QED  BY <3>1, <3>2
  <2>6. TypeOK'
    <3>1. written' \subseteq CID
      BY SMTT(20), <1>5, <1>6, <2>1
    <3> QED  BY ZenonT(60), <1>2, <1>4, <2>1, <2>2, <2>4, <2>5, <3>1 DEF TypeOK
  <2>7. Shapes'
    BY <1>2, <1>4, <2>4 DEF Shapes, Key
  <2>8. Closed' /\ RootedSeen'
    BY SMTT(20), <1>2, <1>4, <1>7, <1>11, <2>1, <2>3 DEF Closed, RootedSeen
  <2>9. Places'
    BY SMTT(20), <1>2, <1>4, <2>1, <2>3 DEF Places, Key
  <2>10. Ends'
    BY Zenon, <1>2, <1>8, <2>4 DEF Ends, Opened
  <2> QED  BY ZenonT(60), <1>7, <2>5, <2>6, <2>7, <2>8, <2>9, <2>10 DEF Inv
<1> QED  BY SMTT(20), <1>9, <1>10, <1>11

\* The file gets its root node, its header and its padding.
LEMMA WriteInv == ASSUME WellFormed, Inv, Write PROVE Inv'
<1>1. /\ names' = names /\ changes' = changes /\ todo' = todo /\ more' = more /\ stack' = stack
      /\ written' = written /\ root' = root /\ base' = base /\ reader' = reader
  BY DEF Write, store, walk
<1>2. TypeOK /\ Shapes /\ BlocksOK /\ Closed /\ RootedSeen /\ Places /\ Ends
  BY Zenon DEF Inv
<1>3. file = [header |-> file.header, padding |-> file.padding, blocks |-> file.blocks, rooted |-> file.rooted]
  BY Zenon, <1>2 DEF Shapes
<1>4. /\ pc \in {"name", "header", "padding"} /\ pc' \in {"header", "padding", "done"}
      /\ pc = "name" => todo = <<>> /\ ~more
      /\ pc' = "done" \/ file'.padding = file.padding
      /\ file'.blocks = file.blocks
      /\ file' = [header |-> file'.header, padding |-> file'.padding, blocks |-> file'.blocks, rooted |-> file'.rooted]
      /\ file'.header \in {file.header, TRUE} /\ file'.padding \in {file.padding, TRUE}
      /\ file'.rooted \in {file.rooted, TRUE}
  <2>1. CASE /\ pc = "name" /\ todo = <<>> /\ ~more /\ pc' = "header"
             /\ file' = [file EXCEPT !.rooted = TRUE]
    <3>1. file' = [header |-> file.header, padding |-> file.padding, blocks |-> file.blocks, rooted |-> TRUE]
      BY Zenon, <1>3, <2>1
    <3>2. /\ file'.header = file.header /\ file'.padding = file.padding /\ file'.blocks = file.blocks
          /\ file'.rooted = TRUE
      BY Zenon, <3>1
    <3> QED  BY Zenon, <2>1, <3>1, <3>2
  <2>2. CASE pc = "header" /\ pc' = "padding" /\ file' = [file EXCEPT !.header = TRUE]
    <3>1. file' = [header |-> TRUE, padding |-> file.padding, blocks |-> file.blocks, rooted |-> file.rooted]
      BY Zenon, <1>3, <2>2
    <3>2. /\ file'.header = TRUE /\ file'.padding = file.padding /\ file'.blocks = file.blocks
          /\ file'.rooted = file.rooted
      BY Zenon, <3>1
    <3> QED  BY Zenon, <2>2, <3>1, <3>2
  <2>3. CASE pc = "padding" /\ pc' = "done" /\ file' = [file EXCEPT !.padding = TRUE]
    <3>1. file' = [header |-> file.header, padding |-> TRUE, blocks |-> file.blocks, rooted |-> file.rooted]
      BY Zenon, <1>3, <2>3
    <3>2. /\ file'.header = file.header /\ file'.padding = TRUE /\ file'.blocks = file.blocks
          /\ file'.rooted = file.rooted
      BY Zenon, <3>1
    <3> QED  BY Zenon, <2>3, <3>1, <3>2
  <2> QED  BY Zenon, <2>1, <2>2, <2>3 DEF Write, Finish
<1>5. TypeOK'
  <2>1. pc' \in {"start", "name", "args", "walk", "header", "padding", "done", "failed", "killed"}
    BY <1>4
  <2>2. {file.header, file.padding, file.rooted} \subseteq BOOLEAN /\ file.blocks \in Seq(Block)
    BY Zenon, <1>2 DEF TypeOK
  <2>3. {file'.header, file'.padding, file'.rooted} \subseteq BOOLEAN
    BY Zenon, <1>4, <2>2
  <2> QED  BY ZenonT(60), <1>1, <1>2, <1>4, <2>1, <2>2, <2>3 DEF TypeOK
<1>6. Shapes'
  BY <1>1, <1>2, <1>4 DEF Shapes, Key
<1>7. BlocksOK'
  BY <1>1, <1>2, <1>4 DEF BlocksOK
<1>8. pc \notin {"start", "failed", "killed", "done"} /\ pc # "failed" /\ pc # "done"
  BY <1>4
<1>9. Current' /\ Listed' /\ Rooted' = Rooted
  BY Zenon, <1>1, <1>8, NamesNothing
<1>10. Seen' = Seen
  BY Zenon, <1>1 DEF Seen
<1>11. Closed' /\ RootedSeen'
  BY SMTT(20), <1>1, <1>2, <1>8, <1>9, <1>10 DEF Closed, RootedSeen
<1>12. stack = <<>> /\ todo = <<>> /\ ~more
  <2>1. pc \in {"start", "name", "header", "padding", "done"} /\ (pc = "name" \/ pc \in {"header", "padding", "done"})
    BY <1>4
  <2> QED  BY Zenon, <1>2, <1>4, <2>1 DEF Places
<1>13. Places'
  <2>1. pc' # "args" /\ pc' # "walk"
    BY <1>4
  <2> QED  BY Zenon, <1>1, <1>12, <2>1 DEF Places
<1>14. Ends'
  <2>1. ~file.padding /\ ~Opened
    BY Zenon, <1>2, <1>8 DEF Ends
  <2> QED  BY Zenon, <1>1, <1>4, <2>1 DEF Ends, Opened
<1> QED  BY ZenonT(60), <1>5, <1>6, <1>7, <1>9, <1>11, <1>13, <1>14 DEF Inv

\* The exporter is killed.
LEMMA KillInv == ASSUME WellFormed, Inv, Kill PROVE Inv'
<1>1. /\ names' = names /\ changes' = changes /\ todo' = todo /\ more' = more /\ stack' = stack
      /\ written' = written /\ root' = root /\ base' = base /\ reader' = reader /\ file' = file
      /\ pc' = "killed" /\ pc # "done" /\ pc # "failed"
  BY DEF Kill, store, walk
<1>2. TypeOK'
  <2>1. "killed" \in {"start", "name", "args", "walk", "header", "padding", "done", "failed", "killed"}
    OBVIOUS
  <2> QED  BY Zenon, <1>1, <2>1 DEF Inv, TypeOK
<1>3. Shapes' /\ BlocksOK'
  BY Zenon, <1>1, WritesNothing
<1>4. Seen' = Seen /\ Rooted' = Rooted
  BY Zenon, <1>1 DEF Seen, Rooted
<1>5. Closed' /\ RootedSeen'
  BY SMTT(20), <1>1, <1>4 DEF Inv, Closed, RootedSeen
<1>6. Places' /\ Listed'
  BY <1>1 DEF Places, Listed
<1>7. Ends'
  <2>1. ~file.padding /\ ~Opened
    BY Zenon, <1>1 DEF Inv, Ends
  <2> QED  BY Zenon, <1>1, <2>1 DEF Ends, Opened
<1>8. Current'
  BY Zenon, <1>1 DEF Inv, Current, Key
<1> QED  BY ZenonT(60), <1>2, <1>3, <1>5, <1>6, <1>7, <1>8 DEF Inv

\* A CARStore tries the file.
LEMMA OpenInv == ASSUME WellFormed, Inv, Open PROVE Inv'
<1>1. /\ names' = names /\ changes' = changes /\ todo' = todo /\ more' = more /\ stack' = stack
      /\ written' = written /\ root' = root /\ base' = base /\ file' = file /\ pc' = pc
  BY DEF Open, store, walk
<1>2. TypeOK /\ Shapes /\ Ends
  BY Zenon DEF Inv
<1>3. TypeOK'
  BY Zenon, <1>1, <1>2 DEF TypeOK
<1>4. /\ reader' = [state |-> reader'.state, positions |-> reader'.positions, root |-> reader'.root]
      /\ reader'.state = "open" => pc = "done" /\ reader'.root = root /\ reader'.positions = BlockPositions
  <2>1. CASE Readable /\ file.rooted
    <3>1. reader' = [state |-> "open", positions |-> BlockPositions, root |-> root]
      BY Zenon, <2>1 DEF Open
    <3>2. pc = "done"
      BY Zenon, <1>2, <2>1 DEF Ends, Readable
    <3>3. reader'.state = "open" /\ reader'.positions = BlockPositions /\ reader'.root = root
      BY Zenon, <3>1
    <3> QED  BY Zenon, <3>1, <3>2, <3>3
  <2>2. CASE ~(Readable /\ file.rooted)
    <3>1. reader' = [reader EXCEPT !.state = "failed"]
      BY Zenon, <2>2 DEF Open
    <3>2. reader = [state |-> reader.state, positions |-> reader.positions, root |-> reader.root]
      BY Zenon, <1>2 DEF Shapes
    <3>3. reader' = [state |-> "failed", positions |-> reader.positions, root |-> reader.root]
      BY <3>1, <3>2
    <3>4. reader'.state = "failed" /\ reader'.positions = reader.positions /\ reader'.root = reader.root
      BY ZenonT(60), <3>3
    <3> QED  BY <3>3, <3>4
  <2> QED  BY <2>1, <2>2
<1>5. Shapes'
  BY SMTT(20), <1>1, <1>2, <1>4 DEF Shapes, Key
<1>6. BlocksOK'
  BY <1>1 DEF Inv, BlocksOK
<1>7. Closed' /\ RootedSeen' /\ Places'
  BY Zenon, <1>1, WalksNowhere
<1>8. Ends'
  BY Zenon, <1>1, <1>2, <1>4 DEF Ends, Opened, BlockPositions
<1>9. Current' /\ Listed'
  <2>1. Current'
    BY Zenon, <1>1 DEF Inv, Current, Key
  <2>2. Listed'
    BY Zenon, <1>1 DEF Inv, Listed, Key
  <2> QED  BY <2>1, <2>2
<1> QED  BY ZenonT(60), <1>3, <1>5, <1>6, <1>7, <1>8, <1>9 DEF Inv

\* The exporter starts with nothing.
LEMMA InitInv == ASSUME WellFormed, Init PROVE Inv
<1>1. /\ names \in [Name -> CID \cup {None}] /\ changes = 0 /\ base \in Base /\ pc = "start"
      /\ file = [header |-> FALSE, padding |-> FALSE, blocks |-> <<>>, rooted |-> FALSE]
      /\ todo = <<>> /\ more = FALSE /\ stack = <<>> /\ written = {}
      /\ root = [heads |-> <<>>, calls |-> <<>>, ids |-> {}]
      /\ reader = [state |-> "none", positions |-> <<>>, root |-> root]
  BY Zenon DEF Init
<1>2. file.header = FALSE /\ file.padding = FALSE /\ file.rooted = FALSE /\ file.blocks = <<>>
  BY Zenon, <1>1
<1>3. root.heads = <<>> /\ root.calls = <<>> /\ root.ids = {}
  BY Zenon, <1>1
<1>4. reader.state = "none" /\ reader.positions = <<>> /\ reader.root = root
  BY Zenon, <1>1
<1>5. DOMAIN root.heads = {} /\ DOMAIN root.calls = {} /\ ToSet(<<>>) = {} /\ \A S : <<>> \in Seq(S)
  BY <1>3 DEF ToSet
<1>6. TypeOK
  <2>1. /\ changes \in 0 .. MaxChange
        /\ pc \in {"start", "name", "args", "walk", "header", "padding", "done", "failed", "killed"}
    BY <1>1 DEF WellFormed
  <2>2. {file.header, file.padding, file.rooted} \subseteq BOOLEAN /\ more \in BOOLEAN /\ written \subseteq CID
    BY Zenon, <1>1, <1>2
  <2> QED  BY ZenonT(60), <1>1, <1>2, <1>5, <2>1, <2>2 DEF TypeOK
<1>7. Shapes
  <2>1. file = [header |-> file.header, padding |-> file.padding, blocks |-> file.blocks, rooted |-> file.rooted]
    BY Zenon, <1>1, <1>2
  <2>2. /\ root = [heads |-> root.heads, calls |-> root.calls, ids |-> root.ids]
        /\ reader = [state |-> reader.state, positions |-> reader.positions, root |-> reader.root]
    BY ZenonT(60), <1>1, <1>3, <1>4
  <2>3. root.heads \in [DOMAIN root.heads -> CID] /\ root.calls \in [DOMAIN root.calls -> [args : Seq(CID), result : CID]]
    BY SMTT(20), <1>3, <1>5
  <2> QED  BY SMTT(20), <1>3, <1>5, <2>1, <2>2, <2>3 DEF Shapes
<1>8. BlocksOK
  BY <1>1, <1>2, <1>5 DEF BlocksOK, IsInjective
<1>9. Closed /\ RootedSeen
  BY SMTT(20), <1>1, <1>3, <1>5 DEF Closed, RootedSeen, Rooted, NamedBy
<1>10. Places /\ Current /\ Listed
  BY <1>1, <1>5 DEF Places, Current, Listed
<1>11. Ends
  <2>1. reader.state # "open"
    BY <1>4
  <2> QED  BY Zenon, <1>2, <2>1 DEF Ends, Opened
<1> QED  BY ZenonT(60), <1>6, <1>7, <1>8, <1>9, <1>10, <1>11 DEF Inv

\* A step that changes nothing.
LEMMA StutterInv == ASSUME WellFormed, Inv, UNCHANGED vars PROVE Inv'
<1>1. /\ names' = names /\ changes' = changes /\ todo' = todo /\ more' = more /\ stack' = stack
      /\ written' = written /\ root' = root /\ base' = base /\ reader' = reader /\ file' = file /\ pc' = pc
  BY DEF vars
<1>2. TypeOK'
  BY Zenon, <1>1 DEF Inv, TypeOK
<1>3. Shapes' /\ BlocksOK'
  BY Zenon, <1>1, WritesNothing
<1>4. Closed' /\ RootedSeen' /\ Places'
  BY Zenon, <1>1, WalksNowhere
<1>5. Ends'
  BY Zenon, <1>1 DEF Inv, Ends, Opened, BlockPositions
<1>6. Current'
  BY Zenon, <1>1 DEF Inv, Current, Key
<1>7. Listed'
  BY Zenon, <1>1 DEF Inv, Listed, Key
<1> QED  BY ZenonT(60), <1>2, <1>3, <1>4, <1>5, <1>6, <1>7 DEF Inv

\* The invariant holds whatever the names, the blocks and the links are.
THEOREM ExportInvariant == WellFormed /\ Spec => [](WellFormed /\ Inv)
<1>1. WellFormed /\ Init => WellFormed /\ Inv
  BY Zenon, InitInv
<1>2. WellFormed /\ Inv /\ [Next]_vars => (WellFormed /\ Inv)'
  <2> SUFFICES ASSUME WellFormed, Inv, [Next]_vars PROVE WellFormed' /\ Inv'
    OBVIOUS
  <2>1. WellFormed'
    BY Zenon DEF WellFormed, CID, Name
  <2>2. CASE Next
    BY ZenonT(60), <2>2, ChangeInv, StartInv, ListCallsInv, AddNameInv, VisitInv, AddResultInv, NameDoneInv,
       WriteInv, KillInv, OpenInv DEF Next
  <2>3. CASE UNCHANGED vars
    BY Zenon, <2>3, StutterInv
  <2> QED  BY Zenon, <2>1, <2>2, <2>3
<1> QED  BY <1>1, <1>2, PTL DEF Spec

-----------------------------------------------------------------------------
(* What the reader finds *)

\* The last place of an element has that element.
LEMMA LastHasIt ==
  ASSUME NEW S, NEW s \in Seq(S), NEW c \in ToSet(s)
  PROVE  Contains(s, c) /\ s[SelectLastInSeq(s, LAMBDA b : b = c)] = c
<1> DEFINE I == {i \in 1 .. Len(s) : s[i] = c}
<1>1. Len(s) \in Nat /\ DOMAIN s = 1 .. Len(s)
  OBVIOUS
<1>2. PICK i \in 1 .. Len(s) : s[i] = c
  BY <1>1 DEF ToSet
<1>3. I # {} /\ I \subseteq 1 .. Len(s)
  BY <1>2
<1>4. Max(I) \in I
  BY Zenon, <1>1, <1>3, LastExists
<1>5. SelectLastInSeq(s, LAMBDA b : b = c) = Max(I)
  BY Zenon, <1>3 DEF SelectLastInSeq
<1>6. Contains(s, c)
  BY <1>2 DEF Contains
<1> QED  BY <1>4, <1>5, <1>6

\* Once a file opens, every node that was written can be read.
LEMMA WrittenIsRead ==
  ASSUME WellFormed, Inv, Opened, NEW c \in written
  PROVE  getOptional(c) = c
<1>1. pc = "done" /\ reader.positions = BlockPositions /\ c \in CID /\ file.blocks \in Seq(Block)
  BY Zenon DEF Inv, Ends, TypeOK
<1>2. c \notin Absent
  BY <1>1 DEF Inv, Closed
<1>3. CASE c \in Identity
  BY <1>3 DEF getOptional
<1>4. CASE c \notin Identity
  <2>1. c \in Block
    BY <1>1, <1>4 DEF CID
  <2>2. c \in ToSet(file.blocks)
    BY <1>2, <2>1 DEF Inv, BlocksOK
  <2>3. Contains(file.blocks, c) /\ file.blocks[SelectLastInSeq(file.blocks, LAMBDA b : b = c)] = c
    BY Zenon, <1>1, <2>2, LastHasIt
  <2>4. c \in DOMAIN BlockPositions /\ BlockPositions[c] = SelectLastInSeq(file.blocks, LAMBDA b : b = c)
    BY Zenon, <2>1, <2>3 DEF BlockPositions, LastPositions
  <2> QED  BY Zenon, <1>1, <1>4, <2>3, <2>4 DEF getOptional
<1> QED  BY <1>3, <1>4

\* A file that opens is complete.
LEMMA CompleteWhenOpen == ASSUME WellFormed, Inv PROVE OpensComplete
<1> SUFFICES ASSUME Opened
             PROVE  /\ \A c \in Rooted : getOptional(c) = c
                    /\ \A c \in written : \A d \in ToSet(Links[c]) : getOptional(d) = d
  BY Zenon DEF OpensComplete
<1>1. pc = "done"
  BY Zenon DEF Inv, Ends
<1>2. stack = <<>> /\ pc # "failed"
  BY <1>1 DEF Inv, Places
<1>3. Seen = written
  BY <1>2 DEF Seen, ToSet
<1>4. Rooted \subseteq written
  BY Zenon, <1>3 DEF Inv, RootedSeen
<1>5. \A c \in written : ToSet(Links[c]) \subseteq written
  BY Zenon, <1>2, <1>3 DEF Inv, Closed
<1> QED  BY Zenon, <1>4, <1>5, WrittenIsRead

\* What is at a key of the root node is the call the key stands for.
LEMMA KeyOfCall ==
  ASSUME WellFormed, Inv, NEW k \in DOMAIN root.calls, NEW n \in Call
  PROVE  /\ root.calls[k].result \in CID
         /\ k \in Keys(n) => k = Key(n, base)
         /\ k[1] = NameOf[n] /\ root.calls[k].args = Args[n] => k = Key(n, base)
         /\ k = Key(n, base) => root.calls[k] = [args |-> Args[n], result |-> root.calls[k].result]
<1>1. root.calls \in [DOMAIN root.calls -> [args : Seq(CID), result : CID]]
  BY Zenon DEF Inv, Shapes
<1>2. PICK m \in Call : k = Key(m, base) /\ root.calls[k].args = Args[m]
  BY Zenon DEF Inv, Shapes
<1>3. root.calls[k] \in [args : Seq(CID), result : CID]
  BY <1>1
<1>4. /\ root.calls[k].result \in CID
      /\ root.calls[k] = [args |-> root.calls[k].args, result |-> root.calls[k].result]
  BY <1>3
<1>5. \A b : Key(m, base) = Key(n, b) => m = n /\ b = base
  BY DEF Key, WellFormed
<1>6. Key(m, base)[1] = NameOf[m]
  BY DEF Key
<1>7. k \in Keys(n) => k = Key(n, base)
  BY Zenon, <1>2, <1>5 DEF Keys
<1>8. ASSUME k[1] = NameOf[n], root.calls[k].args = Args[n] PROVE k = Key(n, base)
  <2>1. NameOf[m] = NameOf[n] /\ Args[m] = Args[n]
    BY Zenon, <1>2, <1>6, <1>8
  <2>2. m = n
    BY Zenon, <2>1 DEF WellFormed
  <2> QED  BY Zenon, <1>2, <2>2
<1>9. ASSUME k = Key(n, base) PROVE root.calls[k] = [args |-> Args[n], result |-> root.calls[k].result]
  <2>1. m = n
    BY Zenon, <1>2, <1>5, <1>9
  <2> QED  BY Zenon, <1>2, <1>4, <2>1
<1> QED  BY Zenon, <1>4, <1>7, <1>8, <1>9

\* A CARStore resolves and lists what the root node has.
LEMMA AnswersWhenOpen == ASSUME WellFormed, Inv PROVE AnswersExported
<1> SUFFICES ASSUME Opened
             PROVE  /\ \A h \in HeadName : resolveOptional(h) = Present(root.heads, h)
                    /\ \A n \in Call : resolveOptional(n) =
                         (IF Key(n, base) \in DOMAIN root.calls THEN root.calls[Key(n, base)].result ELSE None)
                    /\ eachCall = {n \in Call : resolveOptional(n) # None}
  BY Zenon DEF AnswersExported
<1>1. reader.root = root
  BY Zenon DEF Inv, Ends
<1>2. \A h \in HeadName : resolveOptional(h) = Present(root.heads, h)
  BY Zenon, <1>1 DEF resolveOptional
<1>3. ASSUME NEW n \in Call
      PROVE  resolveOptional(n) =
               (IF Key(n, base) \in DOMAIN root.calls THEN root.calls[Key(n, base)].result ELSE None)
  <2>1. n \notin HeadName
    BY DEF WellFormed
  <2>2. base \in Base
    BY Zenon DEF Inv, TypeOK
  <2> DEFINE found == Keys(n) \cap DOMAIN root.calls
  <2>3. resolveOptional(n) = IF found = {} THEN None ELSE root.calls[CHOOSE k \in found : TRUE].result
    BY <1>1, <2>1 DEF resolveOptional
  <2>4. Key(n, base) \in Keys(n)
    BY Zenon, <2>2 DEF Keys
  <2>5. \A k \in found : k = Key(n, base)
    BY Zenon, KeyOfCall
  <2>6. CASE Key(n, base) \in DOMAIN root.calls
    <3>1. Key(n, base) \in found
      BY Zenon, <2>4, <2>6
    <3>2. (CHOOSE k \in found : TRUE) = Key(n, base)
      BY Zenon, <2>5, <3>1
    <3> QED  BY ZenonT(60), <2>3, <2>6, <3>1, <3>2
  <2>7. CASE Key(n, base) \notin DOMAIN root.calls
    <3>1. found = {}
      BY Zenon, <2>5, <2>7
    <3> HIDE DEF found
    <3> QED  BY Zenon, <2>3, <2>7, <3>1
  <2> QED  BY Zenon, <2>6, <2>7
<1>4. \A n \in Call : resolveOptional(n) # None <=> Key(n, base) \in DOMAIN root.calls
  <2>1. \A k \in DOMAIN root.calls : root.calls[k].result # None
    <3>1. root.calls \in [DOMAIN root.calls -> [args : Seq(CID), result : CID]]
      BY Zenon DEF Inv, Shapes
    <3> QED  BY <3>1 DEF WellFormed
  <2> QED  BY ZenonT(60), <1>3, <2>1
<1>5. \A n \in Call : n \in eachCall <=> Key(n, base) \in DOMAIN root.calls
  <2> TAKE n \in Call
  <2>1. ASSUME n \in eachCall PROVE Key(n, base) \in DOMAIN root.calls
    <3>1. PICK k \in DOMAIN root.calls : k[1] = NameOf[n] /\ root.calls[k].args = Args[n]
      BY Zenon, <1>1, <2>1 DEF eachCall
    <3>2. k = Key(n, base)
      <4>1. k[1] = NameOf[n] /\ root.calls[k].args = Args[n] => k = Key(n, base)
        BY Zenon, KeyOfCall
      <4> QED  BY Zenon, <3>1, <4>1
    <3> QED  BY Zenon, <3>1, <3>2
  <2>2. ASSUME Key(n, base) \in DOMAIN root.calls PROVE n \in eachCall
    <3>1. Key(n, base)[1] = NameOf[n]
      BY DEF Key
    <3>2. root.calls[Key(n, base)] = [args |-> Args[n], result |-> root.calls[Key(n, base)].result]
      BY ZenonT(60), <2>2, KeyOfCall
    <3>3. root.calls[Key(n, base)].args = Args[n]
      BY <3>2
    <3> QED  BY ZenonT(60), <1>1, <2>2, <3>1, <3>3 DEF eachCall
  <2> QED  BY Zenon, <2>1, <2>2
<1>6. eachCall \subseteq Call
  BY Zenon DEF eachCall
<1>7. eachCall = {n \in Call : resolveOptional(n) # None}
  <2> DEFINE E == eachCall
             R(n) == resolveOptional(n)
  <2>1. E \subseteq Call /\ \A n \in Call : n \in E <=> R(n) # None
    BY ZenonT(60), <1>4, <1>5, <1>6
  <2> HIDE DEF E, R
  <2>2. E = {n \in Call : R(n) # None}
    BY <2>1
  <2> QED  BY <2>2 DEF E, R
<1> QED  BY Zenon, <1>2, <1>3, <1>7

\* The export of a store nobody changes is the whole of it.
LEMMA WholeWhenDone == ASSUME WellFormed, Inv PROVE ExportsWhole
<1>1. IsInjective(file.blocks)
  BY Zenon DEF Inv, BlocksOK
<1>2. ASSUME pc = "done", changes = 0, Chosen = <<>>
      PROVE  /\ \A h \in HeadName : Present(root.heads, h) = names[h]
             /\ \A n \in Call : names[n] # None =>
                  /\ Key(n, base) \in DOMAIN root.calls
                  /\ root.calls[Key(n, base)] = [args |-> Args[n], result |-> names[n]]
  <2>1. todo = <<>> /\ ~more /\ pc \notin {"start", "failed", "killed"}
    BY <1>2 DEF Inv, Places
  <2>2. ToSet(todo) = {}
    BY <2>1 DEF ToSet
  <2>3. /\ \A h \in HeadName : names[h] # None => h \in DOMAIN root.heads
        /\ \A n \in Call : names[n] # None => Key(n, base) \in DOMAIN root.calls
    BY Zenon, <1>2, <2>1, <2>2 DEF Inv, Listed
  <2>4. /\ \A h \in DOMAIN root.heads : root.heads[h] = names[h]
        /\ \A n \in Call : Key(n, base) \in DOMAIN root.calls => root.calls[Key(n, base)].result = names[n]
    BY Zenon, <1>2 DEF Inv, Current
  <2>5. \A h \in DOMAIN root.heads : root.heads[h] # None
    BY DEF Inv, Shapes, WellFormed
  <2>6. \A h \in HeadName : Present(root.heads, h) = names[h]
    BY Zenon, <2>3, <2>4, <2>5 DEF Present
  <2>7. ASSUME NEW n \in Call, names[n] # None
        PROVE  root.calls[Key(n, base)] = [args |-> Args[n], result |-> names[n]]
    <3>1. \A k \in DOMAIN root.calls :
            k = Key(n, base) => root.calls[k] = [args |-> Args[n], result |-> root.calls[k].result]
      BY Zenon, KeyOfCall
    <3>2. Key(n, base) \in DOMAIN root.calls /\ root.calls[Key(n, base)].result = names[n]
      BY Zenon, <2>3, <2>4, <2>7
    <3> QED  BY Zenon, <3>1, <3>2
  <2> QED  BY ZenonT(60), <2>3, <2>6, <2>7
<1> QED  BY Zenon, <1>1, <1>2 DEF ExportsWhole

\* Whatever is exported, in whatever order the store lists it, and wherever the exporter
\* is killed: a file that opens is complete, is answered from as it was exported, and is
\* the whole of a store nobody changed.
THEOREM FileHoldsExportHolds == WellFormed /\ Spec => []FileHoldsExport
<1>1. WellFormed /\ Inv => FileHoldsExport
  BY Zenon, CompleteWhenOpen, AnswersWhenOpen, WholeWhenDone DEF FileHoldsExport, Inv
<1> QED  BY <1>1, ExportInvariant, PTL

=============================================================================

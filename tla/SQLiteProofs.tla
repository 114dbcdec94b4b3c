---------------------------- MODULE SQLiteProofs ----------------------------
(***************************************************************************)
(* The tables of the sqlite store keep their references whole and          *)
(* implement the atomic store, for any number of clients, names and nodes. *)
(***************************************************************************)
EXTENDS SQLiteStore, WellFoundedInduction, TLAPS

\* The rows of block_refs and call_refs that belong to blocks and to calls.
RefsOfBlocks(d) == UNION {{<<c, dest>> : dest \in Links[c]} : c \in d.blocks}
RefsOfCalls(d) == UNION {{<<NameOf[row.call], row.id, dest>> : dest \in Args[row.call]} : row \in d.calls}

\* The small changes to the tables.
WithHead(d, h, ref) == [d EXCEPT !.heads[h] = ref]
WithFunc(d, f) == [d EXCEPT !.funcs = @ \cup {f}]
WithSchema(d) == [d EXCEPT !.created = TRUE]

\* The tables between two transactions: every link, head, argument and result has its
\* row, refs are exactly those of the rows, and no call or id has two rows.
TablesOK(d) ==
  /\ d \in Table
  /\ d.block_refs = RefsOfBlocks(d)
  /\ \A b \in d.blocks : Links[b] \subseteq d.blocks
  /\ \A h \in Head : d.heads[h] # None => d.heads[h] \in d.blocks
  /\ \A row \in d.calls : row.result \in d.blocks /\ Args[row.call] \subseteq d.blocks
  /\ \A row \in d.calls : NameOf[row.call] \in d.funcs /\ row.id <= MaxCallId
  /\ \A r1, r2 \in d.calls : r1.call = r2.call \/ r1.id = r2.id => r1 = r2
  /\ d.call_refs = RefsOfCalls(d)

-----------------------------------------------------------------------------
(* What the statements do to the tables *)

\* A set of naturals with a bound has a greatest element.
LEMMA GreatestNatural ==
  ASSUME NEW S \in SUBSET Nat, S # {}, NEW n \in Nat, \A i \in S : i <= n
  PROVE  \E i \in S : \A j \in S : i >= j
<1> DEFINE T == {n - i : i \in S}
<1>0. \A i \in S : n - i \in T /\ n - i \in Nat
  OBVIOUS
<1>1. T \subseteq Nat /\ T # {}
  BY Zenon, <1>0
<1>2. PICK x \in T : \A y \in T : ~(<<y, x>> \in OpToRel(<, Nat))
  BY Zenon, <1>1, WFMin, NatLessThanWellFounded
<1>3. \A y \in T : ~(y < x)
  BY Zenon, <1>1, <1>2 DEF OpToRel
<1>4. PICK i \in S : x = n - i
  OBVIOUS
<1>5. ASSUME NEW j \in S PROVE i >= j
  <2>1. ~(n - j < n - i)
    BY Zenon, <1>0, <1>3, <1>4
  <2> QED  BY <2>1
<1> QED  BY <1>5

\* The next id of a call is no row's.
LEMMA NextCallIdIsNew ==
  ASSUME NEW d \in Table, \A row \in d.calls : row.id <= MaxCallId
  PROVE  NextCallId(d) \in Nat /\ \A row \in d.calls : row.id # NextCallId(d)
<1> DEFINE ids == {row.id : row \in d.calls}
<1>1. ids \in SUBSET Nat /\ \A i \in ids : i <= MaxCallId
  BY DEF Table
<1>2. CASE ids = {}
  BY <1>2 DEF NextCallId
<1>3. CASE ids # {}
  <2>1. \E i \in ids : \A j \in ids : i >= j
    BY Zenon, <1>1, <1>3, GreatestNatural, SQLiteAssumption
  <2> DEFINE m == CHOOSE i \in ids : \A j \in ids : i >= j
  <2>2. m \in ids /\ \A j \in ids : m >= j
    BY <2>1
  <2>3. NextCallId(d) = 1 + m
    BY <1>3 DEF NextCallId
  <2> HIDE DEF m
  <2>4. m \in Nat /\ \A row \in d.calls : row.id \in Nat /\ m >= row.id
    BY <1>1, <2>2
  <2> QED  BY <2>3, <2>4
<1> QED  BY <1>2, <1>3

\* Missing is the least closed set: it has what S lacks, is closed, has no row yet,
\* and has no other block than those of S.
LEMMA MissingClosed ==
  ASSUME NEW d \in Table, NEW S \in SUBSET CID
  PROVE  /\ Missing(d, S) \subseteq CID \ d.blocks
         /\ Closed(d, S, Missing(d, S))
         /\ Missing(d, S) \cap Block = (S \cap Block) \ d.blocks
<1> DEFINE M == Missing(d, S)
<1>1. M \subseteq CID /\ \A c \in M : \A T \in SUBSET CID : Closed(d, S, T) => c \in T
  BY DEF Missing
<1>2. \A c \in CID : (\A T \in SUBSET CID : Closed(d, S, T) => c \in T) => c \in M
  BY DEF Missing
<1> HIDE DEF M
<1>3. Closed(d, S, M)
  <2>1. S \ d.blocks \subseteq M
    BY <1>2 DEF Closed
  <2>2. ASSUME NEW c \in M, NEW l \in (Links[c] \cap Identity) \ d.blocks
        PROVE  l \in M
    <3>1. l \in CID
      BY DEF CID
    <3>2. ASSUME NEW T \in SUBSET CID, Closed(d, S, T) PROVE l \in T
      <4>1. c \in T
        BY <1>1, <3>2
      <4> QED  BY <3>2, <4>1 DEF Closed
    <3> QED  BY <1>2, <3>1, <3>2
  <2> QED  BY <2>1, <2>2 DEF Closed
<1>4. M \subseteq (S \cup Identity) \ d.blocks
  <2> DEFINE T == (S \cup Identity) \ d.blocks
  <2>1. T \in SUBSET CID /\ Closed(d, S, T)
    BY DEF Closed, CID
  <2> QED  BY <1>1, <2>1
<1>5. M \cap Block = (S \cap Block) \ d.blocks
  BY <1>3, <1>4, SQLiteAssumption DEF Closed
<1> QED  BY <1>1, <1>3, <1>4, <1>5 DEF M

\* A transaction that gives the CIDs of S their rows keeps the tables whole.
LEMMA InsertOK ==
  ASSUME NEW d, TablesOK(d), NEW S \in SUBSET CID, ~Unknown(d, S)
  PROVE  /\ TablesOK(Insert(d, S))
         /\ Insert(d, S).blocks = d.blocks \cup Missing(d, S)
         /\ S \subseteq Insert(d, S).blocks
         /\ Insert(d, S).heads = d.heads /\ Insert(d, S).calls = d.calls
         /\ Insert(d, S).funcs = d.funcs
<1> DEFINE M == Missing(d, S)
           e == Insert(d, S)
<1>1. d \in Table
  BY DEF TablesOK
<1>2. /\ M \subseteq CID \ d.blocks /\ S \subseteq d.blocks \cup M
      /\ \A c \in M : Links[c] \cap Identity \subseteq d.blocks \cup M
  BY <1>1, MissingClosed DEF Closed
<1>3. \A c \in M : Links[c] \cap Block \subseteq d.blocks
  BY DEF Unknown
<1>4. \A c \in M : Links[c] \in SUBSET CID
  BY <1>2, SQLiteAssumption
<1> DEFINE R == UNION {{<<c, dest>> : dest \in Links[c]} : c \in M}
<1>5. e = [d EXCEPT !.blocks = @ \cup M, !.block_refs = @ \cup R]
  BY DEF Insert
<1>6. R \subseteq CID \X CID
  BY <1>2, <1>4
<1> HIDE DEF M, e, R
<1>7. /\ e.blocks = d.blocks \cup M /\ e.block_refs = d.block_refs \cup R
      /\ e.created = d.created /\ e.heads = d.heads /\ e.funcs = d.funcs
      /\ e.calls = d.calls /\ e.call_refs = d.call_refs
  BY <1>1, <1>5 DEF Table
<1>8. e \in Table
  BY Zenon, <1>1, <1>2, <1>5, <1>6 DEF Table
<1>9. e.block_refs = RefsOfBlocks(e)
  BY <1>7 DEF R, RefsOfBlocks, TablesOK
<1>10. \A b \in e.blocks : Links[b] \subseteq e.blocks
  BY <1>2, <1>3, <1>4, <1>7 DEF TablesOK, CID
<1>11. e.call_refs = RefsOfCalls(e)
  BY <1>7 DEF RefsOfCalls, TablesOK
<1>12. TablesOK(e)
  BY <1>7, <1>8, <1>9, <1>10, <1>11 DEF TablesOK
<1> QED  BY <1>2, <1>7, <1>12 DEF e, M

\* Setting a call keeps the tables whole: a call that has a row keeps it and its id,
\* another gets the next id.
LEMMA SetCallOK ==
  ASSUME NEW d, TablesOK(d), NEW call \in Call, NEW ref \in d.blocks,
         Args[call] \subseteq d.blocks, NameOf[call] \in d.funcs,
         \A row \in SetCall(d, call, ref).calls : row.id <= MaxCallId
  PROVE  /\ TablesOK(SetCall(d, call, ref))
         /\ SetCall(d, call, ref).blocks = d.blocks
         /\ SetCall(d, call, ref).heads = d.heads
         /\ SetCall(d, call, ref).funcs = d.funcs
         /\ \E row \in SetCall(d, call, ref).calls : row.call = call /\ row.result = ref
         /\ \A row : row.call # call =>
              (row \in SetCall(d, call, ref).calls <=> row \in d.calls)
<1> DEFINE e == SetCall(d, call, ref)
           old == {row \in d.calls : row.call = call}
           Row == [id : Nat, call : Call, result : CID]
<1>1. d \in Table /\ d.calls \subseteq Row /\ ref \in CID /\ d.blocks \subseteq CID
  BY DEF TablesOK, Table
<1>0. \A row \in e.calls : row.id <= MaxCallId
  OBVIOUS
<1>2. CASE old # {}
  <2>1. PICK x \in d.calls : x.call = call
    BY <1>2
  <2>2. old = {x}
    BY <2>1 DEF TablesOK
  <2> DEFINE y == [x EXCEPT !.result = ref]
  <2>3. /\ y \in Row /\ y.id = x.id /\ y.call = call /\ y.result = ref
        /\ x.id \in Nat /\ x.id <= MaxCallId
    BY <1>1, <2>1 DEF TablesOK
  <2>4. e = [d EXCEPT !.calls = (@ \ old) \cup {[row EXCEPT !.result = ref] : row \in old}]
    BY <1>2 DEF SetCall
  <2>5. {[row EXCEPT !.result = ref] : row \in old} = {y}
    BY <2>2
  <2>6. e = [d EXCEPT !.calls = (d.calls \ {x}) \cup {y}]
    BY Zenon, <2>2, <2>4, <2>5
  <2> HIDE DEF y, e, old, Row
  <2>7. /\ e.calls = (d.calls \ {x}) \cup {y} /\ e.blocks = d.blocks /\ e.heads = d.heads
        /\ e.funcs = d.funcs /\ e.block_refs = d.block_refs /\ e.call_refs = d.call_refs
    BY <1>1, <2>6 DEF Table
  <2>8. e \in Table
    <3>1. (d.calls \ {x}) \cup {y} \in SUBSET Row
      BY <1>1, <2>3
    <3> QED  BY <1>1, <2>6, <3>1 DEF Table, Row
  <2>9. RefsOfCalls(e) = RefsOfCalls(d)
    <3>1. \A z : z \in RefsOfCalls(e) <=>
            \E row \in e.calls : z \in {<<NameOf[row.call], row.id, dest>> : dest \in Args[row.call]}
      BY DEF RefsOfCalls
    <3>2. \A z : z \in RefsOfCalls(d) <=>
            \E row \in d.calls : z \in {<<NameOf[row.call], row.id, dest>> : dest \in Args[row.call]}
      BY DEF RefsOfCalls
    <3>3. {<<NameOf[x.call], x.id, dest>> : dest \in Args[x.call]}
            = {<<NameOf[y.call], y.id, dest>> : dest \in Args[y.call]}
      BY <2>1, <2>3
    <3> DEFINE Refs(row) == {<<NameOf[row.call], row.id, dest>> : dest \in Args[row.call]}
    <3>4. Refs(x) = Refs(y) /\ \A z : z \in RefsOfCalls(d) <=> \E row \in d.calls : z \in Refs(row)
      BY Zenon, <3>2, <3>3
    <3>5. \A z : z \in RefsOfCalls(e) <=> \E row \in e.calls : z \in Refs(row)
      BY Zenon, <3>1
    <3> HIDE DEF Refs
    <3>6. ASSUME NEW z \in RefsOfCalls(e) PROVE z \in RefsOfCalls(d)
      BY <2>1, <2>7, <3>4, <3>5
    <3>7. ASSUME NEW z \in RefsOfCalls(d) PROVE z \in RefsOfCalls(e)
      <4>1. PICK row \in d.calls : z \in Refs(row)
        BY <3>4
      <4>2. CASE row = x
        BY <2>7, <3>4, <3>5, <4>1, <4>2
      <4>3. CASE row # x
        BY <2>7, <3>5, <4>1, <4>3
      <4> QED  BY <4>2, <4>3
    <3> QED  BY Zenon, <3>6, <3>7, SetExtensionality
  <2>10. TablesOK(e)
    <3>1. e.block_refs = RefsOfBlocks(e) /\ e.call_refs = RefsOfCalls(e)
      BY <2>7, <2>9 DEF TablesOK, RefsOfBlocks
    <3>2. \A row \in e.calls : row.result \in e.blocks /\ Args[row.call] \subseteq e.blocks
      BY <2>3, <2>7 DEF TablesOK
    <3>3. \A row \in e.calls : NameOf[row.call] \in e.funcs /\ row.id <= MaxCallId
      BY <2>3, <2>7 DEF TablesOK
    <3>4. \A r1, r2 \in e.calls : r1.call = r2.call \/ r1.id = r2.id => r1 = r2
      BY <2>1, <2>3, <2>7 DEF TablesOK
    <3> QED  BY <2>7, <2>8, <3>1, <3>2, <3>3, <3>4 DEF TablesOK
  <2> QED  BY <2>1, <2>3, <2>7, <2>10 DEF e
<1>3. CASE old = {}
  <2> DEFINE id == NextCallId(d)
             y == [id |-> id, call |-> call, result |-> ref]
             Refs == {<<NameOf[call], id, dest>> : dest \in Args[call]}
  <2>1. id \in Nat /\ \A row \in d.calls : row.id # id /\ row.call # call
    BY <1>1, <1>3, NextCallIdIsNew DEF TablesOK
  <2>2. e = [d EXCEPT !.calls = d.calls \cup {y}, !.call_refs = d.call_refs \cup Refs]
    BY <1>3 DEF SetCall
  <2>3. y \in Row /\ y.id = id /\ y.call = call /\ y.result = ref
    BY <1>1, <2>1
  <2>4. Refs \subseteq Func \X Nat \X CID
    BY <1>1, <2>1, SQLiteAssumption
  <2>5. Refs = {<<NameOf[y.call], y.id, dest>> : dest \in Args[y.call]}
    BY <2>3
  <2> HIDE DEF id, y, Refs, e, old, Row
  <2>7. /\ e.calls = d.calls \cup {y} /\ e.blocks = d.blocks /\ e.heads = d.heads
        /\ e.funcs = d.funcs /\ e.block_refs = d.block_refs
        /\ e.call_refs = d.call_refs \cup Refs
    BY <1>1, <2>2 DEF Table
  <2>8. e \in Table
    <3>1. d.calls \cup {y} \in SUBSET Row
      BY <1>1, <2>3
    <3> QED  BY Zenon, <1>1, <2>2, <2>4, <3>1 DEF Table, Row
  <2>9. e.call_refs = RefsOfCalls(e)
    <3>1. \A z : z \in RefsOfCalls(e) <=>
            \E row \in e.calls : z \in {<<NameOf[row.call], row.id, dest>> : dest \in Args[row.call]}
      BY DEF RefsOfCalls
    <3>2. \A z : z \in d.call_refs <=>
            \E row \in d.calls : z \in {<<NameOf[row.call], row.id, dest>> : dest \in Args[row.call]}
      BY DEF RefsOfCalls, TablesOK
    <3>3. ASSUME NEW z, z \in e.call_refs PROVE z \in RefsOfCalls(e)
      <4>1. CASE z \in Refs
        BY Zenon, <2>5, <2>7, <3>1, <4>1
      <4>2. CASE z \in d.call_refs
        <5>1. PICK row \in d.calls :
                z \in {<<NameOf[row.call], row.id, dest>> : dest \in Args[row.call]}
          BY Zenon, <3>2, <4>2
        <5>2. row \in e.calls
          BY <2>7, <5>1
        <5> QED  BY Zenon, <3>1, <5>1, <5>2
      <4> QED  BY <2>7, <3>3, <4>1, <4>2
    <3>4. ASSUME NEW z, z \in RefsOfCalls(e) PROVE z \in e.call_refs
      <4>1. PICK row \in e.calls :
              z \in {<<NameOf[row.call], row.id, dest>> : dest \in Args[row.call]}
        BY Zenon, <3>1, <3>4
      <4>2. CASE row = y
        BY <2>5, <2>7, <4>1, <4>2
      <4>3. CASE row \in d.calls
        BY Zenon, <2>7, <3>2, <4>1, <4>3
      <4> QED  BY <2>7, <4>2, <4>3
    <3> QED  BY Zenon, <3>3, <3>4, SetExtensionality
  <2>10. TablesOK(e)
    <3>1. e.block_refs = RefsOfBlocks(e)
      BY <2>7 DEF TablesOK, RefsOfBlocks
    <3>2. \A row \in e.calls : row.result \in e.blocks /\ Args[row.call] \subseteq e.blocks
      BY <2>3, <2>7 DEF TablesOK
    <3>3. \A row \in e.calls : NameOf[row.call] \in e.funcs /\ row.id <= MaxCallId
      BY <1>0, <2>3, <2>7 DEF TablesOK
    <3>4. \A r1, r2 \in e.calls : r1.call = r2.call \/ r1.id = r2.id => r1 = r2
      BY <2>1, <2>3, <2>7 DEF TablesOK
    <3> QED  BY <2>7, <2>8, <2>9, <3>1, <3>2, <3>3, <3>4 DEF TablesOK
  <2> QED  BY <2>3, <2>7, <2>10 DEF e
<1> QED  BY <1>2, <1>3

\* call_invalidate removes the calls of the func and the refs of exactly those.
LEMMA DeleteCallsOK ==
  ASSUME NEW d, TablesOK(d), NEW f \in Func
  PROVE  /\ TablesOK(DeleteCalls(d, f))
         /\ DeleteCalls(d, f).blocks = d.blocks
         /\ DeleteCalls(d, f).heads = d.heads
         /\ DeleteCalls(d, f).funcs = d.funcs
         /\ DeleteCalls(d, f).calls = {row \in d.calls : NameOf[row.call] # f}
<1> DEFINE e == DeleteCalls(d, f)
<1>1. d \in Table
  BY DEF TablesOK
<1>2. /\ e.calls = {row \in d.calls : NameOf[row.call] # f}
      /\ e.call_refs = {ref \in d.call_refs : ref[1] # f}
      /\ e.blocks = d.blocks /\ e.heads = d.heads /\ e.funcs = d.funcs
      /\ e.block_refs = d.block_refs
  BY <1>1 DEF DeleteCalls, Table
<1>3. e \in Table
  BY Zenon, <1>1 DEF DeleteCalls, Table
<1> HIDE DEF e
<1>4. e.call_refs = RefsOfCalls(e)
  <2>1. \A z : z \in RefsOfCalls(e) <=>
          \E row \in e.calls : z \in {<<NameOf[row.call], row.id, dest>> : dest \in Args[row.call]}
    BY DEF RefsOfCalls
  <2>2. \A z : z \in d.call_refs <=>
          \E row \in d.calls : z \in {<<NameOf[row.call], row.id, dest>> : dest \in Args[row.call]}
    BY DEF RefsOfCalls, TablesOK
  <2>3. \A row : \A z \in {<<NameOf[row.call], row.id, dest>> : dest \in Args[row.call]} :
          z[1] = NameOf[row.call]
    OBVIOUS
  <2>4. ASSUME NEW z, z \in e.call_refs PROVE z \in RefsOfCalls(e)
    <3>1. z \in d.call_refs /\ z[1] # f
      BY <1>2, <2>4
    <3>2. PICK row \in d.calls :
            z \in {<<NameOf[row.call], row.id, dest>> : dest \in Args[row.call]}
      BY Zenon, <2>2, <3>1
    <3>3. row \in e.calls
      BY <1>2, <2>3, <3>1, <3>2
    <3> QED  BY Zenon, <2>1, <3>2, <3>3
  <2>5. ASSUME NEW z, z \in RefsOfCalls(e) PROVE z \in e.call_refs
    <3>1. PICK row \in e.calls :
            z \in {<<NameOf[row.call], row.id, dest>> : dest \in Args[row.call]}
      BY Zenon, <2>1, <2>5
    <3>2. row \in d.calls /\ z[1] # f
      BY <1>2, <2>3, <3>1
    <3>3. z \in d.call_refs
      BY Zenon, <2>2, <3>1, <3>2
    <3> QED  BY <1>2, <3>2, <3>3
  <2> QED  BY Zenon, <2>4, <2>5, SetExtensionality
<1>5. e.block_refs = RefsOfBlocks(e)
  BY <1>2 DEF TablesOK, RefsOfBlocks
<1>6. TablesOK(e)
  BY <1>2, <1>3, <1>4, <1>5 DEF TablesOK
<1> QED  BY <1>2, <1>6 DEF e

\* The tables stay whole when a head is set to a node that is there, or deleted.
LEMMA WithHeadOK ==
  ASSUME NEW d, TablesOK(d), NEW h \in Head, NEW ref, ref = None \/ ref \in d.blocks
  PROVE  /\ TablesOK(WithHead(d, h, ref)) /\ WithHead(d, h, ref).blocks = d.blocks
         /\ WithHead(d, h, ref).funcs = d.funcs /\ WithHead(d, h, ref).calls = d.calls
         /\ WithHead(d, h, ref).heads = [d.heads EXCEPT ![h] = ref]
<1> DEFINE e == WithHead(d, h, ref)
<1>1. d \in Table /\ d.heads \in [Head -> CID \cup {None}] /\ d.blocks \subseteq CID
  BY DEF TablesOK, Table
<1>2. /\ e.blocks = d.blocks /\ e.funcs = d.funcs /\ e.calls = d.calls
      /\ e.block_refs = d.block_refs /\ e.call_refs = d.call_refs
      /\ e.heads = [d.heads EXCEPT ![h] = ref]
  BY <1>1 DEF Table, WithHead
<1>3. [d.heads EXCEPT ![h] = ref] \in [Head -> CID \cup {None}]
  BY <1>1
<1>4. e \in Table
  BY <1>1, <1>3 DEF Table, WithHead
<1> HIDE DEF e
<1>5. RefsOfBlocks(e) = RefsOfBlocks(d) /\ RefsOfCalls(e) = RefsOfCalls(d)
  BY <1>2 DEF RefsOfBlocks, RefsOfCalls
<1>6. \A g \in Head : e.heads[g] # None => e.heads[g] \in e.blocks
  BY <1>1, <1>2 DEF TablesOK
<1>7. TablesOK(e)
  BY <1>2, <1>4, <1>5, <1>6 DEF TablesOK
<1> QED  BY <1>2, <1>7 DEF e

\* They do when a func is added.
LEMMA WithFuncOK ==
  ASSUME NEW d, TablesOK(d), NEW f \in Func
  PROVE  /\ TablesOK(WithFunc(d, f)) /\ WithFunc(d, f).blocks = d.blocks
         /\ WithFunc(d, f).funcs = d.funcs \cup {f}
         /\ WithFunc(d, f).calls = d.calls /\ WithFunc(d, f).heads = d.heads
<1> DEFINE e == WithFunc(d, f)
<1>1. d \in Table
  BY DEF TablesOK
<1>2. /\ e.blocks = d.blocks /\ e.funcs = d.funcs \cup {f} /\ e.calls = d.calls
      /\ e.block_refs = d.block_refs /\ e.call_refs = d.call_refs /\ e.heads = d.heads
  BY <1>1 DEF Table, WithFunc
<1>3. e \in Table
  BY <1>1 DEF Table, WithFunc
<1> HIDE DEF e
<1>4. RefsOfBlocks(e) = RefsOfBlocks(d) /\ RefsOfCalls(e) = RefsOfCalls(d)
  BY <1>2 DEF RefsOfBlocks, RefsOfCalls
<1>5. TablesOK(e)
  BY <1>2, <1>3, <1>4 DEF TablesOK
<1> QED  BY <1>2, <1>5 DEF e

\* They do when the schema is said to be there.
LEMMA WithSchemaOK ==
  ASSUME NEW d, TablesOK(d)
  PROVE  /\ TablesOK(WithSchema(d)) /\ WithSchema(d).blocks = d.blocks
         /\ WithSchema(d).funcs = d.funcs
         /\ WithSchema(d).calls = d.calls /\ WithSchema(d).heads = d.heads
<1> DEFINE e == WithSchema(d)
<1>1. d \in Table
  BY DEF TablesOK
<1>2. /\ e.blocks = d.blocks /\ e.funcs = d.funcs /\ e.calls = d.calls
      /\ e.block_refs = d.block_refs /\ e.call_refs = d.call_refs /\ e.heads = d.heads
  BY <1>1 DEF Table, WithSchema
<1>3. e \in Table
  BY Zenon, <1>1 DEF Table, WithSchema
<1> HIDE DEF e
<1>4. RefsOfBlocks(e) = RefsOfBlocks(d) /\ RefsOfCalls(e) = RefsOfCalls(d)
  BY <1>2 DEF RefsOfBlocks, RefsOfCalls
<1>5. TablesOK(e)
  BY <1>2, <1>3, <1>4 DEF TablesOK
<1> QED  BY <1>2, <1>5 DEF e

-----------------------------------------------------------------------------
(* The inductive invariant *)

Working == {"start", "insert", "func", "main", "nothing"}
Locking == {"upgrade", "insert", "func", "main", "nothing"}

\* Where a client is says what it was asked and, since blocks and funcs are never
\* removed, what an earlier transaction has added for it.
StageOK(t) ==
  /\ at[t] \in {"closed", "upgrade", "idle"} => req[t] = None
  /\ at[t] \in Working => req[t] \in Request
  /\ at[t] = "insert" => req[t].op = "resolve" \/ (req[t].op = "set" /\ req[t].name \in Head)
  /\ at[t] = "func" => req[t].op = "set" /\ req[t].name \in Call
  /\ at[t] = "nothing" => req[t].op = "invalidate"
  /\ at[t] = "main" =>
       /\ req[t].op # "resolve"
       /\ req[t].op = "set" /\ req[t].name \in Head => req[t].ref \in db.blocks
       /\ req[t].op = "set" /\ req[t].name \in Call => NameOf[req[t].name] \in db.funcs
  /\ lock = t => at[t] \in Locking

Inv == TypeOK /\ TablesOK(db) /\ \A t \in Client : StageOK(t)

\* The fields of a request.
LEMMA RequestFields ==
  ASSUME NEW r \in Request
  PROVE  /\ r # None /\ r.op \in {"put", "set", "delete", "invalidate", "resolve"}
         /\ r.op = "put" => r.name \in Block
         /\ r.op = "set" => r.name \in Name /\ r.ref \in CID
         /\ r.op = "delete" => r.name \in Head /\ r.ref = None
         /\ r.op = "invalidate" => r.name \in Func
         /\ r.op = "resolve" => r.name \in Call
<1>1. None \notin Request
  BY SQLiteAssumption
<1> QED  BY <1>1 DEF Request

\* A name is a head or a call and never both.
LEMMA NoNameTwice == Name = Head \cup Call /\ \A n \in Head : n \notin Call
BY SQLiteAssumption DEF Name

\* The CIDs a request needs, by what it asks.
LEMMA NeededIs ==
  ASSUME NEW t \in Client, req[t] \in Request
  PROVE  /\ Needed(t) \in SUBSET CID
         /\ req[t].op = "put" => Needed(t) = {req[t].name}
         /\ req[t].op = "set" /\ req[t].name \in Head => Needed(t) = {req[t].ref}
         /\ req[t].op = "set" /\ req[t].name \in Call => Needed(t) = Args[req[t].name] \cup {req[t].ref}
         /\ req[t].op = "resolve" => Needed(t) = Args[req[t].name]
<1> DEFINE r == req[t]
<1>1. r \in Request
  OBVIOUS
<1> HIDE DEF r
<1>2. /\ r.op \in {"put", "set", "delete", "invalidate", "resolve"}
      /\ r.op = "put" => r.name \in CID
      /\ r.op = "set" => r.name \in Name /\ r.ref \in CID
      /\ r.op = "resolve" => r.name \in Call
  BY <1>1, RequestFields DEF CID
<1>3. \A c \in Call : Args[c] \in SUBSET CID
  BY SQLiteAssumption
<1>4. CASE r.op = "put"
  BY <1>2, <1>4 DEF Needed, r
<1>5. CASE r.op = "set" /\ r.name \in Head
  BY <1>2, <1>5, NoNameTwice DEF Needed, r
<1>6. CASE r.op = "set" /\ r.name \in Call
  BY <1>2, <1>3, <1>6, NoNameTwice DEF Needed, r
<1>7. CASE r.op = "resolve"
  BY <1>2, <1>3, <1>7 DEF Needed, r
<1>8. CASE r.op \in {"delete", "invalidate"}
  BY <1>8 DEF Needed, r
<1> QED  BY <1>2, <1>4, <1>5, <1>6, <1>7, <1>8, NoNameTwice DEF r

\* What a transaction writes, by where its client is.
LEMMA WrittenIs ==
  ASSUME NEW t \in Client
  PROVE  /\ at[t] = "upgrade" => Written(t) = WithSchema(db)
         /\ at[t] = "insert" => Written(t) = Insert(db, Needed(t))
         /\ at[t] = "func" => Written(t) = WithFunc(db, NameOf[req[t].name])
         /\ at[t] = "nothing" => Written(t) = db
         /\ at[t] = "main" /\ req[t].op = "put" => Written(t) = Insert(db, {req[t].name})
         /\ at[t] = "main" /\ req[t].op = "set" /\ req[t].name \in Head =>
              Written(t) = WithHead(db, req[t].name, req[t].ref)
         /\ at[t] = "main" /\ req[t].op = "set" /\ req[t].name \in Call =>
              Written(t) = SetCall(Insert(db, Needed(t)), req[t].name, req[t].ref)
         /\ at[t] = "main" /\ req[t].op = "delete" => Written(t) = WithHead(db, req[t].name, None)
         /\ at[t] = "main" /\ req[t].op = "invalidate" => Written(t) = DeleteCalls(db, req[t].name)
BY Zenon, NoNameTwice DEF Written, WithHead, WithFunc, WithSchema

\* A transaction leaves the tables whole and removes no block and no func.
LEMMA CommitTables ==
  ASSUME Inv, NEW t \in Client, Commit(t)
  PROVE  /\ TablesOK(db') /\ db.blocks \subseteq db'.blocks /\ db.funcs \subseteq db'.funcs
         /\ at[t] = "insert" => Needed(t) \subseteq db'.blocks
         /\ at[t] = "func" => NameOf[req[t].name] \in db'.funcs
<1>1. /\ TablesOK(db) /\ at[t] \in Locking /\ StageOK(t) /\ db' = Written(t)
      /\ \A row \in db'.calls : row.id <= MaxCallId
  BY DEF Inv, StageOK, Commit
<1>2. at[t] # "upgrade" => req[t] \in Request
  BY <1>1 DEF StageOK, Locking, Working
<1>3. at[t] \in {"insert", "main"} => ~UnknownCID(t)
  BY DEF Commit, Doomed
<1>4. CASE at[t] = "upgrade"
  BY Zenon, <1>1, <1>4, WrittenIs, WithSchemaOK
<1>5. CASE at[t] = "insert"
  <2>1. Needed(t) \in SUBSET CID /\ ~Unknown(db, Needed(t))
    BY <1>2, <1>3, <1>5, NeededIs DEF UnknownCID
  <2>2. db' = Insert(db, Needed(t))
    BY Zenon, <1>1, <1>5, WrittenIs
  <2> QED  BY <1>1, <1>5, <2>1, <2>2, InsertOK
<1>6. CASE at[t] = "func"
  <2>1. NameOf[req[t].name] \in Func
    BY <1>1, <1>6, SQLiteAssumption DEF StageOK
  <2>2. db' = WithFunc(db, NameOf[req[t].name])
    BY Zenon, <1>1, <1>6, WrittenIs
  <2> QED  BY <1>1, <1>6, <2>1, <2>2, WithFuncOK
<1>7. CASE at[t] = "nothing"
  BY Zenon, <1>1, <1>7, WrittenIs
<1>8. CASE at[t] = "main"
  <2>1. req[t] \in Request /\ req[t].op # "resolve" /\ ~Unknown(db, Needed(t))
    BY <1>1, <1>2, <1>3, <1>8 DEF StageOK, UnknownCID
  <2>2. CASE req[t].op = "put"
    <3>1. db' = Insert(db, Needed(t)) /\ Needed(t) \in SUBSET CID
      BY <1>1, <1>8, <2>1, <2>2, WrittenIs, NeededIs
    <3> QED  BY SMTT(20), <1>1, <1>8, <2>1, <3>1, InsertOK
  <2>3. CASE req[t].op = "set" /\ req[t].name \in Head
    <3>1. db' = WithHead(db, req[t].name, req[t].ref) /\ req[t].ref \in db.blocks
      BY Zenon, <1>1, <1>8, <2>3, WrittenIs DEF StageOK
    <3>2. TablesOK(WithHead(db, req[t].name, req[t].ref))
      BY Zenon, <1>1, <2>3, <3>1, WithHeadOK
    <3>3. db'.blocks = db.blocks /\ db'.funcs = db.funcs
      BY <1>1, <3>1 DEF WithHead, TablesOK, Table
    <3> QED  BY <1>8, <3>1, <3>2, <3>3
  <2>4. CASE req[t].op = "set" /\ req[t].name \in Call
    <3> DEFINE d == Insert(db, Needed(t))
    <3>1. /\ db' = SetCall(d, req[t].name, req[t].ref) /\ NameOf[req[t].name] \in db.funcs
          /\ Needed(t) = Args[req[t].name] \cup {req[t].ref} /\ Needed(t) \in SUBSET CID
      BY Zenon, <1>1, <1>8, <2>1, <2>4, WrittenIs, NeededIs DEF StageOK
    <3>2. TablesOK(d) /\ Needed(t) \subseteq d.blocks /\ db.blocks \subseteq d.blocks /\ d.funcs = db.funcs
      BY Zenon, <1>1, <2>1, <3>1, InsertOK
    <3> HIDE DEF d
    <3> QED  BY <1>1, <1>8, <2>4, <3>1, <3>2, SetCallOK
  <2>5. CASE req[t].op = "delete"
    <3>1. db' = WithHead(db, req[t].name, None) /\ req[t].name \in Head
      BY Zenon, <1>1, <1>8, <2>1, <2>5, WrittenIs, RequestFields
    <3>2. TablesOK(WithHead(db, req[t].name, None))
      BY Zenon, <1>1, <3>1, WithHeadOK
    <3>3. db'.blocks = db.blocks /\ db'.funcs = db.funcs
      BY <1>1, <3>1 DEF WithHead, TablesOK, Table
    <3> QED  BY <1>8, <3>1, <3>2, <3>3
  <2>6. CASE req[t].op = "invalidate"
    <3>1. db' = DeleteCalls(db, req[t].name) /\ req[t].name \in Func
      BY Zenon, <1>1, <1>8, <2>1, <2>6, WrittenIs, RequestFields
    <3> QED  BY <1>1, <1>8, <3>1, DeleteCallsOK
  <2> QED  BY <2>1, <2>2, <2>3, <2>4, <2>5, <2>6, RequestFields, NoNameTwice
<1> QED  BY <1>1, <1>4, <1>5, <1>6, <1>7, <1>8 DEF Locking

-----------------------------------------------------------------------------
(* Every step keeps the tables and the clients in order *)

\* A client that does not move stays in order while others add blocks and funcs.
LEMMA OthersKept ==
  ASSUME NEW u \in Client, StageOK(u), at'[u] = at[u], req'[u] = req[u], lock' = u => lock = u,
         db.blocks \subseteq db'.blocks, db.funcs \subseteq db'.funcs
  PROVE  StageOK(u)'
BY DEF StageOK, Working, Locking

\* So a step of one client is about that client, the tables and the types.
LEMMA OneMoves ==
  ASSUME Inv, NEW t \in Client, TypeOK', TablesOK(db'), StageOK(t)',
         \A u \in Client \ {t} : at'[u] = at[u] /\ req'[u] = req[u] /\ (lock' = u => lock = u),
         db.blocks \subseteq db'.blocks, db.funcs \subseteq db'.funcs
  PROVE  Inv'
<1>1. ASSUME NEW u \in Client \ {t} PROVE StageOK(u)'
  BY OthersKept DEF Inv
<1>2. \A u \in Client : StageOK(u)'
  BY SMTT(20), <1>1
<1> QED  BY <1>2 DEF Inv

\* Where a request goes after its look at the tables, and what it has seen there.
LEMMA FirstStageIs ==
  ASSUME NEW t \in Client, req[t] \in Request
  PROVE  /\ FirstStage(t) \in {"return", "insert", "func", "main", "nothing"}
         /\ FirstStage(t) = "return" => \/ req[t].op = "put" /\ req[t].name \in db.blocks
                                        \/ req[t].op = "resolve"
         /\ FirstStage(t) = "insert" => req[t].op = "resolve" \/ (req[t].op = "set" /\ req[t].name \in Head)
         /\ FirstStage(t) = "func" => req[t].op = "set" /\ req[t].name \in Call
         /\ FirstStage(t) = "nothing" => req[t].op = "invalidate" /\ req[t].name \notin db.funcs
         /\ FirstStage(t) = "main" =>
              /\ req[t].op # "resolve"
              /\ req[t].op = "set" /\ req[t].name \in Head => req[t].ref \in db.blocks
              /\ req[t].op = "set" /\ req[t].name \in Call => NameOf[req[t].name] \in db.funcs
<1> DEFINE r == req[t]
<1>1. /\ r.op \in {"put", "set", "delete", "invalidate", "resolve"}
      /\ r.op = "set" => r.name \in Head \/ r.name \in Call
      /\ ~(r.name \in Head /\ r.name \in Call)
  BY RequestFields, NoNameTwice
<1>2. FirstStage(t) = 
        CASE r.op = "put" -> IF r.name \in db.blocks THEN "return" ELSE "main"
          [] r.op = "set" /\ r.name \in Head -> IF r.ref \in db.blocks THEN "main" ELSE "insert"
          [] r.op = "set" /\ r.name \in Call ->
               IF NameOf[r.name] \in db.funcs THEN "main" ELSE "func"
          [] r.op = "invalidate" -> IF r.name \in db.funcs THEN "main" ELSE "nothing"
          [] r.op = "delete" -> "main"
          [] r.op = "resolve" -> IF Args[r.name] \subseteq db.blocks THEN "return" ELSE "insert"
  BY DEF FirstStage
<1> HIDE DEF r
<1>3. CASE r.op = "put"
  BY <1>2, <1>3 DEF r
<1>4. CASE r.op = "set" /\ r.name \in Head
  BY <1>1, <1>2, <1>4 DEF r
<1>5. CASE r.op = "set" /\ r.name \in Call
  BY <1>1, <1>2, <1>5 DEF r
<1>6. CASE r.op = "invalidate"
  BY <1>2, <1>6 DEF r
<1>7. CASE r.op = "delete"
  BY <1>2, <1>7 DEF r
<1>8. CASE r.op = "resolve"
  BY <1>2, <1>8 DEF r
<1> QED  BY <1>1, <1>3, <1>4, <1>5, <1>6, <1>7, <1>8

\* A look either ends the request or takes it to its first transaction.
LEMMA LookInv ==
  ASSUME Inv, NEW t \in Client, Look(t)
  PROVE  Inv'
<1>1. TypeOK /\ TablesOK(db) /\ StageOK(t) /\ at[t] = "start" /\ req[t] \in Request
  BY DEF Inv, Look, StageOK, Working
<1>2. UNCHANGED <<db, lock>> /\ lock # t
  BY <1>1 DEF Look, StageOK, Locking
<1>3. TablesOK(db') /\ db.blocks \subseteq db'.blocks /\ db.funcs \subseteq db'.funcs
  BY <1>1, <1>2
<1>4. CASE FirstStage(t) = "return"
  <2>1. at' = [at EXCEPT ![t] = "idle"] /\ req' = [req EXCEPT ![t] = None]
    BY <1>4 DEF Look, Finished, Return, Goto
  <2>2. TypeOK'
    BY <1>1, <1>2, <2>1 DEF TypeOK
  <2>3. StageOK(t)'
    BY <1>1, <1>2, <2>1 DEF TypeOK, StageOK, Working, Locking
  <2> QED  BY <1>1, <1>2, <1>3, <2>1, <2>2, <2>3, OneMoves DEF TypeOK
<1>5. CASE FirstStage(t) # "return"
  <2>1. at' = [at EXCEPT ![t] = FirstStage(t)] /\ req' = req
    BY <1>5 DEF Look, Finished, Goto
  <2>2. TypeOK'
    BY <1>1, <1>2, <1>5, <2>1, FirstStageIs DEF TypeOK
  <2>3. StageOK(t)'
    BY <1>1, <1>2, <1>5, <2>1, FirstStageIs DEF TypeOK, StageOK, Working, Locking
  <2> QED  BY <1>1, <1>2, <1>3, <2>1, <2>2, <2>3, OneMoves DEF TypeOK
<1> QED  BY <1>4, <1>5

\* A transaction ends the request or takes it to the main one, with what that needs.
LEMMA CommitInv ==
  ASSUME Inv, NEW t \in Client, Commit(t)
  PROVE  Inv'
<1>1. TypeOK /\ TablesOK(db) /\ StageOK(t) /\ lock = t /\ lock' = None /\ at[t] \in Locking
  BY DEF Inv, Commit, StageOK
<1>2. /\ TablesOK(db') /\ db.blocks \subseteq db'.blocks /\ db.funcs \subseteq db'.funcs
      /\ at[t] = "insert" => Needed(t) \subseteq db'.blocks
      /\ at[t] = "func" => NameOf[req[t].name] \in db'.funcs
  BY CommitTables
<1>3. db' \in Table /\ None \notin Client
  BY <1>2, SQLiteAssumption DEF TablesOK
<1>4. CASE at[t] \in {"insert", "func"} /\ req[t].op = "set"
  <2>1. at' = [at EXCEPT ![t] = "main"] /\ req' = req
    BY <1>4 DEF Commit, Goto
  <2>2. TypeOK'
    BY <1>1, <1>3, <2>1 DEF TypeOK
  <2>3. req[t] \in Request
    BY <1>1, <1>4 DEF StageOK, Working
  <2>4. /\ req[t].name \in Head => at[t] = "insert" /\ req[t].ref \in db'.blocks
        /\ req[t].name \in Call => at[t] = "func"
    BY <1>1, <1>2, <1>4, <2>3, NeededIs, NoNameTwice DEF StageOK
  <2>5. StageOK(t)'
    BY <1>1, <1>2, <1>3, <1>4, <2>1, <2>3, <2>4 DEF TypeOK, StageOK, Working, Locking
  <2> QED  BY <1>1, <1>2, <1>3, <2>1, <2>2, <2>5, OneMoves DEF TypeOK
<1>5. CASE ~(at[t] \in {"insert", "func"} /\ req[t].op = "set")
  <2>1. at' = [at EXCEPT ![t] = "idle"] /\ req' = [req EXCEPT ![t] = None]
    BY <1>5 DEF Commit, Return, Goto
  <2>2. TypeOK'
    BY <1>1, <1>3, <2>1 DEF TypeOK
  <2>3. StageOK(t)'
    BY <1>1, <1>3, <2>1 DEF TypeOK, StageOK, Working, Locking
  <2> QED  BY <1>1, <1>2, <1>3, <2>1, <2>2, <2>3, OneMoves DEF TypeOK
<1> QED  BY <1>4, <1>5

\* Every step keeps the invariant.
LEMMA InvStep == Inv /\ [Next]_vars => Inv'
<1> SUFFICES ASSUME Inv, [Next]_vars PROVE Inv'
  OBVIOUS
<1>0. TypeOK /\ TablesOK(db) /\ (\A t \in Client : StageOK(t)) /\ None \notin Client
  BY SQLiteAssumption DEF Inv
<1>1. ASSUME NEW t \in Client, Open(t) PROVE Inv'
  <2>1. TypeOK'
    BY <1>0, <1>1 DEF TypeOK, Open, Goto
  <2>2. StageOK(t)'
    BY <1>0, <1>1 DEF TypeOK, Open, Goto, StageOK, Working, Locking
  <2> QED  BY <1>0, <1>1, <2>1, <2>2, OneMoves DEF TypeOK, Open, Goto
<1>2. ASSUME NEW t \in Client, Ask(t) PROVE Inv'
  <2>0. PICK r \in Request : at[t] = "idle" /\ req' = [req EXCEPT ![t] = r] /\
               at' = [at EXCEPT ![t] = "start"] /\ UNCHANGED <<db, lock>>
    BY Zenon, <1>2 DEF Ask, Goto
  <2>1. TypeOK'
    BY <1>0, <2>0 DEF TypeOK
  <2>2. StageOK(t)'
    BY <1>0, <2>0 DEF TypeOK, StageOK, Working, Locking
  <2> QED  BY <1>0, <2>0, <2>1, <2>2, OneMoves DEF TypeOK
<1>3. ASSUME NEW t \in Client, Begin(t) PROVE Inv'
  <2>1. TypeOK'
    BY <1>0, <1>3 DEF TypeOK, Begin
  <2>2. StageOK(t)'
    BY <1>0, <1>3 DEF TypeOK, Begin, StageOK, Working, Locking
  <2> QED  BY <1>0, <1>3, <2>1, <2>2, OneMoves DEF TypeOK, Begin
<1>4. ASSUME NEW t \in Client, Fatal(t) PROVE Inv'
  <2>1. TypeOK'
    BY <1>0, <1>4 DEF TypeOK, Fatal, Goto
  <2>2. StageOK(t)'
    BY <1>0, <1>4 DEF TypeOK, Fatal, Goto, StageOK, Working, Locking
  <2> QED  BY <1>0, <1>4, <2>1, <2>2, OneMoves DEF TypeOK, Fatal, Goto
<1>5. ASSUME NEW t \in Client, Crash(t) PROVE Inv'
  <2>1. TypeOK'
    BY <1>0, <1>5 DEF TypeOK, Crash, Goto
  <2>2. StageOK(t)'
    BY <1>0, <1>5 DEF TypeOK, Crash, Goto, StageOK, Working, Locking
  <2> QED  BY <1>0, <1>5, <2>1, <2>2, OneMoves DEF TypeOK, Crash, Goto
<1>6. CASE UNCHANGED vars
  BY <1>0, <1>6 DEF vars, Inv, TypeOK, StageOK, Working, Locking
<1> QED  BY <1>1, <1>2, <1>3, <1>4, <1>5, <1>6, LookInv, CommitInv DEF Next

\* The invariant holds in every state of the database and its clients.
THEOREM SQLiteInvariant == Spec => []Inv
<1>1. Init => Inv
  <2> SUFFICES ASSUME Init PROVE Inv
    OBVIOUS
  <2>1. TypeOK
    BY DEF Init, TypeOK, Table
  <2>2. RefsOfBlocks(db) = {} /\ RefsOfCalls(db) = {}
    BY DEF Init, RefsOfBlocks, RefsOfCalls
  <2>3. TablesOK(db)
    BY Zenon, <2>1, <2>2 DEF Init, TypeOK, TablesOK
  <2>4. ASSUME NEW t \in Client PROVE StageOK(t)
    BY SQLiteAssumption DEF Init, StageOK, Working, Locking
  <2> QED  BY <2>1, <2>3, <2>4 DEF Inv
<1> QED  BY <1>1, InvStep, PTL DEF Spec

\* The tables, the lock and the clients keep their types.
THEOREM TypeCorrect == Spec => []TypeOK
<1>1. Inv => TypeOK
  BY DEF Inv
<1> QED  BY <1>1, SQLiteInvariant, PTL

\* Every node, argument, result and func that a row refers to has its row, although no
\* foreign key is enforced and clients die between their transactions.
THEOREM NoDanglingRowHolds == Spec => []NoDanglingRow
<1>1. Inv => NoDanglingRow
  BY DEF Inv, TablesOK, NoDanglingRow
<1> QED  BY <1>1, SQLiteInvariant, PTL

\* The rows of block_refs that have a CID at their end are those of the blocks with
\* that link.
LEMMA BlockUsers ==
  ASSUME TablesOK(db), NEW c
  PROVE  {ref[1] : ref \in {r \in db.block_refs : r[2] = c}} = {b \in db.blocks : c \in Links[b]}
<1> DEFINE L == {ref[1] : ref \in {r \in db.block_refs : r[2] = c}}
           R == {b \in db.blocks : c \in Links[b]}
<1>0. db.block_refs = RefsOfBlocks(db)
  BY DEF TablesOK
<1>1. ASSUME NEW x \in L PROVE x \in R
  <2>1. PICK ref \in db.block_refs : ref[2] = c /\ x = ref[1]
    OBVIOUS
  <2>2. PICK b \in db.blocks : \E dest \in Links[b] : ref = <<b, dest>>
    BY <1>0, <2>1 DEF RefsOfBlocks
  <2> QED  BY <2>1, <2>2
<1>2. ASSUME NEW x \in R PROVE x \in L
  <2>1. <<x, c>> \in db.block_refs
    BY <1>0 DEF RefsOfBlocks
  <2>2. <<x, c>>[1] = x /\ <<x, c>>[2] = c
    OBVIOUS
  <2> QED  BY <2>1, <2>2
<1> QED  BY Zenon, <1>1, <1>2, SetExtensionality

\* A row of calls has a ref to a CID if and only if the CID is one of its arguments.
LEMMA CallUsers ==
  ASSUME TablesOK(db), NEW row \in db.calls, NEW c
  PROVE  <<NameOf[row.call], row.id, c>> \in db.call_refs <=> c \in Args[row.call]
<1>0. db.call_refs = RefsOfCalls(db)
  BY DEF TablesOK
<1>1. ASSUME <<NameOf[row.call], row.id, c>> \in db.call_refs PROVE c \in Args[row.call]
  <2>1. PICK r2 \in db.calls : \E dest \in Args[r2.call] :
           <<NameOf[row.call], row.id, c>> = <<NameOf[r2.call], r2.id, dest>>
    BY <1>0, <1>1 DEF RefsOfCalls
  <2>2. r2 = row
    BY <2>1 DEF TablesOK
  <2> QED  BY <2>1, <2>2
<1>2. ASSUME c \in Args[row.call] PROVE <<NameOf[row.call], row.id, c>> \in db.call_refs
  BY <1>0, <1>2 DEF RefsOfCalls
<1> QED  BY <1>1, <1>2

\* list_names_using gives exactly the blocks, heads and calls that use a CID.
THEOREM TracksEveryLinkHolds == Spec => []TracksEveryLink
<1>1. ASSUME Inv PROVE TracksEveryLink
  <2>0. TablesOK(db)
    BY <1>1 DEF Inv
  <2>1. ASSUME NEW c \in db.blocks PROVE list_names_using(c) = Users(c)
    <3> DEFINE byResult == {row.call : row \in {r \in db.calls : r.result = c}}
               byArgument == {row.call : row \in {r \in db.calls : <<NameOf[r.call], r.id, c>> \in db.call_refs}}
               both == {row.call : row \in {r \in db.calls : c = r.result \/ c \in Args[r.call]}}
    <3>1. ASSUME NEW x \in byResult \cup byArgument PROVE x \in both
      <4>1. CASE x \in byResult
        BY <4>1
      <4>2. CASE x \in byArgument
        <5>1. PICK row \in db.calls : x = row.call /\ <<NameOf[row.call], row.id, c>> \in db.call_refs
          BY <4>2
        <5> QED  BY <2>0, <5>1, CallUsers
      <4> QED  BY <4>1, <4>2
    <3>2. ASSUME NEW x \in both PROVE x \in byResult \cup byArgument
      <4>1. PICK row \in db.calls : x = row.call /\ (c = row.result \/ c \in Args[row.call])
        OBVIOUS
      <4>2. c = row.result \/ <<NameOf[row.call], row.id, c>> \in db.call_refs
        BY <2>0, <4>1, CallUsers
      <4> QED  BY Zenon, <4>1, <4>2
    <3>3. byResult \cup byArgument = both
      BY Zenon, <3>1, <3>2, SetExtensionality
    <3>4. {ref[1] : ref \in {r \in db.block_refs : r[2] = c}} = {b \in db.blocks : c \in Links[b]}
      BY <2>0, BlockUsers
    <3> QED  BY Zenon, <3>3, <3>4 DEF list_names_using, Users
  <2>2. ASSUME NEW ref \in db.call_refs
        PROVE  \E row \in db.calls : row.id = ref[2] /\ NameOf[row.call] = ref[1]
    <3>1. PICK row \in db.calls : \E dest \in Args[row.call] : ref = <<NameOf[row.call], row.id, dest>>
      BY <2>0 DEF TablesOK, RefsOfCalls
    <3> QED  BY <3>1
  <2> QED  BY <2>1, <2>2 DEF TracksEveryLink
<1> QED  BY <1>1, SQLiteInvariant, PTL

-----------------------------------------------------------------------------
(* The tables implement the atomic store *)

\* A call has the result of its row.
LEMMA ResultOfRow ==
  ASSUME NEW d, TablesOK(d), NEW row \in d.calls
  PROVE  ResultOf(d, row.call) = row.result
<1> DEFINE rows == {r \in d.calls : r.call = row.call}
<1>1. rows = {row}
  BY DEF TablesOK
<1>2. row.id \in Nat
  BY DEF TablesOK, Table
<1>3. (CHOOSE r \in rows : \A x \in rows : r.id <= x.id) = row
  BY <1>1, <1>2
<1> QED  BY Zenon, <1>1, <1>3 DEF ResultOf

\* A call without a row has no result, and conversely.
LEMMA ResultOfNone ==
  ASSUME NEW d, TablesOK(d), NEW c \in Call
  PROVE  ResultOf(d, c) = None <=> \A row \in d.calls : row.call # c
<1>1. ASSUME NEW row \in d.calls, row.call = c PROVE ResultOf(d, c) # None
  <2>1. row.result \in CID
    BY DEF TablesOK, Table
  <2> QED  BY <1>1, <2>1, ResultOfRow, SQLiteAssumption
<1>2. ASSUME \A row \in d.calls : row.call # c PROVE ResultOf(d, c) = None
  BY <1>2 DEF ResultOf
<1> QED  BY <1>1, <1>2

\* The names as a function.
LEMMA NamesFields ==
  ASSUME NEW d
  PROVE  /\ NamesIn(d) = [n \in Name |-> NamesIn(d)[n]]
         /\ \A h \in Head : NamesIn(d)[h] = d.heads[h]
         /\ \A c \in Call : NamesIn(d)[c] = ResultOf(d, c)
BY NoNameTwice DEF NamesIn

\* Names stay when heads and calls do.
LEMMA NamesSame ==
  ASSUME NEW d, NEW e, e.heads = d.heads, e.calls = d.calls
  PROVE  NamesIn(e) = NamesIn(d)
BY DEF NamesIn, ResultOf

\* set and head_delete change one head.
LEMMA NamesWithHead ==
  ASSUME NEW d, TablesOK(d), NEW h \in Head, NEW ref
  PROVE  NamesIn(WithHead(d, h, ref)) = [NamesIn(d) EXCEPT ![h] = ref]
<1> DEFINE e == WithHead(d, h, ref)
<1>1. e.heads = [d.heads EXCEPT ![h] = ref] /\ e.calls = d.calls /\ d.heads \in [Head -> CID \cup {None}]
  BY DEF WithHead, TablesOK, Table
<1> HIDE DEF e
<1>2. \A n \in Call : ResultOf(e, n) = ResultOf(d, n)
  BY <1>1 DEF ResultOf
<1>3. \A n \in Name : NamesIn(e)[n] = [NamesIn(d) EXCEPT ![h] = ref][n]
  BY <1>1, <1>2, NoNameTwice DEF NamesIn
<1> QED  BY Zenon, <1>3, NamesFields DEF e, NamesIn

\* set changes the result of one call, with or without a row.
LEMMA NamesSetCall ==
  ASSUME NEW d, TablesOK(d), NEW call \in Call, NEW ref \in d.blocks,
         Args[call] \subseteq d.blocks, NameOf[call] \in d.funcs,
         \A row \in SetCall(d, call, ref).calls : row.id <= MaxCallId
  PROVE  NamesIn(SetCall(d, call, ref)) = [NamesIn(d) EXCEPT ![call] = ref]
<1> DEFINE e == SetCall(d, call, ref)
<1>1. \E row \in e.calls : row.call = call /\ row.result = ref
  BY SetCallOK
<1>2. \A row : row.call # call => (row \in e.calls <=> row \in d.calls)
  BY SetCallOK
<1>4. e.heads = d.heads /\ TablesOK(e)
  BY SetCallOK
<1> HIDE DEF e
<1>5. ResultOf(e, call) = ref
  BY <1>1, <1>4, ResultOfRow
<1>6. ASSUME NEW c \in Call, c # call PROVE ResultOf(e, c) = ResultOf(d, c)
  <2>1. CASE \E row \in d.calls : row.call = c
    <3>1. PICK row \in d.calls : row.call = c
      BY <2>1
    <3> QED  BY <1>2, <1>4, <1>6, <3>1, ResultOfRow
  <2>2. CASE \A row \in d.calls : row.call # c
    <3>1. \A row \in e.calls : row.call # c
      BY <1>2, <1>6, <2>2
    <3> QED  BY SMTT(20), <1>4, <2>2, <3>1, ResultOfNone
  <2> QED  BY <2>1, <2>2
<1>7. \A n \in Name : NamesIn(e)[n] = [NamesIn(d) EXCEPT ![call] = ref][n]
  BY <1>4, <1>5, <1>6, NoNameTwice DEF NamesIn
<1> QED  BY Zenon, <1>7, NamesFields DEF e, NamesIn

\* call_invalidate removes the results of one func, all at once.
LEMMA NamesDeleteCalls ==
  ASSUME NEW d, TablesOK(d), NEW f \in Func
  PROVE  NamesIn(DeleteCalls(d, f)) =
           [n \in Name |-> IF n \in {c \in Call : NameOf[c] = f /\ NamesIn(d)[c] # None}
                           THEN None ELSE NamesIn(d)[n]]
<1> DEFINE e == DeleteCalls(d, f)
           gone == {c \in Call : NameOf[c] = f /\ NamesIn(d)[c] # None}
<1>1. e.calls = {row \in d.calls : NameOf[row.call] # f}
  BY DeleteCallsOK
<1>2. e.heads = d.heads /\ TablesOK(e)
  BY DeleteCallsOK
<1> HIDE DEF e
<1>3. ASSUME NEW c \in Call
      PROVE  ResultOf(e, c) = IF c \in gone THEN None ELSE ResultOf(d, c)
  <2>0. NamesIn(d)[c] = ResultOf(d, c)
    BY NamesFields
  <2>1. CASE NameOf[c] = f
    <3>1. ResultOf(e, c) = None
      BY <1>1, <1>2, <2>1, ResultOfNone
    <3> QED  BY <2>0, <2>1, <3>1
  <2>2. CASE NameOf[c] # f
    <3>1. ResultOf(e, c) = ResultOf(d, c)
      <4>1. CASE \E row \in d.calls : row.call = c
        <5>1. PICK row \in d.calls : row.call = c
          BY <4>1
        <5>2. row \in e.calls
          BY <1>1, <2>2, <5>1
        <5> QED  BY <1>2, <5>1, <5>2, ResultOfRow
      <4>2. CASE \A row \in d.calls : row.call # c
        <5>1. \A row \in e.calls : row.call # c
          BY <1>1, <4>2
        <5> QED  BY <1>2, <4>2, <5>1, ResultOfNone
      <4> QED  BY <4>1, <4>2
    <3> QED  BY <2>2, <3>1
  <2> QED  BY <2>1, <2>2
<1>4. \A n \in Name : NamesIn(e)[n] = IF n \in gone THEN None ELSE NamesIn(d)[n]
  <2>1. ASSUME NEW n \in Head PROVE NamesIn(e)[n] = NamesIn(d)[n] /\ n \notin gone
    <3>1. NamesIn(e)[n] = e.heads[n] /\ NamesIn(d)[n] = d.heads[n]
      BY NamesFields
    <3>2. n \notin Call
      BY NoNameTwice
    <3> QED  BY <1>2, <3>1, <3>2
  <2>2. ASSUME NEW n \in Call PROVE NamesIn(e)[n] = IF n \in gone THEN None ELSE NamesIn(d)[n]
    BY <1>3, NamesFields
  <2> QED  BY <2>1, <2>2, NoNameTwice
<1> HIDE DEF gone
<1>5. NamesIn(e) = [n \in Name |-> IF n \in gone THEN None ELSE NamesIn(d)[n]]
  BY <1>4 DEF NamesIn
<1> QED  BY <1>5 DEF e, gone

\* What the other clients have asked for and where they are stays.
LEMMA OneAsks ==
  ASSUME NEW t \in Client, \A u \in Client \ {t} : at'[u] = at[u] /\ req'[u] = req[u]
  PROVE  /\ pendingRequests' = [pendingRequests EXCEPT ![t] = Pending(t)']
         /\ outside' = IF at'[t] \in {"closed", "upgrade", "failed"} THEN outside \cup {t} ELSE outside \ {t}
<1>1. \A u \in Client \ {t} : Pending(u)' = Pending(u)
  BY DEF Pending
<1>2. pendingRequests' = [pendingRequests EXCEPT ![t] = Pending(t)']
  BY Zenon, <1>1 DEF pendingRequests
<1>3. outside' = IF at'[t] \in {"closed", "upgrade", "failed"} THEN outside \cup {t} ELSE outside \ {t}
  BY DEF outside
<1> QED  BY <1>2, <1>3

\* What the atomic store sees when a request of one client ends.
LEMMA ClientReturns ==
  ASSUME NEW t \in Client, \A u \in Client \ {t} : at'[u] = at[u] /\ req'[u] = req[u],
         at[t] \notin {"closed", "upgrade", "failed"}, at'[t] = "idle", req'[t] = None
  PROVE  outside' = outside /\ pendingRequests' = [pendingRequests EXCEPT ![t] = None]
<1>1. Pending(t)' = None
  BY DEF Pending
<1>2. outside' = outside \ {t} /\ t \notin outside
  BY OneAsks DEF outside
<1> QED  BY <1>1, <1>2, OneAsks

\* A client that stays inside and still has its request, or none, changes nothing.
LEMMA ClientGoesOn ==
  ASSUME NEW t \in Client, \A u \in Client \ {t} : at'[u] = at[u] /\ req'[u] = req[u],
         at[t] \notin {"closed", "upgrade", "failed"},
         at'[t] \notin {"closed", "upgrade", "failed"}, Pending(t)' = Pending(t)
  PROVE  outside' = outside /\ pendingRequests' = pendingRequests
<1>1. outside' = outside \ {t} /\ t \notin outside
  BY OneAsks DEF outside
<1>2. pendingRequests' = [pendingRequests EXCEPT ![t] = pendingRequests[t]]
  BY OneAsks DEF pendingRequests
<1> QED  BY Zenon, <1>1, <1>2 DEF pendingRequests

\* A client at work has its request pending; that of resolveOptional is none.
LEMMA ClientIsPending ==
  ASSUME NEW t \in Client
  PROVE  /\ pendingRequests[t] = Pending(t)
         /\ req[t] \in Request /\ at[t] \notin {"nothing", "failed"} /\ req[t].op # "resolve" =>
              pendingRequests[t] = req[t] /\ pendingRequests[t] # None
BY RequestFields DEF pendingRequests, Pending

\* Rows for CIDs are new blocks only where the CIDs are, and no names.
LEMMA InsertSeen ==
  ASSUME NEW d, TablesOK(d), NEW S \in SUBSET CID, ~Unknown(d, S)
  PROVE  /\ Insert(d, S).blocks \cap Block = (d.blocks \cap Block) \cup (S \cap Block)
         /\ NamesIn(Insert(d, S)) = NamesIn(d)
<1>1. /\ Insert(d, S).blocks = d.blocks \cup Missing(d, S)
      /\ Insert(d, S).heads = d.heads /\ Insert(d, S).calls = d.calls
  BY InsertOK
<1>2. Missing(d, S) \cap Block = (S \cap Block) \ d.blocks
  BY MissingClosed DEF TablesOK
<1> QED  BY <1>1, <1>2, NamesSame

\* The steps of the atomic store, by what they change: none,
LEMMA Stutters ==
  ASSUME db'.blocks \cap Block = db.blocks \cap Block, NamesIn(db') = NamesIn(db),
         pendingRequests' = pendingRequests, outside' = outside
  PROVE  UNCHANGED Abstract!atomicVars
BY DEF Abstract!atomicVars, Abstract!storeVars, noneLeft

\* A client that opens the store, once its tables exist.
LEMMA Enters ==
  ASSUME NEW t \in Client,
         db'.blocks \cap Block = db.blocks \cap Block, NamesIn(db') = NamesIn(db),
         pendingRequests' = pendingRequests, outside' = outside \ {t}
  PROVE  Abstract!AtomicNext
<1>1. Abstract!Enter(t)
  BY DEF Abstract!Enter, Abstract!storeVars, noneLeft
<1> QED  BY Zenon, <1>1 DEF Abstract!AtomicNext

\* A client that calls the store.
LEMMA Asks ==
  ASSUME NEW t \in Client, NEW r \in Abstract!Request, db' = db, outside' = outside,
         t \notin outside, pendingRequests[t] = None,
         pendingRequests' = [pendingRequests EXCEPT ![t] = r]
  PROVE  Abstract!AtomicNext
<1>1. Abstract!AskWhole(t, r)
  BY DEF Abstract!AskWhole, noneLeft
<1> QED  BY Zenon, <1>1 DEF Abstract!AtomicNext

\* put takes effect.
LEMMA Puts ==
  ASSUME NEW t \in Client, pendingRequests[t] # None, pendingRequests[t].op = "put",
         db'.blocks \cap Block = (db.blocks \cap Block) \cup {pendingRequests[t].name},
         NamesIn(db') = NamesIn(db), outside' = outside,
         pendingRequests' = [pendingRequests EXCEPT ![t] = None]
  PROVE  Abstract!AtomicNext
<1>1. Abstract!TakeWhole(t)
  BY DEF Abstract!TakeWhole, Abstract!Take, noneLeft
<1> QED  BY Zenon, <1>1 DEF Abstract!AtomicNext

\* set and head_delete take effect.
LEMMA Sets ==
  ASSUME NEW t \in Client, pendingRequests[t] # None, pendingRequests[t].op \in {"set", "delete"},
         db'.blocks \cap Block = db.blocks \cap Block,
         NamesIn(db') = [NamesIn(db) EXCEPT ![pendingRequests[t].name] = pendingRequests[t].ref],
         outside' = outside, pendingRequests' = [pendingRequests EXCEPT ![t] = None]
  PROVE  Abstract!AtomicNext
<1>1. Abstract!TakeWhole(t)
  BY DEF Abstract!TakeWhole, Abstract!Take, noneLeft
<1> QED  BY Zenon, <1>1 DEF Abstract!AtomicNext

\* The results that the atomic store removes.
ResultsOf(d, f) == {c \in Call : NameOf[c] = f /\ NamesIn(d)[c] # None}

\* call_invalidate takes effect.
LEMMA Invalidates ==
  ASSUME NEW t \in Client, pendingRequests[t] # None, pendingRequests[t].op = "invalidate",
         db'.blocks \cap Block = db.blocks \cap Block,
         NamesIn(db') = [n \in Name |-> IF n \in ResultsOf(db, pendingRequests[t].name)
                                        THEN None ELSE NamesIn(db)[n]],
         outside' = outside, pendingRequests' = [pendingRequests EXCEPT ![t] = None]
  PROVE  Abstract!AtomicNext
<1>1. Abstract!TakeInvalidate(t)
  BY DEF Abstract!TakeInvalidate, Abstract!CallsOf, Abstract!Name, Name, ResultsOf, noneLeft
<1> QED  BY Zenon, <1>1 DEF Abstract!AtomicNext

\* A client that dies.
LEMMA Dies ==
  ASSUME NEW t \in Client, db' = db, outside' = outside \cup {t},
         pendingRequests' = [pendingRequests EXCEPT ![t] = None]
  PROVE  Abstract!AtomicNext
<1>1. Abstract!Die(t)
  BY DEF Abstract!Die, noneLeft
<1> QED  BY Zenon, <1>1 DEF Abstract!AtomicNext

-----------------------------------------------------------------------------
(* Every step is a step of the atomic store or changes nothing it can see *)

\* get_db lets the client in if the tables are there.
LEMMA OpenRefines ==
  ASSUME Inv, NEW t \in Client, Open(t)
  PROVE  Abstract!AtomicNext \/ UNCHANGED Abstract!atomicVars
<1>1. /\ at[t] = "closed" /\ req[t] = None /\ at'[t] \in {"idle", "upgrade"}
      /\ db' = db /\ req' = req /\ \A u \in Client \ {t} : at'[u] = at[u] /\ req'[u] = req[u]
  BY DEF Inv, TypeOK, StageOK, Open, Goto
<1>2. Pending(t)' = pendingRequests[t] /\ t \in outside
  BY <1>1 DEF Pending, pendingRequests, outside
<1>3. pendingRequests' = [pendingRequests EXCEPT ![t] = pendingRequests[t]]
  BY <1>1, <1>2, OneAsks
<1>4. pendingRequests' = pendingRequests
  BY Zenon, <1>3 DEF pendingRequests
<1>5. CASE at'[t] = "upgrade"
  <2>1. outside' = outside
    BY <1>1, <1>2, <1>5, OneAsks
  <2> QED  BY <1>1, <1>4, <2>1, Stutters
<1>6. CASE at'[t] = "idle"
  <2>1. outside' = outside \ {t}
    BY <1>1, <1>6, OneAsks
  <2> QED  BY <1>1, <1>4, <2>1, Enters
<1> QED  BY <1>1, <1>5, <1>6

\* A call makes its request pending.
LEMMA AskRefines ==
  ASSUME Inv, NEW t \in Client, Ask(t)
  PROVE  Abstract!AtomicNext \/ UNCHANGED Abstract!atomicVars
<1>1. PICK r \in Request : /\ at[t] = "idle" /\ req' = [req EXCEPT ![t] = r]
                           /\ at' = [at EXCEPT ![t] = "start"] /\ db' = db
  BY Zenon DEF Ask, Goto
<1>2. /\ req[t] = None /\ at'[t] = "start" /\ req'[t] = r
      /\ \A u \in Client \ {t} : at'[u] = at[u] /\ req'[u] = req[u]
  BY <1>1 DEF Inv, TypeOK, StageOK
<1>3. pendingRequests[t] = None /\ t \notin outside /\ Pending(t) = None
  BY <1>1, <1>2 DEF pendingRequests, Pending, outside
<1>4. CASE r.op = "resolve"
  <2>1. Pending(t)' = Pending(t)
    BY <1>2, <1>3, <1>4 DEF Pending
  <2> QED  BY <1>1, <1>2, <2>1, ClientGoesOn, Stutters
<1>5. CASE r.op # "resolve"
  <2>1. Pending(t)' = r
    BY SMTT(20), <1>2, <1>5, RequestFields DEF Pending
  <2>2. pendingRequests' = [pendingRequests EXCEPT ![t] = r] /\ outside' = outside
    BY <1>2, <1>3, <2>1, OneAsks
  <2>3. r \in Abstract!Request
    BY <1>5 DEF Request, Abstract!Request, Name, Abstract!Name
  <2> QED  BY Zenon, <1>1, <1>3, <2>2, <2>3, Asks
<1> QED  BY <1>4, <1>5

\* A look ends a put whose block is there and an invalidation of a func that has no
\* row, which is then without results.
LEMMA LookRefines ==
  ASSUME Inv, NEW t \in Client, Look(t)
  PROVE  Abstract!AtomicNext \/ UNCHANGED Abstract!atomicVars
<1>1. /\ TablesOK(db) /\ at[t] = "start" /\ req[t] \in Request /\ db' = db
      /\ at \in [Client -> {"closed", "upgrade", "idle", "start", "insert", "func", "main",
                            "nothing", "failed"}]
      /\ req \in [Client -> Request \cup {None}]
  BY SMTT(20) DEF Inv, TypeOK, StageOK, Working, Look
<1>2. CASE FirstStage(t) = "return"
  <2>1. at' = [at EXCEPT ![t] = "idle"] /\ req' = [req EXCEPT ![t] = None]
    BY <1>2 DEF Look, Finished, Return, Goto
  <2>2. /\ at'[t] = "idle" /\ req'[t] = None
        /\ \A u \in Client \ {t} : at'[u] = at[u] /\ req'[u] = req[u]
    BY <1>1, <2>1
  <2>3. CASE req[t].op = "put" /\ req[t].name \in db.blocks
    <3>1. pendingRequests[t] = req[t] /\ pendingRequests[t] # None
      BY <1>1, <2>3, ClientIsPending
    <3>2. outside' = outside /\ pendingRequests' = [pendingRequests EXCEPT ![t] = None]
      BY SMTT(20), <1>1, <2>2, ClientReturns
    <3>3. req[t].name \in db.blocks \cap Block
      BY <1>1, <2>3, RequestFields
    <3>4. db'.blocks \cap Block = (db.blocks \cap Block) \cup {req[t].name}
      BY <1>1, <3>3
    <3> QED  BY Zenon, <1>1, <2>3, <3>1, <3>2, <3>4, Puts
  <2>4. CASE req[t].op = "resolve"
    <3>1. Pending(t)' = Pending(t)
      BY <2>2, <2>4 DEF Pending
    <3> QED  BY <1>1, <2>2, <3>1, ClientGoesOn, Stutters
  <2> QED  BY <1>1, <1>2, <2>3, <2>4, FirstStageIs
<1>3. CASE FirstStage(t) # "return"
  <2>1. at' = [at EXCEPT ![t] = FirstStage(t)] /\ req' = req
    BY <1>3 DEF Look, Finished, Goto
  <2>2. /\ at'[t] = FirstStage(t) /\ at'[t] \in {"insert", "func", "main", "nothing"}
        /\ \A u \in Client \ {t} : at'[u] = at[u] /\ req'[u] = req[u]
    BY SMTT(20), <1>1, <1>3, <2>1, FirstStageIs
  <2>3. CASE FirstStage(t) # "nothing"
    <3>1. Pending(t)' = Pending(t)
      BY <1>1, <2>1, <2>2, <2>3 DEF Pending
    <3> QED  BY <1>1, <2>2, <3>1, ClientGoesOn, Stutters
  <2>4. CASE FirstStage(t) = "nothing"
    <3>1. req[t].op = "invalidate" /\ req[t].name \notin db.funcs
      BY SMTT(20), <1>1, <2>4, FirstStageIs
    <3>2. pendingRequests[t] = req[t] /\ pendingRequests[t] # None
      BY <1>1, <3>1, ClientIsPending
    <3>3. Pending(t)' = None
      BY <2>2, <2>4 DEF Pending
    <3>4. outside' = outside /\ pendingRequests' = [pendingRequests EXCEPT ![t] = None]
      BY <1>1, <2>2, <3>3, OneAsks DEF outside
    <3>5. ASSUME NEW c \in Call, NameOf[c] = req[t].name PROVE NamesIn(db)[c] = None
      <4>1. \A row \in db.calls : row.call # c
        BY <1>1, <3>1, <3>5 DEF TablesOK
      <4>2. ResultOf(db, c) = None
        BY <1>1, <4>1, ResultOfNone
      <4>3. NamesIn(db)[c] = ResultOf(db, c)
        BY NamesFields
      <4> QED  BY SMTT(20), <4>2, <4>3
    <3>6. \A n : n \notin ResultsOf(db, req[t].name)
      BY <3>5 DEF ResultsOf
    <3>7. NamesIn(db) = [n \in Name |-> IF n \in ResultsOf(db, req[t].name) THEN None ELSE NamesIn(db)[n]]
      BY <3>6 DEF NamesIn
    <3> QED  BY Zenon, <1>1, <3>1, <3>2, <3>4, <3>7, Invalidates
  <2> QED  BY SMTT(20), <2>3, <2>4
<1> QED  BY SMTT(20), <1>2, <1>3

\* A transaction is where a put, set, head_delete or call_invalidate takes effect; the
\* ones before it and resolveOptional's add nothing that the atomic store has.
LEMMA CommitMainRefines ==
  ASSUME Inv, NEW t \in Client, Commit(t), at[t] = "main"
  PROVE  Abstract!AtomicNext
<1>1. /\ TablesOK(db) /\ StageOK(t) /\ req[t] \in Request /\ db' = Written(t)
      /\ \A row \in db'.calls : row.id <= MaxCallId
      /\ at \in [Client -> {"closed", "upgrade", "idle", "start", "insert", "func", "main",
                            "nothing", "failed"}]
      /\ req \in [Client -> Request \cup {None}]
  BY SMTT(20) DEF Inv, TypeOK, StageOK, Working, Commit
<1>2. ~UnknownCID(t) /\ req[t].op # "resolve"
  BY SMTT(20), <1>1 DEF Commit, Doomed, StageOK
<1>3. ~Unknown(db, Needed(t)) /\ Needed(t) \in SUBSET CID
  BY <1>1, <1>2, NeededIs DEF UnknownCID
<1>4. at' = [at EXCEPT ![t] = "idle"] /\ req' = [req EXCEPT ![t] = None]
  BY SMTT(20) DEF Commit, Return, Goto
<1>5. /\ at'[t] = "idle" /\ req'[t] = None
      /\ \A u \in Client \ {t} : at'[u] = at[u] /\ req'[u] = req[u]
  BY SMTT(20), <1>1, <1>4
<1>6. outside' = outside /\ pendingRequests' = [pendingRequests EXCEPT ![t] = None]
  BY <1>5, ClientReturns
<1>7. pendingRequests[t] = req[t] /\ pendingRequests[t] # None
  BY <1>1, <1>2, ClientIsPending
<1>8. CASE req[t].op = "put"
  <2>1. db' = Insert(db, {req[t].name}) /\ Needed(t) = {req[t].name} /\ req[t].name \in Block
    BY Zenon, <1>1, <1>8, WrittenIs, NeededIs, RequestFields
  <2>2. /\ db'.blocks \cap Block = (db.blocks \cap Block) \cup ({req[t].name} \cap Block)
        /\ NamesIn(db') = NamesIn(db)
    BY Zenon, <1>1, <1>3, <2>1, InsertSeen
  <2>3. {req[t].name} \cap Block = {req[t].name}
    BY Zenon, <2>1
  <2> QED  BY Zenon, <1>6, <1>7, <1>8, <2>2, <2>3, Puts
<1>9. CASE req[t].op = "set" /\ req[t].name \in Head
  <2>1. db' = WithHead(db, req[t].name, req[t].ref)
    BY Zenon, <1>1, <1>9, WrittenIs
  <2>2. db'.blocks \cap Block = db.blocks \cap Block
    BY SMTT(20), <1>1, <2>1 DEF WithHead, TablesOK, Table
  <2>3. NamesIn(db') = [NamesIn(db) EXCEPT ![req[t].name] = req[t].ref]
    BY <1>1, <1>9, <2>1, NamesWithHead
  <2> QED  BY Zenon, <1>6, <1>7, <1>9, <2>2, <2>3, Sets
<1>10. CASE req[t].op = "delete"
  <2>1. db' = WithHead(db, req[t].name, None) /\ req[t].name \in Head /\ req[t].ref = None
    BY Zenon, <1>1, <1>10, WrittenIs, RequestFields
  <2>2. db'.blocks \cap Block = db.blocks \cap Block
    BY <1>1, <2>1 DEF WithHead, TablesOK, Table
  <2>3. NamesIn(db') = [NamesIn(db) EXCEPT ![req[t].name] = req[t].ref]
    BY <1>1, <2>1, NamesWithHead
  <2> QED  BY Zenon, <1>6, <1>7, <1>10, <2>2, <2>3, Sets
<1>11. CASE req[t].op = "set" /\ req[t].name \in Call
  <2> DEFINE d == Insert(db, Needed(t))
  <2>1. db' = SetCall(d, req[t].name, req[t].ref) /\ Needed(t) = Args[req[t].name] \cup {req[t].ref}
    BY Zenon, <1>1, <1>11, WrittenIs, NeededIs
  <2>2. TablesOK(d) /\ Needed(t) \subseteq d.blocks /\ d.funcs = db.funcs
    BY ZenonT(60), <1>1, <1>3, InsertOK
  <2>3. d.blocks \cap Block = (db.blocks \cap Block) \cup (Needed(t) \cap Block) /\ NamesIn(d) = NamesIn(db)
    BY <1>1, <1>3, InsertSeen
  <2>4. Needed(t) \cap Block \subseteq db.blocks
    BY SMTT(20), <1>2, <1>11 DEF UnknownCID, Given
  <2> HIDE DEF d
  <2>5. req[t].ref \in d.blocks /\ Args[req[t].name] \subseteq d.blocks /\ NameOf[req[t].name] \in d.funcs
    BY SMTT(20), <1>1, <1>11, <2>1, <2>2 DEF StageOK
  <2>6. \A row \in SetCall(d, req[t].name, req[t].ref).calls : row.id <= MaxCallId
    BY <1>1, <2>1
  <2>7. SetCall(d, req[t].name, req[t].ref).blocks = d.blocks
    <3>1. d \in Table
      BY <2>2 DEF TablesOK
    <3> QED  BY SMTT(20), <3>1 DEF SetCall, Table
  <2>8. NamesIn(SetCall(d, req[t].name, req[t].ref)) = [NamesIn(d) EXCEPT ![req[t].name] = req[t].ref]
    <3> DEFINE call == req[t].name
               ref == req[t].ref
    <3>1. call \in Call /\ ref \in d.blocks /\ Args[call] \subseteq d.blocks /\ NameOf[call] \in d.funcs
      BY <1>11, <2>5
    <3>2. \A row \in SetCall(d, call, ref).calls : row.id <= MaxCallId
      BY <2>6
    <3> HIDE DEF call, ref
    <3>3. NamesIn(SetCall(d, call, ref)) = [NamesIn(d) EXCEPT ![call] = ref]
      BY SMTT(20), <2>2, <3>1, <3>2, NamesSetCall
    <3> QED  BY <3>3 DEF call, ref
  <2>9. db'.blocks \cap Block = db.blocks \cap Block
    BY <2>1, <2>3, <2>4, <2>7
  <2> QED  BY Zenon, <1>6, <1>7, <1>11, <2>1, <2>3, <2>8, <2>9, Sets
<1>12. CASE req[t].op = "invalidate"
  <2>1. db' = DeleteCalls(db, req[t].name) /\ req[t].name \in Func
    BY Zenon, <1>1, <1>12, WrittenIs, RequestFields
  <2>2. db'.blocks = db.blocks
    BY <1>1, <2>1 DEF DeleteCalls, TablesOK, Table
  <2>3. NamesIn(db') = [n \in Name |-> IF n \in ResultsOf(db, req[t].name) THEN None ELSE NamesIn(db)[n]]
    BY SMTT(20), <1>1, <2>1, NamesDeleteCalls DEF ResultsOf
  <2> QED  BY Zenon, <1>6, <1>7, <1>12, <2>2, <2>3, Invalidates
<1>13. /\ req[t].op \in {"put", "set", "delete", "invalidate"}
       /\ req[t].op = "set" => req[t].name \in Head \/ req[t].name \in Call
  BY SMTT(20), <1>1, <1>2, RequestFields, NoNameTwice
<1> QED  BY SMTT(20), <1>8, <1>9, <1>10, <1>11, <1>12, <1>13

\* The tables as the atomic store sees them do not change in the other transactions.
LEMMA CommitElseSeen ==
  ASSUME Inv, NEW t \in Client, Commit(t), at[t] # "main"
  PROVE  db'.blocks \cap Block = db.blocks \cap Block /\ NamesIn(db') = NamesIn(db)
<1>1. TablesOK(db) /\ StageOK(t) /\ at[t] \in Locking /\ db' = Written(t)
  BY Zenon DEF Inv, StageOK, Commit
<1>2. CASE at[t] = "upgrade"
  <2>1. db' = WithSchema(db)
    BY Zenon, <1>1, <1>2, WrittenIs
  <2>2. db'.blocks = db.blocks /\ db'.heads = db.heads /\ db'.calls = db.calls
    BY <1>1, <2>1 DEF WithSchema, TablesOK, Table
  <2> QED  BY <2>2, NamesSame
<1>3. CASE at[t] = "func"
  <2>1. db' = WithFunc(db, NameOf[req[t].name])
    BY Zenon, <1>1, <1>3, WrittenIs
  <2>2. db'.blocks = db.blocks /\ db'.heads = db.heads /\ db'.calls = db.calls
    BY <1>1, <2>1 DEF WithFunc, TablesOK, Table
  <2> QED  BY <2>2, NamesSame
<1>4. CASE at[t] = "nothing"
  BY Zenon, <1>1, <1>4, WrittenIs
<1>5. CASE at[t] = "insert"
  <2>1. db' = Insert(db, Needed(t)) /\ req[t] \in Request /\ req[t].op # "put"
    BY Zenon, <1>1, <1>5, WrittenIs DEF StageOK, Working
  <2>2. ~UnknownCID(t)
    BY <1>5 DEF Commit, Doomed
  <2>3. ~Unknown(db, Needed(t)) /\ Needed(t) \in SUBSET CID /\ Needed(t) \cap Block \subseteq db.blocks
    BY Zenon, <2>1, <2>2, NeededIs DEF UnknownCID, Given
  <2>4. /\ db'.blocks \cap Block = (db.blocks \cap Block) \cup (Needed(t) \cap Block)
        /\ NamesIn(db') = NamesIn(db)
    BY Zenon, <1>1, <2>1, <2>3, InsertSeen
  <2> QED  BY Zenon, <2>3, <2>4
<1> QED  BY <1>1, <1>2, <1>3, <1>4, <1>5 DEF Locking

\* Every transaction: the main one, one before it, and the one of a fresh file.
LEMMA CommitRefines ==
  ASSUME Inv, NEW t \in Client, Commit(t)
  PROVE  Abstract!AtomicNext \/ UNCHANGED Abstract!atomicVars
<1>1. /\ StageOK(t) /\ at[t] \in Locking
      /\ at \in [Client -> {"closed", "upgrade", "idle", "start", "insert", "func", "main",
                            "nothing", "failed"}]
      /\ req \in [Client -> Request \cup {None}]
  BY Zenon DEF Inv, TypeOK, StageOK, Commit
<1>2. CASE at[t] = "main"
  BY <1>2, CommitMainRefines
<1>3. CASE at[t] \in {"insert", "func"} /\ req[t].op = "set"
  <2>1. at' = [at EXCEPT ![t] = "main"] /\ req' = req
    BY <1>3 DEF Commit, Goto
  <2>2. at'[t] = "main" /\ \A u \in Client \ {t} : at'[u] = at[u] /\ req'[u] = req[u]
    BY <1>1, <2>1
  <2>3. Pending(t)' = Pending(t)
    BY <1>3, <2>1, <2>2 DEF Pending
  <2>4. outside' = outside /\ pendingRequests' = pendingRequests
    BY <1>3, <2>2, <2>3, ClientGoesOn
  <2> QED  BY <1>3, <2>4, CommitElseSeen, Stutters
<1>4. CASE at[t] # "main" /\ ~(at[t] \in {"insert", "func"} /\ req[t].op = "set")
  <2>1. at' = [at EXCEPT ![t] = "idle"] /\ req' = [req EXCEPT ![t] = None]
    BY <1>4 DEF Commit, Return, Goto
  <2>2. /\ at'[t] = "idle" /\ req'[t] = None
        /\ \A u \in Client \ {t} : at'[u] = at[u] /\ req'[u] = req[u]
    BY SMTT(20), <1>1, <2>1
  <2>3. Pending(t)' = None /\ Pending(t) = None
    BY SMTT(20), <1>1, <1>4, <2>2 DEF Pending, StageOK, Locking
  <2>4. CASE at[t] = "upgrade"
    <3>1. outside' = outside \ {t}
      BY <2>2, OneAsks
    <3>2. pendingRequests' = [pendingRequests EXCEPT ![t] = None] /\ pendingRequests[t] = None
      BY <2>2, <2>3, OneAsks, ClientIsPending
    <3>3. pendingRequests' = pendingRequests
      BY Zenon, <3>2 DEF pendingRequests
    <3> QED  BY <1>4, <3>1, <3>3, CommitElseSeen, Enters
  <2>5. CASE at[t] # "upgrade"
    <3>1. outside' = outside /\ pendingRequests' = pendingRequests
      BY <1>1, <2>2, <2>3, <2>5, ClientGoesOn DEF Locking
    <3> QED  BY SMTT(20), <1>4, <3>1, CommitElseSeen, Stutters
  <2> QED  BY <2>4, <2>5
<1> QED  BY <1>2, <1>3, <1>4

\* A client that dies, of an error or from outside, loses its own request.
LEMMA DeathRefines ==
  ASSUME Inv, NEW t \in Client, Fatal(t) \/ Crash(t)
  PROVE  Abstract!AtomicNext
<1>1. /\ db' = db /\ at'[t] \in {"failed", "closed"} /\ (at'[t] = "closed" => req'[t] = None)
      /\ \A u \in Client \ {t} : at'[u] = at[u] /\ req'[u] = req[u]
  BY DEF Inv, TypeOK, Fatal, Crash, Goto
<1>2. Pending(t)' = None
  BY <1>1 DEF Pending
<1>3. outside' = outside \cup {t} /\ pendingRequests' = [pendingRequests EXCEPT ![t] = None]
  BY <1>1, <1>2, OneAsks
<1> QED  BY Zenon, <1>1, <1>3, Dies

\* Every step of the clients.
LEMMA AtomicStep ==
  Inv /\ [Next]_vars => [Abstract!AtomicNext]_(Abstract!atomicVars)
<1> SUFFICES ASSUME Inv, [Next]_vars PROVE Abstract!AtomicNext \/ UNCHANGED Abstract!atomicVars
  OBVIOUS
<1>1. ASSUME UNCHANGED <<db, at, req>> PROVE UNCHANGED Abstract!atomicVars
  <2>1. pendingRequests' = pendingRequests /\ outside' = outside /\ db' = db
    BY <1>1 DEF pendingRequests, Pending, outside
  <2> QED  BY <2>1, Stutters
<1>2. ASSUME NEW t \in Client, Begin(t) PROVE UNCHANGED Abstract!atomicVars
  BY <1>1, <1>2 DEF Begin
<1>3. CASE UNCHANGED vars
  BY <1>1, <1>3 DEF vars
<1> QED
  BY <1>2, <1>3, OpenRefines, AskRefines, LookRefines, CommitRefines, DeathRefines DEF Next

\* The sqlite store, whose clients look at the tables, wait for its lock, write in up to
\* three transactions and die at any moment, implements a store whose every request
\* takes effect once and whole.
THEOREM ImplementsAtomicStoreHolds == Spec => ImplementsAtomicStore
<1>1. Init => Abstract!AtomicInit
  <2> SUFFICES ASSUME Init PROVE Abstract!AtomicInit
    OBVIOUS
  <2>1. db.blocks \cap Block = {}
    BY DEF Init
  <2>2. NamesIn(db) = [n \in Name |-> None]
    BY DEF Init, NamesIn, ResultOf
  <2>3. pendingRequests = [t \in Client |-> None]
    BY DEF Init, pendingRequests, Pending
  <2>4. outside = Client
    BY DEF Init, outside
  <2> QED  BY <2>1, <2>2, <2>3, <2>4 DEF Abstract!AtomicInit, Abstract!StoreInit, Abstract!Name, Name, noneLeft
<1> QED  BY <1>1, AtomicStep, SQLiteInvariant, PTL DEF Spec, ImplementsAtomicStore, Abstract!AtomicSpec

=============================================================================

------------------------------ MODULE MCStores ------------------------------
(***************************************************************************)
(* Two stores, one per behaviour (part): an SQLite store with two clients, *)
(* and a CAR file written from a store that others change, whole or from   *)
(* names on the command line.                                              *)
(***************************************************************************)
EXTENDS SQLiteStore, TLC

CONSTANTS t1, t2, h, h2, c1, f, g, a, b, b3, i1

\* Block b links to the identity CID i1, which links to the block a.  Call c1 is f(i1, b).
MCNameOf == [x \in Call |-> f]
MCArgs == [x \in Call |-> {i1, b}]
MCLinks == [x \in CID |-> CASE x = b -> {i1} [] x = i1 -> {a} [] OTHER -> {}]

VARIABLES part, names, changes, file, todo, more, stack, written, root, base, pc, reader

carVars == <<names, changes, file, todo, more, stack, written, root, base, pc, reader>>

\* A shared node below two others, the same link twice, an identity CID.
CARLinks == (a :> <<b, b3, b>>) @@ (b :> <<b3, i1>>) @@ (b3 :> <<>>) @@ (i1 :> <<>>)

Whole == INSTANCE CARFile WITH HeadName <- {h, h2}, Call <- {c1}, Block <- {a, b, b3}, Identity <- {i1}, Links <- CARLinks,
  NameOf <- (c1 :> f), Args <- (c1 :> <<b, i1>>), Absent <- {}, Chosen <- <<>>, Base <- {"u", "f"}, MaxChange <- 1

Chosen == INSTANCE CARFile WITH HeadName <- {h, h2}, Call <- {c1}, Block <- {a, b, b3}, Identity <- {i1}, Links <- CARLinks,
  NameOf <- (c1 :> f), Args <- (c1 :> <<b, i1>>), Absent <- {a}, Chosen <- <<c1, b, h>>, Base <- {"u", "f"}, MaxChange <- 1

NoFile ==
  /\ names = None /\ changes = None /\ file = None /\ todo = None /\ more = None /\ stack = None
  /\ written = None /\ root = None /\ base = None /\ pc = None /\ reader = None

ASSUME CARAssumption == Whole!WellFormed /\ Chosen!WellFormed

StoresInit ==
  /\ Init
  /\ \/ part = "sqlite" /\ NoFile
     \/ part = "whole" /\ Whole!Init
     \/ part = "chosen" /\ Chosen!Init

StoresNext ==
  /\ \/ part = "sqlite" /\ Next /\ UNCHANGED carVars
     \/ part = "whole" /\ Whole!Next /\ UNCHANGED vars
     \/ part = "chosen" /\ Chosen!Next /\ UNCHANGED vars
  /\ UNCHANGED part

StoresSpec == StoresInit /\ [][StoresNext]_<<vars, part, carVars>>

\* A file that open accepts is complete, whenever the exporter was killed; the CARStore
\* resolves and lists what was exported, which for a store nobody changes is all of it
\* (CARFile!OpensComplete, AnswersExported, ExportsWhole).
FileHoldsExport ==
  /\ part = "whole" => Whole!FileHoldsExport
  /\ part = "chosen" => Chosen!FileHoldsExport

=============================================================================

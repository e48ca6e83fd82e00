---------------------------- MODULE MCExtraction ----------------------------
(* Extraction of two documents with one schema: x1 and x2 are of the first one, *)
(* x3 is of the second; and, as a part of its own that shares no state with it,   *)
(* the definitions of two schemas that one document is extracted by.              *)
EXTENDS Extraction, TLC

CONSTANTS d1, d2, s1, s2, x1, x2, x3, r1, r2, r3, n1, l1, v1, u1, u2, Part,
  SchemaId, Name, Label, Update, MaxFields  \* Schemas

VARIABLES
  part,
  schema, entry, update  \* Schemas

MCDoc == [x \in Extraction |-> IF x = x3 THEN d2 ELSE d1]

MCOf == [x \in Extraction |-> s1]

S == INSTANCE Schemas WITH
  Schema <- SchemaId, Field <- Label, Request <- Update, row <- entry

definitions == <<schema, entry, update>>
allVars == <<part, vars, definitions>>

MCInit == part \in Part /\ Init /\ S!Init

\* Which of the executions, extractions and updates comes first makes no difference.
InOrder ==
  /\ run'[r2] # Null => run[r1] # Null
  /\ run'[r3] # Null => run[r2] # Null
  /\ row'[x2] # Null => row[x1] # Null
  /\ update[u2] = Null /\ update'[u2] # Null => update[u1] # Null

\* Runs find one value and users write the other, rules name one field, and one schema
\* only takes a name.
InPart ==
  /\ schema'[s1] \notin {Null, Deleted} => schema'[s1].rules \subseteq {l1}
  /\ schema'[s2] \notin {Null, Deleted} =>
       schema'[s2] = [name |-> n1, fields |-> {l1}, rules |-> {}]
  /\ entry'[s2] = Null
  /\ \A u \in Update : update'[u] # Null => update'[u].of = s1
  /\ entry'[s1] # Null =>
       \A f \in Label : entry'[s1].values[f] # Null =>
         (entry'[s1].values[f].value = v1 <=> ~entry'[s1].values[f].edited)

MCNext ==
  /\ UNCHANGED part
  /\ \/ part = "extraction" /\ Next /\ UNCHANGED <<schema, entry, update>> /\ InOrder
     \/ part = "schemas" /\ S!Next /\ InPart /\ UNCHANGED <<row, gone, facts, run, remover, queue>> /\ InOrder

MCSpec == MCInit /\ [][MCNext]_allVars

MCFairSpec == MCSpec /\ Fairness

(* A definition that is stored can be run, unless two updates overlap; and what a  *)
(* human has corrected is exported whatever becomes of the definition, but for what *)
(* removes it (api/v1/extraction.py, extraction/service.py).                        *)
DefinitionsHold == []S!TypeOK /\ S!DefinitionsStand /\ S!CorrectionsExported
=============================================================================

------------------------------ MODULE Schemas ------------------------------
(* The definitions that extractions are made by: creating, changing and      *)
(* deleting schemas, the fields that a correction may name, and the export    *)
(* (api/v1/extraction.py), beside the runs that read a definition once        *)
(* (extraction/service.py).  A rule is known by the field that it names.  One  *)
(* document has an extraction of each schema; its claims, facts and removals   *)
(* are in Extraction.                                                          *)
EXTENDS Naturals, FiniteSets

CONSTANTS
  Schema,    \* ids, each used once
  Name, Field, Value,
  Request,   \* updates under way
  MaxFields, \* extraction_max_fields
  Null, Deleted

VARIABLES
  schema,    \* rows of extraction_schemas
  row,       \* the extraction of each schema, or Null
  update     \* what each update has read

vars == <<schema, row, update>>

Definition == [name : Name, fields : SUBSET Field, rules : SUBSET Field]
Entry == [value : Value, edited : BOOLEAN]
Entries == [Field -> Entry \cup {Null}]
Row == [status : {"pending", "processing", "ready", "failed"}, values : Entries,
        run : SUBSET Field]

Init ==
  /\ schema = [s \in Schema |-> Null]
  /\ row = [s \in Schema |-> Null]
  /\ update = [u \in Request |-> Null]

-----------------------------------------------------------------------------
Stored(s) == schema[s] \notin {Null, Deleted}
Extracted(s) == row[s] # Null

(* _validated, with parse_definition: every rule names fields of the definition. *)
Valid(fields, rules) ==
  /\ fields # {} /\ Cardinality(fields) <= MaxFields
  /\ rules \subseteq fields

(* The unique constraint on (tenant_id, name). *)
NameFree(s, name) == \A t \in Schema \ {s} : Stored(t) => schema[t].name # name

CreateSchema(s, name, fields, rules) ==
  /\ schema[s] = Null
  /\ Valid(fields, rules) /\ NameFree(s, name)
  /\ schema' = [schema EXCEPT ![s] = [name |-> name, fields |-> fields, rules |-> rules]]
  /\ UNCHANGED <<row, update>>

(* update_schema reads the row without a lock. *)
ReadSchema(u, s) ==
  /\ update[u] = Null /\ Stored(s)
  /\ update' = [update EXCEPT ![u] = [of |-> s, read |-> schema[s]]]
  /\ UNCHANGED <<schema, row>>

(* It validates what it was given together with what it has read of the rest, and only *)
(* the columns in which that differs from what it has read are written.                 *)
CommitUpdate(u, name, fields, rules) ==
  /\ update[u] # Null
  /\ LET s == update[u].of
         read == update[u].read
         Written(new, old, now) == IF new = old THEN now ELSE new
     IN  /\ Stored(s) /\ Valid(fields, rules)
         /\ name # read.name => NameFree(s, name)
         /\ schema' = [schema EXCEPT ![s] =
              [name |-> Written(name, read.name, @.name),
               fields |-> Written(fields, read.fields, @.fields),
               rules |-> Written(rules, read.rules, @.rules)]]
  /\ update' = [update EXCEPT ![u] = Null]
  /\ UNCHANGED row

(* An update that is refused, or finds its row gone. *)
DropUpdate(u) ==
  /\ update[u] # Null
  /\ update' = [update EXCEPT ![u] = Null]
  /\ UNCHANGED <<schema, row>>

DeleteSchema(s) ==
  /\ Stored(s)
  /\ schema' = [schema EXCEPT ![s] = Deleted]
  /\ row' = [row EXCEPT ![s] = Null]
  /\ UNCHANGED update

-----------------------------------------------------------------------------
Nothing == [f \in Field |-> Null]

(* request_extraction; with force what a human wrote goes, too. *)
RequestExtraction(s, force) ==
  /\ Stored(s)
  /\ Extracted(s) => row[s].status # "processing"
  /\ row' = [row EXCEPT ![s] =
       [status |-> "pending", run |-> {},
        values |-> IF Extracted(s) /\ ~force THEN row[s].values ELSE Nothing]]
  /\ UNCHANGED <<schema, update>>

(* run_extraction claims the row and reads the definition.  One that does not parse *)
(* raises in the claim's transaction, and the row is as it was.                     *)
Claim(s) ==
  /\ Extracted(s) /\ row[s].status = "pending"
  /\ Valid(schema[s].fields, schema[s].rules)
  /\ row' = [row EXCEPT ![s].status = "processing", ![s].run = schema[s].fields]
  /\ UNCHANGED <<schema, update>>

Corrected(entry) == entry # Null /\ entry.edited

(* Mutant: a run's own values win. *)
Overwritten(old, new) == new

(* "A human's correction outlives re-runs". *)
Merged(old, new) == IF Corrected(old) THEN old ELSE new

(* The run has a value for each field of the definition that it read, and no other. *)
Finish(s, value) ==
  /\ Extracted(s) /\ row[s].status = "processing"
  /\ row' = [row EXCEPT ![s] =
       [status |-> "ready", run |-> {},
        values |-> [f \in Field |->
          IF f \in row[s].run THEN Merged(row[s].values[f], [value |-> value, edited |-> FALSE])
          ELSE Null]]]
  /\ UNCHANGED <<schema, update>>

FailRun(s) ==
  /\ Extracted(s) /\ row[s].status = "processing"
  /\ row' = [row EXCEPT ![s].status = "failed", ![s].run = {}]
  /\ UNCHANGED <<schema, update>>

(* patch_extraction: a field of the definition as it is now. *)
Correct(s, f, value) ==
  /\ Extracted(s) /\ row[s].status \in {"ready", "failed"}
  /\ f \in schema[s].fields
  /\ row' = [row EXCEPT ![s].values[f] = [value |-> value, edited |-> TRUE]]
  /\ UNCHANGED <<schema, update>>

(* export_extractions: a column for each field of the definition, and what the row has. *)
Export(s) == [f \in schema[s].fields |-> IF row[s].values[f] = Null THEN Null ELSE row[s].values[f].value]

Define(s) ==
  \/ \E name \in Name, fields, rules \in SUBSET Field : CreateSchema(s, name, fields, rules)
  \/ DeleteSchema(s)
  \/ \E u \in Request : ReadSchema(u, s)

UpdateSchema(u) ==
  \/ \E name \in Name, fields, rules \in SUBSET Field : CommitUpdate(u, name, fields, rules)
  \/ DropUpdate(u)

Extract(s) ==
  \/ \E force \in BOOLEAN : RequestExtraction(s, force)
  \/ Claim(s) \/ FailRun(s)
  \/ \E value \in Value : Finish(s, value) \/ \E f \in Field : Correct(s, f, value)

Next == (\E s \in Schema : Define(s) \/ Extract(s)) \/ \E u \in Request : UpdateSchema(u)

Spec == Init /\ [][Next]_vars

-----------------------------------------------------------------------------
TypeOK ==
  /\ schema \in [Schema -> Definition \cup {Null, Deleted}]
  /\ row \in [Schema -> Row \cup {Null}]
  /\ update \in [Request -> [of : Schema, read : Definition] \cup {Null}]
  /\ \A s \in Schema : Extracted(s) => Stored(s)
  /\ \A s \in Schema : Stored(s) => NameFree(s, schema[s].name)

(* What is stored is what parse_definition accepts, so that its extractions can run: *)
(* only an update that commits over another one's change breaks that, each being      *)
(* valid by what it has read (api/v1/extraction.py, update_schema).                    *)
Runnable(s) == Stored(s) => Valid(schema[s].fields, schema[s].rules)

Overlapping ==
  \E u \in Request :
    update[u] # Null /\ update'[u] = Null /\ schema[update[u].of] # update[u].read

DefinitionsStand ==
  [][\A s \in Schema : Runnable(s) => Runnable(s)' \/ Overlapping]_vars

(* What a human has corrected is exported from then on, whatever is run, renamed or    *)
(* added, up to the next correction, a forced run, or the removal of the schema or of   *)
(* the field; and a run that read the definition without the field forgets it.          *)
CorrectionsExported ==
  [][\A s \in Schema : Extracted(s) =>
       \A f \in schema[s].fields : Corrected(row[s].values[f]) =>
         \/ row'[s] = Null \/ f \notin schema'[s].fields
         \/ Export(s)'[f] = Export(s)[f] /\ Corrected(row'[s].values[f])
         \/ row'[s].status = "pending" /\ row'[s].values = Nothing
         \/ row[s].status \in {"ready", "failed"} /\ Corrected(row'[s].values[f])
         \/ row[s].status = "processing" /\ f \notin row[s].run]_vars

-----------------------------------------------------------------------------
(* What marks a row that is not there, or a value, is none. *)
Marks == /\ {Null, Deleted} \cap Definition = {}
         /\ Null \notin Row /\ Null \notin Entry
         /\ Null \notin [of : Schema, read : Definition]
=============================================================================

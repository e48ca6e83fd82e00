-------------------------- MODULE ExtractionProofs --------------------------
(* What Extraction's runs check, for any number of documents, extractions,     *)
(* executions and removing requests; and the same of the definitions beside    *)
(* them, for any number of schemas, fields and updates.                         *)
EXTENDS MCExtraction, TLAPS

(* The initial state satisfies the invariant. *)
LEMMA InitIInv == Init => IInv
BY DEF Init, IInv, TypeOK, FactsAnswerable, OwnFacts, RowConsistent, RunConsistent, Stored, Working

(* Facts only go, and no row learns of others: what deletions and ingestions do. *)
LEMMA FewerFacts ==
  ASSUME IInv, row' = row, run' = run, gone' \subseteq Document \cup Schema,
         remover' \in [Remover -> Removal \cup {Null, Deleted}],
         queue' \subseteq Extraction,
         facts' \in [Run -> Chunk \cup {Null}],
         \A r \in Run : facts'[r] \in {facts[r], Null}
  PROVE  IInv'
<1>1. TypeOK'
  BY DEF IInv, TypeOK
<1>2. FactsAnswerable'
  BY DEF IInv, TypeOK, FactsAnswerable, Stored, Row
<1>3. OwnFacts'
  BY DEF IInv, OwnFacts, Stored
<1>4. ASSUME NEW x \in Extraction PROVE RowConsistent(x)'
  BY DEF IInv, TypeOK, RowConsistent, Stored, Working, Row
<1>5. ASSUME NEW r \in Run PROVE RunConsistent(r)'
  BY DEF IInv, TypeOK, RunConsistent, Stored, Working, Job
<1> QED BY <1>1, <1>2, <1>3, <1>4, <1>5 DEF IInv

(* Rows are deleted; facts may go with them. *)
LEMMA FewerRows ==
  ASSUME IInv, NEW X \in SUBSET Extraction, Deleting(X), \A x \in X : Stored(x),
         run' = run, gone' \subseteq Document \cup Schema,
         remover' \in [Remover -> Removal \cup {Null, Deleted}],
         queue' = queue,
         facts' \in [Run -> Chunk \cup {Null}],
         \A r \in Run : facts'[r] \in {facts[r], Null}
  PROVE  IInv'
<1>0. \A x \in Extraction : /\ row'[x] = row[x] \/ (row'[x] = Deleted /\ Stored(x))
                            /\ Stored(x)' => row'[x] = row[x] /\ Stored(x)
  BY DEF Deleting, Stored
<1>1. TypeOK'
  BY DEF IInv, TypeOK, Deleting
<1>2. FactsAnswerable'
  BY <1>0 DEF IInv, TypeOK, FactsAnswerable, Stored, Row
<1>3. OwnFacts'
  BY <1>0 DEF IInv, OwnFacts
<1>4. ASSUME NEW x \in Extraction PROVE RowConsistent(x)'
  BY <1>0 DEF IInv, TypeOK, RowConsistent, Stored, Working, Row
<1>5. ASSUME NEW r \in Run PROVE RunConsistent(r)'
  BY <1>0, NullAssumption DEF IInv, TypeOK, RunConsistent, Stored, Working, Job
<1> QED BY <1>1, <1>2, <1>3, <1>4, <1>5 DEF IInv

(* What the owners ask of a row that no execution holds. *)
LEMMA RowChanges ==
  ASSUME IInv, NEW x \in Extraction, NEW new \in Row,
         row' = [row EXCEPT ![x] = new],
         row[x] # Deleted,
         Stored(x) => row[x].token = Null,
         new.token = Null, new.status # "processing",
         new.chunk # Null => /\ Stored(x) /\ new.chunk = row[x].chunk
                             /\ new.field = Null \/ new.field = row[x].field,
         run' = run, gone' = gone, remover' = remover, queue' \subseteq Extraction,
         facts' \in [Run -> Chunk \cup {Null}],
         \A r \in Run : facts'[r] \in {facts[r], Null}
  PROVE  IInv'
<1>0. /\ \A y \in Extraction : y # x => row'[y] = row[y]
      /\ row'[x] = new
  BY DEF IInv, TypeOK
<1>1. TypeOK'
  BY DEF IInv, TypeOK
<1>2. FactsAnswerable'
  <2> SUFFICES ASSUME NEW y \in Extraction, Stored(y)', row'[y].chunk # Null,
                      facts'[row'[y].chunk] # Null, row'[y].field # Null
               PROVE  facts'[row'[y].chunk] = [doc |-> Doc[y], value |-> row'[y].field.value]
    BY DEF FactsAnswerable
  <2>1. Stored(y) /\ row[y].chunk = row'[y].chunk /\ row[y].field = row'[y].field
    BY <1>0 DEF Stored
  <2>2. row[y].chunk \in Run
    BY <2>1 DEF IInv, TypeOK, Stored, Row
  <2> QED BY <2>1, <2>2 DEF IInv, FactsAnswerable
<1>3. OwnFacts'
  <2> SUFFICES ASSUME NEW y \in Extraction, NEW z \in Extraction, Stored(y)', Stored(z)',
                      row'[y].chunk # Null, row'[y].chunk = row'[z].chunk
               PROVE  y = z
    BY DEF OwnFacts
  <2>1. Stored(y) /\ row[y].chunk = row'[y].chunk /\ Stored(z) /\ row[z].chunk = row'[z].chunk
    BY <1>0 DEF Stored
  <2> QED BY <2>1 DEF IInv, OwnFacts
<1>4. ASSUME NEW y \in Extraction PROVE RowConsistent(y)'
  <2>1. CASE y # x
    BY <2>1, <1>0 DEF IInv, TypeOK, RowConsistent, Stored, Working, Row
  <2>2. CASE y = x
    BY <2>2, <1>0 DEF IInv, TypeOK, RowConsistent, Stored, Working, Row
  <2> QED BY <2>1, <2>2
<1>5. ASSUME NEW r \in Run PROVE RunConsistent(r)'
  <2>1. CASE Working(r) /\ run[r].ext = x
    <3>1. ~Stored(x) /\ row[x] # Null
      BY <2>1, NullAssumption DEF IInv, RunConsistent
    <3> QED BY <3>1 DEF Stored
  <2>2. CASE ~Working(r)
    BY <2>2 DEF IInv, RunConsistent, Working
  <2>3. CASE Working(r) /\ run[r].ext # x
    BY <2>3, <1>0 DEF IInv, TypeOK, RunConsistent, Stored, Working, Job
  <2> QED BY <2>1, <2>2, <2>3
<1> QED BY <1>1, <1>2, <1>3, <1>4, <1>5 DEF IInv

(* A claim gives the row and a new execution to each other. *)
LEMMA ClaimKeeps ==
  ASSUME IInv, NEW r \in Run, NEW x \in Extraction, Claim(r, x)
  PROVE  IInv'
<1>0. /\ Stored(x) /\ row[x] \in Row /\ row[x].token = Null
      /\ run[r] = Null /\ facts[r] = Null /\ facts' = facts
      /\ row'[x] = [row[x] EXCEPT !.status = "processing", !.token = r, !.lease = AbandonTicks]
      /\ \A y \in Extraction : y # x => row'[y] = row[y]
      /\ run'[r] = [ext |-> x, kept |-> row[x].field, deadline |-> HardLimit]
      /\ \A s \in Run : s # r => run'[s] = run[s]
  BY DEF Claim, IInv, TypeOK, Stored, RowConsistent, RunConsistent
<1>1. row'[x] \in Row /\ run'[r] \in Job /\ Stored(x)' /\ Working(r)'
  <2>1. row'[x] \in Row
    <3>1. row[x] \in Row /\ AbandonTicks \in 0 .. AbandonTicks
      BY <1>0, TimeAssumption
    <3>2. row'[x] = [row[x] EXCEPT !.status = "processing", !.token = r, !.lease = AbandonTicks]
      BY <1>0
    <3> QED BY <3>1, <3>2 DEF Row
  <2>2. run'[r] \in Job
    <3>1. row[x].field \in Field \cup {Null} /\ HardLimit \in 0 .. HardLimit
      BY <1>0, TimeAssumption DEF Row
    <3> QED BY <1>0, <3>1 DEF Job
  <2> QED BY <2>1, <2>2, RecordAssumption DEF Stored, Working
<1>2. TypeOK'
  BY <1>0, <1>1 DEF Claim, Consume, IInv, TypeOK
<1>3. FactsAnswerable'
  <2> SUFFICES ASSUME NEW y \in Extraction, Stored(y)', row'[y].chunk # Null,
                      facts[row'[y].chunk] # Null, row'[y].field # Null
               PROVE  facts[row'[y].chunk] = [doc |-> Doc[y], value |-> row'[y].field.value]
    BY <1>0 DEF FactsAnswerable
  <2>1. Stored(y) /\ row[y].chunk = row'[y].chunk /\ row[y].field = row'[y].field
    <3>1. CASE y = x
      BY <1>0, <3>1 DEF Row
    <3>2. CASE y # x
      BY <1>0, <3>2 DEF Stored
    <3> QED BY <3>1, <3>2
  <2> QED BY <2>1 DEF IInv, FactsAnswerable
<1>4. OwnFacts'
  <2> SUFFICES ASSUME NEW y \in Extraction, NEW z \in Extraction, Stored(y)', Stored(z)',
                      row'[y].chunk # Null, row'[y].chunk = row'[z].chunk
               PROVE  y = z
    BY DEF OwnFacts
  <2>1. Stored(y) /\ row[y].chunk = row'[y].chunk /\ Stored(z) /\ row[z].chunk = row'[z].chunk
    BY <1>0 DEF Stored, Row
  <2> QED BY <2>1 DEF IInv, OwnFacts
<1>5. ASSUME NEW y \in Extraction PROVE RowConsistent(y)'
  <2>1. CASE y = x
    <3>1. row[x].chunk # Null => row[x].chunk \in Run /\ row[x].chunk # r
      BY <1>0, NullAssumption DEF IInv, RowConsistent, Row
    <3>2. row'[x].status = "processing" /\ row'[x].token = r /\ row'[x].chunk = row[x].chunk
      BY <1>0 DEF Row
    <3>3. r # Null /\ run'[r] # Null /\ run'[r].ext = x
      BY <1>0, <1>1, NullAssumption, RecordAssumption
    <3> QED BY <2>1, <1>0, <3>1, <3>2, <3>3 DEF IInv, RowConsistent
  <2>2. CASE y # x /\ Stored(y)
    <3>1. /\ row[y].token \in Run \cup {Null} /\ row[y].chunk \in Run \cup {Null}
          /\ row[y].token # r /\ row[y].chunk # r
      BY <2>2, <1>0, NullAssumption DEF IInv, TypeOK, RowConsistent, Stored, Row
    <3> QED BY <2>2, <1>0, <3>1 DEF IInv, RowConsistent, Stored, Working
  <2>3. CASE y # x /\ ~Stored(y)
    BY <2>3, <1>0 DEF RowConsistent, Stored
  <2> QED BY <2>1, <2>2, <2>3
<1>6. ASSUME NEW s \in Run PROVE RunConsistent(s)'
  <2>1. CASE s = r
    <3>1. row'[x].token = r /\ row'[x].field = row[x].field /\ row'[x].lease = AbandonTicks
      BY <1>0 DEF Row
    <3>2. row'[x] # Null
      BY <1>1 DEF Stored
    <3>3. /\ run'[r].ext = x /\ run'[r].kept = row[x].field /\ run'[r].deadline = HardLimit
          /\ run'[r] # Null /\ facts'[r] = Null
      BY <1>0, <1>1 DEF Working
    <3> QED BY <2>1, <3>1, <3>2, <3>3, TimeAssumption DEF RunConsistent
  <2>2. CASE s # r
    <3>1. Working(s) => run[s].ext # x
      BY <2>2, <1>0, NullAssumption DEF IInv, RunConsistent
    <3> QED BY <2>2, <3>1, <1>0 DEF IInv, TypeOK, RunConsistent, Stored, Working, Job
  <2> QED BY <2>1, <2>2
<1> QED BY <1>2, <1>3, <1>4, <1>5, <1>6 DEF IInv

(* Merging keeps a field well formed, and what a human wrote in it. *)
LEMMA MergeKeepsEdits ==
  ASSUME NEW kept \in Field \cup {Null}, NEW v \in Value
  PROVE  /\ Merge(kept, v) \in Field
         /\ kept # Null /\ kept.edited => Merge(kept, v) = kept
BY DEF Merge, Field

(* An execution that holds the token ends with a value, and perhaps facts. *)
LEMMA FinalizeKeeps ==
  ASSUME IInv, NEW r \in Run, NEW v \in Value, NEW indexed \in BOOLEAN, Finalize(r, v, indexed)
  PROVE  IInv'
<1> DEFINE x == run[r].ext
           field == Merge(run[r].kept, v)
           new == [row[x] EXCEPT !.status = "ready", !.token = Null, !.field = field,
                                 !.chunk = IF indexed THEN r ELSE Null]
<1>0. /\ x \in Extraction /\ Stored(x) /\ row[x] \in Row /\ row[x].token = r
      /\ run[r] \in Job /\ field \in Field /\ Doc[x] \in Document
  BY MergeKeepsEdits, OwnerAssumption DEF Finalize, Working, HoldsToken, Stored, IInv, TypeOK, Job
<1> HIDE DEF field
<1>1. /\ row' = [row EXCEPT ![x] = new]
      /\ new \in Row /\ new.status = "ready" /\ new.token = Null /\ new.field = field
      /\ new.chunk = IF indexed THEN r ELSE Null
  <2>1. row' = [row EXCEPT ![x] = new]
    BY DEF Finalize, field
  <2> QED BY <1>0, <2>1 DEF Row
<1> HIDE DEF new
<1>2. /\ row'[x] = new /\ \A y \in Extraction : y # x => row'[y] = row[y]
      /\ run' = [run EXCEPT ![r] = Deleted]
      /\ run'[r] = Deleted /\ \A s \in Run : s # r => run'[s] = run[s]
  BY <1>0, <1>1 DEF Finalize, Ended, IInv, TypeOK
<1>3. /\ facts'[r] = IF indexed THEN [doc |-> Doc[x], value |-> field.value] ELSE Null
      /\ \A s \in Run : s # r => facts'[s] \in {facts[s], Null}
      /\ facts' \in [Run -> Chunk \cup {Null}]
  <2>1. field.value \in Value
    BY <1>0 DEF Field
  <2>2. /\ Without(Doc[x], row[x].chunk) \in [Run -> Chunk \cup {Null}]
        /\ \A s \in Run : Without(Doc[x], row[x].chunk)[s] \in {facts[s], Null}
    BY DEF Without, IInv, TypeOK
  <2>3. facts' = [Without(Doc[x], row[x].chunk) EXCEPT
                    ![r] = IF indexed THEN [doc |-> Doc[x], value |-> field.value] ELSE Null]
    BY DEF Finalize, field
  <2>4. [doc |-> Doc[x], value |-> field.value] \in Chunk
    BY <1>0, <2>1 DEF Chunk
  <2> HIDE DEF x
  <2> QED BY <2>2, <2>3, <2>4
<1>4. \A y \in Extraction : Stored(y) /\ row[y].chunk # Null =>
        row[y].chunk \in Run /\ row[y].chunk # r
  BY DEF IInv, TypeOK, RowConsistent, Finalize, Working, Stored, Row
<1>5. TypeOK'
  BY <1>0, <1>1, <1>2, <1>3 DEF Finalize, IInv, TypeOK
<1>6. FactsAnswerable'
  <2> SUFFICES ASSUME NEW y \in Extraction, Stored(y)', row'[y].chunk # Null,
                      facts'[row'[y].chunk] # Null, row'[y].field # Null
               PROVE  facts'[row'[y].chunk] = [doc |-> Doc[y], value |-> row'[y].field.value]
    BY DEF FactsAnswerable
  <2>1. CASE y = x
    BY <2>1, <1>1, <1>2, <1>3
  <2>2. CASE y # x
    <3>1. Stored(y) /\ row'[y] = row[y]
      BY <2>2, <1>2 DEF Stored
    <3> QED BY <3>1, <1>3, <1>4 DEF IInv, FactsAnswerable
  <2> QED BY <2>1, <2>2
<1>7. OwnFacts'
  <2> SUFFICES ASSUME NEW y \in Extraction, NEW z \in Extraction, Stored(y)', Stored(z)',
                      row'[y].chunk # Null, row'[y].chunk = row'[z].chunk
               PROVE  y = z
    BY DEF OwnFacts
  <2>1. \A e \in Extraction : e # x /\ Stored(e)' => Stored(e) /\ row'[e] = row[e]
    BY <1>2 DEF Stored
  <2>2. CASE y # x /\ z # x
    BY <2>1, <2>2 DEF IInv, OwnFacts
  <2>3. CASE y # x /\ z = x
    BY <2>1, <2>3, <1>1, <1>2, <1>4
  <2>4. CASE y = x /\ z # x
    BY <2>1, <2>4, <1>1, <1>2, <1>4
  <2> QED BY <2>2, <2>3, <2>4
<1>8. ASSUME NEW y \in Extraction PROVE RowConsistent(y)'
  <2>1. CASE y = x
    BY <2>1, <1>1, <1>2, <1>3, NullAssumption DEF RowConsistent
  <2>2. CASE y # x /\ Stored(y)
    <3>1. /\ row[y].token \in Run \cup {Null} /\ row[y].chunk \in Run \cup {Null}
          /\ row'[y] = row[y]
      BY <2>2, <1>2 DEF IInv, TypeOK, Stored, Row
    <3>2. row[y].token # r
      <4>1. Working(r) /\ r # Null
        BY NullAssumption DEF Finalize
      <4>2. row[y].token # Null /\ Working(row[y].token) => run[row[y].token].ext = y
        BY <2>2 DEF IInv, RowConsistent
      <4> QED BY <2>2, <4>1, <4>2
    <3>3. row[y].chunk # Null => row[y].chunk \in Run /\ row[y].chunk # r
      BY <2>2, <1>4
    <3>4. ASSUME row[y].token # Null
          PROVE  run'[row[y].token] # Null /\ (Working(row[y].token)' => run'[row[y].token].ext = y)
      <4>1. run'[row[y].token] = run[row[y].token]
        BY <3>1, <3>2, <3>4, <1>2
      <4>2. run[row[y].token] # Null /\ (Working(row[y].token) => run[row[y].token].ext = y)
        BY <2>2, <3>4 DEF IInv, RowConsistent
      <4> QED BY <3>1, <4>1, <4>2 DEF Working
    <3>5. ASSUME row[y].chunk # Null
          PROVE  /\ run'[row[y].chunk] = Deleted
                 /\ facts'[row[y].chunk] # Null => facts'[row[y].chunk].doc = Doc[y]
      <4>1. run'[row[y].chunk] = run[row[y].chunk] /\ facts'[row[y].chunk] \in {facts[row[y].chunk], Null}
        BY <3>3, <3>5, <1>2, <1>3
      <4> QED BY <2>2, <3>5, <4>1 DEF IInv, RowConsistent
    <3>6. row[y].status = "processing" <=> row[y].token # Null
      BY <2>2 DEF IInv, RowConsistent
    <3> QED BY <3>1, <3>4, <3>5, <3>6 DEF RowConsistent
  <2>3. CASE y # x /\ ~Stored(y)
    BY <2>3, <1>2 DEF RowConsistent, Stored
  <2> QED BY <2>1, <2>2, <2>3
<1>9. ASSUME NEW s \in Run PROVE RunConsistent(s)'
  <2>1. CASE s = r
    BY <2>1, <1>2, NullAssumption DEF RunConsistent, Working
  <2>2. CASE s # r /\ Working(s)
    <3>1. run[s] \in Job /\ run[s].ext \in Extraction /\ run[s].ext # x
      BY <2>2, <1>0 DEF IInv, TypeOK, RunConsistent, Working, Job
    <3> QED BY <2>2, <3>1, <1>2, <1>3 DEF IInv, RunConsistent, Stored, Working
  <2>3. CASE s # r /\ ~Working(s)
    BY <2>3, <1>2, <1>3 DEF IInv, RunConsistent, Working
  <2> QED BY <2>1, <2>2, <2>3
<1> QED BY <1>5, <1>6, <1>7, <1>8, <1>9 DEF IInv

(* An execution ends without a result, with its row or alone. *)
LEMMA EndKeeps ==
  ASSUME IInv, NEW r \in Run, Fail(r) \/ EndLost(r)
  PROVE  IInv'
<1> DEFINE x == run[r].ext
<1>0. /\ run[r] \in Job /\ x \in Extraction
      /\ run' = [run EXCEPT ![r] = Deleted] /\ facts' = facts /\ UNCHANGED <<gone, remover, queue>>
      /\ run'[r] = Deleted /\ \A s \in Run : s # r => run'[s] = run[s]
  BY DEF Fail, EndLost, Ended, Working, IInv, TypeOK, Job
<1>1. /\ \A y \in Extraction : y # x => row'[y] = row[y]
      /\ \/ row' = row
         \/ /\ Stored(x) /\ row[x] \in Row /\ row[x].token = r
            /\ row'[x] = [row[x] EXCEPT !.status = "failed", !.token = Null]
            /\ row'[x] \in Row
  <2>1. CASE EndLost(r)
    BY <2>1 DEF EndLost
  <2>2. CASE Fail(r)
    <3>1. Stored(x) /\ row[x] \in Row /\ row[x].token = r
      BY <1>0, <2>2 DEF Fail, HoldsToken, Stored, IInv, TypeOK
    <3>2. row' = [row EXCEPT ![x] = [row[x] EXCEPT !.status = "failed", !.token = Null]]
      BY <2>2 DEF Fail
    <3>3. [row[x] EXCEPT !.status = "failed", !.token = Null] \in Row
      BY <3>1 DEF Row
    <3>4. row'[x] = [row[x] EXCEPT !.status = "failed", !.token = Null]
          /\ \A y \in Extraction : y # x => row'[y] = row[y]
      BY <1>0, <3>2 DEF IInv, TypeOK
    <3> QED BY <3>1, <3>3, <3>4
  <2> QED BY <2>1, <2>2
<1>2. /\ \A y \in Extraction : Stored(y)' => /\ Stored(y) /\ row[y] \in Row /\ row'[y] \in Row
                                             /\ row'[y].chunk = row[y].chunk
                                             /\ row'[y].field = row[y].field
      /\ row' \in [Extraction -> Row \cup {Null, Deleted}]
  <2>1. ASSUME NEW y \in Extraction, Stored(y)'
        PROVE  /\ Stored(y) /\ row[y] \in Row /\ row'[y] \in Row
               /\ row'[y].chunk = row[y].chunk /\ row'[y].field = row[y].field
    <3>1. CASE row'[y] = row[y]
      BY <2>1, <3>1 DEF Stored, IInv, TypeOK
    <3>2. CASE row'[y] # row[y]
      BY <2>1, <3>2, <1>1 DEF Row
    <3> QED BY <3>1, <3>2
  <2>2. row' \in [Extraction -> Row \cup {Null, Deleted}]
    BY <1>0 DEF Fail, EndLost, HoldsToken, Stored, IInv, TypeOK, Row
  <2> QED BY <2>1, <2>2
<1>3. TypeOK'
  BY <1>0, <1>2 DEF IInv, TypeOK
<1>4. FactsAnswerable'
  BY <1>0, <1>2 DEF IInv, FactsAnswerable
<1>5. OwnFacts'
  BY <1>2 DEF IInv, OwnFacts
<1>6. ASSUME NEW y \in Extraction, Stored(y)' PROVE RowConsistent(y)'
  <2>1. row[y].chunk # Null => run'[row[y].chunk] = Deleted
    BY <1>0, <1>2, <1>6 DEF IInv, RowConsistent, Row
  <2>2. CASE row'[y] = row[y]
    <3>1. row[y].token \in Run \cup {Null}
      BY <1>2, <1>6 DEF Row
    <3> QED BY <2>1, <2>2, <3>1, <1>0, <1>2, <1>6, NullAssumption
            DEF IInv, RowConsistent, Stored, Working
  <2>3. CASE row'[y] # row[y]
    <3>1. row'[y].status = "failed" /\ row'[y].token = Null
      BY <2>3, <1>1 DEF Row
    <3> QED BY <2>1, <3>1, <1>0, <1>2, <1>6 DEF IInv, RowConsistent
  <2> QED BY <2>2, <2>3
<1>7. ASSUME NEW s \in Run PROVE RunConsistent(s)'
  <2>1. CASE s = r
    BY <2>1, <1>0, NullAssumption DEF RunConsistent, Working
  <2>2. CASE s # r /\ Working(s)
    <3>1. run[s] \in Job /\ run[s].ext \in Extraction
      BY <2>2 DEF IInv, TypeOK, Working, Job
    <3>2. row'[run[s].ext] = row[run[s].ext]
      BY <2>2, <3>1, <1>1 DEF IInv, RunConsistent
    <3> QED BY <2>2, <3>1, <3>2, <1>0 DEF IInv, RunConsistent, Stored, Working
  <2>3. CASE s # r /\ ~Working(s)
    BY <2>3, <1>0 DEF IInv, RunConsistent, Working
  <2> QED BY <2>1, <2>2, <2>3
<1>8. ASSUME NEW y \in Extraction PROVE RowConsistent(y)'
  BY <1>6 DEF RowConsistent
<1> QED BY <1>3, <1>4, <1>5, <1>7, <1>8 DEF IInv

(* The recovery fails the claims that have run out, which no execution holds. *)
LEMMA RecoverKeeps ==
  ASSUME IInv, NEW X \in SUBSET Extraction, RecoverExtractions(X)
  PROVE  IInv'
<1> DEFINE lost == {x \in X : Stored(x) /\ row[x].status = "processing"}
           given(x) == [row[x] EXCEPT !.status = "failed", !.token = Null]
<1>0. /\ \A x \in Extraction : row'[x] = IF x \in lost THEN given(x) ELSE row[x]
      /\ run' = run /\ facts' = facts /\ gone' = gone /\ remover' = remover
      /\ queue' \subseteq Extraction
      /\ \A x \in lost : row[x].lease = 0
  BY DEF RecoverExtractions, Due, Publish, IInv, TypeOK, Stored
<1>1. \A x \in lost : row[x] \in Row /\ given(x) \in Row /\ Stored(x)
                      /\ given(x).status = "failed" /\ given(x).token = Null
                      /\ given(x).chunk = row[x].chunk /\ given(x).field = row[x].field
  <2> SUFFICES ASSUME NEW x \in lost
               PROVE  row[x] \in Row /\ given(x) \in Row /\ Stored(x)
                      /\ given(x).status = "failed" /\ given(x).token = Null
                      /\ given(x).chunk = row[x].chunk /\ given(x).field = row[x].field
    OBVIOUS
  <2>1. row[x] \in Row /\ Stored(x)
    BY DEF IInv, TypeOK, Stored
  <2> QED BY <2>1 DEF Row
<1>2. \A s \in Run : Working(s) => run[s].ext \in Extraction /\ run[s].ext \notin lost
  <2> SUFFICES ASSUME NEW s \in Run, Working(s), run[s].ext \in lost PROVE FALSE
    BY DEF IInv, TypeOK, Working, Job
  <2>1. run[s].deadline \in Nat /\ row[run[s].ext].lease > run[s].deadline
    BY TimeAssumption DEF IInv, TypeOK, RunConsistent, Working, Job
  <2>2. row[run[s].ext].lease = 0
    BY <1>0
  <2> QED BY <2>1, <2>2
<1> HIDE DEF given, lost
<1>3. row' \in [Extraction -> Row \cup {Null, Deleted}]
  <2>1. row' = [x \in Extraction |-> row'[x]]
    BY DEF RecoverExtractions
  <2> QED BY <2>1, <1>0, <1>1 DEF IInv, TypeOK
<1>4. TypeOK'
  BY <1>0, <1>3 DEF IInv, TypeOK
<1>5. \A x \in Extraction : Stored(x)' => /\ Stored(x) /\ row[x] \in Row
                                          /\ row'[x].chunk = row[x].chunk
                                          /\ row'[x].field = row[x].field
  BY <1>0, <1>1 DEF IInv, TypeOK, Stored
<1>6. FactsAnswerable'
  BY <1>0, <1>5 DEF IInv, FactsAnswerable
<1>7. OwnFacts'
  BY <1>5 DEF IInv, OwnFacts
<1>8. ASSUME NEW x \in Extraction PROVE RowConsistent(x)'
  <2>1. CASE x \in lost
    BY <2>1, <1>0, <1>1 DEF IInv, RowConsistent, Stored
  <2>2. CASE x \notin lost
    BY <2>2, <1>0 DEF IInv, RowConsistent, Stored, Working
  <2> QED BY <2>1, <2>2
<1>9. ASSUME NEW s \in Run PROVE RunConsistent(s)'
  <2>1. CASE Working(s)
    <3>1. row'[run[s].ext] = row[run[s].ext]
      BY <2>1, <1>0, <1>2
    <3> QED BY <2>1, <3>1, <1>0 DEF IInv, RunConsistent, Stored, Working
  <2>2. CASE ~Working(s)
    BY <2>2, <1>0 DEF IInv, RunConsistent, Working
  <2> QED BY <2>1, <2>2
<1> QED BY <1>4, <1>6, <1>7, <1>8, <1>9 DEF IInv

(* Time passes for leases and deadlines alike. *)
LEMMA TickKeeps ==
  ASSUME IInv, Tick
  PROVE  IInv'
<1>0. /\ facts' = facts /\ gone' = gone /\ remover' = remover /\ queue' = queue
      /\ \A x \in Extraction : row'[x] =
           IF Stored(x) THEN [row[x] EXCEPT !.lease = Less(row[x].lease)] ELSE row[x]
      /\ \A r \in Run : run'[r] =
           IF Working(r) THEN [run[r] EXCEPT !.deadline = Less(run[r].deadline)] ELSE run[r]
  BY DEF Tick
<1>1. /\ \A n \in 0 .. AbandonTicks : Less(n) \in 0 .. AbandonTicks
      /\ \A n \in 0 .. HardLimit : Less(n) \in 0 .. HardLimit
      /\ \A m, n \in Nat : m > n /\ n > 0 => Less(m) > Less(n)
  BY TimeAssumption DEF Less
<1>2. ASSUME NEW x \in Extraction, Stored(x)
      PROVE  /\ row[x] \in Row /\ row'[x] \in Row
             /\ row'[x].status = row[x].status /\ row'[x].token = row[x].token
             /\ row'[x].chunk = row[x].chunk /\ row'[x].field = row[x].field
             /\ row'[x].lease = Less(row[x].lease) /\ row[x].lease \in 0 .. AbandonTicks
  <2>1. row[x] \in Row
    BY <1>2 DEF IInv, TypeOK, Stored
  <2>2. row[x].lease \in 0 .. AbandonTicks
    BY <2>1 DEF Row
  <2>3. Less(row[x].lease) \in 0 .. AbandonTicks
    BY <2>2, <1>1
  <2> QED BY <1>0, <1>2, <2>1, <2>2, <2>3 DEF Row
<1>3. ASSUME NEW r \in Run, Working(r)
      PROVE  /\ run[r] \in Job /\ run'[r] \in Job
             /\ run'[r].ext = run[r].ext /\ run'[r].kept = run[r].kept
             /\ run'[r].deadline = Less(run[r].deadline)
             /\ run[r].deadline \in 0 .. HardLimit /\ run[r].deadline > 0
  <2>1. run[r] \in Job
    BY <1>3 DEF IInv, TypeOK, Working
  <2>2. run[r].deadline \in 0 .. HardLimit /\ run[r].deadline > 0
    BY <2>1, <1>3 DEF Job, Tick
  <2>3. Less(run[r].deadline) \in 0 .. HardLimit
    BY <2>2, <1>1
  <2> QED BY <1>0, <1>3, <2>1, <2>2, <2>3 DEF Job
<1>4. /\ \A x \in Extraction : Stored(x)' <=> Stored(x)
      /\ \A x \in Extraction : ~Stored(x) => row'[x] = row[x]
      /\ \A r \in Run : Working(r)' <=> Working(r)
      /\ \A r \in Run : ~Working(r) => run'[r] = run[r]
  BY <1>0, <1>2, <1>3, RecordAssumption DEF Stored, Working
<1>5. TypeOK'
  <2>1. row' \in [Extraction -> Row \cup {Null, Deleted}]
    <3>1. row' = [x \in Extraction |-> row'[x]]
      BY DEF Tick
    <3> QED BY <3>1, <1>2, <1>4 DEF IInv, TypeOK
  <2>2. run' \in [Run -> Job \cup {Null, Deleted}]
    <3>1. run' = [r \in Run |-> run'[r]]
      BY DEF Tick
    <3> QED BY <3>1, <1>3, <1>4 DEF IInv, TypeOK
  <2> QED BY <2>1, <2>2, <1>0 DEF IInv, TypeOK
<1>6. FactsAnswerable'
  BY <1>0, <1>2, <1>4 DEF IInv, FactsAnswerable
<1>7. OwnFacts'
  BY <1>2, <1>4 DEF IInv, OwnFacts
<1>8. ASSUME NEW x \in Extraction, Stored(x)' PROVE RowConsistent(x)'
  <2>1. row[x].token \in Run \cup {Null} /\ row[x].chunk \in Run \cup {Null} /\ Stored(x)
    BY <1>2, <1>4, <1>8 DEF Row
  <2>2. ASSUME row[x].token # Null
        PROVE  /\ run'[row[x].token] # Null
               /\ run'[row[x].token] \notin {Null, Deleted} => run'[row[x].token].ext = x
    <3>1. /\ row[x].token \in Run /\ run[row[x].token] # Null
          /\ Working(row[x].token) => run[row[x].token].ext = x
      BY <2>1, <2>2 DEF IInv, RowConsistent
    <3>2. CASE Working(row[x].token)
      BY <3>1, <3>2, <1>3, RecordAssumption
    <3>3. CASE ~Working(row[x].token)
      BY <3>1, <3>3, <1>4 DEF Working
    <3> QED BY <3>2, <3>3
  <2>3. row[x].chunk # Null => /\ run'[row[x].chunk] = Deleted
                               /\ facts'[row[x].chunk] # Null => facts'[row[x].chunk].doc = Doc[x]
    BY <2>1, <1>0, <1>4 DEF IInv, RowConsistent, Working
  <2> QED BY <2>1, <2>2, <2>3, <1>2 DEF IInv, RowConsistent, Working
<1>9. ASSUME NEW r \in Run PROVE RunConsistent(r)'
  <2>1. CASE Working(r)
    <3>1. run[r].ext \in Extraction /\ run'[r].ext = run[r].ext
      BY <2>1, <1>3 DEF Job
    <3>2. Stored(run[r].ext) => row'[run[r].ext].lease > run'[r].deadline
      <4> SUFFICES ASSUME Stored(run[r].ext)
                   PROVE  row'[run[r].ext].lease > run'[r].deadline
        OBVIOUS
      <4>1. row[run[r].ext].lease > run[r].deadline
        BY <2>1 DEF IInv, RunConsistent
      <4>2. row[run[r].ext].lease \in Nat /\ run[r].deadline \in Nat /\ run[r].deadline > 0
        BY <1>2, <1>3, <2>1, <3>1, TimeAssumption
      <4> QED BY <4>1, <4>2, <1>1, <1>2, <1>3, <2>1, <3>1
    <3>3. row'[run[r].ext] # Null
      BY <2>1, <3>1, <1>2, <1>4, RecordAssumption DEF IInv, RunConsistent
    <3>4. run'[r] # Null /\ facts'[r] = Null
      BY <2>1, <1>0, <1>4 DEF IInv, RunConsistent, Working
    <3> QED BY <2>1, <3>1, <3>2, <3>3, <3>4, <1>2, <1>3, <1>4 DEF IInv, RunConsistent
  <2>2. CASE ~Working(r)
    BY <2>2, <1>0, <1>4 DEF IInv, RunConsistent
  <2> QED BY <2>1, <2>2
<1>10. \A x \in Extraction : RowConsistent(x)'
  BY <1>8 DEF RowConsistent
<1> QED BY <1>5, <1>6, <1>7, <1>9, <1>10 DEF IInv

(* The facts that are left are those that were there. *)
LEMMA WithoutOnlyRemoves ==
  ASSUME TypeOK, NEW d, NEW c
  PROVE  /\ Without(d, c) \in [Run -> Chunk \cup {Null}]
         /\ \A r \in Run : Without(d, c)[r] \in {facts[r], Null}
BY DEF TypeOK, Without

(* The requests of owners. *)
LEMMA RequestsKeep ==
  ASSUME IInv, NEW x \in Extraction,
         \/ RequestFirst(x)
         \/ \E force \in BOOLEAN : RequestAgain(x, force)
         \/ \E v \in Value : PatchExtraction(x, v)
  PROVE  IInv'
<1>0. /\ \A r \in Run : facts[r] \in {facts[r], Null}
      /\ facts \in [Run -> Chunk \cup {Null}] /\ queue \subseteq Extraction
      /\ Stored(x) => row[x] \in Row /\ row[x] # Deleted
      /\ Stored(x) /\ row[x].status # "processing" => row[x].token = Null
  BY DEF IInv, TypeOK, Stored, RowConsistent
<1>1. CASE RequestFirst(x)
  <2> DEFINE new == [status |-> "pending", token |-> Null, field |-> Null,
                     chunk |-> Null, lease |-> 0]
  <2>1. new \in Row
    BY TimeAssumption DEF Row
  <2>2. /\ row' = [row EXCEPT ![x] = new] /\ ~Stored(x) /\ row[x] # Deleted
        /\ queue' \subseteq Extraction
        /\ UNCHANGED <<gone, facts, run, remover>>
    BY <1>0, <1>1, NullAssumption DEF RequestFirst, Publish, Stored
  <2> QED BY <1>0, <2>1, <2>2, RowChanges
<1>2. ASSUME NEW force \in BOOLEAN, RequestAgain(x, force) PROVE IInv'
  <2> DEFINE new == [row[x] EXCEPT !.status = "pending", !.token = Null,
                                   !.field = IF force THEN Null ELSE row[x].field]
  <2>1. Stored(x) /\ row[x].status # "processing"
    BY <1>2 DEF RequestAgain
  <2>2. /\ new \in Row /\ new.token = Null /\ new.status = "pending"
        /\ new.chunk = row[x].chunk /\ new.field \in {Null, row[x].field}
    BY <1>0, <2>1 DEF Row
  <2>3. /\ row' = [row EXCEPT ![x] = new]
        /\ queue' \subseteq Extraction
        /\ UNCHANGED <<gone, facts, run, remover>>
    BY <1>0, <1>2 DEF RequestAgain, Publish
  <2> HIDE DEF new
  <2> QED BY <1>0, <2>1, <2>2, <2>3, RowChanges
<1>3. ASSUME NEW v \in Value, PatchExtraction(x, v) PROVE IInv'
  <2> DEFINE new == [row[x] EXCEPT !.field = [value |-> v, edited |-> TRUE], !.chunk = Null]
  <2>1. Stored(x) /\ row[x].status \in {"ready", "failed"}
    BY <1>3 DEF PatchExtraction
  <2>2. /\ new \in Row /\ new.token = row[x].token /\ new.status = row[x].status
        /\ new.chunk = Null
    BY <1>0, <2>1 DEF Row, Field
  <2>3. row' = [row EXCEPT ![x] = new] /\ UNCHANGED <<gone, run, remover, queue>>
    BY <1>3 DEF PatchExtraction
  <2>4. /\ facts' \in [Run -> Chunk \cup {Null}]
        /\ \A r \in Run : facts'[r] \in {facts[r], Null}
    BY <1>3, WithoutOnlyRemoves DEF PatchExtraction, IInv
  <2> HIDE DEF new
  <2> QED BY <1>0, <2>1, <2>2, <2>3, <2>4, RowChanges
<1> QED BY <1>1, <1>2, <1>3

(* Deletions, ingestions, and what else leaves the rows alone. *)
LEMMA DeletionsKeep ==
  ASSUME IInv,
         \/ \E x \in Extraction : DropMessage(x)
         \/ \E p \in Remover : RemoverStep(p) \/ \E t \in Extraction \cup Schema : ReadFacts(p, t)
         \/ \E d \in Document : DeleteDocument(d) \/ StoreChunks(d)
  PROVE  IInv'
<1> DEFINE Removers == [Remover -> Removal \cup {Null, Deleted}]
<1>0. /\ remover \in Removers /\ gone \subseteq Document \cup Schema
      /\ queue \subseteq Extraction /\ facts \in [Run -> Chunk \cup {Null}]
      /\ \A r \in Run : facts[r] \in {facts[r], Null}
  BY DEF IInv, TypeOK
<1>1. ASSUME NEW x \in Extraction, DropMessage(x) PROVE IInv'
  BY <1>0, <1>1, FewerFacts DEF DropMessage
<1>2. ASSUME NEW p \in Remover, NEW t \in Extraction \cup Schema, ReadFacts(p, t) PROVE IInv'
  <2>1. {<<Doc[x], row[x].chunk>> : x \in {y \in Targets(t) : row[y].chunk # Null}}
          \in SUBSET (Document \X Run)
    <3> SUFFICES ASSUME NEW x \in Targets(t), row[x].chunk # Null
                 PROVE  <<Doc[x], row[x].chunk>> \in Document \X Run
      OBVIOUS
    <3>1. x \in Extraction /\ row[x] \in Row
      BY DEF Targets, IInv, TypeOK, Stored
    <3> QED BY <3>1, OwnerAssumption DEF Row
  <2>2. remover' \in Removers
    BY <1>0, <1>2, <2>1 DEF ReadFacts, Removal
  <2> QED BY <1>0, <1>2, <2>2, FewerFacts DEF ReadFacts
<1>3. ASSUME NEW p \in Remover, NEW d \in Document, NEW r \in Run, RemoveFactsChunk(p, <<d, r>>)
      PROVE  IInv'
  <2>1. remover' \in Removers
    BY <1>0, <1>3 DEF RemoveFactsChunk, Removal
  <2>2. facts' = Without(d, r)
    BY <1>3 DEF RemoveFactsChunk
  <2>3. /\ facts' \in [Run -> Chunk \cup {Null}]
        /\ \A s \in Run : facts'[s] \in {facts[s], Null}
    BY <2>2, WithoutOnlyRemoves DEF IInv
  <2> QED BY <1>0, <1>3, <2>1, <2>3, FewerFacts DEF RemoveFactsChunk
<1>4. ASSUME NEW p \in Remover, RemoverCrash(p) PROVE IInv'
  BY <1>0, <1>4, FewerFacts DEF RemoverCrash
<1>5. ASSUME NEW p \in Remover, CommitDelete(p) PROVE IInv'
  <2>1. /\ Targets(remover[p].target) \in SUBSET Extraction
        /\ \A x \in Targets(remover[p].target) : Stored(x)
    BY DEF Targets
  <2>2. remover' \in Removers /\ gone' \subseteq Document \cup Schema
    BY <1>0, <1>5 DEF CommitDelete, Removal
  <2> QED BY <1>0, <1>5, <2>1, <2>2, FewerRows DEF CommitDelete
<1>6. ASSUME NEW d \in Document, DeleteDocument(d) \/ StoreChunks(d) PROVE IInv'
  <2>1. /\ facts' \in [Run -> Chunk \cup {Null}]
        /\ \A r \in Run : facts'[r] \in {facts[r], Null}
    BY <1>0, <1>6 DEF DeleteDocument, StoreChunks
  <2>2. CASE StoreChunks(d)
    BY <1>0, <2>1, <2>2, FewerFacts DEF StoreChunks
  <2>3. CASE DeleteDocument(d)
    <3> DEFINE X == {x \in Extraction : Stored(x) /\ Doc[x] = d}
    <3>1. X \in SUBSET Extraction /\ \A x \in X : Stored(x)
      OBVIOUS
    <3>2. Deleting(X) /\ gone' \subseteq Document \cup Schema
          /\ UNCHANGED <<run, remover, queue>>
      BY <1>0, <2>3 DEF DeleteDocument
    <3> HIDE DEF X
    <3> QED BY <1>0, <2>1, <3>1, <3>2, FewerRows
  <2> QED BY <1>6, <2>2, <2>3
<1> QED BY <1>1, <1>2, <1>3, <1>4, <1>5, <1>6 DEF RemoverStep

(* Rows, executions and facts agree in every reachable state. *)
THEOREM Invariance == Spec => []IInv
<1>1. Init => IInv
  BY InitIInv
<1>2. IInv /\ [Next]_vars => IInv'
  <2> SUFFICES ASSUME IInv, [Next]_vars PROVE IInv'
    OBVIOUS
  <2>1. ASSUME NEW x \in Extraction, NEW r \in Run, Claim(r, x) PROVE IInv'
    BY <2>1, ClaimKeeps
  <2>2. ASSUME NEW r \in Run, RunStep(r) PROVE IInv'
    BY <2>2, FinalizeKeeps, EndKeeps DEF RunStep
  <2>3. ASSUME NEW X \in SUBSET Extraction, RecoverExtractions(X) PROVE IInv'
    BY <2>3, RecoverKeeps
  <2>4. CASE Tick
    BY <2>4, TickKeeps
  <2>5. CASE UNCHANGED vars
    BY <2>5 DEF vars, IInv, TypeOK, FactsAnswerable, OwnFacts, RowConsistent, RunConsistent,
                Stored, Working
  <2> QED BY <2>1, <2>2, <2>3, <2>4, <2>5, RequestsKeep, DeletionsKeep DEF Next
<1> QED BY <1>1, <1>2, PTL DEF Spec

(* "A live worker cannot lose its claim": an execution that has not ended holds its *)
(* extraction, unless that was deleted (extraction/tasks.py).                       *)
THEOREM LiveClaims == Spec => []ClaimsAreLive
<1>1. IInv => ClaimsAreLive
  BY DEF IInv, TypeOK, ClaimsAreLive, RunConsistent, HoldsToken, Stored, Working, Job
<1> QED BY <1>1, Invariance, PTL

(* No outdated facts are answerable: those a row has in the corpus show its field. *)
THEOREM FactsAreCurrent == Spec => []FactsAnswerable
<1>1. IInv => FactsAnswerable
  BY DEF IInv
<1> QED BY <1>1, Invariance, PTL

(* "A human's correction outlives re-runs", whatever runs end when. *)
THEOREM CorrectionsOutliveRuns == Spec => EditsKept
<1> DEFINE Kept(x) ==
      Stored(x) /\ row[x].field # Null /\ row[x].field.edited =>
         \/ row'[x] = Deleted
         \/ row'[x].field = Null /\ row'[x].status = "pending"
         \/ row'[x].field.edited /\ (row'[x].field = row[x].field \/ row'[x].chunk = Null)
<1>1. IInv /\ [Next]_vars => [\A x \in Extraction : Kept(x)]_vars
  <2> SUFFICES ASSUME IInv, Next, NEW x \in Extraction, Stored(x),
                      row[x].field # Null, row[x].field.edited
               PROVE  \/ row'[x] = Deleted
                      \/ row'[x].field = Null /\ row'[x].status = "pending"
                      \/ row'[x].field.edited
                         /\ (row'[x].field = row[x].field \/ row'[x].chunk = Null)
    OBVIOUS
  <2>0. row \in [Extraction -> Row \cup {Null, Deleted}] /\ row[x] \in Row
    BY DEF IInv, TypeOK, Stored
  <2>1. CASE row'[x] = row[x] \/ row'[x] = Deleted
    BY <2>1
  <2>2. ASSUME NEW y \in Extraction, NEW force \in BOOLEAN, RequestAgain(y, force)
        PROVE  \/ row'[x].field = Null /\ row'[x].status = "pending"
               \/ row'[x].field = row[x].field
    BY <2>0, <2>2 DEF RequestAgain, Row
  <2>3. ASSUME NEW y \in Extraction, NEW v \in Value, PatchExtraction(y, v)
        PROVE  row'[x] = row[x] \/ (row'[x].field.edited /\ row'[x].chunk = Null)
    BY <2>0, <2>3 DEF PatchExtraction, Row
  <2>4. ASSUME NEW y \in Extraction, NEW r \in Run, Claim(r, y)
        PROVE  row'[x].field = row[x].field
    BY <2>0, <2>4 DEF Claim, Row
  <2>5. ASSUME NEW r \in Run, NEW v \in Value, NEW indexed \in BOOLEAN, Finalize(r, v, indexed)
        PROVE  row'[x].field = row[x].field
    <3>1. run[r] \in Job /\ run[r].ext \in Extraction /\ run[r].kept = row[run[r].ext].field
      BY <2>5 DEF IInv, TypeOK, RunConsistent, Finalize, Working, HoldsToken, Job
    <3>2. CASE run[r].ext = x
      <4>1. Merge(run[r].kept, v) = row[x].field
        BY <3>1, <3>2 DEF Merge
      <4>2. row' = [row EXCEPT ![x] = [row[x] EXCEPT !.status = "ready", !.token = Null,
                      !.field = row[x].field, !.chunk = IF indexed THEN r ELSE Null]]
        BY <2>5, <3>2, <4>1 DEF Finalize
      <4> QED BY <2>0, <4>2 DEF Row
    <3>3. CASE run[r].ext # x
      BY <2>0, <2>5, <3>1, <3>3 DEF Finalize
    <3> QED BY <3>2, <3>3
  <2>6. ASSUME NEW r \in Run, Fail(r) \/ EndLost(r)
        PROVE  row'[x].field = row[x].field
    BY <2>0, <2>6 DEF Fail, EndLost, Row
  <2>7. ASSUME NEW X \in SUBSET Extraction, RecoverExtractions(X)
        PROVE  row'[x].field = row[x].field
    BY <2>0, <2>7 DEF RecoverExtractions, Row
  <2>8. CASE Tick
    <3>1. row'[x].field = row[x].field
      BY <2>0, <2>8 DEF Tick, Row
    <3> QED BY <3>1
  <2>9. ASSUME NEW y \in Extraction, RequestFirst(y) PROVE row'[x] = row[x]
    BY <2>0, <2>9 DEF RequestFirst, Stored
  <2>10. ASSUME \/ \E y \in Extraction : DropMessage(y)
                \/ \E p \in Remover : RemoverStep(p) \/ \E t \in Extraction \cup Schema : ReadFacts(p, t)
                \/ \E d \in Document : DeleteDocument(d) \/ StoreChunks(d)
         PROVE  row'[x] = row[x] \/ row'[x] = Deleted
    BY <2>10 DEF DropMessage, RemoverStep, CommitDelete, RemoverCrash, RemoveFactsChunk, ReadFacts,
                 DeleteDocument, StoreChunks, Deleting
  <2> QED BY <2>1, <2>2, <2>3, <2>4, <2>5, <2>6, <2>7, <2>8, <2>9, <2>10 DEF Next, RunStep
<1> QED BY <1>1, Invariance, PTL DEF Spec, EditsKept

-----------------------------------------------------------------------------
(* An execution that has ended stays ended, and its facts can only go. *)
LEMMA EndedForGood ==
  ASSUME IInv, [Next]_vars, NEW r \in Run, run[r] = Deleted
  PROVE  run'[r] = Deleted /\ facts'[r] \in {facts[r], Null}
<1>1. ~Working(r)
  BY DEF Working
<1>2. ASSUME NEW x \in Extraction, NEW q \in Run, Claim(q, x)
      PROVE  run'[r] = Deleted /\ facts' = facts
  BY <1>2, NullAssumption DEF Claim, IInv, TypeOK
<1>3. ASSUME NEW q \in Run, NEW v \in Value, NEW indexed \in BOOLEAN, Finalize(q, v, indexed)
      PROVE  run'[r] = Deleted /\ facts'[r] \in {facts[r], Null}
  BY <1>1, <1>3 DEF Finalize, Ended, Without, IInv, TypeOK
<1>4. ASSUME NEW q \in Run, Fail(q) \/ EndLost(q)
      PROVE  run'[r] = Deleted /\ facts' = facts
  BY <1>4 DEF Fail, EndLost, Ended, IInv, TypeOK
<1>5. CASE Tick
  BY <1>1, <1>5 DEF Tick
<1>6. ASSUME NEW x \in Extraction,
             \/ RequestFirst(x) \/ DropMessage(x)
             \/ \E force \in BOOLEAN : RequestAgain(x, force)
             \/ \E v \in Value : PatchExtraction(x, v)
      PROVE  run' = run /\ facts'[r] \in {facts[r], Null}
  BY <1>6 DEF RequestFirst, DropMessage, RequestAgain, PatchExtraction, Without
<1>7. ASSUME NEW X \in SUBSET Extraction, RecoverExtractions(X)
      PROVE  run' = run /\ facts' = facts
  BY <1>7 DEF RecoverExtractions
<1>8. ASSUME NEW p \in Remover, RemoverStep(p) \/ \E t \in Extraction \cup Schema : ReadFacts(p, t)
      PROVE  run' = run /\ facts'[r] \in {facts[r], Null}
  BY <1>8 DEF RemoverStep, CommitDelete, RemoverCrash, RemoveFactsChunk, ReadFacts, Without
<1>9. ASSUME NEW d \in Document, DeleteDocument(d) \/ StoreChunks(d)
      PROVE  run' = run /\ facts'[r] \in {facts[r], Null}
  BY <1>9 DEF DeleteDocument, StoreChunks
<1>10. CASE UNCHANGED vars
  BY <1>10 DEF vars
<1> QED BY <1>2, <1>3, <1>4, <1>5, <1>6, <1>7, <1>8, <1>9, <1>10 DEF Next, RunStep

(* Requests that remove facts are alone in writing what they have in hand. *)
LEMMA RemoversAlone ==
  ASSUME [Next]_vars, NEW p \in Remover
  PROVE  \/ remover'[p] = remover[p]
         \/ \E t \in Extraction \cup Schema : ReadFacts(p, t)
         \/ RemoverStep(p)
<1>1. ASSUME NEW x \in Extraction,
             \/ RequestFirst(x) \/ DropMessage(x)
             \/ \E force \in BOOLEAN : RequestAgain(x, force)
             \/ \E v \in Value : PatchExtraction(x, v)
             \/ \E r \in Run : Claim(r, x)
      PROVE  remover' = remover
  BY <1>1 DEF RequestFirst, DropMessage, RequestAgain, PatchExtraction, Claim
<1>2. ASSUME NEW r \in Run, RunStep(r) PROVE remover' = remover
  BY <1>2 DEF RunStep, Fail, EndLost, Finalize
<1>3. ASSUME NEW X \in SUBSET Extraction, RecoverExtractions(X) PROVE remover' = remover
  BY <1>3 DEF RecoverExtractions
<1>4. ASSUME NEW q \in Remover, q # p, RemoverStep(q) \/ \E t \in Extraction \cup Schema : ReadFacts(q, t)
      PROVE  remover'[p] = remover[p]
  <2>1. \E new : remover' = [remover EXCEPT ![q] = new]
    BY <1>4 DEF RemoverStep, CommitDelete, RemoverCrash, RemoveFactsChunk, ReadFacts
  <2> QED BY <1>4, <2>1
<1>5. ASSUME NEW d \in Document, DeleteDocument(d) \/ StoreChunks(d) PROVE remover' = remover
  BY <1>5 DEF DeleteDocument, StoreChunks
<1>6. CASE Tick \/ UNCHANGED vars
  BY <1>6 DEF Tick, vars
<1> QED BY <1>1, <1>2, <1>3, <1>4, <1>5, <1>6 DEF Next

(* What a request has in hand stays what it read: an execution's chunk of a document. *)
LEMMA StepHand ==
  ASSUME IInv, [Next]_vars, HandInv
  PROVE  HandInv'
<1> SUFFICES ASSUME NEW p \in Remover, remover'[p] \notin {Null, Deleted},
                    NEW c \in remover'[p].chunks
             PROVE  run'[c[2]] = Deleted /\ (facts'[c[2]] # Null => facts'[c[2]].doc = c[1])
  BY DEF HandInv, RemoverConsistent
<1>1. ASSUME remover[p] \notin {Null, Deleted}, c \in remover[p].chunks
      PROVE  run'[c[2]] = Deleted /\ (facts'[c[2]] # Null => facts'[c[2]].doc = c[1])
  <2>1. run[c[2]] = Deleted /\ (facts[c[2]] # Null => facts[c[2]].doc = c[1])
    BY <1>1 DEF HandInv, RemoverConsistent
  <2>2. remover[p] \in Removal
    BY <1>1 DEF IInv, TypeOK
  <2>3. c[2] \in Run
    BY <1>1, <2>2 DEF Removal
  <2> QED BY <2>1, <2>3, EndedForGood
<1>2. CASE remover'[p] = remover[p]
  BY <1>1, <1>2
<1>3. ASSUME NEW t \in Extraction \cup Schema, ReadFacts(p, t)
      PROVE  run'[c[2]] = Deleted /\ (facts'[c[2]] # Null => facts'[c[2]].doc = c[1])
  <2>1. remover'[p].chunks =
          {<<Doc[x], row[x].chunk>> : x \in {y \in Targets(t) : row[y].chunk # Null}}
    BY <1>3 DEF ReadFacts, IInv, TypeOK
  <2>2. PICK x \in Extraction : Stored(x) /\ row[x].chunk # Null /\ c = <<Doc[x], row[x].chunk>>
    BY <2>1 DEF Targets
  <2>3. run[row[x].chunk] = Deleted
        /\ (facts[row[x].chunk] # Null => facts[row[x].chunk].doc = Doc[x])
    BY <2>2 DEF IInv, RowConsistent
  <2> QED BY <1>3, <2>2, <2>3 DEF ReadFacts
<1>4. CASE RemoverStep(p)
  <2>1. remover[p] \notin {Null, Deleted}
    BY <1>4 DEF RemoverStep, CommitDelete, RemoverCrash, RemoveFactsChunk
  <2>2. remover[p] \in Removal
    BY <2>1 DEF IInv, TypeOK
  <2>3. remover'[p] # Deleted
    OBVIOUS
  <2>4. CASE CommitDelete(p)
    <3>1. remover'[p] = [remover[p] EXCEPT !.done = TRUE]
      BY <2>4 DEF CommitDelete, IInv, TypeOK
    <3> QED BY <1>1, <2>1, <2>2, <3>1 DEF Removal
  <2>5. ASSUME NEW b, RemoveFactsChunk(p, b)
        PROVE  run'[c[2]] = Deleted /\ (facts'[c[2]] # Null => facts'[c[2]].doc = c[1])
    <3>1. remover'[p] = [remover[p] EXCEPT !.chunks = remover[p].chunks \ {b}]
      BY <2>5 DEF RemoveFactsChunk, IInv, TypeOK
    <3> QED BY <1>1, <2>1, <2>2, <3>1 DEF Removal
  <2>6. ~RemoverCrash(p)
    BY <2>3 DEF RemoverCrash, IInv, TypeOK
  <2> QED BY <1>4, <2>4, <2>5, <2>6 DEF RemoverStep
<1> QED BY <1>2, <1>3, <1>4, RemoversAlone

(* A step leaves no facts behind if what it makes is a row's, what a request lets go of *)
(* is removed, and what a row lets go of is removed or in a request's hand.             *)
LEMMA NoneStray ==
  ASSUME IInv, FactsHaveExtraction,
         \A r \in Run : facts'[r] # Null => \/ facts[r] # Null
                                            \/ \E x \in Extraction : Stored(x)' /\ row'[x].chunk = r,
         \A r \in Run : InHand(r) => InHand(r)' \/ facts'[r] = Null,
         \A r \in Run, x \in Extraction : Stored(x) /\ row[x].chunk = r =>
           \/ Stored(x)' /\ row'[x].chunk = r
           \/ facts'[r] = Null
           \/ InHand(r)'
  PROVE  FactsHaveExtraction'
<1> SUFFICES ASSUME NEW r \in Run, facts'[r] # Null
             PROVE  InHand(r)' \/ \E x \in Extraction : Stored(x)' /\ row'[x].chunk = r
  BY DEF FactsHaveExtraction
<1>1. CASE InHand(r)
  BY <1>1
<1>2. ASSUME NEW x \in Extraction, Stored(x), row[x].chunk = r
      PROVE  InHand(r)' \/ (Stored(x)' /\ row'[x].chunk = r)
  BY <1>2
<1> QED BY <1>1, <1>2 DEF FactsHaveExtraction

(* One case per action: facts stray by a crash, or by a deletion that read too early. *)
LEMMA StepStray ==
  ASSUME IInv, HandInv, [Next]_vars, FactsHaveExtraction
  PROVE  FactsHaveExtraction' \/ ReadTooEarly \/ \E p \in Remover : RemoverCrash(p)
<1>0. /\ \A x \in Extraction : Stored(x) => row[x] \in Row
      /\ \A x \in Extraction : Stored(x) /\ row[x].chunk # Null =>
           /\ row[x].chunk \in Run
           /\ facts[row[x].chunk] # Null => facts[row[x].chunk].doc = Doc[x]
  BY DEF IInv, TypeOK, Stored, Row, RowConsistent
<1>1. ASSUME facts' = facts, remover' = remover,
             \A x \in Extraction : Stored(x) => Stored(x)' /\ row'[x].chunk = row[x].chunk
      PROVE  FactsHaveExtraction'
  <2>1. \A r \in Run : InHand(r) => InHand(r)'
    BY <1>1 DEF InHand
  <2> QED BY <1>1, <2>1, NoneStray
<1>2. ASSUME NEW x \in Extraction, RequestFirst(x) PROVE FactsHaveExtraction'
  <2>1. facts' = facts /\ remover' = remover
    BY <1>2 DEF RequestFirst
  <2>2. ASSUME NEW y \in Extraction, Stored(y) PROVE row'[y] = row[y]
    BY <1>2, <2>2 DEF RequestFirst, Stored
  <2> QED BY <1>1, <2>1, <2>2 DEF Stored
<1>3. ASSUME NEW x \in Extraction, NEW force \in BOOLEAN, RequestAgain(x, force)
      PROVE  FactsHaveExtraction'
  <2>1. facts' = facts /\ remover' = remover
    BY <1>3 DEF RequestAgain
  <2>2. ASSUME NEW y \in Extraction, Stored(y)
        PROVE  row'[y] \in Row /\ row'[y].chunk = row[y].chunk
    <3>1. row'[y] = row[y] \/ row'[y] = [row[y] EXCEPT !.status = "pending", !.token = Null,
                                          !.field = IF force THEN Null ELSE row[y].field]
      BY <1>3, <2>2 DEF RequestAgain, IInv, TypeOK
    <3> QED BY <1>0, <2>2, <3>1 DEF Row
  <2> QED BY <1>1, <2>1, <2>2, RecordAssumption DEF Stored
<1>4. ASSUME NEW x \in Extraction, NEW r \in Run, Claim(r, x)
      PROVE  FactsHaveExtraction'
  <2>1. facts' = facts /\ remover' = remover
    BY <1>4 DEF Claim
  <2>2. ASSUME NEW y \in Extraction, Stored(y)
        PROVE  row'[y] \in Row /\ row'[y].chunk = row[y].chunk
    <3>1. row'[y] = row[y] \/ row'[y] = [row[y] EXCEPT !.status = "processing", !.token = r,
                                          !.lease = AbandonTicks]
      BY <1>4, <2>2 DEF Claim, IInv, TypeOK
    <3>2. AbandonTicks \in 0 .. AbandonTicks
      BY TimeAssumption
    <3> QED BY <1>0, <2>2, <3>1, <3>2 DEF Row
  <2> QED BY <1>1, <2>1, <2>2, RecordAssumption DEF Stored
<1>5. ASSUME NEW x \in Extraction, NEW v \in Value, PatchExtraction(x, v)
      PROVE  FactsHaveExtraction'
  <2>1. remover' = remover /\ facts' = Without(Doc[x], row[x].chunk)
        /\ row' = [row EXCEPT ![x] = [row[x] EXCEPT !.field = [value |-> v, edited |-> TRUE], !.chunk = Null]]
    BY <1>5 DEF PatchExtraction
  <2>2. \A r \in Run : facts'[r] # Null => facts[r] # Null
    BY <2>1, WithoutOnlyRemoves DEF IInv
  <2>3. \A y \in Extraction : y # x => row'[y] = row[y]
    BY <2>1
  <2>4. \A r \in Run : InHand(r) => InHand(r)'
    BY <2>1 DEF InHand
  <2>5. row[x].chunk # Null => facts'[row[x].chunk] = Null
    BY <1>0, <1>5, <2>1 DEF PatchExtraction, Without
  <2> QED BY <2>2, <2>3, <2>4, <2>5, NullAssumption, NoneStray DEF Stored
<1>6. ASSUME NEW r \in Run, NEW v \in Value, NEW indexed \in BOOLEAN, Finalize(r, v, indexed)
      PROVE  FactsHaveExtraction'
  <2>0. PICK x \in Extraction : x = run[r].ext
    BY <1>6 DEF Finalize, Working, IInv, TypeOK, Job
  <2>1. Stored(x) /\ row[x] \in Row /\ Working(r)
    BY <1>0, <1>6, <2>0 DEF Finalize, HoldsToken
  <2>2. /\ remover' = remover
        /\ \A q \in Run \ {r} : facts'[q] = Without(Doc[x], row[x].chunk)[q]
        /\ facts'[r] # Null => indexed
    BY <1>6, <2>0 DEF Finalize, Without
  <2>3. /\ row'[x] \in Row /\ row'[x].chunk = IF indexed THEN r ELSE Null
        /\ \A y \in Extraction : y # x => row'[y] = row[y]
    <3>1. row'[x] = [row[x] EXCEPT !.status = "ready", !.token = Null, !.field = Merge(run[r].kept, v),
                                   !.chunk = IF indexed THEN r ELSE Null]
          /\ \A y \in Extraction : y # x => row'[y] = row[y]
      BY <1>6, <2>0, <2>1 DEF Finalize, IInv, TypeOK
    <3>2. Merge(run[r].kept, v) \in Field
      BY <2>1, MergeKeepsEdits DEF Working, IInv, TypeOK, Job
    <3> QED BY <2>1, <3>1, <3>2 DEF Row
  <2>4. Stored(x)'
    BY <2>3, RecordAssumption DEF Stored
  <2>5. \A q \in Run : facts'[q] # Null => facts[q] # Null \/ row'[x].chunk = q
    BY <2>2, <2>3, WithoutOnlyRemoves DEF IInv
  <2>6. row[x].chunk # Null => facts'[row[x].chunk] = Null
    <3>1. row[x].chunk # Null => row[x].chunk \in Run /\ run[row[x].chunk] = Deleted
      BY <1>0, <2>1 DEF IInv, RowConsistent
    <3>2. row[x].chunk # r
      BY <2>1, <3>1, NullAssumption DEF Working
    <3> QED BY <1>0, <2>1, <2>2, <3>1, <3>2 DEF Without
  <2>7. \A q \in Run : InHand(q) => InHand(q)'
    BY <2>2 DEF InHand
  <2>8. ASSUME NEW q \in Run, NEW y \in Extraction, Stored(y), row[y].chunk = q
        PROVE  (Stored(y)' /\ row'[y].chunk = q) \/ facts'[q] = Null
    BY <2>3, <2>6, <2>8, NullAssumption DEF Stored
  <2> QED BY <2>4, <2>5, <2>7, <2>8, NoneStray
<1>7. ASSUME NEW r \in Run, Fail(r) \/ EndLost(r) PROVE FactsHaveExtraction'
  <2>1. facts' = facts /\ remover' = remover
    BY <1>7 DEF Fail, EndLost
  <2>2. ASSUME NEW y \in Extraction, Stored(y)
        PROVE  row'[y] \in Row /\ row'[y].chunk = row[y].chunk
    <3>1. row'[y] = row[y] \/ row'[y] = [row[y] EXCEPT !.status = "failed", !.token = Null]
      BY <1>7, <2>2 DEF Fail, EndLost, IInv, TypeOK
    <3> QED BY <1>0, <2>2, <3>1 DEF Row
  <2> QED BY <1>1, <2>1, <2>2, RecordAssumption DEF Stored
<1>8. ASSUME NEW X \in SUBSET Extraction, RecoverExtractions(X) PROVE FactsHaveExtraction'
  <2>1. facts' = facts /\ remover' = remover
    BY <1>8 DEF RecoverExtractions
  <2>2. ASSUME NEW y \in Extraction, Stored(y)
        PROVE  row'[y] \in Row /\ row'[y].chunk = row[y].chunk
    BY <1>0, <1>8, <2>2 DEF RecoverExtractions, Row
  <2> QED BY <1>1, <2>1, <2>2, RecordAssumption DEF Stored
<1>9. ASSUME Tick PROVE FactsHaveExtraction'
  <2>1. facts' = facts /\ remover' = remover
    BY <1>9 DEF Tick
  <2>2. ASSUME NEW y \in Extraction, Stored(y)
        PROVE  row'[y] \in Row /\ row'[y].chunk = row[y].chunk
    <3>1. row'[y] = [row[y] EXCEPT !.lease = Less(row[y].lease)] /\ row[y] \in Row
      BY <1>0, <1>9, <2>2 DEF Tick
    <3>2. Less(row[y].lease) \in 0 .. AbandonTicks
      BY <3>1, TimeAssumption DEF Less, Row
    <3> QED BY <3>1, <3>2 DEF Row
  <2> QED BY <1>1, <2>1, <2>2, RecordAssumption DEF Stored
<1>10. ASSUME NEW x \in Extraction, DropMessage(x) PROVE FactsHaveExtraction'
  BY <1>1, <1>10 DEF DropMessage, Stored
<1>11. ASSUME NEW p \in Remover, NEW t \in Extraction \cup Schema, ReadFacts(p, t)
       PROVE  FactsHaveExtraction'
  <2>1. row' = row /\ facts' = facts /\ remover[p] = Null
        /\ \A q \in Remover \ {p} : remover'[q] = remover[q]
    BY <1>11 DEF ReadFacts
  <2>2. \A r \in Run : InHand(r) => InHand(r)'
    BY <2>1 DEF InHand
  <2> QED BY <2>1, <2>2, NoneStray DEF Stored
<1>12. ASSUME NEW p \in Remover, CommitDelete(p), ~ReadTooEarly PROVE FactsHaveExtraction'
  <2> DEFINE X == Targets(remover[p].target)
  <2>1. /\ facts' = facts /\ remover[p] \notin {Null, Deleted}
        /\ remover[p] \in Removal
        /\ remover' = [remover EXCEPT ![p] = [remover[p] EXCEPT !.done = TRUE]]
        /\ row' = [x \in Extraction |-> IF x \in X THEN Deleted ELSE row[x]]
    BY <1>12 DEF CommitDelete, Deleting, IInv, TypeOK
  <2>2. /\ \A q \in Remover \ {p} : remover'[q] = remover[q]
        /\ remover'[p] = [remover[p] EXCEPT !.done = TRUE]
    BY <2>1 DEF IInv, TypeOK
  <2>3. remover'[p].chunks = remover[p].chunks /\ remover'[p] \in Removal
    <3>1. \A y \in Removal : LET z == [y EXCEPT !.done = TRUE] IN z \in Removal /\ z.chunks = y.chunks
      BY DEF Removal
    <3> QED BY <2>1, <2>2, <3>1
  <2>4. remover'[p] \notin {Null, Deleted}
    <3>1. \A y \in Removal : y # Null /\ y # Deleted
      <4> DEFINE Others == Row \cup Job  All == Removal
      <4>1. {Null, Deleted} \cap (Others \cup All) = {}
        BY RecordAssumption
      <4> HIDE DEF Others, All
      <4>2. \A y \in All : y # Null /\ y # Deleted
        BY <4>1
      <4> QED BY <4>2 DEF All
    <3> QED BY <2>3, <3>1
  <2>5. \A r \in Run : InHand(r) => InHand(r)'
    BY <2>2, <2>3, <2>4 DEF InHand
  <2>6. ASSUME NEW x \in X, NEW r \in Run, row[x].chunk = r PROVE InHand(r)'
    <3>1. <<Doc[x], r>> \in remover[p].chunks
      BY <1>12, <2>6, NullAssumption DEF ReadTooEarly
    <3> QED BY <2>3, <2>4, <3>1 DEF InHand
  <2>7. \A x \in Extraction : x \notin X => row'[x] = row[x]
    BY <2>1
  <2> HIDE DEF X
  <2> QED BY <2>1, <2>5, <2>6, <2>7, NoneStray DEF Stored
<1>13. ASSUME NEW p \in Remover, NEW d \in Document, NEW r \in Run, RemoveFactsChunk(p, <<d, r>>)
       PROVE  FactsHaveExtraction'
  <2>1. /\ row' = row /\ remover[p] \notin {Null, Deleted} /\ <<d, r>> \in remover[p].chunks
        /\ facts' = Without(d, r)
        /\ remover' = [remover EXCEPT ![p] = [remover[p] EXCEPT !.chunks = remover[p].chunks \ {<<d, r>>}]]
    BY <1>13 DEF RemoveFactsChunk
  <2>2. facts'[r] = Null
    BY <2>1 DEF Without, HandInv, RemoverConsistent
  <2>3. /\ \A q \in Remover \ {p} : remover'[q] = remover[q]
        /\ remover'[p] \notin {Null, Deleted}
        /\ remover'[p].chunks = remover[p].chunks \ {<<d, r>>}
    <3>1. /\ \A q \in Remover \ {p} : remover'[q] = remover[q]
          /\ remover'[p] = [remover[p] EXCEPT !.chunks = remover[p].chunks \ {<<d, r>>}]
          /\ remover[p] \in Removal
      BY <2>1 DEF IInv, TypeOK
    <3>2. remover'[p] \in Removal /\ remover'[p].chunks = remover[p].chunks \ {<<d, r>>}
      BY <3>1 DEF Removal
    <3> QED BY <3>1, <3>2, RecordAssumption
  <2>4. \A c \in remover[p].chunks : c[2] # r => c \in remover'[p].chunks
    BY <2>3
  <2>5. \A q \in Run : InHand(q) => InHand(q)' \/ facts'[q] = Null
    BY <2>2, <2>3, <2>4 DEF InHand
  <2>6. \A q \in Run : facts'[q] # Null => facts[q] # Null
    BY <2>1, WithoutOnlyRemoves DEF IInv
  <2> QED BY <2>1, <2>5, <2>6, NoneStray DEF Stored
<1>14. ASSUME NEW d \in Document, DeleteDocument(d) \/ StoreChunks(d) PROVE FactsHaveExtraction'
  <2>1. /\ remover' = remover
        /\ facts' = [r \in Run |-> IF facts[r] # Null /\ facts[r].doc = d THEN Null ELSE facts[r]]
        /\ \A x \in Extraction : row'[x] = row[x] \/ Doc[x] = d
    BY <1>14 DEF DeleteDocument, StoreChunks, Deleting
  <2>2. \A r \in Run : InHand(r) => InHand(r)'
    BY <2>1 DEF InHand
  <2>3. ASSUME NEW x \in Extraction, Stored(x), row[x].chunk # Null, Doc[x] = d
        PROVE  facts'[row[x].chunk] = Null
    BY <1>0, <2>1, <2>3
  <2> QED BY <2>1, <2>2, <2>3, NullAssumption, NoneStray DEF Stored
<1>15. CASE UNCHANGED vars
  BY <1>1, <1>15 DEF vars, Stored
<1> QED BY <1>2, <1>3, <1>4, <1>5, <1>6, <1>7, <1>8, <1>9, <1>10, <1>11, <1>12, <1>13, <1>14, <1>15
        DEF Next, RunStep, RemoverStep

(* "Replaced on re-run, removed with the extraction or the schema": facts are left in *)
(* the corpus by a request that died halfway, or by a deletion that had read the ids   *)
(* before a run replaced them, and by nothing else (api/v1/extraction.py).             *)
THEOREM StraysAreExplained == Spec => StrayFactsExplained
<1>1. Init => HandInv
  BY DEF Init, HandInv, RemoverConsistent
<1>2. IInv /\ [Next]_vars /\ HandInv => HandInv'
  BY StepHand
<1>3. IInv /\ HandInv /\ [Next]_vars =>
        [FactsHaveExtraction =>
           FactsHaveExtraction' \/ ReadTooEarly \/ \E p \in Remover : RemoverCrash(p)]_vars
  BY StepStray
<1> QED BY <1>1, <1>2, <1>3, Invariance, PTL DEF Spec, StrayFactsExplained

-----------------------------------------------------------------------------
(* A step of one extraction keeps the types, whatever it writes. *)
LEMMA EntryStep ==
  ASSUME S!Marks, S!TypeOK, NEW s \in SchemaId, S!Stored(s), NEW new \in S!Row,
         entry' = [entry EXCEPT ![s] = new], UNCHANGED <<schema, update>>
  PROVE  S!TypeOK'
BY DEF S!TypeOK, S!Extracted, S!Stored, S!NameFree

(* Every step keeps the types: an extraction goes with its schema, and a name is free *)
(* when it is taken.                                                                   *)
LEMMA SchemaStep == ASSUME S!Marks, S!TypeOK, [S!Next]_S!vars PROVE S!TypeOK'
<1>1. ASSUME NEW s \in SchemaId, NEW name \in Name, NEW fields \in SUBSET Label, NEW rules \in SUBSET Label,
             S!CreateSchema(s, name, fields, rules)
      PROVE  S!TypeOK'
  <2>1. schema' \in [SchemaId -> S!Definition \cup {Null, Deleted}]
    BY <1>1 DEF S!CreateSchema, S!TypeOK, S!Definition
  <2> QED BY <1>1, <2>1 DEF S!CreateSchema, S!TypeOK, S!Extracted, S!Stored, S!NameFree
<1>2. ASSUME NEW s \in SchemaId, S!DeleteSchema(s) PROVE S!TypeOK'
  BY <1>2 DEF S!DeleteSchema, S!TypeOK, S!Extracted, S!Stored, S!NameFree
<1>3. ASSUME NEW u \in Update, NEW s \in SchemaId, S!ReadSchema(u, s) PROVE S!TypeOK'
  <2>1. [of |-> s, read |-> schema[s]] \in [of : SchemaId, read : S!Definition]
    BY <1>3 DEF S!ReadSchema, S!TypeOK, S!Stored
  <2> QED BY <1>3, <2>1 DEF S!ReadSchema, S!TypeOK, S!Extracted, S!Stored, S!NameFree
<1>4. ASSUME NEW u \in Update, NEW name \in Name, NEW fields \in SUBSET Label, NEW rules \in SUBSET Label,
             S!CommitUpdate(u, name, fields, rules)
      PROVE  S!TypeOK'
  <2> DEFINE s == update[u].of
             read == update[u].read
             new == [name |-> IF name = read.name THEN schema[s].name ELSE name,
                     fields |-> IF fields = read.fields THEN schema[s].fields ELSE fields,
                     rules |-> IF rules = read.rules THEN schema[s].rules ELSE rules]
  <2>1. s \in SchemaId /\ S!Stored(s) /\ (name # read.name => S!NameFree(s, name))
    BY <1>4 DEF S!CommitUpdate, S!TypeOK
  <2>2. schema' = [schema EXCEPT ![s] = new]
    BY <1>4 DEF S!CommitUpdate
  <2>3. schema[s] \in S!Definition /\ new \in S!Definition
    BY <2>1 DEF S!TypeOK, S!Stored, S!Definition
  <2>4. /\ \A t \in SchemaId : t # s => schema'[t] = schema[t]
        /\ schema'[s] = new
    BY <2>1, <2>2 DEF S!TypeOK
  <2>5. schema' \in [SchemaId -> S!Definition \cup {Null, Deleted}]
    BY <2>1, <2>2, <2>3 DEF S!TypeOK
  <2>6. entry' = entry /\ update' \in [Update -> [of : SchemaId, read : S!Definition] \cup {Null}]
    BY <1>4 DEF S!CommitUpdate, S!TypeOK
  <2>7. \A t \in SchemaId : S!Stored(t)' <=> S!Stored(t)
    BY <2>1, <2>3, <2>4 DEF S!Marks, S!Stored
  <2>8. S!NameFree(s, new.name)
    BY <2>1 DEF S!TypeOK
  <2>9. \A t \in SchemaId : S!Stored(t)' => S!NameFree(t, schema[t].name)'
    BY <2>1, <2>4, <2>7, <2>8 DEF S!TypeOK, S!NameFree
  <2> QED BY <2>5, <2>6, <2>7, <2>9 DEF S!TypeOK, S!Extracted
<1>5. ASSUME NEW u \in Update, S!DropUpdate(u) PROVE S!TypeOK'
  BY <1>5 DEF S!DropUpdate, S!TypeOK, S!Extracted, S!Stored, S!NameFree
<1>6. ASSUME NEW s \in SchemaId, S!Extract(s) PROVE S!TypeOK'
  <2>1. S!Stored(s) /\ (S!Extracted(s) => entry[s] \in S!Row)
    BY <1>6 DEF S!Extract, S!RequestExtraction, S!Claim, S!FailRun, S!Finish, S!Correct, S!TypeOK, S!Extracted
  <2>2. CASE \E force \in BOOLEAN : S!RequestExtraction(s, force)
    <3>1. PICK force \in BOOLEAN : S!RequestExtraction(s, force)
      BY <2>2
    <3>2. [status |-> "pending", run |-> {},
           values |-> IF S!Extracted(s) /\ ~force THEN entry[s].values ELSE S!Nothing] \in S!Row
      BY <2>1 DEF S!Row, S!Nothing, S!Entries
    <3> QED BY <2>1, <3>1, <3>2, EntryStep DEF S!RequestExtraction
  <2>3. CASE S!Claim(s)
    <3>1. [entry[s] EXCEPT !.status = "processing", !.run = schema[s].fields] \in S!Row
      BY <2>1, <2>3 DEF S!Claim, S!TypeOK, S!Stored, S!Definition, S!Row
    <3>2. entry' = [entry EXCEPT ![s] = [entry[s] EXCEPT !.status = "processing", !.run = schema[s].fields]]
      BY <2>3 DEF S!Claim
    <3> QED BY <2>1, <2>3, <3>1, <3>2, EntryStep DEF S!Claim
  <2>4. CASE S!FailRun(s)
    <3>1. [entry[s] EXCEPT !.status = "failed", !.run = {}] \in S!Row
      BY <2>1, <2>4 DEF S!FailRun, S!Row
    <3>2. entry' = [entry EXCEPT ![s] = [entry[s] EXCEPT !.status = "failed", !.run = {}]]
      BY <2>4 DEF S!FailRun
    <3> QED BY <2>1, <2>4, <3>1, <3>2, EntryStep DEF S!FailRun
  <2>5. ASSUME NEW value \in Value, S!Finish(s, value) PROVE S!TypeOK'
    <3>1. entry[s] \in S!Row /\ entry[s].values \in S!Entries
      BY <2>1, <2>5 DEF S!Finish, S!Row
    <3>2. [f \in Label |-> IF f \in entry[s].run
                           THEN S!Merged(entry[s].values[f], [value |-> value, edited |-> FALSE])
                           ELSE Null] \in S!Entries
      BY <3>1 DEF S!Entries, S!Merged, S!Entry
    <3> QED BY <2>1, <2>5, <3>2, EntryStep DEF S!Finish, S!Row
  <2>6. ASSUME NEW value \in Value, NEW f \in Label, S!Correct(s, f, value) PROVE S!TypeOK'
    <3>1. entry[s] \in S!Row /\ entry[s].values \in S!Entries
      BY <2>1, <2>6 DEF S!Correct, S!Row
    <3>2. [entry[s].values EXCEPT ![f] = [value |-> value, edited |-> TRUE]] \in S!Entries
      BY <3>1 DEF S!Entries, S!Entry
    <3>3. [entry[s] EXCEPT !.values = [entry[s].values EXCEPT ![f] = [value |-> value, edited |-> TRUE]]] \in S!Row
      BY <3>1, <3>2 DEF S!Row
    <3>4. entry' = [entry EXCEPT ![s] = [entry[s] EXCEPT !.values =
                    [entry[s].values EXCEPT ![f] = [value |-> value, edited |-> TRUE]]]]
      BY <2>6 DEF S!Correct
    <3> QED BY <2>1, <2>6, <3>3, <3>4, EntryStep DEF S!Correct
  <2> QED BY <1>6, <2>2, <2>3, <2>4, <2>5, <2>6 DEF S!Extract
<1>7. CASE UNCHANGED S!vars
  BY <1>7 DEF S!vars, S!TypeOK, S!Extracted, S!Stored, S!NameFree
<1> QED BY <1>1, <1>2, <1>3, <1>4, <1>5, <1>6, <1>7 DEF S!Next, S!Define, S!UpdateSchema

(* Rows, extractions and updates keep their types; names stay unique, and no extraction *)
(* outlives its schema, for any number of them (api/v1/extraction.py).                   *)
LEMMA SchemaTypes == ASSUME S!Marks PROVE S!Spec => []S!TypeOK
<1>1. S!Init => S!TypeOK
  BY DEF S!Init, S!TypeOK, S!Extracted, S!Stored
<1> QED BY <1>1, SchemaStep, PTL DEF S!Spec

(* A definition that runs stays one that runs, unless an update commits over another's *)
(* change (api/v1/extraction.py, update_schema).                                         *)
LEMMA DefinitionsStay == ASSUME S!Marks PROVE S!Spec => S!DefinitionsStand
<1>1. ASSUME S!TypeOK, [S!Next]_S!vars, NEW s \in SchemaId, S!Runnable(s), ~S!Overlapping PROVE S!Runnable(s)'
  <2>1. ASSUME NEW u \in Update, NEW name \in Name, NEW fields \in SUBSET Label, NEW rules \in SUBSET Label,
               S!CommitUpdate(u, name, fields, rules)
        PROVE  S!Runnable(s)'
    <3>1. update[u] # Null /\ update'[u] = Null /\ update[u].of \in SchemaId
      BY <1>1, <2>1 DEF S!CommitUpdate, S!TypeOK
    <3>2. schema[update[u].of] = update[u].read
      BY <1>1, <3>1 DEF S!Overlapping
    <3>3. CASE update[u].of = s
      <4>1. schema'[s].fields = fields /\ schema'[s].rules = rules /\ S!Valid(fields, rules)
        BY <1>1, <2>1, <3>1, <3>2, <3>3 DEF S!CommitUpdate, S!TypeOK
      <4> QED BY <4>1 DEF S!Runnable, S!Valid
    <3>4. CASE update[u].of # s
      <4>1. schema'[s] = schema[s]
        BY <1>1, <2>1, <3>4 DEF S!CommitUpdate, S!TypeOK
      <4> QED BY <1>1, <4>1 DEF S!Runnable, S!Stored, S!Valid
    <3> QED BY <3>3, <3>4
  <2>2. ASSUME NEW t \in SchemaId, NEW name \in Name, NEW fields \in SUBSET Label, NEW rules \in SUBSET Label,
               S!CreateSchema(t, name, fields, rules)
        PROVE  S!Runnable(s)'
    <3>1. \/ schema'[s] = schema[s]
          \/ schema'[s].fields = fields /\ schema'[s].rules = rules /\ S!Valid(fields, rules)
      BY <1>1, <2>2 DEF S!CreateSchema, S!TypeOK
    <3> QED BY <1>1, <3>1 DEF S!Runnable, S!Stored, S!Valid
  <2>3. ASSUME NEW t \in SchemaId, S!DeleteSchema(t) PROVE S!Runnable(s)'
    <3>1. schema'[s] = schema[s] \/ schema'[s] = Deleted
      BY <1>1, <2>3 DEF S!DeleteSchema, S!TypeOK
    <3> QED BY <1>1, <3>1 DEF S!Runnable, S!Stored, S!Valid
  <2>4. ASSUME schema' = schema PROVE S!Runnable(s)'
    BY <1>1, <2>4 DEF S!Runnable, S!Stored, S!Valid
  <2>5. ASSUME NEW t \in SchemaId, S!Extract(t) PROVE S!Runnable(s)'
    <3>1. schema' = schema
      BY <2>5 DEF S!Extract, S!RequestExtraction, S!Claim, S!FailRun, S!Finish, S!Correct
    <3> QED BY <2>4, <3>1
  <2>6. ASSUME NEW t \in SchemaId, S!Define(t) PROVE S!Runnable(s)'
    <3>1. ASSUME NEW u \in Update, S!ReadSchema(u, t) PROVE S!Runnable(s)'
      BY <2>4, <3>1 DEF S!ReadSchema
    <3> QED BY <2>2, <2>3, <2>6, <3>1 DEF S!Define
  <2>7. ASSUME NEW u \in Update, S!UpdateSchema(u) PROVE S!Runnable(s)'
    <3>1. CASE S!DropUpdate(u)
      BY <2>4, <3>1 DEF S!DropUpdate
    <3> QED BY <2>1, <2>7, <3>1 DEF S!UpdateSchema
  <2>8. CASE UNCHANGED S!vars
    BY <2>4, <2>8 DEF S!vars
  <2> QED BY <1>1, <2>5, <2>6, <2>7, <2>8 DEF S!Next
<1>2. ASSUME S!TypeOK, [S!Next]_S!vars
      PROVE  \A s \in SchemaId : S!Runnable(s) => S!Runnable(s)' \/ S!Overlapping
  BY <1>1, <1>2
<1> QED BY <1>2, SchemaTypes, PTL DEF S!Spec, S!DefinitionsStand

(* What a human has corrected is exported until another correction, a forced run or the *)
(* removal of its field or schema, whatever is run or changed beside it                   *)
(* (extraction/service.py, run_extraction).                                                *)
LEMMA CorrectionsStay == ASSUME S!Marks PROVE S!Spec => S!CorrectionsExported
<1>1. ASSUME S!TypeOK, [S!Next]_S!vars, NEW s \in SchemaId, S!Extracted(s), NEW f \in schema[s].fields,
             S!Corrected(entry[s].values[f]), entry'[s] # Null, f \in schema'[s].fields
      PROVE  \/ S!Export(s)'[f] = S!Export(s)[f] /\ S!Corrected(entry'[s].values[f])
             \/ entry'[s].status = "pending" /\ entry'[s].values = S!Nothing
             \/ entry[s].status \in {"ready", "failed"} /\ S!Corrected(entry'[s].values[f])
             \/ entry[s].status = "processing" /\ f \notin entry[s].run
  <2>0. S!Stored(s) /\ entry[s] \in S!Row /\ f \in Label /\ entry[s].values \in S!Entries
    BY <1>1 DEF S!TypeOK, S!Extracted, S!Stored, S!Definition, S!Row
  <2>1. ASSUME entry'[s].values[f] = entry[s].values[f]
        PROVE  S!Export(s)'[f] = S!Export(s)[f] /\ S!Corrected(entry'[s].values[f])
    BY <1>1, <2>1 DEF S!Export, S!Corrected
  <2>2. ASSUME NEW t \in SchemaId, NEW force \in BOOLEAN, S!RequestExtraction(t, force)
        PROVE  entry'[s].values = entry[s].values \/ (entry'[s].status = "pending" /\ entry'[s].values = S!Nothing)
    BY <1>1, <2>0, <2>2 DEF S!RequestExtraction, S!TypeOK
  <2>3. ASSUME NEW t \in SchemaId, S!Claim(t) \/ S!FailRun(t) PROVE entry'[s].values = entry[s].values
    BY <1>1, <2>0, <2>3 DEF S!Claim, S!FailRun, S!TypeOK, S!Row
  <2>4. ASSUME NEW t \in SchemaId, NEW value \in Value, S!Finish(t, value)
        PROVE  \/ entry'[s].values[f] = entry[s].values[f]
               \/ entry[s].status = "processing" /\ f \notin entry[s].run
    <3>1. CASE t = s
      <4>1. f \in entry[s].run => entry'[s].values[f] = S!Merged(entry[s].values[f], [value |-> value, edited |-> FALSE])
        BY <1>1, <2>0, <2>4, <3>1 DEF S!Finish, S!TypeOK
      <4> QED BY <1>1, <2>4, <3>1, <4>1 DEF S!Finish, S!Merged
    <3>2. CASE t # s
      BY <1>1, <2>4, <3>2 DEF S!Finish, S!TypeOK
    <3> QED BY <3>1, <3>2
  <2>5. ASSUME NEW t \in SchemaId, NEW g \in Label, NEW value \in Value, S!Correct(t, g, value)
        PROVE  \/ entry'[s].values[f] = entry[s].values[f]
               \/ entry[s].status \in {"ready", "failed"} /\ S!Corrected(entry'[s].values[f])
    <3>1. CASE t = s /\ g = f
      <4>1. entry' = [entry EXCEPT ![s] = [entry[s] EXCEPT !.values =
                      [entry[s].values EXCEPT ![f] = [value |-> value, edited |-> TRUE]]]]
        BY <2>5, <3>1 DEF S!Correct
      <4>2. entry'[s].values[f] = [value |-> value, edited |-> TRUE]
        BY <1>1, <2>0, <4>1 DEF S!TypeOK, S!Row, S!Entries
      <4>3. [value |-> value, edited |-> TRUE] \in S!Entry
        BY <2>5 DEF S!Entry
      <4>4. S!Corrected(entry'[s].values[f])
        BY <4>2, <4>3 DEF S!Corrected, S!Marks, S!Entry
      <4> QED BY <2>5, <3>1, <4>4 DEF S!Correct
    <3>2. CASE t = s /\ g # f
      BY <1>1, <2>0, <2>5, <3>2 DEF S!Correct, S!TypeOK, S!Row, S!Entries
    <3>3. CASE t # s
      BY <1>1, <2>5, <3>3 DEF S!Correct, S!TypeOK
    <3> QED BY <3>1, <3>2, <3>3
  <2>6. ASSUME NEW t \in SchemaId, S!Extract(t)
        PROVE  \/ entry'[s].values[f] = entry[s].values[f]
               \/ entry'[s].status = "pending" /\ entry'[s].values = S!Nothing
               \/ entry[s].status = "processing" /\ f \notin entry[s].run
               \/ entry[s].status \in {"ready", "failed"} /\ S!Corrected(entry'[s].values[f])
    BY <2>2, <2>3, <2>4, <2>5, <2>6 DEF S!Extract
  <2>7. ASSUME NEW t \in SchemaId, S!Define(t) PROVE entry'[s] = entry[s]
    BY <1>1, <2>7 DEF S!Define, S!CreateSchema, S!DeleteSchema, S!ReadSchema, S!TypeOK
  <2>8. ASSUME NEW u \in Update, S!UpdateSchema(u) PROVE entry' = entry
    BY <2>8 DEF S!UpdateSchema, S!CommitUpdate, S!DropUpdate
  <2>9. CASE UNCHANGED S!vars
    BY <2>1, <2>9 DEF S!vars
  <2> QED BY <1>1, <2>1, <2>6, <2>7, <2>8, <2>9 DEF S!Next
<1>2. ASSUME S!TypeOK, [S!Next]_S!vars
      PROVE  \A s \in SchemaId : S!Extracted(s) =>
               \A f \in schema[s].fields : S!Corrected(entry[s].values[f]) =>
                 \/ entry'[s] = Null \/ f \notin schema'[s].fields
                 \/ S!Export(s)'[f] = S!Export(s)[f] /\ S!Corrected(entry'[s].values[f])
                 \/ entry'[s].status = "pending" /\ entry'[s].values = S!Nothing
                 \/ entry[s].status \in {"ready", "failed"} /\ S!Corrected(entry'[s].values[f])
                 \/ entry[s].status = "processing" /\ f \notin entry[s].run
  BY <1>1, <1>2
<1> QED BY <1>2, SchemaTypes, PTL DEF S!Spec, S!CorrectionsExported

(* A definition that is stored can be run, unless two updates overlap; what a human has *)
(* corrected is exported whatever becomes of the definition, but for what removes it;     *)
(* names stay unique, and no extraction outlives its schema (api/v1/extraction.py).        *)
THEOREM DefinitionsAreKept == ASSUME S!Marks PROVE S!Spec => DefinitionsHold
BY SchemaTypes, DefinitionsStay, CorrectionsStay, PTL DEF DefinitionsHold
=============================================================================

------------------------- MODULE DocumentLifecycle -------------------------
(* What ingestion promises about a document, with no workers, leases or     *)
(* queue: the status machine of app/ingestion/tasks.py ("pending ->         *)
(* processing -> ready | failed"), in which a document becomes ready only   *)
(* with the chunks of the file it has at that moment, and leaves a terminal *)
(* state only because its owner asked.  Ingestion implements it.            *)
CONSTANTS Document, Content, Null

VARIABLES phase,   \* where each document is in the status machine
          file,    \* the content each document's stored file has
          index    \* the content each document's chunks were made from

vars == <<phase, file, index>>

Terminal == {"ready", "failed"}
InFlight == {"pending", "processing"}
Live == Terminal \cup InFlight

Init ==
  /\ phase = [d \in Document |-> "absent"]
  /\ file = [d \in Document |-> Null]
  /\ index = [d \in Document |-> Null]

(* The owner uploads a document, or a connected source brings one. *)
Submit(d, c) ==
  /\ phase[d] = "absent"
  /\ phase' = [phase EXCEPT ![d] = "pending"]
  /\ file' = [file EXCEPT ![d] = c]
  /\ UNCHANGED index

Start(d) ==
  /\ phase[d] = "pending"
  /\ phase' = [phase EXCEPT ![d] = "processing"]
  /\ UNCHANGED <<file, index>>

(* A transient failure puts the document back in the queue. *)
Requeue(d) ==
  /\ phase[d] = "processing"
  /\ phase' = [phase EXCEPT ![d] = "pending"]
  /\ UNCHANGED <<file, index>>

Finish(d) ==
  /\ phase[d] = "processing"
  /\ phase' = [phase EXCEPT ![d] = "ready"]
  /\ index' = [index EXCEPT ![d] = file[d]]
  /\ UNCHANGED file

Fail(d) ==
  /\ phase[d] \in InFlight
  /\ phase' = [phase EXCEPT ![d] = "failed"]
  /\ UNCHANGED <<file, index>>

(* The owner asks for the documents in D to be ingested again. *)
Reprocess(D) ==
  /\ \A d \in D : phase[d] \in Live
  /\ phase' = [d \in Document |-> IF d \in D THEN "pending" ELSE phase[d]]
  /\ UNCHANGED <<file, index>>

(* The owner's source has new text for the document. *)
Replace(d, c) ==
  /\ phase[d] \in Live
  /\ phase' = [phase EXCEPT ![d] = "pending"]
  /\ file' = [file EXCEPT ![d] = c]
  /\ UNCHANGED index

Remove(d) ==
  /\ phase[d] \in Live
  /\ phase' = [phase EXCEPT ![d] = "deleted"]
  /\ file' = [file EXCEPT ![d] = Null]
  /\ index' = [index EXCEPT ![d] = Null]

Next ==
  \/ \E d \in Document : Start(d) \/ Requeue(d) \/ Finish(d) \/ Fail(d) \/ Remove(d)
  \/ \E d \in Document, c \in Content : Submit(d, c) \/ Replace(d, c)
  \/ \E D \in SUBSET Document : Reprocess(D)

Spec == Init /\ [][Next]_vars
=============================================================================

------------------------------ MODULE History ------------------------------
(* What a conversation's client is shown: the lists of conversations, of one  *)
(* conversation's queries and of a collection's, page by page                 *)
(* (api/v1/history.py, api/v1/conversations.py, conversations/service.py),    *)
(* while queries that were accepted earlier are recorded, conversations are   *)
(* renamed and archived, and a guest signs in.  Ids are numbers, which only    *)
(* break ties between equal times.                                             *)
EXTENDS Integers, Sequences, SequencesExt, FiniteSets

CONSTANTS
  Conv, Query, \* ids: sets of numbers
  Legacy,      \* the conversations that a migration made of older questions
  Limit,       \* rows of a page
  MaxTime,     \* bound of the clock
  Null

VARIABLES
  time,
  conv,        \* rows of conversations
  query,       \* queries that were accepted, and those that are recorded
  reader       \* the list that a client is paging through

vars == <<time, conv, query, reader>>

Actor == {"guest", "user"}
Instant == 0..MaxTime
Filter == {"active", "archived", "all"}
ConvRow == [owner : Actor, updated : Instant, archived : BOOLEAN]
QueryRow == [at : {"accepted", "recorded"}, conv : Conv \cup {Null}, parent : Query \cup {Null},
             owner : Actor, created : Instant]
List == [of : {"conversations"}, filter : Filter] \cup [of : {"transcript"}, conv : Conv]
        \cup [of : {"collection"}]

Reader == [actor : Actor, list : List, at : {"open", "ended", "lost"}, shown : Seq(Conv \cup Query),
           cursor : (Instant \X (Conv \cup Query)) \cup {Null},
           start : UNION {[rows -> Instant] : rows \in SUBSET (Conv \cup Query)}]

Settings ==
  /\ Conv \subseteq Int /\ Query \subseteq Int /\ Conv \cap Query = {}
  /\ IsFiniteSet(Conv) /\ IsFiniteSet(Query)
  /\ Legacy \subseteq Conv
  /\ Limit \in Nat \ {0} /\ MaxTime \in Nat
  /\ Null \notin Conv \cup Query \cup ConvRow \cup QueryRow \cup Reader \cup (Instant \X (Conv \cup Query))

Init ==
  /\ time = 0
  /\ conv = [c \in Conv |-> IF c \in Legacy THEN [owner |-> "user", updated |-> 0, archived |-> TRUE]
                                            ELSE Null]
  /\ query = [q \in Query |-> Null]
  /\ reader = Null

-----------------------------------------------------------------------------
Exists(c) == conv[c] # Null
Recorded(q) == query[q] # Null /\ query[q].at = "recorded"

(* conversation_owner_scope, for the two kinds of actors that own conversations. *)
Owns(a, c) == Exists(c) /\ conv[c].owner = a

Tick == time < MaxTime /\ time' = time + 1 /\ UNCHANGED <<conv, query, reader>>

Create(c, a) ==
  /\ ~Exists(c)
  /\ conv' = [conv EXCEPT ![c] = [owner |-> a, updated |-> time, archived |-> FALSE]]
  /\ UNCHANGED <<time, query, reader>>

(* update_conversation, under the row's lock: a title, an archived flag or both. *)
(* What changes nothing leaves the conversation where it is in the list.  A change *)
(* is stamped while the row is locked, and no two have the same instant.           *)
Update(c, a, renamed, archived) ==
  /\ Owns(a, c)
  /\ c \in Legacy => ~renamed /\ archived
  /\ renamed \/ archived # conv[c].archived
  /\ \E t \in conv[c].updated + 1 .. time :
       conv' = [conv EXCEPT ![c].updated = t, ![c].archived = archived]
  /\ UNCHANGED <<time, query, reader>>

(* A query is accepted: load_conversation_context, and run_query's first instant. *)
(* The one before it, which it follows up, is recorded by then.                   *)
Accept(q, a, c, parent) ==
  /\ query[q] = Null
  /\ c # Null => Owns(a, c) /\ c \notin Legacy /\ ~conv[c].archived
  /\ parent # Null => c # Null /\ Recorded(parent) /\ query[parent].conv = c
  /\ query' = [query EXCEPT ![q] = [at |-> "accepted", conv |-> c, parent |-> parent,
                                    owner |-> a, created |-> time]]
  /\ UNCHANGED <<time, conv, reader>>

(* _record_query: the query keeps the time it was accepted, wherever that puts it   *)
(* among those recorded meanwhile, and moves its conversation, which is locked, to  *)
(* the present.  Outside any conversation the transaction's own time is taken.      *)
(* A record takes time: what follows it is accepted later.                          *)
Record(q) ==
  /\ query[q] # Null /\ query[q].at = "accepted" /\ time < MaxTime
  /\ LET c == query[q].conv
     IN  IF c = Null
         THEN /\ \E t \in query[q].created .. time :
                   query' = [query EXCEPT ![q].at = "recorded", ![q].created = t]
              /\ UNCHANGED conv
         ELSE /\ query' = [query EXCEPT ![q].at = "recorded", ![q].owner = conv[c].owner]
              /\ \E t \in conv[c].updated + 1 .. time : conv' = [conv EXCEPT ![c].updated = t]
  /\ time' = time + 1
  /\ UNCHANGED reader

(* claim_guest_conversations: the guest's session is another from then on, and what *)
(* its client still asks for is not found.                                          *)
Claim ==
  /\ \E c \in Conv : Owns("guest", c)
  /\ conv' = [c \in Conv |-> IF Exists(c) THEN [conv[c] EXCEPT !.owner = "user"] ELSE Null]
  /\ query' = [q \in Query |-> IF Recorded(q) /\ query[q].conv # Null
                               THEN [query[q] EXCEPT !.owner = "user"] ELSE query[q]]
  /\ reader' = IF reader # Null /\ reader.actor = "guest" /\ reader.at = "open"
               THEN [reader EXCEPT !.at = "lost"] ELSE reader
  /\ UNCHANGED time

-----------------------------------------------------------------------------
Rows == Conv \cup Query
Stamp(x) == IF x \in Conv THEN conv[x].updated ELSE query[x].created
Key(x) == <<Stamp(x), x>>
Before(k, l) == \/ k[1] < l[1]
                \/ k[1] = l[1] /\ k[2] < l[2]

(* The conversations, or the queries, that a list is of. *)
Kept(c, filter) == filter = "all" \/ conv[c].archived = (filter = "archived")

(* list_conversations, list_conversation_queries and list_queries: a guest's queries *)
(* outside conversations are its browser's.                                          *)
InList(a, list) ==
  CASE list.of = "conversations" -> {c \in Conv : Owns(a, c) /\ Kept(c, list.filter)}
    [] list.of = "transcript"    -> {q \in Query : Recorded(q) /\ query[q].conv = list.conv}
    [] list.of = "collection"    -> {q \in Query : Recorded(q) /\ query[q].owner = a /\ a = "user"}

(* Mutant: the row that the last page ended with begins the next. *)
FromCursor(rows, cursor) == {x \in rows : ~Before(cursor, Key(x))}

(* The rows that come after the cursor. *)
After(rows, cursor) == {x \in rows : Before(Key(x), cursor)}

Descends(list) == \A i, j \in DOMAIN list : i < j => Before(Key(list[j]), Key(list[i]))
NewestFirst(rows) == CHOOSE list \in [1 .. Cardinality(rows) -> rows] : Descends(list)

(* One row more than a page is read, to tell whether there are any. *)
HasMore(rows) == Cardinality(rows) > Limit
PageOf(rows) == IF HasMore(rows) THEN SubSeq(NewestFirst(rows), 1, Limit) ELSE NewestFirst(rows)
CursorOf(rows) == IF HasMore(rows) THEN Key(Last(PageOf(rows))) ELSE Null

(* The preview of a conversation in its list: the newest of its queries. *)
Preview(c) ==
  LET queries == {q \in Query : Recorded(q) /\ query[q].conv = c}
  IN  IF queries = {} THEN Null ELSE NewestFirst(queries)[1]

Turn(r, rows) ==
  reader' = [r EXCEPT !.shown = @ \o PageOf(rows), !.cursor = CursorOf(rows),
                      !.at = IF HasMore(rows) THEN "open" ELSE "ended"]

(* What was there when the first page was read is kept for the properties. *)
FirstPage(a, list) ==
  LET rows == InList(a, list)
  IN  /\ reader = Null
      /\ list.of = "transcript" => Owns(a, list.conv)
      /\ Turn([actor |-> a, list |-> list, at |-> "open", shown |-> <<>>, cursor |-> Null,
               start |-> [x \in rows |-> Stamp(x)]], rows)
      /\ UNCHANGED <<time, conv, query>>

(* The cursor of conversations is what it was when the page was read, that of queries *)
(* is one of them, whose time is read again.                                          *)
NextPage ==
  /\ reader # Null /\ reader.at = "open"
  /\ Turn(reader, After(InList(reader.actor, reader.list), reader.cursor))
  /\ UNCHANGED <<time, conv, query>>

Next ==
  \/ Tick
  \/ \E c \in Conv, a \in Actor :
       Create(c, a) \/ \E renamed, archived \in BOOLEAN : Update(c, a, renamed, archived)
  \/ \E q \in Query, a \in Actor, c \in Conv \cup {Null}, p \in Query \cup {Null} : Accept(q, a, c, p)
  \/ \E q \in Query : Record(q)
  \/ Claim
  \/ \E a \in Actor, list \in List : FirstPage(a, list)
  \/ NextPage

Spec == Init /\ [][Next]_vars

-----------------------------------------------------------------------------
(* Shown newest first, nothing comes twice, not even a conversation that is moved *)
(* while its list is read.                                                        *)
NothingTwice == reader # Null => IsInjective(reader.shown)

(* Nothing that was there at the first page and stayed where it was is left out of a *)
(* list that was read to its end, whatever is recorded in between.                   *)
NothingSkipped ==
  reader # Null /\ reader.at = "ended" =>
    \A x \in DOMAIN reader.start :
      x \in InList(reader.actor, reader.list) /\ Stamp(x) = reader.start[x] =>
        x \in Range(reader.shown)

(* A follow-up is newer, in every list, than what it follows. *)
ParentsFirst ==
  \A q \in Query :
    Recorded(q) /\ query[q].parent # Null => Before(Key(query[q].parent), Key(q))

(* The question that a conversation is listed with is followed up by no other of it, and *)
(* it is one of the owner's.                                                              *)
PreviewIsLast ==
  \A c \in Conv : Exists(c) /\ Preview(c) # Null =>
    /\ query[Preview(c)].owner = conv[c].owner
    /\ \A q \in Query : Recorded(q) => query[q].parent # Preview(c)

(* A query shows up for whoever owns its conversation. *)
OwnersAgree ==
  \A q \in Query : Recorded(q) /\ query[q].conv # Null => query[q].owner = conv[query[q].conv].owner

(* The type invariant of the rows and of what the client has read. *)
TypeOK ==
  /\ time \in Instant
  /\ conv \in [Conv -> ConvRow \cup {Null}]
  /\ query \in [Query -> QueryRow \cup {Null}]
  /\ reader \in Reader \cup {Null}

(* What is listed stays, and is listed later if it moves. *)
Listed(x) == IF x \in Conv THEN Exists(x) ELSE Recorded(x)

RowsInTime ==
  /\ \A c \in Conv : Exists(c) => conv[c].updated <= time
  /\ \A q \in Query : query[q] # Null =>
       /\ query[q].created <= time /\ (Recorded(q) => query[q].created < time)
       /\ query[q].conv # Null => Exists(query[q].conv)

FollowUpsLater ==
  \A q \in Query : query[q] # Null /\ query[q].parent # Null =>
    /\ query[q].conv # Null /\ Recorded(query[q].parent)
    /\ query[query[q].parent].conv = query[q].conv
    /\ query[query[q].parent].created < query[q].created

(* What has been shown is not after the cursor; what was there at first and has not moved *)
(* has been shown or is.                                                                   *)
Toward(x) ==
  /\ Listed(x) /\ reader.start[x] <= Stamp(x)
  /\ Stamp(x) = reader.start[x] =>
       \/ x \in Range(reader.shown)
       \/ reader.at = "open" /\ x \in InList(reader.actor, reader.list)
          /\ Before(Key(x), reader.cursor)

ReaderOnItsWay ==
  reader # Null =>
    /\ reader.at # "lost" => \A x \in DOMAIN reader.start : Toward(x)
    /\ reader.at = "open" =>
         /\ reader.cursor # Null
         /\ \A x \in Range(reader.shown) : Listed(x) /\ ~Before(Key(x), reader.cursor)

IInv == TypeOK /\ RowsInTime /\ FollowUpsLater /\ OwnersAgree /\ NothingTwice /\ ReaderOnItsWay
=============================================================================

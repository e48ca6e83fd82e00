------------------------------- MODULE Fields -------------------------------
(* What an extraction makes of a document and of the model's answer           *)
(* (extraction/fields.py, context.py, validate.py, evidence.py): the passages *)
(* that are shown, the value and the issues of each field, the evidence, and  *)
(* the rules over several fields (rules.py).                                  *)
EXTENDS Integers, Sequences, SequencesExt, FiniteSets, FiniteSetsExt

CONSTANTS
  FullText,   \* extraction_full_text_tokens
  Context,    \* extraction_context_tokens
  Sees,       \* access_roles: the labels each role may read
  All,        \* LABEL_ALL
  FailClosed, \* FAIL_CLOSED_LABEL
  Field       \* the names of the fields that rules are about

Types == {"string", "number", "integer", "date", "boolean", "enum", "array"}

(* What a model puts down for a value, as far as it can be told apart: nothing, a   *)
(* JSON value, or a text that reads like one of them (a numeral other than 0 and 1,  *)
(* which read as booleans).                                                            *)
Nothing == {"null", "blank"}
Numbers == {"number", "fraction", "infinite"}
Raws == Nothing \cup Numbers
        \cup {"flag", "list", "blank list", "numeral", "decimal", "day", "yes", "option", "words"}

-----------------------------------------------------------------------------
(* parse_definition: names are unique, and only an enum has values. *)
WellDefined(specs, maxFields) ==
  /\ specs # <<>> /\ Len(specs) <= maxFields
  /\ \A i, j \in DOMAIN specs : specs[i].name = specs[j].name => i = j
  /\ \A i \in DOMAIN specs : (specs[i].type = "enum") = (specs[i].options # {})

(* parse_number, parse_date and parse_boolean: the raw values that each makes sense of. *)
Parses == [number  |-> Numbers \cup {"numeral", "decimal"},
           integer |-> Numbers \cup {"numeral", "decimal"},
           date    |-> {"day"},
           boolean |-> {"flag", "yes"},
           enum    |-> {"option"}]

Value(of) == [value |-> of, issue |-> "none"]
Missing(issue) == [value |-> "missing", issue |-> issue]
Raised == [value |-> "raised", issue |-> "none"]

(* coerce: what cannot be read is missing, with an issue that says so; a text that only *)
(* breaks the pattern is kept.  round() raises when an integer is to be made of what has *)
(* no end or is no number.                                                               *)
Coerce(spec, raw) ==
  CASE raw \in Nothing -> Missing("none")
    [] raw \notin Nothing /\ spec.type = "string" ->
         [value |-> "text", issue |-> IF spec.pattern THEN "pattern_mismatch" ELSE "none"]
    [] raw \notin Nothing /\ spec.type = "array" ->
         IF raw = "blank list" THEN Missing("none") ELSE Value("list")
    [] raw \notin Nothing /\ spec.type \in DOMAIN Parses ->
         IF raw \notin Parses[spec.type]
         THEN Missing(IF spec.type = "enum" THEN "enum_mismatch" ELSE "type_mismatch")
         ELSE IF spec.type # "integer" THEN Value(spec.type)
         ELSE IF raw = "infinite" THEN Raised
         ELSE IF raw \in {"fraction", "decimal"} THEN Missing("type_mismatch") ELSE Value("integer")

(* validate, before the rules: the values, and the issues in the fields' order.  What one *)
(* field raises ends it, and then neither comes back of any field.                        *)
Raises(specs, answer) == \E i \in DOMAIN specs : Coerce(specs[i], answer[i]) = Raised
Values(specs, answer) == [i \in DOMAIN specs |-> Coerce(specs[i], answer[i]).value]

IssuesOf(specs, answer, i) ==
  LET coerced == Coerce(specs[i], answer[i])
  IN  {[field |-> i, code |-> coerced.issue] : x \in {coerced.issue} \ {"none"}}
      \cup IF coerced.value = "missing" /\ specs[i].required
           THEN {[field |-> i, code |-> "missing_required"]} ELSE {}

Issues(specs, answer) == UNION {IssuesOf(specs, answer, i) : i \in DOMAIN specs}

-----------------------------------------------------------------------------
(* The passages of a document in reading order, each with its size and its best score *)
(* for any of the fields.                                                              *)
Tokens(passages, chosen) == FoldSet(LAMBDA i, n : n + passages[i].size, 0, chosen)

(* Best first; equal scores keep their order or not. *)
Ranked(passages) ==
  SetToSortSeq(DOMAIN passages, LAMBDA i, j : \/ passages[i].score > passages[j].score
                                              \/ passages[i].score = passages[j].score /\ i < j)

(* select_chunks.  Vectors of another model cannot be compared: the first third is taken. *)
Select(passages, comparable) ==
  LET all == DOMAIN passages
      Take(chosen, i) ==
        IF i \in chosen \/ Tokens(passages, chosen) + passages[i].size > Context
        THEN chosen ELSE chosen \cup {i}
  IN  IF Tokens(passages, all) <= FullText THEN all
      ELSE IF ~comparable THEN 1 .. Max({1, Len(passages) \div 3})
      ELSE FoldLeft(Take, {1}, Ranked(passages))

-----------------------------------------------------------------------------
(* Of each passage: whether the quote, and the value, can be located in it, and whether *)
(* the value stands in the located quote.                                               *)
FirstWith(passages, what) ==
  LET found == {i \in DOMAIN passages : passages[i][what]} IN IF found = {} THEN 0 ELSE Min(found)

(* find_evidence: the passage (0: none), what was located there, and the confidence. *)
Evidence(passages, quoted, value) ==
  LET byQuote == IF quoted THEN FirstWith(passages, "quote") ELSE 0
      byValue == IF value = "scalar" THEN FirstWith(passages, "value") ELSE 0
  IN  IF byQuote # 0
      THEN [passage |-> byQuote, by |-> "quote",
            confidence |-> IF value = "missing" \/ passages[byQuote].within THEN 90 ELSE 75]
      ELSE IF byValue # 0 THEN [passage |-> byValue, by |-> "value", confidence |-> 60]
      ELSE [passage |-> 0, by |-> "nothing", confidence |-> 40]

(* The blocks of a scan, each with its page and the share of the quote's words it has, in *)
(* fifths; five are the quote itself.                                                      *)
(* _box_for: the first of the best blocks on the passage's pages.                           *)
BoxFor(blocks, pages) ==
  LET near == {i \in DOMAIN blocks : blocks[i].page \in pages /\ blocks[i].share >= 3}
      best == {i \in near : \A j \in near : blocks[j].share <= blocks[i].share}
  IN  IF near = {} THEN 0 ELSE Min(best)

-----------------------------------------------------------------------------
(* _facts_label, of the labels of the document's other chunks: what the facts may *)
(* summarise is labelled with the one restricted label, or for leadership.         *)
FactsLabel(labels) ==
  LET restricted == labels \ {All}
  IN  CASE restricted = {} -> All
        [] Cardinality(restricted) = 1 -> CHOOSE l \in restricted : TRUE
        [] Cardinality(restricted) > 1 -> FailClosed

-----------------------------------------------------------------------------
(* "The facts chunk may summarise restricted sections": whoever may read the facts of a *)
(* document may read every section of it.                                                *)
FactsForReaders(labels) ==
  \A role \in DOMAIN Sees : FactsLabel(labels) \in Sees[role] => labels \subseteq Sees[role]

(* "Failures become issues, never exceptions": a field whose value was put down and got   *)
(* lost has an issue, and one that is required and missing has that; and no value is kept  *)
(* that breaks its type.  There is one exception, and with it every field is lost without  *)
(* an issue: an integer field for which the model put down a number without end.           *)
NothingLostInSilence(specs, answer) ==
  IF Raises(specs, answer)
  THEN \E i \in DOMAIN specs : specs[i].type = "integer" /\ answer[i] = "infinite"
  ELSE \A i \in DOMAIN specs :
         LET codes == {x.code : x \in {y \in Issues(specs, answer) : y.field = i}}
             value == Values(specs, answer)[i]
         IN  /\ value = "missing" /\ answer[i] \notin Nothing \cup {"blank list"} =>
                  codes \cap {"type_mismatch", "enum_mismatch"} # {}
             /\ value = "missing" /\ specs[i].required => "missing_required" \in codes
             /\ value # "missing" => codes \subseteq {"pattern_mismatch"}

(* The first passage is always shown; the others fit the budget with it, and one that was *)
(* left out would not have fitted with those that score higher.                            *)
SelectionHolds(passages) ==
  passages # <<>> =>
    LET chosen == Select(passages, TRUE)
        all == DOMAIN passages
    IN  /\ 1 \in chosen /\ 1 \in Select(passages, FALSE)
        /\ chosen # all => Tokens(passages, chosen) <= Max({Context, passages[1].size})
        /\ \A i \in all \ chosen :
             Tokens(passages, {1} \cup {j \in chosen : passages[j].score >= passages[i].score})
               + passages[i].size > Context

(* A located quote is never passed over for a mere value, a value that stands in its quote *)
(* is trusted most, and a box is one on the passage's own pages.                            *)
EvidenceHolds(passages) ==
  \A quoted \in BOOLEAN, value \in {"missing", "scalar", "list"} :
    LET e == Evidence(passages, quoted, value)
    IN  /\ quoted /\ (\E i \in DOMAIN passages : passages[i].quote) => e.by = "quote"
        /\ e.by # "nothing" => passages[e.passage][e.by]
        /\ e.confidence = 90 => e.by = "quote" /\ (value = "missing" \/ passages[e.passage].within)
        /\ value = "scalar" /\ (\E i \in DOMAIN passages : passages[i].value) => e.confidence > 40

BoxHolds(blocks) ==
  \A lo \in 1..3 : \A hi \in lo..3 :
    LET box == BoxFor(blocks, lo..hi)
    IN  /\ box # 0 => blocks[box].page \in lo..hi
        /\ \A i \in DOMAIN blocks : blocks[i].page \in lo..hi /\ blocks[i].share = 5 =>
             box # 0 /\ blocks[box].share = 5

-----------------------------------------------------------------------------
(* The cross-field rules of a schema (extraction/rules.py), and what            *)
(* extraction/validate.py makes of them.  An expression is a sequence of names, *)
(* numbers and operators, each operator after its operands; a value is a        *)
(* number, a string that is no number, or missing.  What an evaluation raises   *)
(* travels up as a value, and stops where Python stops evaluating.              *)
Unary == {"not", "-"}
Binary == {"and", "or", "+", "==", "<"}
Chain == {"<<"}   \* a < b < c, which compares a with b first
Operators == Unary \cup Binary \cup Chain
Arity(op) == IF op \in Unary THEN 1 ELSE IF op \in Binary THEN 2 ELSE 3

-----------------------------------------------------------------------------
Is(x, type) == x.type = type
Number(n) == [type |-> "number", of |-> n]
Flag(b) == [type |-> "flag", of |-> b]
String == [type |-> "string", of |-> 0]
MissingValue == [type |-> "missing", of |-> 0]
RuleUnknown == [type |-> "RuleUnknown", of |-> 0]
Fails(x) == Is(x, "RuleUnknown")

(* bool(x): numbers other than zero, and strings with something in them. *)
Truth(x) == IF Is(x, "flag") THEN x.of ELSE IF Is(x, "number") THEN x.of # 0 ELSE TRUE

(* _num: a string that is no number leaves the rule undecided. *)
Num(x) ==
  IF Is(x, "flag") THEN Number(IF x.of THEN 1 ELSE 0)
  ELSE IF Is(x, "number") THEN x ELSE RuleUnknown

Lookup(values, name) == IF Is(values[name], "missing") THEN RuleUnknown ELSE values[name]

(* Both operands are evaluated, the left one first. *)
Strict(x, y, Op(_, _)) == IF Fails(x) THEN x ELSE IF Fails(y) THEN y ELSE Op(x, y)

Numeric(x, y, Op(_, _)) ==
  IF Fails(Num(x)) \/ Fails(Num(y)) THEN RuleUnknown ELSE Op(Num(x).of, Num(y).of)

Plus(x, y) ==
  IF Is(x, "string") /\ Is(y, "string") THEN String
  ELSE Numeric(x, y, LAMBDA m, n : Number(m + n))

(* _compare: strings with strings, everything else as numbers. *)
Equal(x, y) ==
  IF Is(x, "string") /\ Is(y, "string") THEN Flag(TRUE)
  ELSE Numeric(x, y, LAMBDA m, n : Flag(m = n))

Less(x, y) ==
  IF Is(x, "string") /\ Is(y, "string") THEN Flag(FALSE)
  ELSE Numeric(x, y, LAMBDA m, n : Flag(m < n))

(* all() and any() stop at the first operand that decides; one that raises before it wins. *)
And(x, y) ==
  IF Fails(x) THEN x ELSE IF ~Truth(x) THEN Flag(FALSE)
  ELSE IF Fails(y) THEN y ELSE Flag(Truth(y))

(* Mutant: what is missing on the left of an "or" counts as false. *)
OrElse(x, y) ==
  IF ~Fails(x) /\ Truth(x) THEN Flag(TRUE)
  ELSE IF Fails(y) THEN y ELSE Flag(Truth(y))

Or(x, y) ==
  IF Fails(x) THEN x ELSE IF Truth(x) THEN Flag(TRUE)
  ELSE IF Fails(y) THEN y ELSE Flag(Truth(y))

(* A chain leaves its last operand alone when the first comparison fails. *)
ChainLess(x, y, z) ==
  LET first == Strict(x, y, Less) IN
    IF Fails(first) THEN first ELSE IF ~first.of THEN Flag(FALSE) ELSE Strict(y, z, Less)

Apply(op, args) ==
  CASE op = "not" -> IF Fails(args[1]) THEN args[1] ELSE Flag(~Truth(args[1]))
    [] op = "-"   -> IF Fails(args[1]) THEN args[1]
                     ELSE IF Fails(Num(args[1])) THEN RuleUnknown ELSE Number(0 - Num(args[1]).of)
    [] op = "and" -> And(args[1], args[2])
    [] op = "or"  -> Or(args[1], args[2])
    [] op = "+"   -> Strict(args[1], args[2], Plus)
    [] op = "=="  -> Strict(args[1], args[2], Equal)
    [] op = "<"   -> Strict(args[1], args[2], Less)
    [] op = "<<"  -> ChainLess(args[1], args[2], args[3])

(* evaluate_rule, before bool(). *)
Evaluate(rule, values) ==
  LET Step(stack, atom) ==
        IF atom \in Operators
        THEN LET n == Len(stack) - Arity(atom)
             IN  Append(SubSeq(stack, 1, n), Apply(atom, SubSeq(stack, n + 1, Len(stack))))
        ELSE Append(stack, IF atom \in Field THEN Lookup(values, atom) ELSE Number(0))
  IN  FoldLeft(Step, <<>>, rule)[1]

(* Every operator has its operands, and one value is left. *)
WellFormed(rule) ==
  LET Depth(n, atom) == IF n < 0 \/ atom \notin Operators THEN IF n < 0 THEN n ELSE n + 1
                        ELSE IF n < Arity(atom) THEN -1 ELSE n - Arity(atom) + 1
  IN  FoldLeft(Depth, 0, rule) = 1

(* validate: what the rule adds to the issues. *)
Verdict(rule, values) ==
  LET x == Evaluate(rule, values)
  IN  IF Fails(x) THEN "unknown" ELSE IF Truth(x) THEN "holds" ELSE "rule_failed"

-----------------------------------------------------------------------------
(* "A rule whose operands are missing (None) is unknown, not failed" is so of rules that *)
(* evaluate all their operands.  An "and", an "or" or a chain stops at what decides it,  *)
(* and then the rule fails, or holds, with operands missing; such a verdict stays the    *)
(* same whatever these turn out to be, so that no correction which only fills a gap ever *)
(* takes a reported failure back.                                                        *)
VerdictStands(rule, values) ==
  WellFormed(rule) =>
    LET missing == {f \in Field : Is(values[f], "missing")}
        stops == Range(rule) \cap ({"and", "or"} \cup Chain) # {}
    IN  /\ Range(rule) \cap missing # {} /\ ~stops => Verdict(rule, values) = "unknown"
        /\ Verdict(rule, values) # "unknown" =>
             \A f \in missing, v \in {Number(0), Number(1), String} :
               Verdict(rule, [values EXCEPT ![f] = v]) = Verdict(rule, values)
=============================================================================

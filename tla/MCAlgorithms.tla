---------------------------- MODULE MCAlgorithms ----------------------------
(* The pure algorithms on every small input: a behaviour builds one input of *)
(* one kind, an element at a time, and each property looks at the inputs it  *)
(* is about.                                                                 *)
EXTENDS Integers, Sequences, SequencesExt, FiniteSets

CONSTANTS Kind   \* the kinds of inputs that are built

VARIABLE input

C == INSTANCE Chunking WITH All <- "all", None <- "none", Target <- 4, Overlap <- 2, Cap <- 5
A == INSTANCE Quotes WITH HoldBack <- 3
G == INSTANCE Ranking WITH K <- 2, Scale <- 60, TopK <- 3, Limit <- 3, Budget <- 5
N == INSTANCE Notion WITH MaxAttempts <- 3, MaxHops <- 1, MaxDepth <- 1
P == INSTANCE Parsing WITH MaxPages <- 3, MaxOcr <- 2,
  Known <- {"all", "hr"}, Unknown <- {"typo"}, Leadership <- "boss", None <- "none", MaxGroup <- 3, MaxMarker <- 4
Sees == [all |-> {"all"}, hr |-> {"all", "hr"}, finance |-> {"all", "finance"}, boss |-> {"all", "hr", "finance"}]
E == INSTANCE Fields WITH Field <- {"f", "g"}, FullText <- 5, Context <- 4, All <- "all", FailClosed <- "leadership", Sees <-
  [employee |-> {"all"}, manager |-> {"all", "managers"}, hr |-> {"all", "managers", "hr"},
   finance |-> {"all", "managers", "finance"},
   leadership |-> {"all", "managers", "hr", "finance", "leadership"}]
Q == INSTANCE Starters WITH Role <- <<"all", "hr", "finance", "boss">>, All <- "all", Default <- "all",
                            Threshold <- 3, Margin <- 1, SampleCap <- 5, SampleMax <- 3

ASSUME ScoreAssumption == G!Scaled

UpToLength(S, n) == UNION {[1..k -> S] : k \in 0..n}
Cut == "|"

Heading(text, level) ==
  [text |-> text, level |-> level, marker |-> "none", sizes |-> <<1>>, table |-> FALSE, header |-> 0]
Body(text, marker, sizes) ==
  [text |-> text, level |-> 0, marker |-> marker, sizes |-> sizes, table |-> FALSE, header |-> 0]
Table(sizes) ==
  [text |-> "x", level |-> 0, marker |-> "none", sizes |-> sizes, table |-> TRUE, header |-> 1]

Alphabet == [
  document |-> {Heading(t, n) : t \in {"a", "b", "c"}, n \in {1, 2}}
               \cup {Body("x", m, s) : m \in {"none", "hr", "finance"}, s \in {<<1>>, <<3>>}}
               \cup {Body("a", "none", <<1>>)},
  blocks   |-> LET Sizes == UpToLength({1, 3, 6}, 3)
               IN  {Body("x", "none", s) : s \in Sizes} \cup {Table(s) : s \in Sizes},
  units    |-> 1..6,
  deltas   |-> {"no", "answer", "quo", "tes", "line", "word", Cut},
  spans    |-> {[start |-> a, stop |-> b, method |-> m] : a \in 0..3, b \in 1..4, m \in 1..3},
  lists    |-> {"p", "q", "r", "s", Cut},
  sizes    |-> 1..6,
  context  |-> {[chunk |-> c, size |-> n] : c \in 0..2, n \in {1, 2, 3}},
  scores   |-> 1..4,
  rule     |-> {"f", "g", "zero"} \cup E!Operators,
  markdown |-> [kind : {"heading", "fence", "blank", "text"}, level : {1}],
  fonts    |-> {100, 107, 115, 124, 133, 160},
  print    |-> {[size |-> s, bold |-> b, title |-> b, block |-> k] : s \in {10, 11, 12}, b \in BOOLEAN, k \in {1, 2}},
  scan     |-> [height : {0, 10, 13}, chars : {1, 4}, title : BOOLEAN],
  pages    |-> [text : BOOLEAN, image : BOOLEAN, readable : BOOLEAN],
  answers  |-> N!Answers,
  objects  |-> [parent : 0..4, archived : BOOLEAN],
  page     |-> [kind : {"flow", "quote"}, text : BOOLEAN, depth : 0..2]
               \cup [kind : {"column", "link", "silent"} \cup N!ListTypes, text : {TRUE}, depth : 0..2],
  quoted   |-> {"a", "s", "S", "sharp", "space", "star", Cut},
  overlaps |-> 0..5,
  cited    |-> {"[", "]", "1", "9", "w"},
  fields   |-> [spec : [name : {"f", "g"}, type : E!Types, options : {{}, {"option"}},
                        required : BOOLEAN, pattern : BOOLEAN], raw : E!Raws],
  passages |-> [size : 1..3, score : 0..2],
  evidence |-> [quote : BOOLEAN, value : BOOLEAN, within : BOOLEAN],
  boxes    |-> [page : 1..3, share : 0..5],
  excerpts |-> 1..4,
  roles    |-> [label : {"all", "hr", "finance"}, score : 1..5],
  locked   |-> [doc : 1..3, label : {"all", "hr", "finance"}],
  labels   |-> {"all", "managers", "hr", "finance", "leadership"},
  starters |-> [all : 1..4, hr : 1..4, finance : {0}] \cup [all : {1, 2}, hr : {3, 4}, finance : {4}],
  marker   |-> P!Word,
  ranked   |-> [role : {"all", "hr", "boss"}, question : 1..4],
  drafts   |-> {"good", "same", "bad", "leaky", Cut}]

Bound == [document |-> 4, blocks |-> 2, units |-> 5, deltas |-> 5, spans |-> 3, lists |-> 7,
          sizes |-> 5, context |-> 4, scores |-> 5, rule |-> 5,
          markdown |-> 5, fonts |-> 4, print |-> 3, scan |-> 3, pages |-> 4,
          answers |-> 4, objects |-> 3, page |-> 3, quoted |-> 5, overlaps |-> 4, cited |-> 5,
          fields |-> 2, passages |-> 4, evidence |-> 3, boxes |-> 3,
          excerpts |-> 5, roles |-> 3, locked |-> 4, ranked |-> 4, marker |-> 6, labels |-> 4, starters |-> 3, drafts |-> 6]

(* The parts of a sequence between its cuts. *)
Parts(seq) ==
  FoldLeft(LAMBDA s, x : IF x = Cut THEN Append(s, <<>>) ELSE Append(Front(s), Append(Last(s), x)),
           <<<<>>>>, seq)

(* What an input may begin with: a search returns a passage once, and at most TopK; a *)
(* span has a length; an operator has its operands; a question stands before a         *)
(* reference (chunk 0 is a question); a block is at most one below the one before it; a *)
(* value stands in a quote that is there; the chunks of a document come together; a     *)
(* text and what is looked up in it, and two completions, are cut once.                  *)
Admissible(of, seq) ==
  CASE of = "lists" -> /\ Len(Parts(seq)) <= 3
                       /\ \A p \in Range(Parts(seq)) : IsInjective(p) /\ Len(p) <= 3
    [] of = "spans" -> Last(seq).start < Last(seq).stop
    [] of = "rule"  -> \E rest \in {<<>>, <<"+">>, <<"+", "+">>, <<"+", "+", "+">>, <<"+", "+", "+", "+">>} :
                         E!WellFormed(seq \o rest)
    [] of = "context" -> \A i \in DOMAIN seq, j \in DOMAIN seq :
                           i < j /\ seq[j].chunk = 0 => seq[i].chunk = 0
    [] of = "page" -> Last(seq).depth <= (IF Len(seq) = 1 THEN 0 ELSE seq[Len(seq) - 1].depth + 1)
    [] of \in {"quoted", "drafts"} -> Len(Parts(seq)) <= 2
    [] of = "fields" -> /\ E!WellDefined([i \in DOMAIN seq |-> seq[i].spec], 2)
                        /\ Last(seq).spec.name = <<"f", "g">>[Len(seq)]
                        /\ Last(seq).spec.pattern => Last(seq).spec.type = "string"
    [] of = "evidence" -> Last(seq).within => Last(seq).quote
    [] of = "locked" -> \A i \in DOMAIN seq : i > 1 => seq[i - 1].doc <= seq[i].doc
    [] of = "marker" -> seq[1] = "access" /\ ~(Len(seq) > 2 /\ Last(seq) = "access")
    [] of = "ranked" -> IsInjective([i \in DOMAIN seq |-> seq[i].question])
    [] OTHER -> TRUE

InputInit == \E k \in Kind : input = [of |-> k, seq |-> <<>>]

InputNext ==
  /\ Len(input.seq) < Bound[input.of]
  /\ \E x \in Alphabet[input.of] :
       /\ Admissible(input.of, Append(input.seq, x))
       /\ input' = [input EXCEPT !.seq = Append(@, x)]

InputSpec == InputInit /\ [][InputNext]_input

-----------------------------------------------------------------------------
Of(kind, property) == input.of = kind => property

Units == [i \in DOMAIN input.seq |-> [block |-> i, size |-> input.seq[i]]]
Deltas == Parts(input.seq)
Values == [{"f", "g"} -> {E!MissingValue, E!String, E!Number(0), E!Number(1)}]
Turns == SelectSeq(input.seq, LAMBDA x : x.chunk = 0)
References == SelectSeq(input.seq, LAMBDA x : x.chunk # 0)
First == Parts(input.seq)[1]
Second == IF Len(Parts(input.seq)) = 2 THEN Parts(input.seq)[2] ELSE <<>>
Draft(items) ==
  [i \in DOMAIN items |-> [text |-> IF items[i] \in {"good", "same"} THEN items[i] ELSE "other",
                           bad |-> items[i] = "bad", leaky |-> items[i] = "leaky"]]
ChunksOf(scores) == [i \in 1..3 |-> [label |-> <<"all", "hr", "finance">>[i], score |-> scores[<<"all", "hr", "finance">>[i]]]]
Hints == {<<>>} \cup {<<[doc |-> 1, role |-> r]>> : r \in DOMAIN Sees \ {"all"}}

(* Parsers hand over every line in its place, headings by themselves and ordered in    *)
(* level; every section of a document whose headings are told apart has its own label; *)
(* blocks lose no unit, repeat a table's header and fit their caps; windows stay bounded.  *)
(* What a synchronised page shows is complete and in order, what is listed has a root above *)
(* it and is left out only near a chain that is too long, and a passage of facts is for     *)
(* those who may read all they were made of.                                                *)
PassagesHold ==
  /\ Of("answers", N!ListingHolds(input.seq))
  /\ Of("objects", N!ScopeHolds(input.seq))
  /\ Of("page", N!RenderHolds(input.seq))
  /\ Of("markdown", P!MarkdownHolds(input.seq))
  /\ Of("fonts", \A ratio \in {90, 92} : P!LevelsOrdered(Range(input.seq), ratio))
  /\ Of("print", P!PdfHolds(input.seq))
  /\ Of("scan", P!ScanHolds(input.seq))
  /\ Of("pages", P!OcrBounded(input.seq))
  /\ Of("marker", input.seq # <<>> /\ Last(input.seq) # "line" => P!MarkersHold(input.seq))
  /\ Of("labels", E!FactsForReaders(Range(input.seq)))
  /\ Of("document", C!Unambiguous(input.seq) => C!LabelsHold(input.seq))
  /\ Of("blocks", C!NothingLost(input.seq) /\ C!TablesFit(input.seq))
  /\ Of("units", C!WindowsBounded(Units))

(* However an answer is cut into deltas, the sentinel and the quotes never reach the      *)
(* client and plain prose does; a quote is located where it stands, what spans cover keeps *)
(* its best evidence, and an answer cites the blocks that are sent with it.  Of what it is *)
(* drawn from, what both searches find ranks first, every query of a plan is heard, a      *)
(* prompt and a context fit their budgets, and a probe says when it was cut.                *)
AnswersHold ==
  /\ Of("deltas", A!SentinelHolds(Deltas) /\ A!AnswerShownInPlainProse(Deltas))
  /\ Of("spans", A!SpansHold(input.seq))
  /\ Of("quoted", A!LocatedInPlainText(First, Second))
  /\ Of("overlaps", A!FallbackHolds(input.seq))
  /\ Of("cited", A!CitationsAgree(input.seq, {<<"1">>, <<"1", "9">>}))
  /\ Of("lists", /\ Len(Parts(input.seq)) = 2 => G!BothRise(Parts(input.seq))
                 /\ G!EveryQueryHeard(Parts(input.seq)))
  /\ Of("sizes", G!PromptFits(input.seq))
  /\ Of("context", G!ContextFits([i \in DOMAIN Turns |-> Turns[i].size], References))
  /\ Of("scores", \A floor, best \in 1..4 : G!ProbeHonest(input.seq, floor, best))

(* No field of an extraction is lost without an issue, unless a number without end makes   *)
(* validate raise; what the model is shown fits, and evidence is where it says; a rule's    *)
(* verdict that was reached with fields missing stands whatever they become.  A suggested   *)
(* question is for a role that can have it answered; where there is restricted content one  *)
(* of them is locked, and one is open.                                                       *)
DraftsHold ==
  /\ Of("fields", E!NothingLostInSilence([i \in DOMAIN input.seq |-> input.seq[i].spec],
                                         [i \in DOMAIN input.seq |-> input.seq[i].raw]))
  /\ Of("passages", E!SelectionHolds(input.seq))
  /\ Of("evidence", E!EvidenceHolds(input.seq))
  /\ Of("boxes", E!BoxHolds(input.seq))
  /\ Of("rule", \A values \in Values : E!VerdictStands(input.seq, values))
  /\ Of("excerpts", Q!SampleFits(input.seq))
  /\ Of("roles", Q!RolesHold(input.seq))
  /\ Of("locked", Q!HintHolds(input.seq))
  /\ Of("ranked", \A keep \in 1..3 : /\ Q!SelectionHolds(input.seq, keep)
                                     /\ \A hint \in Hints : Q!StoredHolds(input.seq, keep, hint))
  /\ Of("starters", \A keep \in 1..3 : Q!StartersHold([i \in DOMAIN input.seq |-> ChunksOf(input.seq[i])], keep))
  /\ Of("drafts", \A count \in 1..2 : Q!DraftHolds(Draft(First), Draft(Second), count))

(* "a marker block right after a heading labels that heading's section": of every      *)
(* document, though a block may read like a heading that comes later.                   *)
EveryDocumentLabelled == Of("document", C!LabelsHold(input.seq))

(* "index[i] is the offset in text of the character that produced out[i]": what is        *)
(* located of a quote is the quote.                                                        *)
EveryQuoteLocated == Of("quoted", A!LocatedIn(First, Second))
=============================================================================

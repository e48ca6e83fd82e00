------------------------------- MODULE Notion -------------------------------
(* The Notion connector (sources/notion): how a listing is put together from  *)
(* answers that fail, which pages the configured roots reach, and the         *)
(* Markdown that a page's tree of blocks becomes.  A database is an object that *)
(* a page's parents lead through; listing one, and what a title, a property or  *)
(* a text says, are not modelled.                                               *)
EXTENDS Integers, Sequences, SequencesExt, FiniteSets

CONSTANTS
  MaxAttempts,  \* _MAX_ATTEMPTS of one request
  MaxHops,      \* parents that _in_scope follows
  MaxDepth      \* _MAX_DEPTH of nested blocks

-----------------------------------------------------------------------------
(* What Notion answers: a page of results with the cursor of the next one     *)
(* ("more"), without one ("cut") or the last one; or the answer is a failure.  *)
Passing == {"down", "busy"}
Failure == [auth |-> "auth", missing |-> "gone", refused |-> "error", garbage |-> "transient"]
Results == {"more", "cut", "last"}
Answers == Passing \cup DOMAIN Failure \cup Results

(* NotionClient.request: what passes is tried again, and nothing else. *)
Try(s, answer) ==
  IF answer \in Passing
  THEN [s EXCEPT !.tries = @ + 1, !.at = IF s.tries + 1 = MaxAttempts THEN "transient" ELSE "open"]
  ELSE IF answer \in DOMAIN Failure THEN [s EXCEPT !.at = Failure[answer]]
  ELSE [s EXCEPT !.tries = 0, !.pages = @ + 1, !.at = IF answer = "more" THEN "open" ELSE "done"]

(* _paginate, of the answers to its requests in their order. *)
Paginate(answers) ==
  FoldLeft(LAMBDA s, a : IF s.at = "open" THEN Try(s, a) ELSE s,
           [at |-> "open", tries |-> 0, pages |-> 0], answers)

(* _children: of a block that is gone, what was listed of it so far is taken; any *)
(* other failure ends the synchronisation.                                        *)
ChildrenListed(answers) == LET s == Paginate(answers) IN IF s.at = "gone" THEN [s EXCEPT !.at = "done"] ELSE s

-----------------------------------------------------------------------------
(* Objects are numbered in the order they are listed.  Each has a parent: itself *)
(* known or not, a root or not, 0 for the workspace or a block that is gone.      *)
Known(objects, i) == i \in DOMAIN objects /\ ~objects[i].archived

RECURSIVE Climb(_, _, _, _, _)
(* _in_scope, without its cache: the objects that were passed, and the answer. *)
Climb(objects, roots, cache, i, hops) ==
  IF i \in DOMAIN cache THEN [passed |-> {}, answer |-> cache[i]]
  ELSE IF i \in roots THEN [passed |-> {i}, answer |-> TRUE]
  ELSE IF hops > MaxHops THEN [passed |-> {}, answer |-> FALSE]
  ELSE IF ~Known(objects, i) \/ objects[i].parent = 0 THEN [passed |-> {i}, answer |-> FALSE]
  ELSE LET above == Climb(objects, roots, cache, objects[i].parent, hops + 1)
       IN  [above EXCEPT !.passed = @ \cup {i}]

Remember(cache, climbed) ==
  [i \in DOMAIN cache \cup climbed.passed |->
     IF i \in DOMAIN cache THEN cache[i] ELSE climbed.answer]

(* list_items: the pages in scope, asked in the order they were listed. *)
ItemsInScope(objects, roots, order) ==
  LET Ask(s, i) ==
        LET climbed == Climb(objects, roots, s.cache, i, 0)
        IN  [cache |-> Remember(s.cache, climbed),
             items |-> IF climbed.answer THEN s.items \cup {i} ELSE s.items]
      asked == SelectSeq(order, LAMBDA i : Known(objects, i))
  IN  IF roots = {} THEN Range(asked)
      ELSE FoldLeft(Ask, [cache |-> [i \in {} |-> FALSE], items |-> {}], asked).items

-----------------------------------------------------------------------------
(* The blocks of a page in document order, each with its depth.  "flow" stands for  *)
(* paragraphs, headings, callouts and toggles, "column" for what has no text of its *)
(* own, "link" for child pages and databases, "code" for what shows no children,    *)
(* "silent" for what shows nothing.                                                 *)
ListTypes == {"bullet", "number", "todo"}
Under(blocks, i) ==
  {j \in i + 1 .. Len(blocks) : \A k \in i + 1 .. j : blocks[k].depth > blocks[i].depth}
Children(blocks, i) ==
  SetToSortSeq({j \in Under(blocks, i) : blocks[j].depth = blocks[i].depth + 1}, <)
TopLevel(blocks) == SetToSortSeq({i \in DOMAIN blocks : blocks[i].depth = 0}, <)

Line(i) == [block |-> i, indent |-> 0, number |-> 0]
Indented(parts) == [k \in DOMAIN FlattenSeq(parts) |-> [FlattenSeq(parts)[k] EXCEPT !.indent = @ + 1]]
TextOf(blocks, i) == IF blocks[i].text THEN <<<<Line(i)>>>> ELSE <<>>

(* flush_list *)
Flush(s) == [out |-> IF s.list = <<>> THEN s.out ELSE Append(s.out, s.list), list |-> <<>>, count |-> 0]

NextCount(kind, count) == IF kind = "number" THEN count + 1 ELSE IF kind = "todo" THEN count ELSE 0

RECURSIVE RenderBlocks(_, _, _)
ChildrenMarkdown(blocks, i, depth) ==
  IF depth >= MaxDepth \/ blocks[i].kind = "link" THEN <<>>
  ELSE RenderBlocks(blocks, Children(blocks, i), depth + 1)

RenderBlock(blocks, i, depth) ==
  CASE blocks[i].kind = "flow"   -> TextOf(blocks, i) \o ChildrenMarkdown(blocks, i, depth)
    [] blocks[i].kind = "quote"  -> IF blocks[i].text
                                    THEN TextOf(blocks, i) \o ChildrenMarkdown(blocks, i, depth) ELSE <<>>
    [] blocks[i].kind = "column" -> ChildrenMarkdown(blocks, i, depth)
    [] blocks[i].kind \in {"link", "code"} -> <<<<Line(i)>>>>
    [] blocks[i].kind = "silent" -> <<>>

(* _render_blocks: the items of one list, and what is below them, are one part. *)
RenderBlocks(blocks, ids, depth) ==
  LET Step(s, i) ==
        LET kind == blocks[i].kind
            count == NextCount(kind, s.count)
            item == [Line(i) EXCEPT !.number = IF kind = "number" THEN count ELSE 0]
            flushed == Flush(s)
        IN  IF kind \in ListTypes
            THEN [s EXCEPT !.count = count,
                           !.list = @ \o <<item>> \o Indented(ChildrenMarkdown(blocks, i, depth))]
            ELSE [flushed EXCEPT !.out = @ \o RenderBlock(blocks, i, depth)]
  IN  Flush(FoldLeft(Step, [out |-> <<>>, list |-> <<>>, count |-> 0], ids)).out

(* render_page: the title, which is always there, comes first. *)
RenderPage(blocks) == <<<<Line(0)>>>> \o RenderBlocks(blocks, TopLevel(blocks), 0)

-----------------------------------------------------------------------------
(* A listing counts as complete once an answer has no cursor, and has all results up  *)
(* to there.  It is really complete if that answer says that it is the last: one that *)
(* has more but no cursor ends the listing as well, and the pages that it did not get *)
(* to are then taken to be gone.  A listing is given up for a passing failure only    *)
(* after that many in a row.                                                          *)
ListingHolds(answers) ==
  LET s == Paginate(answers)
      n == CHOOSE k \in 0..Len(answers) :
             /\ Paginate(SubSeq(answers, 1, k)) = s
             /\ \A j \in 0..(k - 1) : Paginate(SubSeq(answers, 1, j)).at = "open"
  IN  /\ s.at = "done" =>
           /\ \A k \in 1..(n - 1) : answers[k] \in Passing \cup {"more"}
           /\ s.pages = Cardinality({k \in 1..n : answers[k] \in Results})
      /\ s.at = "done" /\ (\A k \in 1..n : answers[k] # "cut") => answers[n] = "last"
      /\ s.at = "transient" /\ answers[n] # "garbage" =>
           n >= MaxAttempts /\ \A k \in (n - MaxAttempts + 1)..n : answers[k] \in Passing

(* i is a root, or reaches one through objects that are shared. *)
RECURSIVE Reaches(_, _, _, _)
Reaches(objects, roots, i, seen) ==
  \/ i \in roots
  \/ /\ i \notin seen /\ Known(objects, i)
     /\ Reaches(objects, roots, objects[i].parent, seen \cup {i})

(* Of one that reaches a root: what the chain of its parents has below the root. *)
RECURSIVE Way(_, _, _)
Way(objects, roots, i) ==
  IF i \in roots THEN {} ELSE {i} \cup Way(objects, roots, objects[i].parent)

(* What is in scope reaches a root, whatever the order of listing; a circle of parents *)
(* does not.  What reaches one is in scope, unless it lies on the way of an object     *)
(* that has its root too far up: the answer that _in_scope gives up with is cached for *)
(* all it passed, and then what is asked first decides what is left out.               *)
ScopeHolds(objects) ==
  \A roots \in SUBSET (1..Len(objects) + 1) : roots # {} =>
    LET reaching == {i \in DOMAIN objects : Known(objects, i) /\ Reaches(objects, roots, i, {})}
        far == {i \in reaching : Cardinality(Way(objects, roots, i)) > MaxHops + 1}
    IN  \A order \in {s \in [DOMAIN objects -> DOMAIN objects] : IsInjective(s)} :
          LET items == ItemsInScope(objects, roots, order)
          IN  /\ items \subseteq reaching
              /\ \A i \in reaching \ items : \E j \in far : i \in Way(objects, roots, j)

(* What keeps a block's text from the page: too deep, or below what shows no children. *)
Ancestors(blocks, i) == {k \in DOMAIN blocks : i \in Under(blocks, k)}
Hides(block) == \/ block.kind \in {"link", "code", "silent"}
                \/ block.kind = "quote" /\ ~block.text
Shown(blocks, i) ==
  /\ blocks[i].depth <= MaxDepth
  /\ \A k \in Ancestors(blocks, i) : ~Hides(blocks[k])
  /\ \/ blocks[i].kind \in ListTypes \cup {"link", "code"}
     \/ blocks[i].kind \in {"flow", "quote"} /\ blocks[i].text

(* Every text shows once, in document order; a block that is in no list is a part of  *)
(* its own, so that an access marker keeps its line; a list's numbers follow on, and  *)
(* what is below an item is indented under it.                                         *)
RenderHolds(blocks) ==
  LET parts == RenderPage(blocks)
      lines == FlattenSeq(parts)
      InList(i) == \E k \in Ancestors(blocks, i) \cup {i} : blocks[k].kind \in ListTypes
  IN  /\ [k \in DOMAIN lines |-> lines[k].block] =
           <<0>> \o SetToSortSeq({i \in DOMAIN blocks : Shown(blocks, i)}, <)
      /\ \A i \in DOMAIN blocks : Shown(blocks, i) /\ ~InList(i) => <<Line(i)>> \in Range(parts)
      /\ \A k \in DOMAIN lines : lines[k].block # 0 =>
           lines[k].indent = Cardinality({a \in Ancestors(blocks, lines[k].block) :
                                            blocks[a].kind \in ListTypes})
      /\ \A k \in DOMAIN lines : lines[k].number > 1 =>
           \E j \in 1..(k - 1) : /\ lines[j].number = lines[k].number - 1
                                 /\ lines[j].indent = lines[k].indent
=============================================================================

------------------------------ MODULE Parsing ------------------------------
(* What parsers hand to the chunker (ingestion/parsers, ingestion/ocr): the   *)
(* blocks of a page in reading order, and the headings among them with their  *)
(* levels.  A line or a recognised block is what the rules tell apart of it;  *)
(* a block of the result is the sequence of the positions of its lines.  The   *)
(* last section is about the markers of access (ingestion/access.py): which    *)
(* lines are one, and which label they set.                                    *)
EXTENDS Integers, Sequences, SequencesExt, FiniteSetsExt

CONSTANTS
  MaxPages,   \* max_pages
  MaxOcr,     \* ocr_page_limit()
  Known,      \* groups with a label of their own
  Unknown,
  Leadership, \* the label that fails closed
  None,
  MaxGroup,   \* words that the 60 characters of a group hold
  MaxMarker   \* words that the 80 characters of a marker hold

Page(blocks, headings) == [blocks |-> blocks, headings |-> headings]
Total(f, S) == FoldSet(LAMBDA i, sum : sum + f[i], 0, S)
Descending(S) == SetToSortSeq(S, LAMBDA a, b : a > b)

-----------------------------------------------------------------------------
\* A paragraph under way becomes a block.
Flush(s) == IF s.paragraph = <<>> THEN s ELSE [s EXCEPT !.blocks = Append(@, s.paragraph), !.paragraph = <<>>]

HeadingBlock(s, i, level) ==
  [Flush(s) EXCEPT !.blocks = Append(@, <<i>>), !.headings = Append(@, [at |-> i, level |-> level])]

Nothing == [blocks |-> <<>>, headings |-> <<>>, paragraph |-> <<>>, fenced |-> FALSE, block |-> 0]

\* A hash inside a fence is code.
IsHeading(s, line) == line.kind = "heading" /\ ~s.fenced

(* MarkdownParser.parse, line by line; inside a fence, empty lines do not end a paragraph. *)
Markdown(lines) ==
  LET Step(s, i) ==
        IF lines[i].kind = "fence" THEN [s EXCEPT !.fenced = ~@, !.paragraph = Append(@, i)]
        ELSE IF IsHeading(s, lines[i]) THEN HeadingBlock(s, i, lines[i].level)
        ELSE IF lines[i].kind = "blank" /\ ~s.fenced THEN Flush(s)
        ELSE [s EXCEPT !.paragraph = Append(@, i)]
      end == Flush(FoldLeft(Step, Nothing, [i \in DOMAIN lines |-> i]))
  IN  Page(end.blocks, end.headings)

-----------------------------------------------------------------------------
(* Twice the median, which is the mean of the middle two. *)
TwiceMedian(sizes) ==
  LET sorted == SortSeq(sizes, <)
      n == Len(sorted)
  IN  sorted[(n + 1) \div 2] + sorted[(n + 2) \div 2]

(* _mark_headings, of one page: larger by 15 per cent, or a short bold title. *)
Headline(page, line) ==
  \/ 2 * line.size * 100 > TwiceMedian([k \in DOMAIN page |-> page[k].size]) * 115
  \/ line.bold /\ line.title

(* _assign_levels and heading_levels: over the whole document, from the largest size *)
(* down, a level for each cluster of sizes, three at most.                            *)
LevelsOf(sizes, ratio) ==
  LET Step(s, size) ==
        LET apart == s.head # 0 /\ size * 100 < s.head * ratio
            level == IF apart THEN (IF s.level < 3 THEN s.level + 1 ELSE 3) ELSE s.level
        IN  [head |-> IF apart \/ s.head = 0 THEN size ELSE s.head,
             level |-> level,
             of |-> [n \in DOMAIN s.of \cup {size} |-> IF n = size THEN level ELSE s.of[n]]]
  IN  FoldLeft(Step, [head |-> 0, level |-> 1, of |-> [n \in {} |-> 0]], Descending(sizes)).of

HeadlineSizes(page) == {page[i].size : i \in {k \in DOMAIN page : Headline(page, page[k])}}

(* _page_from_lines: consecutive lines of one block of the PDF are a paragraph. *)
Printed(page, levels) ==
  LET Step(s, i) ==
        LET kept == IF s.paragraph # <<>> /\ page[i].block # s.block THEN Flush(s) ELSE s
        IN  IF Headline(page, page[i]) THEN HeadingBlock(s, i, levels[page[i].size])
            ELSE [kept EXCEPT !.paragraph = Append(@, i), !.block = page[i].block]
      end == Flush(FoldLeft(Step, Nothing, [i \in DOMAIN page |-> i]))
  IN  Page(end.blocks, end.headings)

(* PdfParser.parse, of a page that has text. *)
Pdf(page) == Printed(page, LevelsOf(HeadlineSizes(page), 92))

-----------------------------------------------------------------------------
(* _median_height counts each block's height once for each of its characters. *)
TwiceBodyHeight(blocks) ==
  LET measured == SelectSeq(blocks, LAMBDA b : b.height > 0)
  IN  IF measured = <<>> THEN 0
      ELSE TwiceMedian(FlattenSeq([k \in DOMAIN measured |-> [c \in 1..measured[k].chars |-> measured[k].height]]))

(* layout.is_heading *)
IsTitle(blocks, b) ==
  /\ b.height > 0 /\ TwiceBodyHeight(blocks) > 0
  /\ 2 * b.height * 100 > TwiceBodyHeight(blocks) * 125
  /\ b.title

(* heading_levels and page_from_ocr *)
Scanned(blocks) ==
  LET levels == LevelsOf({b.height : b \in {x \in Range(blocks) : IsTitle(blocks, x)}}, 90)
      Step(s, i) == IF IsTitle(blocks, blocks[i]) THEN HeadingBlock(s, i, levels[blocks[i].height])
                    ELSE [s EXCEPT !.blocks = Append(@, <<i>>)]
      end == FoldLeft(Step, Nothing, [i \in DOMAIN blocks |-> i])
  IN  Page(end.blocks, end.headings)

-----------------------------------------------------------------------------
(* PdfParser.parse, page by page: the text layer is used if there is enough of it or *)
(* nothing else; a page whose recognition fails fails the document.                  *)
NeedsOcr(page) == ~page.text /\ page.image

ParsePdf(pages) ==
  LET Step(s, page) ==
        IF s.failed \/ ~NeedsOcr(page) THEN [s EXCEPT !.of = Append(@, "text")]
        ELSE IF s.tried >= MaxOcr THEN [s EXCEPT !.failed = TRUE]
        ELSE [failed |-> ~page.readable, tried |-> s.tried + 1, of |-> Append(s.of, "ocr")]
  IN  IF Len(pages) > MaxPages THEN [failed |-> TRUE, tried |-> 0, of |-> <<>>]
      ELSE FoldLeft(Step, [failed |-> FALSE, tried |-> 0, of |-> <<>>], pages)

(* ImageParser.parse counts the frames before it recognises any. *)
ParseImage(frames) ==
  LET Step(s, frame) ==
        IF s.failed THEN s
        ELSE [failed |-> ~frame.readable, tried |-> s.tried + 1, of |-> Append(s.of, "ocr")]
  IN  IF Len(frames) > MaxOcr THEN [failed |-> TRUE, tried |-> 0, of |-> <<>>]
      ELSE FoldLeft(Step, [failed |-> FALSE, tried |-> 0, of |-> <<>>], frames)

-----------------------------------------------------------------------------
(* The line by which a section says who may read it (ingestion/access.py).  A   *)
(* block is a sequence of words: "access" begins a marker, "nur" and "only" stand  *)
(* around the group, "stop" ends it (. : ; or a dash), "line" is a new line; groups *)
(* are of one word, some of them known.                                             *)
Word == Known \cup Unknown \cup {"access", "nur", "only", "stop", "line"}

(* Where a group begins: new lines count as spaces there. *)
NextWord(block, i) == Min({n \in i..Len(block) : block[n] # "line"} \cup {Len(block) + 1})

Begin(block) ==
  LET i == NextWord(block, 2)
  IN  IF i < Len(block) /\ block[i] = "nur" THEN NextWord(block, i + 1) ELSE i

(* What follows a group: "only" at most once, then nothing or a stop; spaces and a *)
(* new line may come in between.                                                  *)
Rest(block, i) ==
  LET past == IF i + 1 <= Len(block) /\ block[i + 1] = "only" THEN i + 1 ELSE i
      next == NextWord(block, past + 1)
  IN  IF next = Len(block) + 1 THEN "none" ELSE IF block[next] = "stop" THEN "more" ELSE "other"

(* Where it may end: the first of them counts. *)
Ends(block) ==
  {i \in Begin(block) .. Len(block) :
     /\ i - Begin(block) < MaxGroup
     /\ \A n \in Begin(block)..i : block[n] \notin {"line", "stop"}
     /\ Rest(block, i) # "other"}

LabelOf(group) == IF Len(group) = 1 /\ group[1] \in Known THEN group[1] ELSE None

(* An unknown group fails closed, if the marker is the whole block. *)
Applied(block, group, more) ==
  IF LabelOf(group) # None THEN LabelOf(group)
  ELSE IF ~more /\ "line" \notin Range(block) /\ Len(block) <= MaxMarker THEN Leadership ELSE None

(* parse_access_marker: the label, or None of a block that is no marker. *)
ParseMarker(block) ==
  IF Len(block) < 2 \/ block[1] # "access" \/ Ends(block) = {} THEN None
  ELSE LET end == Min(Ends(block))
       IN  Applied(block, SubSeq(block, Begin(block), end), Rest(block, end) = "more")

-----------------------------------------------------------------------------
(* What parsers promise to the chunker. *)

Said(page) == FlattenSeq(page.blocks)

(* Nothing is lost and nothing changes its place; a heading is a block of its own.    *)
ReadingOrder(page, kept) ==
  /\ Said(page) = SetToSortSeq(kept, <)
  /\ \A k \in DOMAIN page.headings : <<page.headings[k].at>> \in Range(page.blocks)
  /\ \A k \in 2..Len(page.headings) : page.headings[k - 1].at < page.headings[k].at

\* The lines of fences that are open before line i.
Fenced(lines, i) == Cardinality({k \in 1..(i - 1) : lines[k].kind = "fence"}) % 2 = 1

(* Of Markdown, every line that is not empty, and the hashes that no fence encloses; a *)
(* marker between empty lines stands alone.                                            *)
MarkdownHolds(lines) ==
  LET page == Markdown(lines)
  IN  /\ ReadingOrder(page, {i \in DOMAIN lines : lines[i].kind # "blank" \/ Fenced(lines, i)})
      /\ {page.headings[k].at : k \in DOMAIN page.headings}
           = {i \in DOMAIN lines : lines[i].kind = "heading" /\ ~Fenced(lines, i)}
      /\ \A i \in 2..(Len(lines) - 1) :
           lines[i].kind = "text" /\ ~Fenced(lines, i)
           /\ lines[i - 1].kind \in {"blank", "heading"} /\ lines[i + 1].kind \in {"blank", "heading"} =>
             <<i>> \in Range(page.blocks)

(* Headings of very different sizes differ in their levels, the larger above. *)
LevelsOrdered(sizes, ratio) ==
  LET level == LevelsOf(sizes, ratio)
  IN  \A a, b \in sizes :
        /\ level[a] \in 1..3
        /\ a > b => level[a] <= level[b]
        /\ b * 100 < a * ratio => level[a] < level[b] \/ level[b] = 3
        /\ level[a] < level[b] => \E c \in sizes : c >= a /\ b * 100 < c * ratio

PdfHolds(page) ==
  /\ ReadingOrder(Pdf(page), DOMAIN page)
  /\ LevelsOrdered({page[i].size : i \in DOMAIN page}, 92)

(* What makes up more than half of a scan's text is never taken for its headings. *)
ScanHolds(blocks) ==
  LET page == Scanned(blocks)
      chars == [i \in DOMAIN blocks |-> blocks[i].chars]
      titles == {page.headings[k].at : k \in DOMAIN page.headings}
      measured == {i \in DOMAIN blocks : blocks[i].height > 0}
  IN  /\ ReadingOrder(page, DOMAIN blocks)
      /\ 2 * Total(chars, titles) <= Total(chars, measured)

(* However many pages are scans, no more are recognised than may be, none before the *)
(* document is known to be refused as an image, and a page keeps its number.         *)
OcrBounded(pages) ==
  LET pdf == ParsePdf(pages)
      image == ParseImage(pages)
  IN  /\ pdf.tried <= MaxOcr /\ image.tried <= MaxOcr
      /\ ~pdf.failed => /\ Len(pdf.of) = Len(pages)
                        /\ \A i \in DOMAIN pages : pdf.of[i] = "ocr" <=> NeedsOcr(pages[i])

(* What a line says: the group without the words around it. *)
Stated(line) ==
  LET group == IF Len(line) > 2 /\ line[2] = "nur" THEN Tail(Tail(line)) ELSE Tail(line)
  IN  IF Len(group) > 1 /\ Last(group) = "only" THEN Front(group) ELSE group

Before(block, word) == SubSeq(block, 1, Min({n \in DOMAIN block : block[n] = word}) - 1)

(* A line that is a marker and nothing else labels its section with its group's label, or *)
(* with the closed one if it has none.  "A typo must never open a section up" goes no      *)
(* further: of a line that goes on after a stop, the group before the stop decides,        *)
(* whatever follows it ("Access: all - except HR" opens the section), and if that is       *)
(* unknown the line labels nothing ("Access: H.R. only" leaves the section as it was).     *)
(* What goes on in a second line labels with a known group that it names, or nothing.      *)
MarkersHold(block) ==
  LET label == ParseMarker(block)
      words == Range(block)
  IN  /\ {"line", "stop"} \cap words = {} /\ Len(block) \in 2..MaxGroup =>
           label = IF LabelOf(Stated(block)) # None THEN LabelOf(Stated(block)) ELSE Leadership
      /\ "stop" \in words /\ "line" \notin words =>
           label = LabelOf(Stated(Before(block, "stop")))
      /\ "line" \in words /\ label # None => label \in words \cap Known
=============================================================================

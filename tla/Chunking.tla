----------------------------- MODULE Chunking -----------------------------
(* How a parsed document becomes chunks (ingestion/chunking.py): its blocks are *)
(* gathered in sections by the headings, access markers label the sections, small *)
(* sections are merged and large ones cut in windows of sentences.  A block is    *)
(* what the rules tell apart of it: its text, the level it is a heading of (0: it *)
(* is none), the label that it declares, and the tokens of its sentences or rows.  *)
EXTENDS Integers, Sequences, SequencesExt, FiniteSetsExt

CONSTANTS
  All,      \* the label of what everybody may read
  None,     \* no marker, and no heading
  Target,   \* chunk_target_tokens
  Overlap,  \* chunk_overlap_tokens
  Cap       \* chunk_max_tokens

SumOf(sizes) == FoldLeft(LAMBDA a, b : a + b, 0, sizes)
Tokens(units) == FoldLeft(LAMBDA a, u : a + u.size, 0, units)

-----------------------------------------------------------------------------
(* The headings of a page, which the parser lists in their order. *)
Headings(blocks) == SelectSeq(blocks, LAMBDA b : b.level > 0)

Parents(stack, level) == SelectSeq(stack, LAMBDA h : h.level < level)

Close(s) ==
  IF s.current = <<>> THEN s
  ELSE [s EXCEPT !.sections = Append(@, [blocks |-> s.current, label |-> s.label]),
                 !.current = <<>>]

(* A block that reads like the next heading opens a section, with the label of its parent. *)
OpenSection(s, i, h) ==
  LET parents == Parents(s.stack, h.level)
      label == IF parents = <<>> THEN s.doc ELSE Last(parents).label
  IN  [Close(s) EXCEPT !.pending = Tail(@), !.current = <<i>>, !.label = label, !.after = TRUE,
                       !.stack = Append(parents, [level |-> h.level, label |-> label])]

(* A marker counts right after a heading, and anywhere before the first. *)
MayLabel(s) == s.after \/ s.stack = <<>>

Labelled(s, label) ==
  IF s.stack = <<>> THEN [s EXCEPT !.doc = label, !.label = label]
  ELSE [s EXCEPT !.stack[Len(s.stack)].label = label, !.label = label]

AddBlock(s, i, b) ==
  [IF MayLabel(s) /\ b.marker # None THEN Labelled(s, b.marker) ELSE s
     EXCEPT !.current = Append(@, i), !.after = FALSE]

(* _build_sections, over the blocks of one page. *)
BuildSections(blocks) ==
  LET Step(s, i) ==
        IF s.pending # <<>> /\ blocks[i].text = Head(s.pending).text
        THEN OpenSection(s, i, Head(s.pending)) ELSE AddBlock(s, i, blocks[i])
      start == [pending |-> Headings(blocks), stack |-> <<>>, current |-> <<>>, label |-> All,
                doc |-> All, after |-> FALSE, sections |-> <<>>]
  IN  Close(FoldLeft(Step, start, [i \in 1..Len(blocks) |-> i])).sections

-----------------------------------------------------------------------------
(* hard_split: a sentence that is too long is cut at every Cap-th token. *)
HardSplit(size) ==
  [k \in 1..((size + Cap - 1) \div Cap) |-> IF k * Cap <= size THEN Cap ELSE size % Cap]

FitsTable(header, rows) == header + SumOf(rows) <= Cap

Ended(done, last) == IF last = <<>> THEN done ELSE Append(done, last)

PieceSizes(header, pieces) == [k \in DOMAIN pieces |-> header + SumOf(pieces[k])]

(* _split_table: by rows, with the header in front of every piece. *)
SplitTable(b) ==
  LET Step(s, row) ==
        IF s.bucket # <<>> /\ ~FitsTable(b.header, Append(s.bucket, row))
        THEN [pieces |-> Append(s.pieces, s.bucket), bucket |-> <<row>>]
        ELSE [s EXCEPT !.bucket = Append(@, row)]
      end == FoldLeft(Step, [pieces |-> <<>>, bucket |-> <<>>], b.sizes)
  IN  PieceSizes(b.header, Ended(end.pieces, end.bucket))

BlockTokens(b) == b.header + SumOf(b.sizes)

(* _sentence_units: tables stay whole while they fit, text is cut in sentences. *)
UnitSizes(b) ==
  IF b.table THEN IF BlockTokens(b) > Cap /\ b.sizes # <<>> THEN SplitTable(b) ELSE <<BlockTokens(b)>>
  ELSE FlattenSeq([k \in DOMAIN b.sizes |->
         IF b.sizes[k] > Cap THEN HardSplit(b.sizes[k]) ELSE <<b.sizes[k]>>])

Units(block, sizes) == [n \in DOMAIN sizes |-> [block |-> block, size |-> sizes[n]]]

UnitsOf(blocks, section) ==
  FlattenSeq([k \in DOMAIN section |-> Units(section[k], UnitSizes(blocks[section[k]]))])

(* The overlap is dropped when it cannot stand beside the next unit. *)
TailBeside(tail, unit) == IF Tokens(tail) + unit.size > Cap THEN <<>> ELSE tail

(* _overlap_tail: the last units that make Overlap tokens, in half of the window. *)
OverlapTail(window) ==
  LET n == Len(window)
      half == n \div 2 + 1
  IN  SubSeq(window, Max({half} \cup {k \in half..(n + 1) : Tokens(SubSeq(window, k, n)) >= Overlap}), n)

FitsWindow(window, u) == Tokens(window) + u.size <= Target

(* _windows: each unit joins the window, or closes it and opens the next. *)
Windows(units) ==
  LET Step(s, u) ==
        IF s.window = <<>> \/ FitsWindow(s.window, u)
        THEN [s EXCEPT !.window = Append(@, u)]
        ELSE [done |-> Append(s.done, s.window),
              window |-> Append(TailBeside(OverlapTail(s.window), u), u)]
      end == FoldLeft(Step, [done |-> <<>>, window |-> <<>>], units)
  IN  Ended(end.done, end.window)

-----------------------------------------------------------------------------
WholeBlocks(blocks, section) ==
  [k \in DOMAIN section |-> [block |-> section[k], size |-> BlockTokens(blocks[section[k]])]]

Chunk(units, label) == [units |-> units, label |-> label]

(* Mutant: small sections are merged while they fit, whoever may read them. *)
JoinsAny(buffer, section, tokens) == Tokens(buffer.units) + tokens <= Target

(* A section joins those before it if it has their label and all of them are small. *)
Joins(buffer, section, tokens) ==
  buffer.label = section.label /\ Tokens(buffer.units) + tokens <= Target

Flushed(s) == IF s.buffer.units = <<>> THEN s.chunks ELSE Append(s.chunks, s.buffer)

Labelling(windows, label) == [k \in DOMAIN windows |-> Chunk(windows[k], label)]

AddSection(s, blocks, section, units) ==
  IF Tokens(units) > Target
  THEN [buffer |-> Chunk(<<>>, All),
        chunks |-> Flushed(s) \o Labelling(Windows(UnitsOf(blocks, section.blocks)), section.label)]
  ELSE IF s.buffer.units = <<>>
  THEN [s EXCEPT !.buffer = Chunk(units, section.label)]
  ELSE IF Joins(s.buffer, section, Tokens(units))
  THEN [s EXCEPT !.buffer.units = @ \o units]
  ELSE [buffer |-> Chunk(units, section.label), chunks |-> Flushed(s)]

(* chunk_document *)
ChunkDocument(blocks) ==
  LET Step(s, section) == AddSection(s, blocks, section, WholeBlocks(blocks, section.blocks))
  IN  Flushed(FoldLeft(Step, [buffer |-> Chunk(<<>>, All), chunks |-> <<>>], BuildSections(blocks)))

-----------------------------------------------------------------------------
(* What the modules promise of a document, whatever became of it on the way. *)

(* The heading that block i stands under, by the levels alone; 0: it stands before the first. *)
HeadingOf(blocks, i) == Max({0} \cup {h \in 1..i : blocks[h].level > 0})

ParentOf(blocks, h) ==
  Max({0} \cup {g \in 1..(h - 1) : blocks[g].level \in 1..(blocks[h].level - 1)})

(* The label that the documentation gives the section of a heading. *)
LabelUnder(blocks) ==
  LET before == {i \in DOMAIN blocks : HeadingOf(blocks, i) = 0 /\ blocks[i].marker # None}
      under[h \in 0..Len(blocks)] ==
        IF h = 0 THEN IF before = {} THEN All ELSE blocks[Max(before)].marker
        ELSE IF blocks[h].level = 0 THEN None
        ELSE IF h < Len(blocks) /\ blocks[h + 1].level = 0 /\ blocks[h + 1].marker # None
        THEN blocks[h + 1].marker ELSE under[ParentOf(blocks, h)]
  IN  under

(* The headings are told from the other blocks by their text. *)
Unambiguous(blocks) ==
  \A h, i \in DOMAIN blocks : blocks[h].level > 0 /\ blocks[i].text = blocks[h].text => i = h

(* Every passage carries the label that the markers give to all of its blocks: nothing *)
(* of a restricted section rides along in an open chunk.                                *)
LabelsHold(blocks) ==
  LET under == LabelUnder(blocks)
  IN  \A chunk \in Range(ChunkDocument(blocks)) : \A u \in Range(chunk.units) :
        chunk.label = under[HeadingOf(blocks, u.block)]

SaidIn(chunks, i) ==
  FoldLeft(LAMBDA a, chunk : a + SumOf([n \in DOMAIN chunk.units |->
             IF chunk.units[n].block = i THEN chunk.units[n].size ELSE 0]), 0, chunks)

(* No sentence or row is lost: of every block of a document, its passages have all tokens. *)
NothingLost(blocks) ==
  \A i \in DOMAIN blocks : SaidIn(ChunkDocument(blocks), i) >= BlockTokens(blocks[i])

(* A piece of a table that is too long for a passage is one row with the header. *)
TablesFit(blocks) ==
  \A i \in DOMAIN blocks : blocks[i].table =>
    \A size \in Range(UnitSizes(blocks[i])) :
      size <= Cap \/ \E row \in DOMAIN blocks[i].sizes : size = blocks[i].header + blocks[i].sizes[row]

(* Windows stay below the cap, unless a single unit is above it; each ends with a unit *)
(* that none had before, and repeats only the end of the one before it.                 *)
WindowsBounded(units) ==
  LET windows == Windows(units)
  IN  \A k \in DOMAIN windows :
        /\ Tokens(windows[k]) <= Cap \/ Len(windows[k]) = 1
        /\ k > 1 => /\ Last(windows[k]) \notin Range(windows[k - 1])
                    /\ Len(windows[k - 1]) > 1 => Head(windows[k - 1]) \notin Range(windows[k])
===========================================================================

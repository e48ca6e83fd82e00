------------------------------- MODULE Quotes -------------------------------
(* What the client sees of a completion, however the provider cuts it in      *)
(* deltas: the refusal sentinel at its head is intercepted (sentinel.py), the *)
(* QUOTES section at its tail is kept for the citations, the located quotes   *)
(* become spans of the cited chunk (quotes.py), and some citations are kept   *)
(* (generation/citations.py).  The text of an answer is a sequence of atoms:  *)
(* the two halves of NO_ANSWER and of the word QUOTES, a line break, and any  *)
(* other word; that of a passage one of characters, told apart as far as the  *)
(* search does.                                                               *)
EXTENDS Integers, Sequences, SequencesExt, FiniteSetsExt

CONSTANT HoldBack   \* HOLD_BACK, in atoms: longer than the marker with its line break

Sentinel == <<"no", "answer">>
Break == "line"

-----------------------------------------------------------------------------
(* str.lstrip and rstrip, of line breaks. *)
LeftStrip(text) ==
  LET words == {i \in DOMAIN text : text[i] # Break}
  IN  IF words = {} THEN <<>> ELSE SubSeq(text, Min(words), Len(text))

RightStrip(text) == SubSeq(text, 1, Max({0} \cup {i \in DOMAIN text : text[i] # Break}))

MayBecome(text) == IsPrefix(text, Sentinel)

(* SentinelBuffer.feed: nothing is released while the text may become the sentinel. *)
SentinelFeed(s, delta) ==
  LET buffer == s.buffer \o delta
      stripped == LeftStrip(buffer)
  IN  IF s.decided THEN [s EXCEPT !.out = IF s.refused THEN <<>> ELSE delta]
      ELSE IF IsPrefix(Sentinel, stripped)
      THEN [decided |-> TRUE, refused |-> TRUE, buffer |-> buffer, out |-> <<>>]
      ELSE IF MayBecome(stripped)
      THEN [s EXCEPT !.buffer = buffer, !.out = <<>>]
      ELSE [decided |-> TRUE, refused |-> FALSE, buffer |-> <<>>, out |-> buffer]

SentinelFlush(s) ==
  IF s.decided THEN [s EXCEPT !.out = <<>>]
  ELSE [s EXCEPT !.decided = TRUE, !.buffer = <<>>, !.out = s.buffer]

-----------------------------------------------------------------------------
(* MARKER_RE.search: the word alone between a line's beginning and its end.  The    *)
(* buffer's own ends count as such: the pattern's ^ and $ know of nothing else.     *)
IsMarker(text, i) ==
  /\ i + 1 <= Len(text) /\ text[i] = "quo" /\ text[i + 1] = "tes"
  /\ i = 1 \/ text[i - 1] = Break
  /\ i + 1 = Len(text) \/ text[i + 2] = Break

Markers(text) == {i \in DOMAIN text : IsMarker(text, i)}

(* The head before the marker's own line break, and the section after it. *)
Collect(s, pending, i) ==
  [pending |-> <<>>, collecting |-> TRUE, section |-> SubSeq(pending, i + 2, Len(pending)),
   out |-> RightStrip(SubSeq(pending, 1, i - 1))]

(* Mutant: what has no marker in it yet is released. *)
HeldNothing(pending) == 0

Held(pending) == Min({HoldBack, Len(pending)})

(* QuoteSplitter.feed *)
SplitterFeed(s, delta) ==
  LET pending == s.pending \o delta
      released == Len(pending) - Held(pending)
  IN  IF s.collecting THEN [s EXCEPT !.section = @ \o delta, !.out = <<>>]
      ELSE IF Markers(pending) # {} THEN Collect(s, pending, Min(Markers(pending)))
      ELSE [s EXCEPT !.pending = SubSeq(pending, released + 1, Len(pending)),
                     !.out = SubSeq(pending, 1, released)]

SplitterFlush(s) ==
  IF s.collecting THEN [s EXCEPT !.out = <<>>]
  ELSE IF Markers(s.pending) # {} THEN Collect(s, s.pending, Min(Markers(s.pending)))
  ELSE [s EXCEPT !.pending = <<>>, !.out = s.pending]

(* The loop of run_query over the deltas of one attempt, and its tail. *)
Stream(deltas) ==
  LET Step(s, delta) ==
        LET sentinel == SentinelFeed(s.sentinel, delta)
            splitter == SplitterFeed(s.splitter, sentinel.out)
        IN  [sentinel |-> sentinel, splitter |-> splitter, shown |-> s.shown \o splitter.out]
      fed == FoldLeft(Step,
               [sentinel |-> [decided |-> FALSE, refused |-> FALSE, buffer |-> <<>>, out |-> <<>>],
                splitter |-> [pending |-> <<>>, collecting |-> FALSE, section |-> <<>>, out |-> <<>>],
                shown |-> <<>>], deltas)
      sentinel == SentinelFlush(fed.sentinel)
      last == SplitterFeed(fed.splitter, sentinel.out)
      flushed == SplitterFlush(last)
  IN  [refused |-> sentinel.refused, section |-> flushed.section,
       shown |-> fed.shown \o last.out \o flushed.out]

-----------------------------------------------------------------------------
(* The spans of the quotes located in one chunk: pairs of a first and a last offset, *)
(* and how each was found, the surest first.                                          *)
Methods == <<"exact", "normalized", "fuzzy">>

Extend(last, span) == [last EXCEPT !.stop = Max({last.stop, span.stop})]

(* _merge: spans that overlap or touch become one. *)
Merge(spans) ==
  LET Earlier(s, t) == s.start < t.start \/ (s.start = t.start /\ s.stop < t.stop)
      Step(merged, span) ==
        IF merged # <<>> /\ span.start <= Last(merged).stop + 1
        THEN Append(Front(merged), Extend(Last(merged), span))
        ELSE Append(merged, [start |-> span.start, stop |-> span.stop])
  IN  FoldLeft(Step, <<>>, SortSeq(spans, Earlier))

WorstOf(ranks) == Max(ranks)

(* resolve_quotes, of one block whose quotes were located. *)
Resolve(located) ==
  LET merged == Merge(located)
      Within(m) == {i \in DOMAIN located : located[i].start < m.stop /\ located[i].stop > m.start}
  IN  [k \in DOMAIN merged |->
         [start |-> merged[k].start, stop |-> merged[k].stop,
          method |-> WorstOf({located[i].method : i \in Within(merged[k])})]]

-----------------------------------------------------------------------------
Text(deltas) == FlattenSeq(deltas)

(* The line that is only the word QUOTES, in the whole text; 0: there is none. *)
MarkerLine(text) == IF Markers(text) = {} THEN 0 ELSE Min(Markers(text))

AnswerOf(text) ==
  IF MarkerLine(text) = 0 THEN text ELSE SubSeq(text, 1, MarkerLine(text) - 1)

Refused(text) == IsPrefix(Sentinel, LeftStrip(text))

(* A completion is refused exactly when it begins with the sentinel, and then nothing   *)
(* of it is shown, however it is cut ("We must not leak it to the client as a delta").  *)
SentinelHolds(deltas) ==
  LET stream == Stream(deltas) IN
    /\ stream.refused <=> Refused(Text(deltas))
    /\ stream.refused => stream.shown = <<>>

(* What is shown is the text before the first line that is only the word QUOTES: the    *)
(* section never shows, and nothing of the answer is lost.                               *)
AnswerShown(deltas) ==
  Refused(Text(deltas)) \/ RightStrip(Stream(deltas).shown) = RightStrip(AnswerOf(Text(deltas)))

(* A line of the answer begins or ends with the word only where it is the marker. *)
PlainProse(text) ==
  \A i \in 1..(Len(AnswerOf(text)) - 1) :
    text[i] = "quo" /\ text[i + 1] = "tes" =>
      /\ i > 1 /\ text[i - 1] # Break
      /\ i + 1 < Len(text) /\ text[i + 2] # Break

(* The same of such answers, which use the word inside a line if at all. *)
AnswerShownInPlainProse(deltas) == PlainProse(Text(deltas)) => AnswerShown(deltas)

(* The spans of a block are apart and in order, cover what was located and at most one  *)
(* character between two quotes beside it, and claim no more certainty than the quotes   *)
(* they cover have.                                                                       *)
SpansHold(located) ==
  LET spans == Resolve(located)
      Covered(s) == s.start..(s.stop - 1)
  IN  /\ \A j, k \in DOMAIN spans : j < k => spans[j].stop + 1 < spans[k].start
      /\ \A i \in DOMAIN located : \E k \in DOMAIN spans :
           Covered(located[i]) \subseteq Covered(spans[k]) /\ located[i].method <= spans[k].method
      /\ \A k \in DOMAIN spans : \A c \in Covered(spans[k]) :
           \E i \in DOMAIN located : {c, c - 1, c + 1} \cap Covered(located[i]) # {}

-----------------------------------------------------------------------------
(* Characters: a letter in two cases, the sharp s, whitespace, a mark of emphasis. *)
Spaces == {"space", "newline"}
Emphasis == {"star"}
Casefold(c) == CASE c = "S" -> <<"s">> [] c = "sharp" -> <<"s", "s">>
                 [] c \in Spaces -> <<"space">> [] OTHER -> <<c>>

(* The characters that _normalise keeps: of a run of whitespace the first.  Emphasis *)
(* in between does not end the run.                                                   *)
KeptAt(text) ==
  LET plain == {i \in DOMAIN text : text[i] \notin Emphasis}
      Previous(i) == {j \in plain : j < i}
  IN  {i \in plain : text[i] \in Spaces /\ Previous(i) # {} => text[Max(Previous(i))] \notin Spaces}

(* index: where in the text each kept character stands; the text may be longer. *)
IndexOf(text) == SetToSortSeq(KeptAt(text), <)
Normalise(text) == FlattenSeq([k \in DOMAIN IndexOf(text) |-> Casefold(text[IndexOf(text)[k]])])

Strip(text) ==
  LET ink == {i \in DOMAIN text : text[i] \notin Spaces}
  IN  IF ink = {} THEN <<>> ELSE SubSeq(text, Min(ink), Max(ink))

(* str.find, 0 for -1 *)
Find(part, text) ==
  LET at == {i \in 1 .. Len(text) - Len(part) + 1 : SubSeq(text, i, i + Len(part) - 1) = part}
  IN  IF at = {} THEN 0 ELSE Min(at)

(* The span of the text that an offset and a length in the normalised text stand for; *)
(* an offset that has no index raises.                                                 *)
Span(text, at, length) ==
  LET index == IndexOf(text)
  IN  IF at + length - 1 \in DOMAIN index
      THEN [start |-> index[at], stop |-> index[at + length - 1] + 1] ELSE [start |-> 0, stop |-> 0]

(* _locate: exact, then normalised, then fuzzy, which takes some window that resembles *)
(* the quote, or none.  The possible results; <<>> is none.                            *)
Locate(quote, text) ==
  LET stripped == Strip(quote)
      norm == Normalise(text)
      normQuote == Strip(Normalise(stripped))
      exact == Find(stripped, text)
      normalised == Find(normQuote, norm)
      windows == {w \in (DOMAIN norm) \X (DOMAIN norm) : w[1] <= w[2]}
  IN  IF stripped = <<>> \/ text = <<>> THEN {<<>>}
      ELSE IF exact # 0 THEN {<<[start |-> exact, stop |-> exact + Len(stripped)]>>}
      ELSE IF normQuote = <<>> THEN {<<>>}
      ELSE IF normalised # 0 THEN {<<Span(text, normalised, Len(normQuote))>>}
      ELSE {<<>>} \cup {<<Span(text, w[1], w[2] - w[1] + 1)>> : w \in windows}

-----------------------------------------------------------------------------
(* fallback_spans: of the scores of a passage's sentences, which are taken.  Of equal *)
(* ones the last is the best.                                                          *)
BestSentence(scores) == Max({i \in DOMAIN scores : \A j \in DOMAIN scores : scores[j] <= scores[i]})

FallbackSentences(scores) ==
  IF scores = <<>> \/ (\A i \in DOMAIN scores : scores[i] = 0) THEN {}
  ELSE LET best == BestSentence(scores)
       IN  {best} \cup {i \in DOMAIN scores \cap {best - 1, best + 1} : 10 * scores[i] >= 6 * scores[best]}

-----------------------------------------------------------------------------
(* An answer's characters: brackets, digits and others.  Blocks have numbers, each a *)
(* sequence of digits.                                                                *)
Digits == {"1", "9"}

(* The markers of an answer, from the left: where each begins and ends. *)
IsCitation(text, i, j) ==
  /\ text[i] = "[" /\ text[j] = "]" /\ i + 1 < j
  /\ \A k \in i + 1 .. j - 1 : text[k] \in Digits
Citations(text) ==
  {s \in (DOMAIN text) \X (DOMAIN text) : s[1] < s[2] /\ IsCitation(text, s[1], s[2])}
NumberAt(text, s) == SubSeq(text, s[1] + 1, s[2] - 1)
InOrder(spans) == SetToSortSeq(spans, LAMBDA s, t : s[1] < t[1])

Cited(text, blocks) ==
  LET known == InOrder({s \in Citations(text) : NumberAt(text, s) \in blocks})
  IN  FoldLeft(LAMBDA seen, s : IF NumberAt(text, s) \in Range(seen) THEN seen
                                ELSE Append(seen, NumberAt(text, s)), <<>>, known)

(* finalize_answer: what names no block is removed, and the others are the citations. *)
Finalize(text, blocks) ==
  LET removed == UNION {s[1]..s[2] : s \in {t \in Citations(text) : NumberAt(text, t) \notin blocks}}
      kept == SetToSortSeq((DOMAIN text) \ removed, <)
  IN  [answer |-> [k \in DOMAIN kept |-> text[kept[k]]], used |-> Cited(text, blocks)]

-----------------------------------------------------------------------------
(* "offset in text of the character that produced": what is located of a quote that the  *)
(* normalised text holds lies within the text and holds the quote.                         *)
Within(span, text) == 1 <= span.start /\ span.start < span.stop /\ span.stop <= Len(text) + 1
Located(span, text) == Strip(Normalise(SubSeq(text, span.start, span.stop - 1)))

LocatedIn(quote, text) ==
  LET wanted == Strip(Normalise(Strip(quote)))
  IN  \A found \in Locate(quote, text) : found # <<>> /\ Find(wanted, Normalise(text)) # 0 =>
        Within(found[1], text) /\ Find(wanted, Located(found[1], text)) # 0

(* Where no letter folds into two it is the quote, in all but case, whitespace and        *)
(* emphasis, and what only resembles the quote lies within the text too.                   *)
LocatedInPlainText(quote, text) ==
  LET wanted == Strip(Normalise(Strip(quote)))
  IN  "sharp" \notin Range(text) =>
        \A found \in Locate(quote, text) : found # <<>> =>
          /\ Within(found[1], text)
          /\ Find(wanted, Normalise(text)) # 0 => Located(found[1], text) = wanted

(* The sentences taken for want of a quote are neighbours of the best, if there is any. *)
FallbackHolds(scores) ==
  LET taken == FallbackSentences(scores)
  IN  /\ taken = {} <=> \A i \in DOMAIN scores : scores[i] = 0
      /\ taken # {} => /\ \A i \in DOMAIN scores : \E j \in taken : scores[j] >= scores[i]
                       /\ Max(taken) - Min(taken) <= 2
                       /\ \A i \in taken : scores[i] > 0

(* Of a text without brackets in brackets, the cleaned answer cites exactly the blocks *)
(* whose citations are sent with it, and every marker that is left names one.           *)
CitationsAgree(text, blocks) ==
  LET final == Finalize(text, blocks)
      Plain(seq) == \A i \in DOMAIN seq : seq[i] = "[" =>
                      \E s \in Citations(seq) : s[1] = i
  IN  Plain(text) =>
        /\ Cited(final.answer, blocks) = final.used
        /\ \A s \in Citations(final.answer) : NumberAt(final.answer, s) \in blocks
=============================================================================

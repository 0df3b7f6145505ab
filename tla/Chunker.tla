------------------------------- MODULE Chunker -------------------------------
(***************************************************************************)
(* From parsed elements to chunks: the heading-bounded chunker of the      *)
(* Docling path (app/ingestion/chunker.py) and the paragraph chunker of    *)
(* the other file types (app/ingestion/chunking.py), as run_pipeline calls *)
(* them.  The loop over the elements is the state machine; what it makes   *)
(* of one run of text, or of one table, is a function.                     *)
(*                                                                         *)
(* Python's slices, lengths and overlaps act on the places of Parser as    *)
(* they do on characters in the code.                                      *)
(***************************************************************************)
EXTENDS Parser

CONSTANTS
    Sources,                \* the files that are ingested
    MinTokens, MaxTokens,   \* settings.chunk_min_tokens, chunk_max_tokens
    OverlapPercent,         \* 100 * settings.chunk_overlap_ratio
    RowThreshold,           \* settings.table_row_serialize_threshold
    TargetChars,            \* settings.chunk_target_chars, of the other path
    OverlapChars,           \* settings.chunk_overlap_chars, of the other path
    SummaryChars,           \* length of the summary line of a table
    HintChars               \* _CAPTION_HINT_MAX

ASSUME ChunkerAssumption ==
    /\ {MinTokens, MaxTokens, RowThreshold, TargetChars, SummaryChars, HintChars} \subseteq Nat \ {0}
    /\ OverlapChars \in 0..(TargetChars - 1) /\ OverlapPercent \in 0..99
    /\ \A file \in Sources : IsFile(file)

VARIABLES
    doc,                    \* the elements of the file
    next,                   \* the element the loop is at
    run,                    \* the text elements collected for the current window
    lastText,               \* the text element directly above; 0: none
    chunks                  \* what was emitted

chunkVars == <<source, doc, next, run, lastText, chunks>>

\* _CHARS_PER_TOKEN is 3.8; the estimate never falls on a half.
Chars(tokens) == (38 * tokens) \div 10
EstimateTokens(chars) == LET n == (10 * chars + 19) \div 38 IN IF n = 0 THEN 1 ELSE n
Percent(n) == (n * OverlapPercent) \div 100

Least(a, b) == IF a < b THEN a ELSE b
Most(a, b) == IF a < b THEN b ELSE a

\* Texts joined by line breaks, of which two make a blank line.
Joined(a, b) == IF a = <<>> THEN b ELSE a \o <<0, 0>> \o b
JoinedLine(a, b) == IF a = <<>> THEN b ELSE a \o <<0>> \o b
InOneText(paragraphs) ==
    LET text[n \in 0..Len(paragraphs)] ==
            IF n = 0 THEN <<>> ELSE Joined(text[n - 1], paragraphs[n])
    IN text[Len(paragraphs)]
InOneParagraph(lines) ==
    LET text[n \in 0..Len(lines)] ==
            IF n = 0 THEN <<>> ELSE JoinedLine(text[n - 1], lines[n])
    IN text[Len(lines)]

TotalOf(numbers) ==
    LET total[n \in 0..Len(numbers)] == IF n = 0 THEN 0 ELSE total[n - 1] + numbers[n]
    IN total[Len(numbers)]

\* Lines that no blank line separates are one paragraph.
Paragraphs(e) ==
    IF doc[e].spaced \/ doc[e].text = <<>> THEN doc[e].text
    ELSE <<InOneParagraph(doc[e].text)>>
LastChars(text, n) == SubSeq(text, Most(1, Len(text) - n + 1), Len(text))
Content(e) == InOneText(Paragraphs(e))

-----------------------------------------------------------------------------
(* One run of text.                                                        *)

MaxChars == Chars(MaxTokens)
MinChars == Chars(MinTokens)
WindowOverlap == Percent(MaxChars)

\* Windows of `size`, `step` apart, until at most `rest` characters are left.
Windows(text, size, step, rest) ==
    LET cuts == IF Len(text) > rest THEN (Len(text) - rest + step - 1) \div step ELSE 0
    IN [i \in 1..(cuts + 1) |->
          SubSeq(text, (i - 1) * step + 1,
                 IF i <= cuts THEN (i - 1) * step + size ELSE Len(text))]

\* A paragraph longer than a window is split into overlapping ones.
Units(paragraphs) ==
    FlattenSeq([k \in 1..Len(paragraphs) |->
        Windows(paragraphs[k], MaxChars, MaxChars - WindowOverlap, MaxChars)])

\* Fill the buffer; when it is full emit it and begin the next with its tail.
Pack(acc, unit) ==
    IF acc.buf # <<>> /\ Len(Joined(acc.buf, unit)) > MaxChars
    THEN [done |-> Append(acc.done, acc.buf),
          buf |-> Joined(LastChars(acc.buf, WindowOverlap), unit)]
    ELSE [acc EXCEPT !.buf = Joined(@, unit)]

PackAll(units) ==
    LET acc[n \in 0..Len(units)] ==
            IF n = 0 THEN [done |-> <<>>, buf |-> <<>>] ELSE Pack(acc[n - 1], units[n])
    IN acc[Len(units)]

\* Mutated PackParagraphs: a short tail that cannot join the window before it is dropped.
PackParagraphsDropTail(paragraphs) ==
    LET acc == PackAll(Units(paragraphs))
        n == Len(acc.done)
    IN CASE acc.buf = <<>> \/ (n > 0 /\ Len(acc.buf) < MinChars) -> acc.done
         [] OTHER -> Append(acc.done, acc.buf)

\* A short tail joins the window before it, if that does not grow too much.
PackParagraphs(paragraphs) ==
    LET acc == PackAll(Units(paragraphs))
        n == Len(acc.done)
    IN CASE acc.buf = <<>> -> acc.done
         [] acc.buf # <<>> /\ n > 0 /\ Len(acc.buf) < MinChars
                  /\ 10 * (Len(acc.done[n]) + Len(acc.buf)) < 12 * MaxChars
              -> [acc.done EXCEPT ![n] = Joined(@, acc.buf)]
         [] OTHER -> Append(acc.done, acc.buf)

\* The page of a piece: that of the last element beginning at or before an estimate
\* of how much of the run the pieces before it have consumed.
ConsumedBefore(pieces, i) ==
    TotalOf([n \in 1..(i - 1) |-> Most(1, Len(pieces[n]) - Percent(Len(pieces[n])))])
BeginsAt(elements, j) ==
    TotalOf([n \in 1..(j - 1) |-> Len(Content(elements[n])) + 2])
PageFor(elements, consumed) ==
    elements[CHOOSE j \in 1..Len(elements) :
        /\ BeginsAt(elements, j) <= consumed
        /\ \A k \in (j + 1)..Len(elements) : BeginsAt(elements, k) > consumed]

Chunk(kind, e, text, size) ==
    [kind |-> kind, section |-> doc[e].section, page |-> doc[e].page, of |-> e,
     text |-> text, size |-> size, rows |-> <<0, 0>>, hint |-> 0]

ChunkTextRun(elements) ==
    LET written == At(elements, {j \in 1..Len(elements) : Content(elements[j]) # <<>>})
        pieces == PackParagraphs(FlattenSeq([j \in 1..Len(written) |-> Paragraphs(written[j])]))
    IN [i \in 1..Len(pieces) |->
          [Chunk(Text, elements[1], pieces[i], Len(pieces[i]))
             EXCEPT !.page = doc[PageFor(written, ConsumedBefore(pieces, i))].page]]

-----------------------------------------------------------------------------
(* Tables and figures.                                                     *)

\* The short line directly above names a table or a figure without a caption, and a table
\* without rows in any case.
CaptionHint(e) ==
    IF /\ lastText # 0 /\ (~doc[e].captioned \/ (doc[e].kind = Table /\ doc[e].rows = <<>>))
       /\ doc[lastText].text # <<>> /\ Len(doc[lastText].text[1]) <= HintChars
    THEN lastText ELSE 0

Rows(e) == Len(doc[e].rows)
RowsLength(rows) == TotalOf([n \in 1..Len(rows) |-> rows[n] + 1])
TableSize(e) == SummaryChars + 1 + RowsLength(doc[e].rows)

\* Pack serialized rows behind the summary; acc.first is the first row in the buffer.
PackRow(e, acc, i) ==
    LET line == doc[e].rows[i]
        full == i > acc.first /\ SummaryChars + acc.used + line > MaxChars
    IN IF full THEN [done |-> Append(acc.done, <<acc.first, i - 1>>), first |-> i, used |-> line + 1]
       ELSE [acc EXCEPT !.used = @ + line + 1]

RowRanges(e) ==
    LET acc[i \in 0..Rows(e)] ==
            IF i = 0 THEN [done |-> <<>>, first |-> 1, used |-> 0] ELSE PackRow(e, acc[i - 1], i)
        all == acc[Rows(e)]
    IN Append(all.done, <<all.first, Rows(e)>>)

RowsSize(e, range) == SummaryChars + RowsLength(SubSeq(doc[e].rows, range[1], range[2]))

\* The whole table, and its rows again when it has many.
ChunkTable(e, hint) ==
    LET whole == [Chunk(Table, e, <<>>, TableSize(e)) EXCEPT !.hint = hint]
        ranges == IF Rows(e) > RowThreshold THEN RowRanges(e) ELSE <<>>
    IN <<whole>> \o [i \in 1..Len(ranges) |->
           [whole EXCEPT !.rows = ranges[i], !.size = RowsSize(e, ranges[i])]]

\* A figure passes through, behind the line that names it.
ChunkFigure(e, hint) ==
    LET line == IF hint = 0 THEN 0 ELSE Len(doc[hint].text[1]) + 2
    IN <<[Chunk(Figure, e, <<>>, line + Len(Content(e))) EXCEPT !.hint = hint]>>

\* The other path: every text element by itself, tables and figures as they are.
Split(acc, p) ==
    IF acc.buf # <<>> /\ Len(acc.buf) + Len(p) + 2 > TargetChars
    THEN [done |-> Append(acc.done, acc.buf), buf |-> Joined(LastChars(acc.buf, OverlapChars), p)]
    ELSE [acc EXCEPT !.buf = Joined(@, p)]

SplitAll(paragraphs) ==
    LET acc[n \in 0..Len(paragraphs)] ==
            IF n = 0 THEN [done |-> <<>>, buf |-> <<>>] ELSE Split(acc[n - 1], paragraphs[n])
    IN acc[Len(paragraphs)]

SplitText(e) ==
    LET acc == SplitAll(Paragraphs(e))
        whole == IF acc.buf = <<>> THEN acc.done ELSE Append(acc.done, acc.buf)
    IN FlattenSeq([i \in 1..Len(whole) |->
           Windows(whole[i], TargetChars, TargetChars - OverlapChars, (3 * TargetChars) \div 2)])

BuildChunks(e) ==
    LET pieces == SplitText(e) IN
    CASE doc[e].kind = Text -> [i \in 1..Len(pieces) |-> Chunk(Text, e, pieces[i], Len(pieces[i]))]
      [] doc[e].kind = Table -> <<Chunk(Table, e, <<>>, RowsLength(doc[e].rows))>>
      [] OTHER -> ChunkFigure(e, 0)

-----------------------------------------------------------------------------
(* The loops.                                                              *)

ChunkInit ==
    /\ source \in Sources
    /\ doc = <<>> /\ next = 1 /\ run = <<>> /\ lastText = 0 /\ chunks = <<>>

ParseFile == doc' = Denoise(Parse) /\ UNCHANGED <<source, next, run, lastText, chunks>>

AtText == Docling /\ next <= Len(doc) /\ doc[next].kind = Text
AtVisual == Docling /\ next <= Len(doc) /\ doc[next].kind # Text
Flushed == IF run = <<>> THEN chunks ELSE chunks \o ChunkTextRun(run)

\* Text of the section of the run joins it; text of another section closes it first.
AddText ==
    /\ AtText
    /\ IF run # <<>> /\ doc[next].section # doc[run[1]].section
       THEN chunks' = Flushed /\ run' = <<next>>
       ELSE run' = Append(run, next) /\ UNCHANGED chunks
    /\ lastText' = next /\ next' = next + 1
    /\ UNCHANGED <<source, doc>>

\* Mutated AddVisual: the line above stays and names the next table or figure as well.
AddVisualKeepsLine ==
    /\ AtVisual
    /\ chunks' = Flushed \o (IF doc[next].kind = Table THEN ChunkTable(next, CaptionHint(next))
                             ELSE ChunkFigure(next, CaptionHint(next)))
    /\ run' = <<>> /\ next' = next + 1
    /\ UNCHANGED <<source, doc, lastText>>

\* A table or a figure closes the run and uses up the line above it.
AddVisual ==
    /\ AtVisual
    /\ chunks' = Flushed \o (IF doc[next].kind = Table THEN ChunkTable(next, CaptionHint(next))
                             ELSE ChunkFigure(next, CaptionHint(next)))
    /\ run' = <<>> /\ lastText' = 0 /\ next' = next + 1
    /\ UNCHANGED <<source, doc>>

LastFlush ==
    /\ Docling /\ next = Len(doc) + 1
    /\ chunks' = Flushed
    /\ run' = <<>> /\ lastText' = 0 /\ next' = next + 1
    /\ UNCHANGED <<source, doc>>

\* build_chunks: no run, no hint.
AddElement ==
    /\ ~Docling /\ next <= Len(doc)
    /\ chunks' = chunks \o BuildChunks(next)
    /\ next' = next + 1
    /\ UNCHANGED <<source, doc, run, lastText>>

\* Chunking starts over with the next ingestion of the file.
Reset == next' = 1 /\ run' = <<>> /\ lastText' = 0 /\ chunks' = <<>> /\ doc' = <<>> /\ UNCHANGED source

ChunkNext == AddText \/ AddVisual \/ LastFlush \/ AddElement
Chunked == next = Len(doc) + (IF Docling THEN 2 ELSE 1)
=============================================================================

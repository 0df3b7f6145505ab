------------------------- MODULE PassagesInvariants -------------------------
(***************************************************************************)
(* What the proofs about Passages speak of: the invariants of an ingestion *)
(* and of the packing, what a file, an element and a chunk are, and what   *)
(* it means of lines, windows, elements and chunks that nothing is missing *)
(* and that they are in order.                                             *)
(***************************************************************************)
EXTENDS Passages

\* indexer.py: between _clear_existing and the next upsert nothing of the document can be
\* found, so the crops may go; they are back before its chunks are upserted, and the flag
\* of the page pass is down until that pass clears the old points.
StagesInv ==
    /\ row = "cleared" => listed = <<>>
    /\ row = "chunking" => Crops(Cropped) \subseteq objects
    /\ paged => row \in {"indexed", "deleted"}

\* The whole invariant: what MediaResolves says, and the stages it rests on.
MediaInv == StagesInv /\ MediaResolves

\* Every chunk of `held` that shows a figure has its crop in `stored`.
Resolves(held, stored) == \A c \in ToSet(held) : c.uri # 0 => <<"figure", c.uri>> \in stored

-----------------------------------------------------------------------------
(* Recursive functions: what an equation defines, and induction over it.   *)

\* N steps of F from a base, and the function that recursion over them defines.
Foldable(N, S, base, F) == N \in Nat /\ base \in S /\ F \in [1..N -> [S -> S]]

Folded(N, S, base, F) ==
    \E f \in [0..N -> S] : f[0] = base /\ \A n \in 1..N : f[n] = F[n][f[n - 1]]

-----------------------------------------------------------------------------
(* Numbers in their order, and sequences made of sequences.                *)

\* A sequence that lists a set of numbers in their order.
Lists(order, is) ==
    /\ order \in Seq(is)
    /\ \A m, n \in 1..Len(order) : m < n => order[m] < order[n]
    /\ \A i \in is : \E n \in 1..Len(order) : order[n] = i

\* Where each of the sequences begins in the one they make.
Laid(off, seqs, flat) ==
    /\ off \in [0..Len(seqs) -> Nat] /\ off[0] = 0 /\ off[Len(seqs)] = Len(flat)
    /\ \A n \in 1..Len(seqs) : off[n] = off[n - 1] + Len(seqs[n])
    /\ \A n \in 1..Len(seqs) : \A k \in 1..Len(seqs[n]) : flat[off[n - 1] + k] = seqs[n][k]
    /\ \A n \in 0..Len(seqs) : \A m \in 0..n : off[m] <= off[n]
    /\ \A p \in 1..Len(flat) : \E n \in 1..Len(seqs) : \E k \in 1..Len(seqs[n]) : p = off[n - 1] + k

\* Two sequences, one behind the other.
Behind(w, s, t) ==
    /\ Len(w) = Len(s) + Len(t) /\ Len(s) \in Nat /\ Len(t) \in Nat
    /\ \A i \in 1..(Len(s) + Len(t)) : w[i] = IF i <= Len(s) THEN s[i] ELSE t[i - Len(s)]

-----------------------------------------------------------------------------
(* Lines of places, joined: no place is lost, and those in order stay so.  *)

Line == Seq(Nat)

Marks(s) == ToSet(s) \ {0}

\* a, a gap of zeros and b.
Glued(w, a, b, gap) ==
    /\ w \in Line /\ Len(w) = Len(a) + gap + Len(b)
    /\ \A i \in 1..Len(a) : w[i] = a[i]
    /\ \A i \in 1..gap : w[Len(a) + i] = 0
    /\ \A i \in 1..Len(b) : w[Len(a) + gap + i] = b[i]

\* Places that do not fall; zeros do not count.
Ascends(s) == \A j \in 1..Len(s) : \A i \in 1..j : s[j] # 0 => s[i] <= s[j]

Before(a, b) == \A p \in Marks(a) : \A q \in Marks(b) : p <= q

MarksOf(lines) == UNION {Marks(lines[n]) : n \in 1..Len(lines)}

\* Lines in the order of their places.
InPlace(lines) ==
    /\ \A n \in 1..Len(lines) : Ascends(lines[n])
    /\ \A n \in 1..Len(lines) : \A m \in 1..(n - 1) : Before(lines[m], lines[n])

\* Part of a line.
IsSlice(w, s, a, b) ==
    /\ w \in Line /\ Len(w) = (IF a <= b THEN b - a + 1 ELSE 0)
    /\ \A i \in 1..Len(w) : w[i] = s[a + i - 1] /\ a + i - 1 \in a..b
    /\ Marks(w) \subseteq Marks(s)
    /\ Ascends(s) => Ascends(w)

-----------------------------------------------------------------------------
(* Windows of a text: together they have all of it.                        *)

\* The windows of a text and where they start.
Windowed(ws, start, text, size, step, rest) ==
    /\ ws \in Seq(Line) /\ Len(ws) \in Nat \ {0}
    /\ start \in [1..Len(ws) -> Nat] /\ start[1] = 0
    /\ \A i \in 1..(Len(ws) - 1) :
         /\ start[i + 1] = start[i] + step /\ start[i] + size <= Len(text)
         /\ IsSlice(ws[i], text, start[i] + 1, start[i] + size)
    /\ start[Len(ws)] <= Len(text) /\ Len(text) - start[Len(ws)] <= rest
    /\ Len(ws) > 1 => Len(text) - start[Len(ws)] > rest - step
    /\ IsSlice(ws[Len(ws)], text, start[Len(ws)] + 1, Len(text))

\* What a sequence of sequences has, their concatenation has, and no more.
SameMembers(flat, seqs) ==
    /\ \A p \in 1..Len(flat) : \E n \in 1..Len(seqs) : \E k \in 1..Len(seqs[n]) : flat[p] = seqs[n][k]
    /\ \A n \in 1..Len(seqs) : \A k \in 1..Len(seqs[n]) : \E p \in 1..Len(flat) : flat[p] = seqs[n][k]

-----------------------------------------------------------------------------
(* Filling a buffer: what Pack and Split hold, and how long it gets.       *)

\* The state of the packing: the windows that are done and the buffer.
Accs == [done : Seq(Line), buf : Line]

EmptyAcc == [done |-> <<>>, buf |-> <<>>]

\* What was in the buffer is a window now, and its tail begins the next; or the buffer grows.
Flushes(new, acc, unit, overlap) ==
    new.done = Append(acc.done, acc.buf) /\ new.buf = Joined(LastChars(acc.buf, overlap), unit)

Grows(new, acc, unit) == new.done = acc.done /\ new.buf = Joined(acc.buf, unit)

Within(lines, n) == \A k \in 1..Len(lines) : Len(lines[k]) <= n

\* The places in the windows that are done and in the buffer.
Held(acc) == MarksOf(acc.done) \cup Marks(acc.buf)

UnitMarks(units, n) == UNION {Marks(units[k]) : k \in 1..n}

Merged(new, lines, n, w) == new = [lines EXCEPT ![n] = Joined(@, w)]

SplitWindows(text) == Windows(text, TargetChars, TargetChars - OverlapChars, (3 * TargetChars) \div 2)

\* The texts that the packing leaves: the windows that are done and the buffer.
Whole(acc) == IF acc.buf = <<>> THEN acc.done ELSE Append(acc.done, acc.buf)

-----------------------------------------------------------------------------
(* Elements, and the parsers: everything in a file is in an element.       *)

Titles == {""} \cup {Items[i].title : i \in 1..Len(Items)}

Elements ==
    [kind: {Text, Table, Figure}, section: Titles, page: Nat \ {0}, text: Seq(Line), spaced: BOOLEAN,
     rows: Seq(Nat), captioned: BOOLEAN, cropped: BOOLEAN, item: 1..Len(Items)]

Readable == Is(Heading) \cup Is(Text)

Under(i, section) == source.type \in {"md", "docx"} => TitleAbove(i) = section

\* An element whose text is lines of the file that stand under its title.
FromFile(el) ==
    /\ el \in Elements /\ InPlace(el.text)
    /\ el.kind = Text => \A n \in 1..Len(el.text) : \E i \in Readable : \E k \in 1..Len(Lines(i)) :
                            el.text[n] = Lines(i)[k] /\ Under(i, el.section)

Made(els) == els \in Seq(Elements) /\ \A e \in 1..Len(els) : FromFile(els[e])

HasLine(el, line) == el.kind = Text /\ \E n \in 1..Len(el.text) : el.text[n] = line

IsTable(el, i) == el.kind = Table /\ el.item = i

\* The elements have all of an item.
Gives(els, i) ==
    /\ Items[i].kind = Text => \A k \in 1..Len(Lines(i)) : \E e \in 1..Len(els) : HasLine(els[e], Lines(i)[k])
    /\ Items[i].kind = Table /\ Items[i].lengths # <<>> => \E e \in 1..Len(els) : IsTable(els[e], i)

VisualOf(el, i) == \E section \in Titles : el = Visual(i, section)

\* parsers/text.py, office.py: the starts of the sections, and the title above what is in one.
Starts == InOrder({0} \cup Headings)

BodyOf(n) == {i \in Is(Text) : i > Starts[n] /\ (n < Len(Starts) => i < Starts[n + 1])}

SectionTitle(n) == IF n = 1 THEN "" ELSE Items[Starts[n]].title

\* The sections of a Markdown or DOCX file.
SectionTexts(spaced) == [n \in 1..Len(Starts) |-> OneText(InOrder(BodyOf(n)), SectionTitle(n), spaced)]

\* pdf.py: the text of a page, what is shown of it and its tables.
OnPage(is, p) == {i \in is : Items[i].page = p}

PageText(p) == OneText(InOrder(OnPage(Readable, p)), "", FALSE)

PageFigures(p) == InOrder(OnPage({i \in Is(Figure) : Items[i].cropped}, p))

PageScan(p) == InOrder(OnPage(Is(Figure), p))

PageShows(p) ==
    IF PageText(p) # <<>> THEN [n \in 1..Len(PageFigures(p)) |-> Visual(PageFigures(p)[n], "")]
    ELSE IF PageScan(p) = <<>> THEN <<>>
    ELSE <<Element(Figure, "", PageScan(p)[1], LinesOf(PageScan(p)), TRUE)>>

PageTables(p) == [n \in 1..Len(TablesOf(p)) |-> Visual(TablesOf(p)[n], "")]

\* The pages of the file.
FilePages == InOrder({Items[i].page : i \in 1..Len(Items)})

-----------------------------------------------------------------------------
(* Repeated lines: only they are removed.                                  *)

\* What the removal of repeated lines leaves of a text.
Cleaned(new, old) ==
    \E order : /\ order \in Seq(1..Len(old)) /\ \A m, n \in 1..Len(order) : m < n => order[m] < order[n]
               /\ new = [n \in 1..Len(order) |-> old[order[n]]]
               /\ \A k \in 1..Len(old) : Running(old[k]) \/ \E n \in 1..Len(order) : order[n] = k

\* An element with its text cleaned.
Denoised(new, el) ==
    /\ new \in Elements
    /\ \A field \in {"kind", "section", "page", "spaced", "rows", "captioned", "cropped", "item"} :
         new[field] = el[field]
    /\ Cleaned(new.text, el.text) /\ (el.kind # Text => new.text = el.text)

\* What the chunker is given of an item: its table, and its lines but the running ones.
Reads(els, i) ==
    /\ Items[i].kind = Text => \A k \in 1..Len(Lines(i)) :
         Running(Lines(i)[k]) \/ \E e \in 1..Len(els) : HasLine(els[e], Lines(i)[k])
    /\ Items[i].kind = Table /\ Items[i].lengths # <<>> => \E e \in 1..Len(els) : IsTable(els[e], i)

\* What the chunker is given of a file.
Read(els) == Made(els) /\ \A i \in 1..Len(Items) : Reads(els, i)

-----------------------------------------------------------------------------
(* The windows of one run of text.                                         *)

Kinds == {Text, Table, Figure}

ChunkRecs ==
    [kind: Kinds, section: Titles, page: Nat \ {0}, of: Nat \ {0}, text: Line, size: Nat, rows: Seq(Nat), hint: Nat]

\* The elements of a run that have any text, and their paragraphs.
Written(elements) == At(elements, {j \in 1..Len(elements) : Content(elements[j]) # <<>>})

RunParagraphs(elements) ==
    FlattenSeq([j \in 1..Len(Written(elements)) |-> Paragraphs(Written(elements)[j])])

RunMarks(elements) == UNION {MarksOf(doc[elements[j]].text) : j \in 1..Len(elements)}

WrittenBy(order, elements) ==
    /\ order \in Seq(1..Len(elements)) /\ Len(order) \in Nat
    /\ \A m, n \in 1..Len(order) : m < n => order[m] < order[n]
    /\ Written(elements) \in Seq(1..Len(doc)) /\ Len(Written(elements)) = Len(order)
    /\ \A n \in 1..Len(order) : Written(elements)[n] = elements[order[n]]
    /\ \A j \in 1..Len(elements) : Content(elements[j]) = <<>> \/ \E n \in 1..Len(order) : order[n] = j

\* A window of a run: it stands under the title of the run's first element and on the page of one of its elements.
Window(c, elements) ==
    /\ c \in ChunkRecs /\ c.kind = Text /\ c.section = doc[elements[1]].section /\ c.of = elements[1]
    /\ c.size <= LargestWindow /\ c.hint = 0 /\ c.rows = <<0, 0>>
    /\ Marks(c.text) \subseteq RunMarks(elements)
    /\ \E j \in 1..Len(elements) : c.page = doc[elements[j]].page

\* Chunks that are the windows of a run, in the order of their texts.
WindowsOf(made, elements, pieces) ==
    /\ made \in Seq(ChunkRecs) /\ Len(made) = Len(pieces)
    /\ \A i \in 1..Len(made) : Window(made[i], elements) /\ made[i].text = pieces[i]

OnPageOf(c, e, text, page) == c = [Chunk(Text, e, text, Len(text)) EXCEPT !.page = page]

-----------------------------------------------------------------------------
(* The ranges of the rows of a table, and what shows a table or a figure.  *)

RowAccs == [done: Seq(Seq(Nat)), first: Nat \ {0}, used: Nat]

EmptyRows == [done |-> <<>>, first |-> 1, used |-> 0]

LastRange(acc, n) == Append(acc.done, <<acc.first, n>>)

\* Ranges that follow on each other from the first row up to row n.
Tile(ranges, n) ==
    /\ ranges \in Seq(Seq(Nat)) /\ Len(ranges) \in Nat /\ n \in Nat
    /\ Len(ranges) = 0 => n = 0
    /\ Len(ranges) > 0 => ranges[1][1] = 1 /\ ranges[Len(ranges)][2] = n
    /\ \A k \in 1..Len(ranges) : /\ ranges[k][1] \in Nat /\ ranges[k][2] \in Nat /\ ranges[k][1] <= ranges[k][2]
                                 /\ ranges[k][1] > 0 /\ ranges[k][2] <= n
                                 /\ k > 1 => ranges[k][1] = ranges[k - 1][2] + 1

Stays(new, acc) == new.done = acc.done /\ new.first = acc.first

Closes(new, acc, i) == i > acc.first /\ new.done = Append(acc.done, <<acc.first, i - 1>>) /\ new.first = i

\* A chunk that shows a table or a figure.
Shows(c, e, hint) ==
    /\ c \in ChunkRecs /\ c.kind = doc[e].kind /\ c.section = doc[e].section /\ c.of = e /\ c.text = <<>> /\ c.hint = hint

\* The chunks of one table or figure: the whole of it, and then its rows in ranges.
ShownBy(made, e, hint) ==
    /\ made \in Seq(ChunkRecs) /\ Len(made) \in Nat \ {0} /\ made[1].rows[1] = 0
    /\ \A n \in 1..Len(made) : Shows(made[n], e, hint)
    /\ Docling /\ Len(doc[e].rows) > RowThreshold /\ doc[e].kind = Table =>
         \E ranges : /\ Tile(ranges, Len(doc[e].rows)) /\ ranges # <<>> /\ Len(made) = Len(ranges) + 1
                     /\ \A k \in 1..Len(ranges) : made[k + 1].rows = ranges[k]

WholeOf(c, e, kind, size, hint) == c = [Chunk(kind, e, <<>>, size) EXCEPT !.hint = hint]

PartOf(c, whole, rows, size) == c = [whole EXCEPT !.rows = rows, !.size = size]

-----------------------------------------------------------------------------
(* The Docling path: an element is one item, in the order of the items.    *)

\* An element of the Docling path is one item of the file.
OfItem(el) ==
    /\ el.item \in 1..Len(Items) /\ Usable(el.item) /\ el.kind = Items[el.item].kind
    /\ el.section = TitleAbove(el.item) /\ el.page = Items[el.item].page
    /\ el.kind = Text => \A n \in 1..Len(el.text) : \E k \in 1..Len(Lines(el.item)) : el.text[n] = Lines(el.item)[k]
    /\ el.kind = Table => el.rows = Items[el.item].lengths

DoclingDoc(els) ==
    /\ \A e \in 1..Len(els) : OfItem(els[e])
    /\ \A e, f \in 1..Len(els) : e < f => els[e].item < els[f].item
    /\ \A i \in 1..Len(Items) : Usable(i) => \E e \in 1..Len(els) : els[e].item = i

\* Every line of one text is a line of the other.
Among(new, old) == \A n \in 1..Len(new) : \E k \in 1..Len(old) : new[n] = old[k]

-----------------------------------------------------------------------------
(* The loops: what is emitted, and what is still held.                     *)

MarksIn(cs) == UNION {Marks(cs[n].text) : n \in 1..Len(cs)}

\* Chunks behind chunks.
After(w, cs, new) ==
    /\ w \in Seq(ChunkRecs) /\ Len(w) = Len(cs) + Len(new) /\ Len(cs) \in Nat /\ Len(new) \in Nat
    /\ \A n \in 1..Len(cs) : w[n] = cs[n] /\ n \in 1..Len(w)
    /\ \A k \in 1..Len(new) : w[Len(cs) + k] = new[k] /\ Len(cs) + k \in 1..Len(w)
    /\ \A n \in 1..Len(w) : n \in 1..Len(cs) \/ \E k \in 1..Len(new) : n = Len(cs) + k

\* Text elements that can be in one window: they follow on each other under one title.
RunOf(els) ==
    /\ els \in Seq(1..Len(doc)) /\ Len(els) \in Nat \ {0}
    /\ \A j \in 1..Len(els) : /\ els[j] = els[1] + j - 1
                              /\ doc[els[j]].kind = Text /\ doc[els[j]].section = doc[els[1]].section

\* A chunk is a window of such elements, or it shows a table or figure and is named by the line above.
Sound(c) ==
    /\ c \in ChunkRecs /\ c.of \in 1..Len(doc)
    /\ c.kind = Text => c.size <= LargestWindow /\ c.hint = 0 /\ c.rows = <<0, 0>> /\ \E els : RunOf(els) /\ Window(c, els)
    /\ c.kind # Text => Shows(c, c.of, c.hint) /\ (c.hint # 0 => c.hint = c.of - 1 /\ doc[c.hint].kind = Text)

\* The rows of one table are in consecutive chunks, each of which follows on the one before it.
RangesIn(cs, e) ==
    \E a, b \in 1..Len(cs) :
      /\ a <= b /\ cs[a].rows[1] = 1 /\ cs[b].rows[2] = Len(doc[e].rows)
      /\ \A n \in 1..Len(cs) : cs[n].of = e /\ cs[n].rows[1] > 0 <=> n \in a..b
      /\ \A n \in a..b : (n > a => cs[n].rows[1] = cs[n - 1].rows[2] + 1) /\ cs[n].rows[1] <= cs[n].rows[2]

\* What the loop has emitted of an element it has passed, or still holds in the run.
Covered(cs, rn, e) ==
    /\ doc[e].kind = Text => MarksOf(doc[e].text) \subseteq MarksIn(cs) \cup RunMarks(rn)
    /\ doc[e].kind = Table => \E n \in 1..Len(cs) : cs[n].of = e
    /\ Docling /\ doc[e].kind = Table /\ Len(doc[e].rows) > RowThreshold => RangesIn(cs, e)

\* The loop with these chunks, this run, this line above and this element next.
Loop(cs, rn, last, nx) ==
    /\ nx \in 1..(Len(doc) + 2) /\ cs \in Seq(ChunkRecs)
    /\ \A n \in 1..Len(cs) : Sound(cs[n]) /\ (cs[n].rows[1] > 0 => cs[n].of < nx)
    /\ rn # <<>> => Docling /\ RunOf(rn) /\ rn[1] + Len(rn) = nx /\ nx \in 2..(Len(doc) + 1)
    /\ last \in 0..Len(doc) /\ (last # 0 => Docling /\ last = nx - 1 /\ doc[last].kind = Text)
    /\ \A e \in 1..Len(doc) : e < nx => Covered(cs, rn, e)

\* Chunks without rows of a table, and a run that they or the next run have all of.
NewChunks(new, nx) ==
    /\ new \in Seq(ChunkRecs)
    /\ \A k \in 1..Len(new) : Sound(new[k]) /\ (new[k].rows[1] > 0 => new[k].of = nx)

Grown(w, cs, new, rest, nx) ==
    /\ w \in Seq(ChunkRecs) /\ After(w, cs, new) /\ MarksIn(w) = MarksIn(cs) \cup MarksIn(new)
    /\ \A n \in 1..Len(w) : Sound(w[n]) /\ (w[n].rows[1] > 0 => w[n].of < nx + 1)
    /\ \A e \in 1..Len(doc) : e < nx => Covered(w, rest, e)
    /\ (\A k \in 1..Len(new) : new[k].rows[1] = 0) => \A n \in 1..Len(w) : w[n].rows[1] > 0 => w[n].of < nx

-----------------------------------------------------------------------------
(* One document from its file to the index: the invariant of the ingestion.*)

\* The loop, as the state machine is at it.
LoopInv == Loop(chunks, run, lastText, next)

\* What the chunker is given.
DocInv == Read(doc) /\ (Docling => DoclingDoc(doc))

\* The length of what a search may find.
SizeKnown(c) == c.size \in Nat /\ (c.kind = Text => c.size <= LargestWindow)

\* One document from its file to the index.
FileInv ==
    /\ source \in Sources
    /\ row \in {"reading", "cleared", "parsing", "resolving"} =>
         next = 1 /\ run = <<>> /\ lastText = 0 /\ chunks = <<>>
    /\ row \in {"resolving", "chunking"} => DocInv
    /\ row = "chunking" => LoopInv
    /\ \A c \in ToSet(listed) : SizeKnown(c)

-----------------------------------------------------------------------------
(* Nothing of a file is lost.                                              *)

\* The rows of one table of the file, in the ranges that show them.
RowsOf(cs, i) ==
    \E a, b \in 1..Len(cs) :
      /\ {n \in 1..Len(cs) : doc[cs[n].of].item = i /\ cs[n].rows[1] > 0} = a..b
      /\ a <= b /\ cs[a].rows[1] = 1 /\ cs[b].rows[2] = Len(Items[i].lengths)
      /\ \A n \in a..b :
           /\ n > a => cs[n].rows[1] = cs[n - 1].rows[2] + 1
           /\ cs[n].rows[1] <= cs[n].rows[2]

-----------------------------------------------------------------------------
(* A chunk stands under its title, on its page, behind its line.           *)

\* The items that a text comes from.
From(text) == {ItemOf(p) : p \in Marks(text)}

\* Nothing but text under this title lies among these items.
Together(is, section) ==
    \A i, j \in is : \A h \in i..j : Usable(h) => Items[h].kind = Text /\ TitleAbove(h) = section

\* chunker.py: what is said of a chunk by itself in SectionsKept.
ChunkKept(c) ==
    /\ source.type \in {"md", "docx"} => \A i \in From(c.text) : TitleAbove(i) = c.section
    /\ Docling /\ c.kind = Text =>
         \E i \in Is(Text) : Items[i].page = c.page /\ Together(From(c.text) \cup {i}, c.section)
    /\ Docling /\ c.kind # Text => c.section = TitleAbove(doc[c.of].item)
    /\ c.hint # 0 => c.hint = c.of - 1 /\ doc[c.hint].kind = Text

-----------------------------------------------------------------------------
(* The order of the windows: the first place of a window is at most all    *)
(* of what follows it.                                                     *)

\* The place at j is at most any that follows it in s and any of `later`.
Pivot(s, j, later) ==
    /\ \A p \in later : s[j] <= p
    /\ \A i \in j..Len(s) : s[i] # 0 => s[j] <= s[i]

\* The places of the lines behind the n-th.
Ahead(lines, n) == UNION {Marks(lines[m]) : m \in (n + 1)..Len(lines)}

\* No line is empty, and the first place of each is at most any that follows and any of `later`.
Precedes(lines, later) ==
    \A k \in 1..Len(lines) : lines[k] # <<>> /\ Pivot(lines[k], 1, Ahead(lines, k) \cup later)

\* All of a line, its last places, or the place where its overlap begins: at most what follows.
Pivots(s, M) == \A j \in 1..Len(s) : Pivot(s, j, M)

Firm(s, M) == \A j \in 1..Len(s) : j > Len(s) - WindowOverlap => Pivot(s, j, M)

Cut(s, units, n) ==
    /\ Len(s) >= MaxChars /\ n < Len(units) /\ Len(units[n + 1]) > WindowOverlap
    /\ WindowOverlap > 0 => Pivot(s, Len(s) - WindowOverlap + 1, Ahead(units, n))

\* A unit of text, and a buffer that holds what was before it.
UnitFits(units, n) ==
    /\ units[n] # <<>> => Pivot(units[n], 1, Ahead(units, n))
    /\ Pivots(units[n], Ahead(units, n)) \/ Cut(units[n], units, n)

Follows(s, units, n) ==
    /\ s # <<>> => Pivot(s, 1, Ahead(units, n))
    /\ Firm(s, Ahead(units, n)) \/ Cut(s, units, n)

\* The places of the first line that are among the last of both.
Loose(a, u, M) == \A j \in 1..Len(a) : j > Len(a) + 2 + Len(u) - WindowOverlap => Pivot(a, j, M)

\* Where the packing is after n units.
InTurn(acc, units, n) == Precedes(acc.done, Marks(acc.buf) \cup Ahead(units, n)) /\ Follows(acc.buf, units, n)

AllFit(units) == \A n \in 1..Len(units) : UnitFits(units, n)

-----------------------------------------------------------------------------
(* Long paragraphs are split, and their windows stay in order.             *)

\* Pieces of the lines, line by line.
PiecesOf(seqs, lines) == Len(seqs) = Len(lines) /\ \A k \in 1..Len(lines) : MarksOf(seqs[k]) \subseteq Marks(lines[k])

\* The n-th of all pieces is the a-th of the k-th line, and no more comes behind it.
Placed(flat, n, seqs, lines, k, a) ==
    /\ flat[n] = seqs[k][a] /\ Ahead(flat, n) \subseteq Ahead(seqs[k], a) \cup Ahead(lines, k)
    /\ a < Len(seqs[k]) => n < Len(flat) /\ flat[n + 1] = seqs[k][a + 1]

-----------------------------------------------------------------------------
(* The windows of the other path.                                          *)

\* What stands before the overlap of a text is at most what follows.
Early(s, M) == \A j \in 1..Len(s) : (j = 1 \/ j <= Len(s) - OverlapChars + 1) => \A p \in M : s[j] <= p

Leads(lines, M) ==
    \A k \in 1..Len(lines) : lines[k] # <<>> /\ Ascends(lines[k]) /\ Early(lines[k], Ahead(lines, k) \cup M)

\* Where the splitting is after n paragraphs.
SplitInTurn(acc, lines, n) ==
    /\ Leads(acc.done, Marks(acc.buf) \cup Ahead(lines, n)) /\ Ascends(acc.buf)
    /\ \A p \in Marks(acc.buf) : \A q \in Ahead(lines, n) : p <= q

\* The places of a window in the text.
PlacesAt(w, text, b) == \A h \in 1..Len(w) : b + h \in 1..Len(text) /\ w[h] = text[b + h]

-----------------------------------------------------------------------------
(* The parsers give the texts in the order of the file.                    *)

\* The places of the texts among these elements, and texts in the order of their places.
TextMarks(els) == UNION {MarksOf(els[e].text) : e \in {e \in 1..Len(els) : els[e].kind = Text}}

NoneBehind(A, B) == \A p \in A : \A q \in B : p <= q

TextsAscend(els) ==
    \A f \in 1..Len(els) : \A e \in 1..(f - 1) :
      els[e].kind = Text /\ els[f].kind = Text => NoneBehind(MarksOf(els[e].text), MarksOf(els[f].text))

\* The places in the lines of items.
ItemMarks(is) == UNION {MarksOf(Lines(i)) : i \in is}

-----------------------------------------------------------------------------
(* The order of the chunks: the invariant of the loops.                    *)

\* A chunk of text is not empty, and its places are those of texts from the a-th to before the b-th element.
FromThese(c, a, b) ==
    c.kind = Text => /\ c.text # <<>>
                     /\ \A p \in Marks(c.text) : \E e \in a..(b - 1) :
                          e \in 1..Len(doc) /\ doc[e].kind = Text /\ p \in MarksOf(doc[e].text)

\* Windows that follow each other are in the order of the file.
Chained(cs) ==
    \A n \in 1..Len(cs) : n > 1 /\ cs[n].kind = Text /\ cs[n - 1].kind = Text =>
      \A p \in Marks(cs[n].text) : cs[n - 1].text[1] <= p

\* Chunks of these elements, in order.
Batch(cs, a, b) == (\A n \in 1..Len(cs) : FromThese(cs[n], a, b)) /\ Chained(cs)

\* The elements have their lines, and the texts follow each other, in the order of the file.
DocOrdered == (\A e \in 1..Len(doc) : InPlace(doc[e].text)) /\ TextsAscend(doc)

\* What is emitted comes from the elements before the run.
Order(cs, rn, nx) == Batch(cs, 1, nx - Len(rn))

\* The elements, and the chunks made of them, are in the order of the file.
OrderInv ==
    /\ row \in {"resolving", "chunking"} => DocOrdered
    /\ row = "chunking" => Order(chunks, run, next)

-----------------------------------------------------------------------------
(* The tokens of a sequence of blocks.  TokensOf adds them up by           *)
(* recursion; what is said of every function that satisfies its equation   *)
(* is said of it, and grows with the sequence block by block.              *)

IsTotal(t, blocks) ==
    t = [n \in 0..Len(blocks) |-> IF n = 0 THEN 0 ELSE t[n - 1] + EstimateTokens(blocks[n].size)]

Totals(blocks, tokens) ==
    /\ \E t : IsTotal(t, blocks)
    /\ \A t : IsTotal(t, blocks) => t[Len(blocks)] = tokens

-----------------------------------------------------------------------------
(* The packing loop of assemble.                                           *)

\* What the chunker is relied on for: a chunk has a length, and a window of text is
\* within the token budget of an answer.
HitFits(hit) == hit.size \in Nat /\ (hit.kind = Text => EstimateTokens(hit.size) <= TokenBudget)
WindowsFit == \A c \in ToSet(listed) : HitFits(c)

\* A sequence, whatever it is a sequence of.
IsSeq(s) == \E S : s \in Seq(S)

\* A context as the loop leaves it: the recorded tokens are those of the blocks.
Packed(ctx) ==
    /\ DOMAIN ctx = {"blocks", "images", "tokens"}
    /\ IsSeq(ctx.blocks)
    /\ IsSeq(ctx.images)
    /\ ctx.tokens \in 0..TokenBudget /\ Totals(ctx.blocks, ctx.tokens)
    /\ ctx.blocks = <<>> => ctx.tokens = 0
    /\ Len(ctx.images) <= MaxImages
    /\ \A i \in 1..Len(ctx.blocks) :
         ctx.blocks[i].size < ctx.blocks[i].of => ctx.blocks[i].kind # Text

\* The loop never skips the first text, so the blocks are empty only before it.
PackInv ==
    /\ at \in {"asked", "searched", "ranked"}
    /\ at # "ranked" => merged = Unread /\ context = Empty
    /\ DOMAIN found = {"chunks", "pages"} /\ DOMAIN merged = {"chunks", "pages"}
    /\ IsSeq(found.chunks)
    /\ IsSeq(found.pages)
    /\ \A i \in 1..Len(found.chunks) : HitFits(found.chunks[i])
    /\ merged.chunks \in 0..Len(found.chunks) /\ merged.pages \in 0..Len(found.pages)
    /\ Packed(context)
    /\ context.blocks = <<>> => merged.chunks = 0
=============================================================================

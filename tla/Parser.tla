------------------------------- MODULE Parser -------------------------------
(***************************************************************************)
(* From a file to the elements that the chunkers take: the choice of the   *)
(* parser (pipeline.py), the Docling parser (docling_parser.py), the       *)
(* parsers of the other types and of the legacy backend (parsers/) and the *)
(* removal of repeated lines (normalize.py).  All of them are functions    *)
(* of the file.                                                            *)
(*                                                                         *)
(* A file is what its library reads from it: items in reading order, each  *)
(* with the lengths of its lines.  Text is a sequence of places: a         *)
(* character is the place in the file it comes from, a character of a      *)
(* separator is 0.  A place is a number that grows with the reading order. *)
(***************************************************************************)
EXTENDS Integers, Sequences, FiniteSets, SequencesExt

CONSTANTS
    MaxLines, MaxLine       \* what an item has fewer lines than, a line fewer characters

ASSUME ParserAssumption == {MaxLines, MaxLine} \subseteq Nat \ {0}

VARIABLE source             \* the file: its type, the backend it is parsed with, its items

Heading == "heading"
Text == "text"
Table == "table"
Figure == "figure"

\* An item has a kind, a page, a title (of a heading or a sheet; "" is blank) and the lengths
\* of its lines, of the rows of a table or of what can be read in a figure.  A table or figure
\* has a caption or not, a figure can be cropped or not, and the first line of a text is one
\* that other pages have as well (`running`, a short line) or not.
FileItems ==
    [kind: {Heading, Text, Table, Figure}, page: Nat \ {0}, title: STRING,
     lengths: Seq(1..(MaxLine - 1)), captioned: BOOLEAN, cropped: BOOLEAN, running: BOOLEAN]

\* The kinds of items that the library of a type can tell apart.
KindsOf(type) ==
    CASE type \in {"pdf", "docx", "pptx"} -> {Heading, Text, Table, Figure}
      [] type \in {"xlsx", "csv"}        -> {Table}
      [] type = "html"                   -> {Heading, Text, Table}
      [] type = "md"                     -> {Heading, Text}
      [] type = "txt"                    -> {Text}
      [] type = "image"                  -> {Figure}

Types == {"pdf", "docx", "pptx", "xlsx", "csv", "html", "md", "txt", "image"}

IsFile(file) ==
    /\ file \in [type: Types, backend: {"docling", "legacy"}, items: Seq(FileItems)]
    /\ file.items # <<>>
    /\ \A i \in 1..Len(file.items) :
         /\ file.items[i].kind \in KindsOf(file.type)
         /\ Len(file.items[i].lengths) < MaxLines
         /\ \A j \in 1..i : file.items[j].page <= file.items[i].page

Items == source.items
Is(kind) == {i \in 1..Len(Items) : Items[i].kind = kind}

Place(i, k, c) == (i * MaxLines + k) * MaxLine + c
ItemOf(place) == (place \div MaxLine) \div MaxLines
LineOf(place) == (place \div MaxLine) % MaxLines
Lines(i) == [k \in 1..Len(Items[i].lengths) |->
               [c \in 1..Items[i].lengths[k] |-> Place(i, k, c)]]
LinesOf(is) == FlattenSeq([n \in 1..Len(is) |-> Lines(is[n])])

\* A set of numbers in their order, and the elements of s at those places.
InOrder(is) ==
    [n \in 1..Cardinality(is) |-> CHOOSE i \in is : Cardinality({j \in is : j <= i}) = n]
At(s, is) == LET order == InOrder(is) IN [n \in 1..Len(order) |-> s[order[n]]]

\* The title above an item; only Markdown lets a blank one count.
Headings == {j \in Is(Heading) : Items[j].title # "" \/ source.type = "md"}
TitleOf(js) == IF js = {} THEN "" ELSE Items[CHOOSE j \in js : \A k \in js : k <= j].title
TitleAbove(i) == TitleOf({j \in Headings : j < i})

\* An element: for a table its rows are kept apart, and `spaced` says whether blank lines
\* separate the lines of a text.
Element(kind, section, i, text, spaced) ==
    [kind |-> kind, section |-> section, page |-> Items[i].page, text |-> text,
     spaced |-> spaced, rows |-> IF kind = Table THEN Items[i].lengths ELSE <<>>,
     captioned |-> Items[i].captioned, cropped |-> Items[i].cropped, item |-> i]

Visual(i, section) ==
    Element(Items[i].kind, section, i, IF Items[i].kind = Figure THEN Lines(i) ELSE <<>>, TRUE)

-----------------------------------------------------------------------------
(* The parsers.                                                            *)

\* A figure with neither a crop nor a caption is decoration; a blank text is nothing.
Usable(i) ==
    \/ Items[i].kind = Text /\ Items[i].lengths # <<>>
    \/ Items[i].kind = Table
    \/ Items[i].kind = Figure /\ (Items[i].cropped \/ Items[i].captioned)

ParseDocling ==
    LET kept == InOrder({i \in 1..Len(Items) : Usable(i)})
    IN [n \in 1..Len(kept) |->
          IF Items[kept[n]].kind = Text
          THEN Element(Text, TitleAbove(kept[n]), kept[n], Lines(kept[n]), TRUE)
          ELSE Visual(kept[n], TitleAbove(kept[n]))]

\* The tables that have any cell filled.
Tables == InOrder({i \in Is(Table) : Items[i].lengths # <<>>})

\* One element of all this text, if there is any.
OneText(is, section, spaced) ==
    IF LinesOf(is) = <<>> THEN <<>>
    ELSE <<Element(Text, section, is[1], LinesOf(is), spaced)>>

\* Text is collected and closed by the next heading.
BySection(spaced) ==
    LET starts == InOrder({0} \cup Headings)
        Body(n) == InOrder({i \in Is(Text) : /\ i > starts[n]
                                             /\ n < Len(starts) => i < starts[n + 1]})
        Title(n) == IF n = 1 THEN "" ELSE Items[starts[n]].title
    IN FlattenSeq([n \in 1..Len(starts) |-> OneText(Body(n), Title(n), spaced)])

ParseMarkdown == BySection(TRUE)

\* The tables of a DOCX follow all of its text, under its last heading.
ParseDocx ==
    BySection(FALSE)
    \o [n \in 1..Len(Tables) |-> Visual(Tables[n], TitleOf(Headings))]

\* One table to a sheet that is not blank, and an empty one for a blank workbook or file.
ParseSheets ==
    IF Tables = <<>> THEN <<Visual(1, "")>>
    ELSE [n \in 1..Len(Tables) |-> Visual(Tables[n], Items[Tables[n]].title)]

\* The text, its headings among it, and then the tables.
ParseHtml ==
    OneText(InOrder(Is(Heading) \cup Is(Text)), "", TRUE)
    \o [n \in 1..Len(Tables) |-> Visual(Tables[n], "")]

ParseTxt == OneText(InOrder(Is(Text)), "", TRUE)

ParseImage == [n \in 1..Len(Items) |-> Visual(n, "")]

\* _tables_by_page.
TablesOf(page) == InOrder({i \in Is(Table) : Items[i].lengths # <<>> /\ Items[i].page = page})

\* A page with text gives it, then the figures that could be extracted; a page without text
\* is read as one image; the tables of the page follow.  (The cells of a table are not
\* repeated in the text of its page.)
ParsePage(p) ==
    LET On(is) == InOrder({i \in is : Items[i].page = p})
        text == OneText(On(Is(Heading) \cup Is(Text)), "", FALSE)
        figures == On({i \in Is(Figure) : Items[i].cropped})
        scan == On(Is(Figure))
    IN text
       \o (IF text # <<>> THEN [n \in 1..Len(figures) |-> Visual(figures[n], "")]
           ELSE IF scan = <<>> THEN <<>>
           ELSE <<Element(Figure, "", scan[1], LinesOf(scan), TRUE)>>)
       \o [n \in 1..Len(TablesOf(p)) |-> Visual(TablesOf(p)[n], "")]

ParsePdf == LET pages == InOrder({Items[i].page : i \in 1..Len(Items)})
            IN FlattenSeq([n \in 1..Len(pages) |-> ParsePage(pages[n])])

\* _use_docling.
Docling == source.backend = "docling" /\ source.type \in {"pdf", "docx", "pptx", "xlsx"}

\* The legacy backend has no parser for PPTX.
HasParser == Docling \/ source.type # "pptx"

Parse ==
    IF Docling THEN ParseDocling ELSE
    CASE source.type = "pdf"             -> ParsePdf
      [] source.type = "docx"            -> ParseDocx
      [] source.type \in {"xlsx", "csv"} -> ParseSheets
      [] source.type = "md"              -> ParseMarkdown
      [] source.type = "html"            -> ParseHtml
      [] source.type = "txt"             -> ParseTxt
      [] source.type = "image"           -> ParseImage

-----------------------------------------------------------------------------
(* Repeated lines.                                                         *)

Running(line) == line # <<>> /\ LineOf(line[1]) = 1 /\ Items[ItemOf(line[1])].running

\* Only these types say on which page a text is.
HasPages == source.type \in {"pdf", "pptx"}

\* A running line goes when it is in 60 % of at least three texts.
StripRepeated(texts) ==
    LET noisy == {n \in 1..Len(texts) : \E k \in 1..Len(texts[n]) : Running(texts[n][k])}
    IN IF Len(texts) >= 3 /\ 10 * Cardinality(noisy) >= 6 * Len(texts)
       THEN [n \in 1..Len(texts) |->
               At(texts[n], {k \in 1..Len(texts[n]) : ~Running(texts[n][k])})]
       ELSE texts

Denoise(elements) ==
    LET places == InOrder({n \in 1..Len(elements) : elements[n].kind = Text})
        cleaned == StripRepeated([m \in 1..Len(places) |-> elements[places[m]].text])
    IN IF HasPages
       THEN [n \in 1..Len(elements) |->
               IF elements[n].kind = Text
               THEN [elements[n] EXCEPT !.text = cleaned[CHOOSE m \in 1..Len(places) : places[m] = n]]
               ELSE elements[n]]
       ELSE elements
=============================================================================

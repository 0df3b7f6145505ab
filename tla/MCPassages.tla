------------------------------ MODULE MCPassages ------------------------------
(* Instances of Passages: files of up to five items.                       *)
EXTENDS Passages

\* As in the code's defaults.
ASSUME BudgetHoldsWindow

Item(kind, title, lengths, marks) ==
    [kind |-> kind, title |-> title, lengths |-> lengths, captioned |-> "captioned" \in marks,
     cropped |-> "cropped" \in marks, running |-> "running" \in marks]
Title(t) == Item(Heading, t, <<5>>, {})
Words(lengths) == Item(Text, "", lengths, {})
UnderHeader(lengths) == Item(Text, "", <<4>> \o lengths, {"running"})
Grid(lengths) == Item(Table, "Sheet", lengths, {})
Picture(marks) == Item(Figure, "", <<8>>, marks)

\* The items of a file lie on pages of `per` items each.
File(type, backend, per, items) ==
    [type |-> type, backend |-> backend,
     items |-> [i \in 1..Len(items) |->
        [kind |-> items[i].kind, title |-> items[i].title, lengths |-> items[i].lengths,
         captioned |-> items[i].captioned, cropped |-> items[i].cropped,
         running |-> items[i].running, page |-> (i + per - 1) \div per]]]

\* A short line; a short tail that joins its window, a paragraph that needs several windows, an
\* empty text; a small table and a large one, one without rows below a caption; figures.
Texts == {Words(<<6>>), Words(<<17, 4>>), Words(<<62>>), Words(<<12, 12, 12>>), Words(<<>>)}
Visuals == {Grid(<<5, 5>>), Grid(<<5, 9, 4, 12, 30>>), Item(Table, "", <<>>, {"captioned"}),
            Picture({"cropped"}), Picture({"captioned"}), Picture({})}
Small == {Words(<<6>>), Words(<<17, 4>>), Grid(<<5, 5>>)}

\* Up to two items; a table or figure below a line; titles above and between; a running line.
DoclingItems ==
    (BoundedSeq(Texts \cup Visuals, 2) \ {<<>>})
    \cup {<<Words(<<6>>), v, w>> : v \in Visuals, w \in Small}
    \cup {<<Title("A"), v, Title(t), w>> : v \in Small, w \in Small, t \in {"A", "B"}}
    \cup {<<UnderHeader(<<9>>), v, UnderHeader(<<>>)>> : v \in Texts}

MarkdownItems ==
    {<<v, Title("A"), w, Title(t), Words(<<6>>)>> : v \in Texts, w \in Small \cap Texts, t \in {"A", ""}}
DocxItems == {<<Title("A"), v, w, Title(t), Words(<<6>>)>> : v \in Small, w \in Small, t \in {"B", ""}}
PageItems ==
    {<<v, Picture({"cropped"}), w, Grid(<<5, 5>>)>> : v \in Small, w \in {Words(<<62>>), Picture({})}}
    \cup {<<UnderHeader(<<9>>), v, UnderHeader(<<62>>), UnderHeader(<<>>)>> : v \in Small}

\* With a window that begins with a line shorter than an overlap.
MCSources ==
    {File("pdf", "docling", 1, s) : s \in DoclingItems \cup {<<Words(<<3, 22>>)>>}}
    \cup {File(t, b, 2, s) : t \in {"docx", "pptx"}, b \in {"docling", "legacy"}, s \in DocxItems}
    \cup {File("pdf", "legacy", p, s) : p \in {1, 2}, s \in PageItems}
    \cup {File("md", "docling", 5, s) : s \in MarkdownItems}
    \cup {File("html", "docling", 5, s) : s \in DocxItems}
    \cup {File("txt", "docling", 5, <<v>>) : v \in Texts}
    \cup {File("xlsx", b, 1, <<v, w>>) : b \in {"docling", "legacy"}, v, w \in {Grid(<<5, 5>>), Grid(<<>>)}}
    \cup {File("csv", "docling", 1, <<v>>) : v \in {Grid(<<5, 9, 4, 12, 30>>), Grid(<<>>)}}
    \cup {File("image", "docling", 1, <<Picture({})>>)}

\* Bound: what the stores do after the one search has ended is left out.
Searching == ~Assembled
=============================================================================

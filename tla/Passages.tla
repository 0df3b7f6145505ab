------------------------------ MODULE Passages ------------------------------
(***************************************************************************)
(* From a parsed document to what the generator may see of it: the chunks  *)
(* of Chunker are indexed, a search returns some of them (retriever.py)    *)
(* and some page images (visual.py), the two rankings are merged           *)
(* (fusion.py) and packed into the budgets of one answer (assembler.py).   *)
(*                                                                         *)
(* Scores are left to the models that give them: a search returns any      *)
(* ranking its limits allow.                                               *)
(***************************************************************************)
EXTENDS PageImages

CONSTANTS
    TopN,                   \* settings.retrieval_top_n
    TopPages,               \* settings.visual_top_k_pages
    TokenBudget,            \* settings.context_token_budget
    MaxImages               \* settings.context_max_images

ASSUME PassagesAssumption ==
    /\ {TopN, TokenBudget} \subseteq Nat \ {0} /\ {TopPages, MaxImages} \subseteq Nat

VARIABLES
    at,                     \* where the one search is
    found,                  \* the ranked chunks, the ranked pages
    merged,                 \* how far assemble got in each of the two
    context                 \* blocks, images and the token count

searchVars == <<at, found, merged, context>>
vars == <<chunkVars, storeVars, searchVars>>

Nothing == [chunks |-> <<>>, pages |-> <<>>]
Unread == [chunks |-> 0, pages |-> 0]
Empty == [blocks |-> <<>>, images |-> <<>>, tokens |-> 0]

Init ==
    /\ ChunkInit /\ StoresInit
    /\ at = "asked" /\ found = Nothing /\ merged = Unread /\ context = Empty

Rankings(items, limit) == {s \in BoundedSeq(items, limit) : IsInjective(s)}

Stores == StoresNext /\ UNCHANGED searchVars

\* The search gates and cuts its ranking of what the index holds.
SearchChunks ==
    /\ at = "asked"
    /\ \E ranking \in Rankings(ToSet(listed), TopN) :
         found' = [chunks |-> ranking, pages |-> <<>>]
    /\ at' = "searched"
    /\ UNCHANGED <<chunkVars, storeVars, merged, context>>

\* Page images, or none: the question is not a visual one, the visual path is off, or one
\* of its services does not answer.
SearchPages ==
    /\ at = "searched"
    /\ \E ranking \in Rankings(points, TopPages) : found' = [found EXCEPT !.pages = ranking]
    /\ at' = "ranked"
    /\ UNCHANGED <<chunkVars, storeVars, merged, context>>

\* rrf_merge: both lists share k, so equal ranks tie, and ties put the text first.
TextIsNext ==
    /\ merged.chunks < Len(found.chunks)
    /\ merged.chunks <= merged.pages \/ merged.pages = Len(found.pages)
PageIsNext == merged.pages < Len(found.pages) /\ ~TextIsNext

Block(hit, size) == [id |-> hit.id, kind |-> hit.kind, size |-> size, of |-> hit.size]

\* Mutated PackBlock: an oversized block is dropped wherever it stands.
PackBlockDrops(ctx, hit) ==
    LET cost == EstimateTokens(hit.size) IN
    IF ctx.tokens + cost <= TokenBudget
    THEN [ctx EXCEPT !.blocks = Append(@, Block(hit, hit.size)), !.tokens = @ + cost]
    ELSE ctx

\* An oversized first block is cut to the budget; any other that does not fit is dropped.
PackBlock(ctx, hit) ==
    LET cost == EstimateTokens(hit.size)
        cut == Least(hit.size, Chars(TokenBudget))
    IN CASE ctx.tokens + cost <= TokenBudget ->
              [ctx EXCEPT !.blocks = Append(@, Block(hit, hit.size)), !.tokens = @ + cost]
         [] ctx.blocks = <<>> /\ hit.size > 0 /\ ctx.tokens + cost > TokenBudget ->
              [ctx EXCEPT !.blocks = <<Block(hit, cut)>>, !.tokens = EstimateTokens(cut)]
         [] OTHER -> ctx

\* The loop of assemble, one candidate at a time.
PackText ==
    /\ at = "ranked" /\ TextIsNext
    /\ context' = PackBlock(context, found.chunks[merged.chunks + 1])
    /\ merged' = [merged EXCEPT !.chunks = @ + 1]
    /\ UNCHANGED <<chunkVars, storeVars, at, found>>

\* The image is read from MinIO; one that is gone, or that MinIO does not deliver, is passed over.
PackPage ==
    /\ at = "ranked" /\ PageIsNext
    /\ LET page == found.pages[merged.pages + 1] IN
       \/ /\ Len(context.images) < MaxImages /\ <<"page", page>> \in objects
          /\ context' = [context EXCEPT !.images = Append(@, page)]
       \/ UNCHANGED context
    /\ merged' = [merged EXCEPT !.pages = @ + 1]
    /\ UNCHANGED <<chunkVars, storeVars, at, found>>

Assembled == at = "ranked" /\ ~TextIsNext /\ ~PageIsNext

Next == Stores \/ SearchChunks \/ SearchPages \/ PackText \/ PackPage

Spec == Init /\ [][Next]_vars

-----------------------------------------------------------------------------
(* Properties.                                                             *)

PlacesOf(i) == UNION {ToSet(Lines(i)[k]) : k \in 1..Len(Lines(i))}
PlacesIn(c) == ToSet(c.text) \ {0}
Chunks == {chunks[i] : i \in 1..Len(chunks)}

\* parsers/, chunker.py, chunking.py: whatever the type of the file, no character of a text
\* but those of a repeated line and no table with any row is lost between two elements or
\* two windows, however the splits, overlaps and merges fall; and the rows of one table are
\* cut into ranges that follow on each other.
NothingLost ==
    row = "chunking" /\ Chunked =>
        /\ \A i \in Is(Text) :
             {p \in PlacesOf(i) : ~(Items[i].running /\ LineOf(p) = 1)}
                 \subseteq UNION {PlacesIn(c) : c \in Chunks}
        /\ \A i \in Is(Table) : Items[i].lengths # <<>> =>
             /\ \E c \in Chunks : doc[c.of].item = i
             /\ Docling /\ Len(Items[i].lengths) > RowThreshold =>
                  \E a, b \in 1..Len(chunks) :
                    /\ {n \in 1..Len(chunks) : doc[chunks[n].of].item = i /\ chunks[n].rows[1] > 0} = a..b
                    /\ a <= b /\ chunks[a].rows[1] = 1 /\ chunks[b].rows[2] = Len(Items[i].lengths)
                    /\ \A n \in a..b :
                         /\ n > a => chunks[n].rows[1] = chunks[n - 1].rows[2] + 1
                         /\ chunks[n].rows[1] <= chunks[n].rows[2]

\* docling_parser.py 151, text.py 42, chunker.py 14 and 271-317: a window of text stands
\* under the title that is above all of its text, in the order of the file and with no Docling
\* table or figure in between, and its page is one of that text or of text that follows on it
\* (an estimate: not always the page where the window begins); a Docling table or figure
\* stands under the title above it and is named after the text directly above it only.
SectionsKept ==
    row = "chunking" => \A n \in 1..Len(chunks) :
        LET c == chunks[n]
            from == {ItemOf(p) : p \in PlacesIn(c)}
            Together(is) == \A i, j \in is : \A h \in i..j :
                                Usable(h) => Items[h].kind = Text /\ TitleAbove(h) = c.section
        IN /\ source.type \in {"md", "docx"} => \A i \in from : TitleAbove(i) = c.section
           /\ Docling /\ c.kind = Text =>
                \E i \in Is(Text) : Items[i].page = c.page /\ Together(from \cup {i})
           /\ Docling /\ c.kind # Text => c.section = TitleAbove(doc[c.of].item)
           /\ c.hint # 0 => c.hint = c.of - 1 /\ doc[c.hint].kind = Text
           /\ n > 1 /\ c.kind = Text /\ chunks[n - 1].kind = Text =>
                \A p \in PlacesIn(c) : p >= chunks[n - 1].text[1]

TokensOf(blocks) ==
    LET total[n \in 0..Len(blocks)] ==
            IF n = 0 THEN 0 ELSE total[n - 1] + EstimateTokens(blocks[n].size)
    IN total[Len(blocks)]

\* The longest window of text: a tail with the paragraph or the remainder that follows it, a
\* window and the short tail that joined it, or a window of the other path.
LargestWindow == Most(Most(MaxChars + WindowOverlap, (12 * MaxChars) \div 10) + 2, (3 * TargetChars) \div 2)

\* The settings that the assembler relies on: the budget of an answer holds any window of text.
BudgetHoldsWindow == EstimateTokens(LargestWindow) <= TokenBudget

\* assembler.py: the blocks of one answer stay inside the token budget and the images
\* inside theirs, a search that found something never leaves the answer without any
\* context, and the block that is cut to fit is never a window of text.
ContextFits ==
    Assembled =>
        /\ TokensOf(context.blocks) <= TokenBudget /\ Len(context.images) <= MaxImages
        /\ found.chunks # <<>> => context.blocks # <<>>
        /\ \A i \in 1..Len(context.blocks) :
             LET b == context.blocks[i] IN b.size < b.of => b.kind # Text

\* indexer.py 76-80, pages.py 96: a chunk that can be found never points to a crop that is
\* gone, at any moment of a re-ingestion; and once the document is indexed every page that
\* can be found has its render, unless the page pass was skipped or failed before it had
\* cleared the points of the ingestion before it.
MediaResolves ==
    /\ \A c \in ToSet(listed) : c.uri # 0 => <<"figure", c.uri>> \in objects
    /\ row = "indexed" /\ paged => Renders(points) \subseteq objects

\* documents.py 3-7: deleting a document leaves "No orphaned vectors".  The page vectors
\* and the images in MinIO stay.
NoOrphanedVectors == row = "deleted" => listed = <<>> /\ points = {}
=============================================================================

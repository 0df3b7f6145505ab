------------------------------ MODULE PageImages ------------------------------
(***************************************************************************)
(* One document in the stores that keep what is searched and shown of it:  *)
(* the chunks of Chunker in the rag_chunks collection, the figure crops    *)
(* and page renders in MinIO (object_store.py) and the page vectors in the *)
(* docs_pages collection (pages.py, pages_index.py), through ingestion,    *)
(* re-ingestion and deletion (indexer.py, documents.py).  One worker runs  *)
(* one job at a time; queue and retries are DocumentLifecycle's.           *)
(***************************************************************************)
EXTENDS Chunker

CONSTANT MaxIngests         \* bound: ingestions of the document

ASSUME PageImagesAssumption == MaxIngests \in Nat

VARIABLES
    row,                    \* the document's row
    objects,                \* MinIO: figure crops and page renders
    listed,                 \* the chunks that rag_chunks holds
    points,                 \* the pages that docs_pages holds
    paged,                  \* the last ingestion got to clear docs_pages
    ingests

storeVars == <<row, objects, listed, points, paged, ingests>>

Pages == {Items[i].page : i \in 1..Len(Items)}
Cropped == {e \in 1..Len(doc) : Docling /\ doc[e].cropped}
Renders(ps) == {"page"} \X ps
Crops(es) == {"figure"} \X es

StoresInit ==
    /\ row = "reading"
    /\ objects = {} /\ listed = <<>> /\ points = {}
    /\ paged = FALSE /\ ingests = 1

\* reindex_document: the worker will run the stored file through the pipeline again.
Reingest ==
    /\ row \in {"indexed", "failed"} /\ ingests < MaxIngests
    /\ row' = "reading" /\ ingests' = ingests + 1 /\ paged' = FALSE
    /\ Reset
    /\ UNCHANGED <<objects, listed, points>>

\* Mutated ClearVectors: the rows of the chunks are deleted, their points are not.
ClearVectorsRows ==
    /\ row = "reading"
    /\ row' = "cleared"
    /\ UNCHANGED <<chunkVars, objects, listed, points, paged, ingests>>

\* _clear_existing.
ClearVectors ==
    /\ row = "reading"
    /\ listed' = <<>>
    /\ row' = "cleared"
    /\ UNCHANGED <<chunkVars, objects, points, paged, ingests>>

\* store.delete_document: the crops and the renders; docs_pages is left alone.  (An object
\* that MinIO refuses to delete is only logged, and left out here.)
ClearObjects ==
    /\ row = "cleared"
    /\ objects' = {}
    /\ row' = "parsing"
    /\ UNCHANGED <<chunkVars, listed, points, paged, ingests>>

\* run_pipeline: the parser of the file's type.  A backend without one for it raises.
ParseStored ==
    /\ row = "parsing" /\ HasParser
    /\ ParseFile
    /\ row' = "resolving"
    /\ UNCHANGED <<objects, listed, points, paged, ingests>>

\* _resolve_figures: the figures that the parser cropped go to the store.  Whatever the
\* captioner answers, the ingestion goes on.
ResolveFigures ==
    /\ row = "resolving"
    /\ objects' = objects \cup Crops(Cropped)
    /\ row' = "chunking"
    /\ UNCHANGED <<chunkVars, listed, points, paged, ingests>>

BuildChunk ==
    /\ row = "chunking"
    /\ ChunkNext
    /\ UNCHANGED storeVars

\* The payload's image_uri: the crop of the figure the chunk is made of.
Uri(c) == IF c.kind = Figure /\ c.of \in Cropped THEN c.of ELSE 0

UpsertChunks ==
    /\ row = "chunking" /\ Chunked
    /\ listed' = [i \in 1..Len(chunks) |->
         [id |-> i, kind |-> chunks[i].kind, size |-> chunks[i].size, uri |-> Uri(chunks[i])]]
    /\ row' = "imaging"
    /\ UNCHANGED <<chunkVars, objects, points, paged, ingests>>

\* No page pass: the visual path is degraded, or the file is no PDF.
SkipPages ==
    /\ row = "imaging"
    /\ row' = "indexed"
    /\ UNCHANGED <<chunkVars, objects, listed, points, paged, ingests>>

\* index_pages: every page is rendered and stored; a page whose embedding fails gets no point.
IndexPages ==
    /\ row = "imaging" /\ source.type = "pdf"
    /\ objects' = objects \cup Renders(Pages)
    /\ points' \in SUBSET Pages
    /\ paged' = TRUE
    /\ row' = "indexed"
    /\ UNCHANGED <<chunkVars, listed, ingests>>

\* index_pages raises: before the old points are deleted, or after some pages were stored
\* and before the new points are upserted.  The ingestion succeeds all the same.
PagePassRaises ==
    /\ row = "imaging" /\ source.type = "pdf"
    /\ \/ UNCHANGED <<objects, points, paged>>
       \/ /\ \E n \in {0} \cup Pages : objects' = objects \cup Renders({p \in Pages : p <= n})
          /\ points' = {} /\ paged' = TRUE
    /\ row' = "indexed"
    /\ UNCHANGED <<chunkVars, listed, ingests>>

\* A failing store, parser, embedder or last commit ends the ingestion where it is, some of
\* the crops stored or none.
IngestFails ==
    /\ row \in {"reading", "cleared", "parsing", "resolving", "chunking", "imaging"}
    /\ \E stored \in IF row = "resolving" THEN SUBSET Cropped ELSE {{}} :
         objects' = objects \cup Crops(stored)
    /\ row' = "failed"
    /\ Reset
    /\ UNCHANGED <<listed, points, paged, ingests>>

\* delete_document, of a document no worker is at: the chunks, the file and the row.
DeleteDocument ==
    /\ row \in {"indexed", "failed"}
    /\ row' = "deleted" /\ listed' = <<>>
    /\ UNCHANGED <<chunkVars, objects, points, paged, ingests>>

StoresNext ==
    \/ Reingest \/ ClearVectors \/ ClearObjects \/ ParseStored \/ ResolveFigures \/ BuildChunk
    \/ UpsertChunks \/ SkipPages \/ IndexPages \/ PagePassRaises \/ IngestFails \/ DeleteDocument
=============================================================================

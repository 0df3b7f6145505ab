--------------------------- MODULE PassagesProofs ---------------------------
(***************************************************************************)
(* Proofs about Passages, for every file, every setting and any number of  *)
(* ingestions: what a search can return has its image in MinIO; nothing of *)
(* a file is lost between its elements and its windows; a window, a table  *)
(* and a figure stand under the title above them and in the order of the   *)
(* file; and the packing keeps the budgets of an answer.                   *)
(*                                                                         *)
(* The recursive functions of Chunker are known by their equations only.   *)
(* What such a function computes is shown by climbing from 0 to its last   *)
(* argument: of a set that has 0, and n + 1 whenever it has n, Climb says  *)
(* that it has every number, and LeastElement that a least one is missing  *)
(* otherwise.                                                              *)
(***************************************************************************)
EXTENDS PassagesInvariants, FiniteSetTheorems, SequenceTheorems, TLAPS

\* The empty sequence has no elements.
LEMMA NothingListed == ToSet(<<>>) = {}
BY DEF ToSet

\* A figure chunk points to a crop that was stored.
LEMMA UriIsCropped ==
  ASSUME NEW c, Uri(c) # 0
  PROVE  Uri(c) \in Cropped
BY DEF Uri

\* The chunks of an upsert point to the crops of the file that was parsed.
LEMMA UpsertResolves ==
  ASSUME MediaInv, UpsertChunks
  PROVE  Resolves(listed', objects')
<1> SUFFICES ASSUME NEW c \in ToSet(listed'), c.uri # 0 PROVE <<"figure", c.uri>> \in objects'
  BY DEF Resolves
<1>1. PICK i \in 1..Len(chunks) :
        c = [id |-> i, kind |-> chunks[i].kind, size |-> chunks[i].size, uri |-> Uri(chunks[i])]
  BY DEF UpsertChunks, ToSet
<1>2. c.uri \in Cropped
  BY <1>1, UriIsCropped
<1>3. <<"figure", c.uri>> \in Crops(Cropped)
  BY <1>2 DEF Crops
<1> QED
  BY <1>3 DEF UpsertChunks, MediaInv, StagesInv

\* The steps of the stores, one by one.
LEMMA StoresKeepMedia ==
  ASSUME MediaInv, StoresNext
  PROVE  MediaInv'
<1>0. /\ StagesInv /\ Resolves(listed, objects)
      /\ row = "indexed" /\ paged => Renders(points) \subseteq objects
  BY DEF MediaInv, MediaResolves, Resolves
<1> SUFFICES /\ StagesInv' /\ Resolves(listed', objects')
             /\ (row = "indexed" /\ paged => Renders(points) \subseteq objects)'
  BY DEF MediaInv, MediaResolves, Resolves
<1>1. CASE Reingest
  BY <1>0, <1>1 DEF Reingest, StagesInv, Resolves
<1>2. CASE ClearVectors
  BY <1>0, <1>2, NothingListed DEF ClearVectors, StagesInv, Resolves
<1>3. CASE ClearObjects
  BY <1>0, <1>3, NothingListed DEF ClearObjects, StagesInv, Resolves
<1>4. CASE ParseStored
  BY <1>0, <1>4 DEF ParseStored, StagesInv, Resolves
<1>5. CASE ResolveFigures
  <2>1. Cropped' = Cropped
    BY <1>5 DEF ResolveFigures, chunkVars, Cropped, Docling
  <2> QED
    BY <1>0, <1>5, <2>1 DEF ResolveFigures, StagesInv, Resolves, Crops
<1>6. CASE BuildChunk
  <2>1. Cropped' = Cropped
    BY <1>6 DEF BuildChunk, ChunkNext, AddText, AddVisual, LastFlush, AddElement, Cropped, Docling
  <2> QED
    BY <1>0, <1>6, <2>1 DEF BuildChunk, storeVars, StagesInv, Resolves, Crops
<1>7. CASE UpsertChunks
  BY <1>0, <1>7, UpsertResolves DEF UpsertChunks, StagesInv, MediaInv
<1>8. CASE SkipPages
  BY <1>0, <1>8 DEF SkipPages, StagesInv, Resolves
<1>9. CASE IndexPages
  BY <1>0, <1>9 DEF IndexPages, StagesInv, Resolves, Renders
<1>10. CASE PagePassRaises
  BY <1>0, <1>10 DEF PagePassRaises, StagesInv, Resolves, Renders
<1>11. CASE IngestFails
  BY <1>0, <1>11 DEF IngestFails, StagesInv, Resolves
<1>12. CASE DeleteDocument
  BY <1>0, <1>12, NothingListed DEF DeleteDocument, StagesInv, Resolves
<1> QED
  BY <1>1, <1>2, <1>3, <1>4, <1>5, <1>6, <1>7, <1>8, <1>9, <1>10, <1>11, <1>12 DEF StoresNext

\* A search reads the stores and leaves them.
LEMMA SearchKeepsMedia ==
  ASSUME MediaInv, UNCHANGED <<chunkVars, storeVars>>
  PROVE  MediaInv'
BY DEF MediaInv, StagesInv, MediaResolves, chunkVars, storeVars, Cropped, Docling, Crops, Renders, ToSet

\* indexer.py, pages.py: no step of an ingestion, a re-ingestion, a failure or a deletion
\* leads out of the stages.
THEOREM MediaInvariant == Spec => []MediaInv
<1>1. Init => MediaInv
  BY NothingListed DEF Init, StoresInit, MediaInv, StagesInv, MediaResolves
<1>2. MediaInv /\ [Next]_vars => MediaInv'
  BY StoresKeepMedia, SearchKeepsMedia DEF Next, Stores, SearchChunks, SearchPages, PackText, PackPage, vars
<1> QED
  BY <1>1, <1>2, PTL DEF Spec

\* indexer.py 76-80, pages.py 96: for every file, every limit and any number of
\* re-ingestions and failures, a chunk that can be found points to a crop that is there,
\* and the pages that can be found have their renders.
THEOREM ImagesResolve == Spec => []MediaResolves
<1>1. MediaInv => MediaResolves
  BY DEF MediaInv
<1> QED
  BY <1>1, MediaInvariant, PTL

-----------------------------------------------------------------------------
(* Recursive functions: what an equation defines, and induction over it.   *)

\* A set of numbers that is not empty has a least element.
LEMMA LeastElement ==
  ASSUME NEW T \in SUBSET Nat, T # {}
  PROVE  \E m \in T : \A n \in T : m <= n
<1> DEFINE Below == {0..n : n \in T}
<1>1. Below \subseteq FiniteSubsetsOf(Nat) /\ Below # {}
  <2>1. \A n \in T : IsFiniteSet(0..n) /\ 0..n \subseteq Nat
    BY FS_Interval
  <2> QED
    BY <2>1 DEF FiniteSubsetsOf
<1>2. IsWellFoundedOn(StrictSubsetOrdering(Nat), FiniteSubsetsOf(Nat))
  BY FS_StrictSubsetOrderingWellFounded
<1> HIDE DEF Below
<1>3. PICK b \in Below : \A c \in Below : ~(<<c, b>> \in StrictSubsetOrdering(Nat))
  BY <1>1, <1>2, WFMin
<1>4. PICK m \in T : b = 0..m
  BY DEF Below
<1> SUFFICES ASSUME NEW n \in T, n < m PROVE FALSE
  OBVIOUS
<1>5. 0..n \in Below /\ 0..n \in SUBSET Nat /\ 0..m \in SUBSET Nat
  BY DEF Below
<1>6. 0..n \subseteq 0..m /\ 0..n # 0..m
  <2>1. m \in 0..m /\ m \notin 0..n
    OBVIOUS
  <2> QED
    BY <2>1
<1> QED
  BY <1>3, <1>4, <1>5, <1>6 DEF StrictSubsetOrdering

\* Induction: a set that has 0, and the next number of each it has, has all of them.
LEMMA Climb ==
  ASSUME NEW N \in Nat, NEW T, 0 \in T, \A n \in 0..(N - 1) : n \in T => n + 1 \in T
  PROVE  \A n \in 0..N : n \in T
<1> SUFFICES ASSUME NEW x \in 0..N, x \notin T PROVE FALSE
  OBVIOUS
<1> DEFINE Out == {n \in 0..N : n \notin T}
<1>1. Out \in SUBSET Nat /\ Out # {}
  OBVIOUS
<1> HIDE DEF Out
<1>2. PICK m \in Out : \A n \in Out : m <= n
  BY <1>1, LeastElement
<1>3. m \in Nat /\ m # 0 /\ m - 1 \in 0..(N - 1) /\ m - 1 \notin Out
  BY <1>2 DEF Out
<1>4. (m - 1) + 1 = m
  BY <1>3
<1> QED
  BY <1>2, <1>3, <1>4 DEF Out

\* A recursive function over 0..N: there is one, and only one, that satisfies the equation.
LEMMA FoldExists ==
  ASSUME NEW N, NEW S, NEW base, NEW F, Foldable(N, S, base, F)
  PROVE  Folded(N, S, base, F)
<1>0. N \in Nat /\ base \in S /\ F \in [1..N -> [S -> S]]
  BY DEF Foldable
<1> DEFINE Good(m, f) == /\ f \in [0..m -> S] /\ f[0] = base
                         /\ \A n \in 1..m : f[n] = F[n][f[n - 1]]
           T == {m \in 0..N : \E f : Good(m, f)}
<1>1. 0 \in T
  <2> DEFINE g == [n \in 0..0 |-> base]
  <2>1. g \in [0..0 -> S] /\ g[0] = base
    BY <1>0
  <2> HIDE DEF g
  <2>2. Good(0, g)
    BY <2>1
  <2> QED
    BY <1>0, <2>2
<1>2. ASSUME NEW m \in 0..(N - 1), m \in T
      PROVE  m + 1 \in T
  <2>1. PICK f : Good(m, f)
    BY <1>2
  <2> DEFINE more == F[m + 1][f[m]]
             g == [n \in 0..(m + 1) |-> IF n = m + 1 THEN more ELSE f[n]]
  <2>2. more \in S
    <3>1. f[m] \in S /\ m + 1 \in 1..N
      BY <1>0, <2>1
    <3> QED
      BY <1>0, <3>1
  <2> HIDE DEF more
  <2>3. g \in [0..(m + 1) -> S] /\ g[0] = base
    BY <1>0, <2>1, <2>2
  <2>4. ASSUME NEW n \in 1..(m + 1)
        PROVE  g[n] = F[n][g[n - 1]]
    <3>1. CASE n = m + 1
      <4>1. g[n] = more /\ g[n - 1] = f[m]
        BY <3>1
      <4> HIDE DEF g
      <4> QED
        BY <3>1, <4>1 DEF more
    <3>2. CASE n # m + 1
      <4>1. n \in 1..m /\ g[n] = f[n] /\ g[n - 1] = f[n - 1]
        BY <3>2
      <4> HIDE DEF g
      <4> QED
        BY <1>0, <2>1, <4>1
    <3> QED
      BY <3>1, <3>2
  <2> HIDE DEF g
  <2>5. Good(m + 1, g)
    BY <2>3, <2>4
  <2> QED
    BY <1>0, <2>5
<1> HIDE DEF T
<1>3. \A n \in 0..(N - 1) : n \in T => n + 1 \in T
  BY <1>2
<1>4. \A n \in 0..N : n \in T
  BY <1>0, <1>1, <1>3, Climb
<1>5. N \in T
  BY <1>0, <1>4
<1> QED
  BY <1>5 DEF T, Folded

-----------------------------------------------------------------------------
(* Numbers in their order, and sequences made of sequences.                *)

\* InOrder lists a finite set of numbers in their order.
LEMMA InOrderLists ==
  ASSUME NEW is \in SUBSET Nat, IsFiniteSet(is)
  PROVE  Lists(InOrder(is), is) /\ Len(InOrder(is)) = Cardinality(is)
<1> DEFINE C == Cardinality(is)
           UpTo(i) == {j \in is : j <= i}
           rank == [i \in is |-> Cardinality(UpTo(i))]
<1>0. /\ \A i \in is : i \in Nat
      /\ \A i, k \in is : ~(i < k) => i = k \/ k < i
  OBVIOUS
<1>1. C \in Nat
  BY FS_CardinalityType
<1>2. \A i \in is : /\ UpTo(i) \in SUBSET is /\ IsFiniteSet(UpTo(i)) /\ Cardinality(UpTo(i)) \in 1..C
  <2> TAKE i \in is
  <2>1. UpTo(i) \in SUBSET is /\ i \in UpTo(i)
    OBVIOUS
  <2> HIDE DEF UpTo
  <2>2. IsFiniteSet(UpTo(i)) /\ Cardinality(UpTo(i)) <= C
    BY <2>1, FS_Subset
  <2>3. Cardinality(UpTo(i)) \in Nat /\ Cardinality(UpTo(i)) # 0
    BY <2>1, <2>2, FS_CardinalityType, FS_EmptySet
  <2> QED
    BY <1>1, <2>1, <2>2, <2>3
<1>3. \A i, k \in is : i < k => Cardinality(UpTo(i)) < Cardinality(UpTo(k))
  <2> SUFFICES ASSUME NEW i \in is, NEW k \in is, i < k
               PROVE  Cardinality(UpTo(i)) < Cardinality(UpTo(k))
    OBVIOUS
  <2>1. \A j \in is : j <= i => j <= k
    BY <1>0
  <2>2. ~(k <= i) /\ k <= k
    BY <1>0
  <2>3. UpTo(i) \in SUBSET UpTo(k) /\ k \in UpTo(k) /\ k \notin UpTo(i)
    BY <2>1, <2>2
  <2> HIDE DEF UpTo
  <2>4. /\ Cardinality(UpTo(i)) <= Cardinality(UpTo(k))
        /\ Cardinality(UpTo(k)) = Cardinality(UpTo(i)) => UpTo(k) = UpTo(i)
    BY <1>2, <2>3, FS_Subset
  <2> QED
    BY <1>2, <2>3, <2>4
<1> HIDE DEF UpTo, C
<1>4. rank \in Injection(is, 1..C)
  <2>1. rank \in [is -> 1..C]
    BY <1>2
  <2>2. \A i, k \in is : rank[i] = rank[k] => i = k
    <3> SUFFICES ASSUME NEW i \in is, NEW k \in is, rank[i] = rank[k], i # k PROVE FALSE
      OBVIOUS
    <3>1. i < k \/ k < i
      OBVIOUS
    <3>2. rank[i] < rank[k] \/ rank[k] < rank[i]
      BY <1>3, <3>1
    <3> QED
      BY <1>2, <3>2
  <2> HIDE DEF rank
  <2> QED
    BY <2>1, <2>2 DEF Injection, IsInjective
<1> HIDE DEF rank
<1>5. rank \in Surjection(is, 1..C)
  <2>1. IsFiniteSet(1..C) /\ Cardinality(1..C) = C
    BY <1>1, FS_Interval
  <2> QED
    BY <1>4, <2>1, FS_Injection DEF C
<1>6. \A n \in 1..C : \E i \in is : Cardinality(UpTo(i)) = n
  BY <1>5 DEF Surjection, rank
<1> DEFINE order == InOrder(is)
<1>7. order = [n \in 1..C |-> CHOOSE i \in is : Cardinality(UpTo(i)) = n]
  BY DEF InOrder, C, UpTo
<1> HIDE DEF order
<1>8. \A n \in 1..C : order[n] \in is /\ Cardinality(UpTo(order[n])) = n
  BY <1>6, <1>7
<1>9. order \in Seq(is) /\ Len(order) = C
  BY <1>1, <1>7, <1>8
<1>10. \A m, n \in 1..C : m < n => order[m] < order[n]
  <2> SUFFICES ASSUME NEW m \in 1..C, NEW n \in 1..C, m < n, ~(order[m] < order[n]) PROVE FALSE
    OBVIOUS
  <2>1. order[m] \in is /\ order[n] \in is
    BY <1>8
  <2>2. order[n] = order[m] \/ order[n] < order[m]
    BY <1>0, <2>1
  <2>3. CASE order[n] = order[m]
    <3>1. n = m
      BY <1>8, <2>3
    <3> QED
      BY <1>1, <3>1
  <2>4. CASE order[n] < order[m]
    <3>1. Cardinality(UpTo(order[n])) < Cardinality(UpTo(order[m]))
      BY <1>3, <2>1, <2>4
    <3>2. n < m
      BY <1>8, <3>1
    <3> QED
      BY <1>1, <3>2
  <2> QED
    BY <2>2, <2>3, <2>4
<1>11. \A i \in is : order[Cardinality(UpTo(i))] = i
  <2> SUFFICES ASSUME NEW i \in is, order[Cardinality(UpTo(i))] # i PROVE FALSE
    OBVIOUS
  <2> DEFINE k == order[Cardinality(UpTo(i))]
  <2>1. k \in is /\ Cardinality(UpTo(k)) = Cardinality(UpTo(i))
    BY <1>2, <1>8
  <2> HIDE DEF k
  <2>2. k < i \/ i < k
    <3>1. k # i
      BY DEF k
    <3> QED
      BY <1>0, <2>1, <3>1
  <2>3. Cardinality(UpTo(i)) \in Nat
    BY <1>2
  <2> QED
    BY <1>3, <2>1, <2>2, <2>3
<1> QED
  BY <1>2, <1>9, <1>10, <1>11 DEF Lists, order, C

\* What a sequence has at the places of a set, in their order.
LEMMA AtLists ==
  ASSUME NEW S, NEW s \in Seq(S), NEW is \in SUBSET (1..Len(s))
  PROVE  \E order : /\ Lists(order, is) /\ At(s, is) = [n \in 1..Len(order) |-> s[order[n]]]
                    /\ At(s, is) \in Seq(S) /\ Len(At(s, is)) = Len(order) /\ Len(order) \in Nat
<1>1. is \in SUBSET Nat /\ IsFiniteSet(is)
  <2>1. Len(s) \in Nat /\ IsFiniteSet(1..Len(s)) /\ 1..Len(s) \in SUBSET Nat
    BY FS_Interval
  <2> QED
    BY <2>1, FS_Subset
<1>2. Lists(InOrder(is), is)
  BY <1>1, InOrderLists
<1> DEFINE order == InOrder(is)
<1>3. At(s, is) = [n \in 1..Len(order) |-> s[order[n]]] /\ Len(order) \in Nat /\ order \in Seq(is)
  BY <1>2 DEF At, Lists
<1> HIDE DEF order
<1>4. At(s, is) \in Seq(S) /\ Len(At(s, is)) = Len(order)
  <2>1. \A n \in 1..Len(order) : order[n] \in 1..Len(s)
    <3>1. \A n \in 1..Len(order) : order[n] \in is
      BY <1>3
    <3> QED
      BY <3>1
  <2>2. \A n \in 1..Len(order) : s[order[n]] \in S
    BY <2>1
  <2> QED
    BY <1>3, <2>2
<1> QED
  BY <1>2, <1>3, <1>4 DEF order

\* FlattenSeq by its equation.
LEMMA FlattenUnfolds ==
  ASSUME NEW S, NEW seqs \in Seq(Seq(S))
  PROVE  \E f \in [0..Len(seqs) -> Seq(S)] :
           /\ FlattenSeq(seqs) = f[Len(seqs)]
           /\ f[0] = <<>>
           /\ \A n \in 1..Len(seqs) : f[n] = f[n - 1] \o seqs[n]
<1>0. PICK N \in Nat : N = Len(seqs)
  OBVIOUS
<1> DEFINE Strings == Seq(S)
           F == [n \in 1..N |-> [s \in Strings |-> s \o seqs[n]]]
<1>1. N \in Nat /\ <<>> \in Strings /\ \A n \in 1..N : seqs[n] \in Strings
  BY <1>0
<1>2. \A n \in 1..N, s \in Strings : s \o seqs[n] \in Strings
  BY <1>1, ConcatProperties
<1> HIDE DEF Strings
<1>3. F \in [1..N -> [Strings -> Strings]] /\ \A n \in 1..N, s \in Strings : F[n][s] = s \o seqs[n]
  BY <1>2
<1> HIDE DEF F
<1>4. PICK f \in [0..N -> Strings] : f[0] = <<>> /\ \A n \in 1..N : f[n] = f[n - 1] \o seqs[n]
  <2>0. N \in Nat /\ <<>> \in Strings /\ F \in [1..N -> [Strings -> Strings]]
    BY <1>1, <1>3
  <2>1. PICK f \in [0..N -> Strings] : f[0] = <<>> /\ \A n \in 1..N : f[n] = F[n][f[n - 1]]
    <3>1. Foldable(N, Strings, <<>>, F)
      BY <2>0 DEF Foldable
    <3>2. Folded(N, Strings, <<>>, F)
      BY <3>1, FoldExists
    <3> QED
      BY <3>2 DEF Folded
  <2>2. \A n \in 1..N : f[n - 1] \in Strings
    BY <1>1, <2>1
  <2>3. \A n \in 1..N : f[n] = f[n - 1] \o seqs[n]
    BY <1>3, <2>1, <2>2
  <2> QED
    BY <2>1, <2>3
<1>5. CASE N = 0
  <2>1. seqs = <<>>
    BY <1>0, <1>5, EmptySeq
  <2>2. FlattenSeq(seqs) = f[N]
    BY <1>0, <1>4, <1>5, <2>1 DEF FlattenSeq
  <2> QED
    BY <1>0, <1>4, <2>2 DEF Strings
<1>6. CASE N # 0
  <2> DEFINE Eq(g) == g = [i \in 1..N |-> IF i = 1 THEN seqs[i] ELSE g[i - 1] \o seqs[i]]
             g0 == [i \in 1..N |-> f[i]]
  <2>1. FlattenSeq(seqs) = (CHOOSE t : Eq(t))[N]
    BY <1>0, <1>6 DEF FlattenSeq
  <2>2. Eq(g0)
    <3> DEFINE h == [i \in 1..N |-> IF i = 1 THEN seqs[i] ELSE g0[i - 1] \o seqs[i]]
    <3>1. ASSUME NEW i \in 1..N PROVE g0[i] = h[i]
      <4>1. CASE i = 1
        <5>0. f[i] = f[i - 1] \o seqs[i]
          BY <1>4
        <5>1. f[i] = f[0] \o seqs[i]
          BY <4>1, <5>0
        <5>2. f[i] = <<>> \o seqs[i] /\ seqs[i] \in Seq(S)
          BY <1>1, <1>4, <5>1 DEF Strings
        <5>3. f[i] = seqs[i]
          BY <5>2, ConcatEmptySeq
        <5> QED
          BY <4>1, <5>3
      <4>2. CASE i # 1
        <5>1. i - 1 \in 1..N
          BY <1>1, <4>2
        <5> QED
          BY <1>4, <4>2, <5>1
      <4> QED
        BY <4>1, <4>2
    <3>2. DOMAIN g0 = 1..N /\ DOMAIN h = 1..N /\ g0 = [i \in DOMAIN g0 |-> g0[i]] /\ h = [i \in DOMAIN h |-> h[i]]
      OBVIOUS
    <3>3. g0 = h
      BY <3>1, <3>2
    <3> QED
      BY <3>3
  <2>3. PICK g : g = CHOOSE t : Eq(t)
    OBVIOUS
  <2>4. Eq(g)
    BY <2>2, <2>3
  <2> DEFINE T == {n \in 0..N : n = 0 \/ g[n] = f[n]}
  <2>5. \A n \in 0..(N - 1) : n \in T => n + 1 \in T
    <3> SUFFICES ASSUME NEW n \in 0..(N - 1), n \in T PROVE g[n + 1] = f[n + 1]
      BY <1>1
    <3>0. n + 1 \in 1..N /\ (n + 1) - 1 = n
      BY <1>1
    <3>1. g[n + 1] = IF n + 1 = 1 THEN seqs[n + 1] ELSE g[n] \o seqs[n + 1]
      BY <2>4, <3>0
    <3>2. f[n + 1] = f[n] \o seqs[n + 1] /\ seqs[n + 1] \in Seq(S)
      BY <1>1, <1>4, <3>0 DEF Strings
    <3>3. CASE n = 0
      <4>1. f[n + 1] = <<>> \o seqs[n + 1]
        BY <1>4, <3>2, <3>3
      <4>2. f[n + 1] = seqs[n + 1]
        BY <3>2, <4>1, ConcatEmptySeq
      <4> QED
        BY <3>1, <3>3, <4>2
    <3>4. CASE n # 0
      <4>1. g[n] = f[n] /\ n + 1 # 1
        BY <3>4, <1>1
      <4> QED
        BY <3>1, <3>2, <4>1
    <3> QED
      BY <3>3, <3>4
  <2>6. 0 \in T
    BY <1>1
  <2> HIDE DEF T, Eq
  <2>7. \A n \in 0..N : n \in T
    BY <1>1, <2>5, <2>6, Climb
  <2>8. g[N] = f[N]
    <3>1. N \in T
      BY <1>1, <2>7
    <3> QED
      BY <1>6, <3>1 DEF T
  <2>9. FlattenSeq(seqs) = f[N]
    BY <2>1, <2>3, <2>8
  <2> QED
    BY <1>0, <1>4, <2>9 DEF Strings
<1> QED
  BY <1>5, <1>6

\* One sequence behind another.
LEMMA Concatenates ==
  ASSUME NEW S, NEW s \in Seq(S), NEW t \in Seq(S)
  PROVE  s \o t \in Seq(S) /\ Behind(s \o t, s, t)
BY DEF Behind

\* FlattenSeq lays the sequences one behind the other.
LEMMA FlattenLays ==
  ASSUME NEW S, NEW seqs \in Seq(Seq(S))
  PROVE  FlattenSeq(seqs) \in Seq(S) /\ \E off : Laid(off, seqs, FlattenSeq(seqs))
<1>0. PICK N \in Nat : N = Len(seqs)
  OBVIOUS
<1>1. PICK f \in [0..N -> Seq(S)] :
        /\ FlattenSeq(seqs) = f[N]
        /\ f[0] = <<>>
        /\ \A n \in 1..N : f[n] = f[n - 1] \o seqs[n]
  BY <1>0, FlattenUnfolds
<1>2. \A n \in 1..N : seqs[n] \in Seq(S) /\ Len(seqs[n]) \in Nat
  BY <1>0
<1> DEFINE off == [n \in 0..N |-> Len(f[n])]
<1>3. \A n \in 0..N : f[n] \in Seq(S) /\ off[n] = Len(f[n]) /\ off[n] \in Nat
  BY <1>1
<1>4. off \in [0..N -> Nat] /\ off[0] = 0
  <2>1. 0 \in 0..N
    OBVIOUS
  <2> QED
    BY <1>1, <1>3, <2>1
<1> HIDE DEF off
<1>5. ASSUME NEW n \in 1..N
      PROVE  /\ off[n] = off[n - 1] + Len(seqs[n])
             /\ Len(f[n]) = off[n]
             /\ \A i \in 1..off[n] : f[n][i] = IF i <= off[n - 1] THEN f[n - 1][i] ELSE seqs[n][i - off[n - 1]]
  <2>1. n - 1 \in 0..N /\ n \in 0..N
    OBVIOUS
  <2>2. f[n - 1] \in Seq(S) /\ seqs[n] \in Seq(S) /\ f[n] = f[n - 1] \o seqs[n]
    BY <1>1, <1>2, <1>3, <2>1
  <2>3. /\ Len(f[n]) = Len(f[n - 1]) + Len(seqs[n])
        /\ \A i \in 1..(Len(f[n - 1]) + Len(seqs[n])) :
             f[n][i] = IF i <= Len(f[n - 1]) THEN f[n - 1][i] ELSE seqs[n][i - Len(f[n - 1])]
    <3>1. Behind(f[n - 1] \o seqs[n], f[n - 1], seqs[n])
      BY <2>2, Concatenates
    <3>2. Behind(f[n], f[n - 1], seqs[n])
      BY <2>2, <3>1
    <3> QED
      BY <3>2 DEF Behind
  <2> QED
    BY <1>3, <2>1, <2>3
<1> DEFINE Prefix(n) ==
             /\ \A m \in 0..n : off[m] <= off[n]
             /\ \A m \in 1..n : \A k \in 1..Len(seqs[m]) : f[n][off[m - 1] + k] = seqs[m][k]
             /\ \A p \in 1..off[n] : \E m \in 1..n : \E k \in 1..Len(seqs[m]) : p = off[m - 1] + k
           T == {n \in 0..N : Prefix(n)}
<1>6. 0 \in T
  BY <1>4
<1>7. ASSUME NEW n \in 0..(N - 1), n \in T
      PROVE  n + 1 \in T
  <2>0. n + 1 \in 1..N /\ n \in 0..N /\ n + 1 \in 0..N /\ (n + 1) - 1 = n
    OBVIOUS
  <2>1. Prefix(n)
    BY <1>7
  <2>2. /\ off[n + 1] = off[n] + Len(seqs[n + 1]) /\ Len(f[n + 1]) = off[n + 1]
        /\ \A i \in 1..off[n + 1] :
             f[n + 1][i] = IF i <= off[n] THEN f[n][i] ELSE seqs[n + 1][i - off[n]]
    BY <1>5, <2>0
  <2>3. off[n] \in Nat /\ off[n + 1] \in Nat /\ Len(seqs[n + 1]) \in Nat
    BY <1>2, <1>3, <2>0
  <2>4. \A m \in 0..(n + 1) : off[m] <= off[n + 1]
    <3> SUFFICES ASSUME NEW m \in 0..(n + 1) PROVE off[m] <= off[n + 1]
      OBVIOUS
    <3>1. CASE m = n + 1
      BY <2>3, <3>1
    <3>2. CASE m # n + 1
      <4>1. m \in 0..n /\ m \in 0..N
        BY <3>2
      <4>2. off[m] <= off[n] /\ off[m] \in Nat
        BY <1>3, <2>1, <4>1
      <4>3. PICK x \in Nat, y \in Nat, z \in Nat, k \in Nat :
                x = off[m] /\ y = off[n] /\ z = off[n + 1] /\ k = Len(seqs[n + 1])
        BY <2>2, <2>3, <4>2
      <4>4. x <= y
        BY <4>2, <4>3
      <4>5. z = y + k
        BY <2>2, <4>3
      <4>6. x <= z
        BY <4>4, <4>5
      <4> QED
        BY <4>3, <4>6
    <3> QED
      BY <3>1, <3>2
  <2>5. ASSUME NEW m \in 1..(n + 1), NEW k \in 1..Len(seqs[m])
        PROVE  f[n + 1][off[m - 1] + k] = seqs[m][k]
    <3>0. m \in 1..N /\ m - 1 \in 0..N /\ m \in 0..N
      OBVIOUS
    <3>1. Len(seqs[m]) \in Nat /\ off[m] = off[m - 1] + Len(seqs[m]) /\ off[m - 1] \in Nat
      BY <1>2, <1>3, <1>5, <3>0
    <3>a. PICK a \in Nat, b \in Nat, c \in Nat : a = off[m - 1] /\ b = off[m] /\ c = off[n]
      BY <1>3, <2>3, <3>0
    <3>b. k \in 1..(b - a) /\ k \in Nat /\ a <= b
      <4>1. PICK h \in Nat : h = Len(seqs[m]) /\ b = a + h
        BY <3>1, <3>a
      <4>2. k \in 1..h
        BY <4>1
      <4> QED
        BY <4>1, <4>2
    <3>2. CASE m = n + 1
      <4>0. m - 1 = n
        BY <3>2
      <4>a. a = c /\ off[n + 1] = b
        BY <3>2, <3>a, <4>0
      <4>1. a + k \in 1..b /\ ~(a + k <= a) /\ (a + k) - a = k
        BY <3>b
      <4> QED
        BY <2>2, <3>2, <3>a, <4>a, <4>1
    <3>3. CASE m # n + 1
      <4>1. m \in 1..n /\ m \in 0..n
        BY <3>3
      <4>2. f[n][off[m - 1] + k] = seqs[m][k] /\ off[m] <= off[n]
        BY <2>1, <4>1
      <4>3. PICK d \in Nat : d = off[n + 1]
        BY <2>3
      <4>4. b <= c /\ c <= d
        <5>1. off[n] <= off[n + 1]
          BY <2>0, <2>4
        <5> QED
          BY <3>a, <4>2, <4>3, <5>1
      <4>5. a + k \in 1..d /\ a + k <= c
        BY <3>b, <4>4
      <4> QED
        BY <2>2, <3>a, <4>2, <4>3, <4>5
    <3> QED
      BY <3>2, <3>3
  <2>6. ASSUME NEW p \in 1..off[n + 1]
        PROVE  \E m \in 1..(n + 1) : \E k \in 1..Len(seqs[m]) : p = off[m - 1] + k
    <3>1. CASE p <= off[n]
      <4>1. p \in 1..off[n]
        BY <2>3, <3>1
      <4>2. PICK m \in 1..n : \E k \in 1..Len(seqs[m]) : p = off[m - 1] + k
        BY <2>1, <4>1
      <4> QED
        BY <4>2
    <3>2. CASE ~(p <= off[n])
      <4>0. PICK a \in Nat, b \in Nat : a = off[n] /\ b = Len(seqs[n + 1]) /\ p \in 1..(a + b)
        BY <2>2, <2>3
      <4>1. p - off[n] \in 1..Len(seqs[n + 1]) /\ p = off[n] + (p - off[n])
        <5>1. ~(p <= a)
          BY <3>2, <4>0
        <5>2. p \in 1..(a + b)
          BY <4>0
        <5>3. p - a \in 1..b /\ p = a + (p - a)
          BY <5>1, <5>2
        <5> QED
          BY <4>0, <5>3
      <4>2. n + 1 \in 1..(n + 1)
        OBVIOUS
      <4> QED
        BY <2>0, <4>1, <4>2
    <3> QED
      BY <3>1, <3>2
  <2>7. Prefix(n + 1)
    BY <2>4, <2>5, <2>6
  <2> QED
    BY <2>0, <2>7
<1> HIDE DEF T
<1>8. \A n \in 0..N : n \in T
  <2>1. \A n \in 0..(N - 1) : n \in T => n + 1 \in T
    BY <1>7
  <2> QED
    BY <1>6, <2>1, Climb
<1>9. \A n \in 0..N : Prefix(n)
  BY <1>8 DEF T
<1>10. Len(FlattenSeq(seqs)) = off[N] /\ FlattenSeq(seqs) = f[N] /\ FlattenSeq(seqs) \in Seq(S) /\ N \in 0..N
  BY <1>1, <1>3
<1>11. Laid(off, seqs, FlattenSeq(seqs))
  <2>1. Prefix(N)
    BY <1>9, <1>10
  <2>2. \A n \in 1..N : off[n] = off[n - 1] + Len(seqs[n])
    BY <1>5
  <2>3. \A n \in 0..N : \A m \in 0..n : off[m] <= off[n]
    BY <1>9
  <2> HIDE DEF Prefix
  <2>4. /\ \A m \in 1..N : \A k \in 1..Len(seqs[m]) : f[N][off[m - 1] + k] = seqs[m][k]
        /\ \A p \in 1..off[N] : \E m \in 1..N : \E k \in 1..Len(seqs[m]) : p = off[m - 1] + k
    BY <2>1 DEF Prefix
  <2> QED
    BY <1>0, <1>4, <1>10, <2>2, <2>3, <2>4 DEF Laid
<1> QED
  BY <1>10, <1>11

-----------------------------------------------------------------------------
(* Lines of places, joined: no place is lost, and those in order stay so.  *)

\* chunker.py: two paragraphs are joined by a blank line.
LEMMA JoinedGlues ==
  ASSUME NEW a \in Line, NEW b \in Line
  PROVE  Glued(Joined(a, b), a, b, IF a = <<>> THEN 0 ELSE 2)
<1>1. CASE a = <<>>
  <2>1. Joined(a, b) = b /\ Len(a) = 0 /\ Len(b) \in Nat
    BY <1>1 DEF Joined, Line
  <2>2. Glued(b, a, b, 0)
    BY <2>1 DEF Glued, Line
  <2> QED
    BY <1>1, <2>1, <2>2
<1>2. CASE a # <<>>
  <2> DEFINE c == a \o <<0, 0>>
             w == c \o b
  <2>1. <<0, 0>> \in Seq(Nat) /\ Len(<<0, 0>>) = 2
    OBVIOUS
  <2>2. c \in Seq(Nat) /\ Behind(c, a, <<0, 0>>)
    BY <2>1, Concatenates DEF Line
  <2> HIDE DEF c
  <2>3. w \in Seq(Nat) /\ Behind(w, c, b)
    BY <2>2, Concatenates DEF Line
  <2>4. Joined(a, b) = w
    BY <1>2 DEF Joined, c
  <2> HIDE DEF w
  <2>5. PICK x \in Nat, y \in Nat : x = Len(a) /\ y = Len(b) /\ Len(c) = x + 2 /\ Len(w) = x + 2 + y
    BY <2>1, <2>2, <2>3 DEF Behind
  <2>6. \A i \in 1..x : i \in 1..(x + 2) /\ c[i] = a[i]
    BY <2>2, <2>5 DEF Behind
  <2>7. c[x + 1] = 0 /\ c[x + 2] = 0
    <3>1. \A i \in 1..2 : <<0, 0>>[i] = 0
      OBVIOUS
    <3>2. x + 1 \in 1..(x + 2) /\ x + 2 \in 1..(x + 2) /\ ~(x + 1 <= x) /\ ~(x + 2 <= x)
          /\ (x + 1) - x = 1 /\ (x + 2) - x = 2
      OBVIOUS
    <3> QED
      BY <2>1, <2>2, <2>5, <3>1, <3>2 DEF Behind
  <2>8. \A i \in 1..(x + 2) : w[i] = c[i]
    BY <2>3, <2>5 DEF Behind
  <2>9. \A i \in 1..y : w[x + 2 + i] = b[i]
    <3> SUFFICES ASSUME NEW i \in 1..y PROVE w[x + 2 + i] = b[i]
      OBVIOUS
    <3> DEFINE k == x + 2 + i
    <3>1. k \in 1..(x + 2 + y) /\ ~(k <= x + 2) /\ k - (x + 2) = i
      OBVIOUS
    <3> HIDE DEF k
    <3>2. w[k] = IF k <= x + 2 THEN c[k] ELSE b[k - (x + 2)]
      BY <2>3, <2>5, <3>1 DEF Behind
    <3>3. w[k] = b[i]
      BY <3>1, <3>2
    <3> QED
      BY <3>3 DEF k
  <2>10. \A i \in 1..2 : w[x + i] = 0
    BY <2>7, <2>8
  <2>11. \A i \in 1..x : w[i] = a[i]
    BY <2>6, <2>8
  <2>12. Glued(w, a, b, 2)
    BY <2>3, <2>5, <2>9, <2>10, <2>11 DEF Glued, Line
  <2> QED
    BY <1>2, <2>4, <2>12
<1> QED
  BY <1>1, <1>2

\* office.py: two lines of a paragraph are joined by a line break.
LEMMA JoinedLineGlues ==
  ASSUME NEW a \in Line, NEW b \in Line
  PROVE  Glued(JoinedLine(a, b), a, b, IF a = <<>> THEN 0 ELSE 1)
<1>1. CASE a = <<>>
  <2>1. JoinedLine(a, b) = b /\ Len(a) = 0 /\ Len(b) \in Nat
    BY <1>1 DEF JoinedLine, Line
  <2>2. Glued(b, a, b, 0)
    BY <2>1 DEF Glued, Line
  <2> QED
    BY <1>1, <2>1, <2>2
<1>2. CASE a # <<>>
  <2> DEFINE c == a \o <<0>>
             w == c \o b
  <2>1. <<0>> \in Seq(Nat) /\ Len(<<0>>) = 1 /\ <<0>>[1] = 0
    OBVIOUS
  <2>2. c \in Seq(Nat) /\ Behind(c, a, <<0>>)
    BY <2>1, Concatenates DEF Line
  <2> HIDE DEF c
  <2>3. w \in Seq(Nat) /\ Behind(w, c, b)
    BY <2>2, Concatenates DEF Line
  <2>4. JoinedLine(a, b) = w
    BY <1>2 DEF JoinedLine, c
  <2> HIDE DEF w
  <2>5. PICK x \in Nat, y \in Nat : x = Len(a) /\ y = Len(b) /\ Len(c) = x + 1 /\ Len(w) = x + 1 + y
    BY <2>1, <2>2, <2>3 DEF Behind
  <2>6. \A i \in 1..x : i \in 1..(x + 1) /\ c[i] = a[i]
    BY <2>1, <2>2, <2>5 DEF Behind
  <2>7. c[x + 1] = 0
    <3>2. x + 1 \in 1..(x + 1) /\ ~(x + 1 <= x) /\ (x + 1) - x = 1
      OBVIOUS
    <3> QED
      BY <2>1, <2>2, <2>5, <3>2 DEF Behind
  <2>8. \A i \in 1..(x + 1) : w[i] = c[i]
    BY <2>3, <2>5 DEF Behind
  <2>9. \A i \in 1..y : w[x + 1 + i] = b[i]
    <3> SUFFICES ASSUME NEW i \in 1..y PROVE w[x + 1 + i] = b[i]
      OBVIOUS
    <3> DEFINE k == x + 1 + i
    <3>1. k \in 1..(x + 1 + y) /\ ~(k <= x + 1) /\ k - (x + 1) = i
      OBVIOUS
    <3> HIDE DEF k
    <3>2. w[k] = IF k <= x + 1 THEN c[k] ELSE b[k - (x + 1)]
      BY <2>3, <2>5, <3>1 DEF Behind
    <3>3. w[k] = b[i]
      BY <3>1, <3>2
    <3> QED
      BY <3>3 DEF k
  <2>10. \A i \in 1..1 : w[x + i] = 0
    BY <2>7, <2>8
  <2>11. \A i \in 1..x : w[i] = a[i]
    BY <2>6, <2>8
  <2>12. Glued(w, a, b, 1)
    BY <2>3, <2>5, <2>9, <2>10, <2>11 DEF Glued, Line
  <2> QED
    BY <1>2, <2>4, <2>12
<1> QED
  BY <1>1, <1>2

\* Before its end, in the gap or behind it.
LEMMA GluedPlaces ==
  ASSUME NEW w, NEW a \in Line, NEW b \in Line, NEW gap \in Nat, Glued(w, a, b, gap), NEW i \in 1..Len(w)
  PROVE  \/ i \in 1..Len(a) /\ w[i] = a[i]
         \/ i \in (Len(a) + 1)..(Len(a) + gap) /\ w[i] = 0
         \/ \E k \in 1..Len(b) : i = Len(a) + gap + k /\ w[i] = b[k]
<1>1. PICK x \in Nat, y \in Nat : x = Len(a) /\ y = Len(b)
  BY DEF Line
<1>2. i \in 1..(x + gap + y)
  BY <1>1 DEF Glued
<1>3. CASE i <= x
  BY <1>1, <1>2, <1>3 DEF Glued
<1>4. CASE i > x /\ i <= x + gap
  <2>1. i - x \in 1..gap /\ x + (i - x) = i
    BY <1>2, <1>4
  <2>2. w[x + (i - x)] = 0
    BY <1>1, <2>1 DEF Glued
  <2> QED
    BY <1>1, <1>2, <1>4, <2>1, <2>2
<1>5. CASE i > x + gap
  <2>1. i - (x + gap) \in 1..y /\ x + gap + (i - (x + gap)) = i
    BY <1>2, <1>5
  <2>2. w[x + gap + (i - (x + gap))] = b[i - (x + gap)]
    BY <1>1, <2>1 DEF Glued
  <2> QED
    BY <1>1, <2>1, <2>2
<1> QED
  BY <1>2, <1>3, <1>4, <1>5

\* Joining loses no place and adds none.
LEMMA GluedMarks ==
  ASSUME NEW w, NEW a \in Line, NEW b \in Line, NEW gap \in Nat, Glued(w, a, b, gap)
  PROVE  Marks(w) = Marks(a) \cup Marks(b)
<1>0. /\ DOMAIN w = 1..Len(w) /\ DOMAIN a = 1..Len(a) /\ DOMAIN b = 1..Len(b)
  BY DEF Glued, Line
<1>1. ASSUME NEW p \in Marks(w) PROVE p \in Marks(a) \cup Marks(b)
  <2>1. PICK i \in 1..Len(w) : w[i] = p /\ p # 0
    BY <1>0 DEF Marks, ToSet
  <2>2. \/ i \in 1..Len(a) /\ w[i] = a[i]
        \/ i \in (Len(a) + 1)..(Len(a) + gap) /\ w[i] = 0
        \/ \E k \in 1..Len(b) : i = Len(a) + gap + k /\ w[i] = b[k]
    BY GluedPlaces
  <2> QED
    BY <1>0, <2>1, <2>2 DEF Marks, ToSet
<1>2. PICK x \in Nat, y \in Nat : x = Len(a) /\ y = Len(b) /\ Len(w) = x + gap + y
  BY DEF Line, Glued
<1>3. ASSUME NEW p \in Marks(a) PROVE p \in Marks(w)
  <2>1. PICK i \in 1..x : a[i] = p /\ p # 0
    BY <1>0, <1>2 DEF Marks, ToSet
  <2>2. i \in 1..(x + gap + y) /\ w[i] = a[i]
    BY <1>2 DEF Glued
  <2> QED
    BY <1>0, <1>2, <2>1, <2>2 DEF Marks, ToSet
<1>4. ASSUME NEW p \in Marks(b) PROVE p \in Marks(w)
  <2>1. PICK i \in 1..y : b[i] = p /\ p # 0
    BY <1>0, <1>2 DEF Marks, ToSet
  <2>2. x + gap + i \in 1..(x + gap + y) /\ w[x + gap + i] = b[i]
    BY <1>2 DEF Glued
  <2> QED
    BY <1>0, <1>2, <2>1, <2>2 DEF Marks, ToSet
<1> QED
  BY <1>1, <1>3, <1>4

\* Lines in order, one before the other, are one that is in order.
LEMMA GluedAscends ==
  ASSUME NEW w, NEW a \in Line, NEW b \in Line, NEW gap \in Nat, Glued(w, a, b, gap),
         Ascends(a), Ascends(b), Before(a, b)
  PROVE  Ascends(w)
<1> SUFFICES ASSUME NEW j \in 1..Len(w), NEW i \in 1..j, w[j] # 0 PROVE w[i] <= w[j]
  BY DEF Ascends
<1>0. PICK x \in Nat, y \in Nat : x = Len(a) /\ y = Len(b) /\ Len(w) = x + gap + y
  BY DEF Line, Glued
<1>1. i \in 1..Len(w) /\ w[i] \in Nat /\ w[j] \in Nat
  <2>1. w \in Seq(Nat)
    BY DEF Glued, Line
  <2>2. PICK N \in Nat : N = Len(w)
    BY <2>1
  <2>3. i \in 1..N /\ j \in 1..N
    BY <2>2
  <2> QED
    BY <2>1, <2>2, <2>3
<1>a. DOMAIN a = 1..Len(a) /\ DOMAIN b = 1..Len(b)
  BY DEF Line
<1>2. \/ i \in 1..x /\ w[i] = a[i]
      \/ i \in (x + 1)..(x + gap) /\ w[i] = 0
      \/ \E k \in 1..y : i = x + gap + k /\ w[i] = b[k]
  <2>1. PICK h \in 1..Len(w) : h = i
    BY <1>1
  <2>2. \/ h \in 1..x /\ w[h] = a[h]
        \/ h \in (x + 1)..(x + gap) /\ w[h] = 0
        \/ \E k \in 1..y : h = x + gap + k /\ w[h] = b[k]
    BY <1>0, GluedPlaces
  <2> QED
    BY <2>1, <2>2
<1>3. \/ j \in 1..x /\ w[j] = a[j]
      \/ j \in (x + 1)..(x + gap) /\ w[j] = 0
      \/ \E k \in 1..y : j = x + gap + k /\ w[j] = b[k]
  BY <1>0, GluedPlaces
<1>4. CASE w[i] = 0
  BY <1>1, <1>4
<1>5. CASE w[i] # 0 /\ j \in 1..x /\ w[j] = a[j]
  <2>1. i \in 1..x /\ w[i] = a[i]
    BY <1>0, <1>2, <1>5
  <2> QED
    BY <1>0, <1>5, <2>1 DEF Ascends
<1>6. ASSUME w[i] # 0, NEW k \in 1..y, j = x + gap + k, w[j] = b[k] PROVE w[i] <= w[j]
  <2>1. CASE i \in 1..x /\ w[i] = a[i]
    <3>1. w[i] \in Marks(a) /\ w[j] \in Marks(b)
      BY <1>0, <1>a, <1>6, <2>1 DEF Marks, ToSet
    <3> QED
      BY <3>1 DEF Before
  <2>2. ASSUME NEW h \in 1..y, i = x + gap + h, w[i] = b[h] PROVE w[i] <= w[j]
    <3>1. h \in 1..k
      BY <1>6, <2>2
    <3> QED
      BY <1>0, <1>6, <2>2, <3>1 DEF Ascends
  <2> QED
    BY <1>2, <1>6, <2>1, <2>2
<1> QED
  BY <1>3, <1>4, <1>5, <1>6

\* InOneText by its equation.
LEMMA InOneTextUnfolds ==
  ASSUME NEW paragraphs \in Seq(Line)
  PROVE  \E f \in [0..Len(paragraphs) -> Line] :
           /\ InOneText(paragraphs) = f[Len(paragraphs)]
           /\ f[0] = <<>>
           /\ \A n \in 1..Len(paragraphs) : f[n] = Joined(f[n - 1], paragraphs[n])
<1>0. PICK N \in Nat : N = Len(paragraphs)
  OBVIOUS
<1> DEFINE Values == Line
           F == [n \in 1..N |-> [s \in Values |-> Joined(s, paragraphs[n])]]
           Eq(g) == g = [n \in 0..N |-> IF n = 0 THEN <<>> ELSE Joined(g[n - 1], paragraphs[n])]
<1>1. <<>> \in Values /\ \A n \in 1..N, s \in Values : Joined(s, paragraphs[n]) \in Values
  <2>1. <<>> \in Line /\ \A n \in 1..N : paragraphs[n] \in Line
    BY <1>0 DEF Line
  <2>2. \A n \in 1..N, s \in Line : Joined(s, paragraphs[n]) \in Line
    BY <2>1, JoinedGlues DEF Glued
  <2> QED
    BY <2>1, <2>2
<1> HIDE DEF Values
<1>2. Foldable(N, Values, <<>>, F)
  BY <1>1 DEF Foldable
<1>3. \A n \in 1..N, s \in Values : F[n][s] = Joined(s, paragraphs[n])
  OBVIOUS
<1> HIDE DEF F
<1>4. Folded(N, Values, <<>>, F)
  BY <1>2, FoldExists
<1>5. PICK f \in [0..N -> Values] : f[0] = <<>> /\ \A n \in 1..N : f[n] = F[n][f[n - 1]]
  BY <1>4 DEF Folded
<1>6. \A n \in 1..N : f[n - 1] \in Values /\ f[n] = Joined(f[n - 1], paragraphs[n])
  <2>1. \A n \in 1..N : f[n - 1] \in Values
    BY <1>5
  <2> QED
    BY <1>3, <1>5, <2>1
<1>7. Eq(f)
  <2> DEFINE h == [n \in 0..N |-> IF n = 0 THEN <<>> ELSE Joined(f[n - 1], paragraphs[n])]
  <2>1. \A n \in 0..N : f[n] = h[n]
    BY <1>5, <1>6
  <2>2. DOMAIN f = 0..N /\ DOMAIN h = 0..N /\ f = [n \in DOMAIN f |-> f[n]] /\ h = [n \in DOMAIN h |-> h[n]]
    BY <1>5
  <2>3. f = h
    BY <2>1, <2>2
  <2> QED
    BY <2>3
<1>8. PICK g : g = CHOOSE t : Eq(t)
  OBVIOUS
<1>9. InOneText(paragraphs) = g[N]
  BY <1>0, <1>8 DEF InOneText
<1>10. Eq(g)
  BY <1>7, <1>8
<1>11. g[0] = <<>> /\ \A n \in 1..N : g[n] = Joined(g[n - 1], paragraphs[n])
  <2>1. g[0] = <<>>
    BY <1>10
  <2>2. ASSUME NEW n \in 1..N PROVE g[n] = Joined(g[n - 1], paragraphs[n])
    <3>1. n \in 0..N /\ n # 0
      OBVIOUS
    <3> QED
      BY <1>10, <3>1
  <2> QED
    BY <2>1, <2>2
<1>12. DOMAIN g = 0..N /\ g = [n \in DOMAIN g |-> g[n]]
  BY <1>10
<1> HIDE DEF Eq
<1> DEFINE Typed == {n \in 0..N : g[n] \in Values}
<1>13. 0 \in Typed
  BY <1>1, <1>11
<1>14. \A n \in 0..(N - 1) : n \in Typed => n + 1 \in Typed
  <2> SUFFICES ASSUME NEW n \in 0..(N - 1), n \in Typed PROVE g[n + 1] \in Values
    OBVIOUS
  <2>1. n + 1 \in 1..N /\ (n + 1) - 1 = n /\ g[n] \in Values
    OBVIOUS
  <2> QED
    BY <1>1, <1>11, <2>1
<1> HIDE DEF Typed
<1>15. \A n \in 0..N : n \in Typed
  BY <1>13, <1>14, Climb
<1>16. g \in [0..N -> Values]
  BY <1>12, <1>15 DEF Typed
<1> QED
  BY <1>0, <1>9, <1>11, <1>16 DEF Values

\* InOneParagraph by its equation.
LEMMA InOneParagraphUnfolds ==
  ASSUME NEW lines \in Seq(Line)
  PROVE  \E f \in [0..Len(lines) -> Line] :
           /\ InOneParagraph(lines) = f[Len(lines)]
           /\ f[0] = <<>>
           /\ \A n \in 1..Len(lines) : f[n] = JoinedLine(f[n - 1], lines[n])
<1>0. PICK N \in Nat : N = Len(lines)
  OBVIOUS
<1> DEFINE Values == Line
           F == [n \in 1..N |-> [s \in Values |-> JoinedLine(s, lines[n])]]
           Eq(g) == g = [n \in 0..N |-> IF n = 0 THEN <<>> ELSE JoinedLine(g[n - 1], lines[n])]
<1>1. <<>> \in Values /\ \A n \in 1..N, s \in Values : JoinedLine(s, lines[n]) \in Values
  <2>1. <<>> \in Line /\ \A n \in 1..N : lines[n] \in Line
    BY <1>0 DEF Line
  <2>2. \A n \in 1..N, s \in Line : JoinedLine(s, lines[n]) \in Line
    BY <2>1, JoinedLineGlues DEF Glued
  <2> QED
    BY <2>1, <2>2
<1> HIDE DEF Values
<1>2. Foldable(N, Values, <<>>, F)
  BY <1>1 DEF Foldable
<1>3. \A n \in 1..N, s \in Values : F[n][s] = JoinedLine(s, lines[n])
  OBVIOUS
<1> HIDE DEF F
<1>4. Folded(N, Values, <<>>, F)
  BY <1>2, FoldExists
<1>5. PICK f \in [0..N -> Values] : f[0] = <<>> /\ \A n \in 1..N : f[n] = F[n][f[n - 1]]
  BY <1>4 DEF Folded
<1>6. \A n \in 1..N : f[n - 1] \in Values /\ f[n] = JoinedLine(f[n - 1], lines[n])
  <2>1. \A n \in 1..N : f[n - 1] \in Values
    BY <1>5
  <2> QED
    BY <1>3, <1>5, <2>1
<1>7. Eq(f)
  <2> DEFINE h == [n \in 0..N |-> IF n = 0 THEN <<>> ELSE JoinedLine(f[n - 1], lines[n])]
  <2>1. \A n \in 0..N : f[n] = h[n]
    BY <1>5, <1>6
  <2>2. DOMAIN f = 0..N /\ DOMAIN h = 0..N /\ f = [n \in DOMAIN f |-> f[n]] /\ h = [n \in DOMAIN h |-> h[n]]
    BY <1>5
  <2>3. f = h
    BY <2>1, <2>2
  <2> QED
    BY <2>3
<1>8. PICK g : g = CHOOSE t : Eq(t)
  OBVIOUS
<1>9. InOneParagraph(lines) = g[N]
  BY <1>0, <1>8 DEF InOneParagraph
<1>10. Eq(g)
  BY <1>7, <1>8
<1>11. g[0] = <<>> /\ \A n \in 1..N : g[n] = JoinedLine(g[n - 1], lines[n])
  <2>1. g[0] = <<>>
    BY <1>10
  <2>2. ASSUME NEW n \in 1..N PROVE g[n] = JoinedLine(g[n - 1], lines[n])
    <3>1. n \in 0..N /\ n # 0
      OBVIOUS
    <3> QED
      BY <1>10, <3>1
  <2> QED
    BY <2>1, <2>2
<1>12. DOMAIN g = 0..N /\ g = [n \in DOMAIN g |-> g[n]]
  BY <1>10
<1> HIDE DEF Eq
<1> DEFINE Typed == {n \in 0..N : g[n] \in Values}
<1>13. 0 \in Typed
  BY <1>1, <1>11
<1>14. \A n \in 0..(N - 1) : n \in Typed => n + 1 \in Typed
  <2> SUFFICES ASSUME NEW n \in 0..(N - 1), n \in Typed PROVE g[n + 1] \in Values
    OBVIOUS
  <2>1. n + 1 \in 1..N /\ (n + 1) - 1 = n /\ g[n] \in Values
    OBVIOUS
  <2> QED
    BY <1>1, <1>11, <2>1
<1> HIDE DEF Typed
<1>15. \A n \in 0..N : n \in Typed
  BY <1>13, <1>14, Climb
<1>16. g \in [0..N -> Values]
  BY <1>12, <1>15 DEF Typed
<1> QED
  BY <1>0, <1>9, <1>11, <1>16 DEF Values

\* TotalOf by its equation.
LEMMA TotalOfUnfolds ==
  ASSUME NEW numbers \in Seq(Nat)
  PROVE  \E f \in [0..Len(numbers) -> Nat] :
           /\ TotalOf(numbers) = f[Len(numbers)]
           /\ f[0] = 0
           /\ \A n \in 1..Len(numbers) : f[n] = f[n - 1] + numbers[n]
<1>0. PICK N \in Nat : N = Len(numbers)
  OBVIOUS
<1> DEFINE Values == Nat
           F == [n \in 1..N |-> [s \in Values |-> s + numbers[n]]]
           Eq(g) == g = [n \in 0..N |-> IF n = 0 THEN 0 ELSE g[n - 1] + numbers[n]]
<1>1. 0 \in Values /\ \A n \in 1..N, s \in Values : s + numbers[n] \in Values
  BY <1>0
<1> HIDE DEF Values
<1>2. Foldable(N, Values, 0, F)
  BY <1>1 DEF Foldable
<1>3. \A n \in 1..N, s \in Values : F[n][s] = s + numbers[n]
  OBVIOUS
<1> HIDE DEF F
<1>4. Folded(N, Values, 0, F)
  BY <1>2, FoldExists
<1>5. PICK f \in [0..N -> Values] : f[0] = 0 /\ \A n \in 1..N : f[n] = F[n][f[n - 1]]
  BY <1>4 DEF Folded
<1>6. \A n \in 1..N : f[n - 1] \in Values /\ f[n] = f[n - 1] + numbers[n]
  <2>1. \A n \in 1..N : f[n - 1] \in Values
    BY <1>5
  <2> QED
    BY <1>3, <1>5, <2>1
<1>7. Eq(f)
  <2> DEFINE h == [n \in 0..N |-> IF n = 0 THEN 0 ELSE f[n - 1] + numbers[n]]
  <2>1. \A n \in 0..N : f[n] = h[n]
    BY <1>5, <1>6
  <2>2. DOMAIN f = 0..N /\ DOMAIN h = 0..N /\ f = [n \in DOMAIN f |-> f[n]] /\ h = [n \in DOMAIN h |-> h[n]]
    BY <1>5
  <2>3. f = h
    BY <2>1, <2>2
  <2> QED
    BY <2>3
<1>8. PICK g : g = CHOOSE t : Eq(t)
  OBVIOUS
<1>9. TotalOf(numbers) = g[N]
  BY <1>0, <1>8 DEF TotalOf
<1>10. Eq(g)
  BY <1>7, <1>8
<1>11. g[0] = 0 /\ \A n \in 1..N : g[n] = g[n - 1] + numbers[n]
  <2>1. g[0] = 0
    BY <1>10
  <2>2. ASSUME NEW n \in 1..N PROVE g[n] = g[n - 1] + numbers[n]
    <3>1. n \in 0..N /\ n # 0
      OBVIOUS
    <3> QED
      BY <1>10, <3>1
  <2> QED
    BY <2>1, <2>2
<1>12. DOMAIN g = 0..N /\ g = [n \in DOMAIN g |-> g[n]]
  BY <1>10
<1> HIDE DEF Eq
<1> DEFINE Typed == {n \in 0..N : g[n] \in Values}
<1>13. 0 \in Typed
  BY <1>1, <1>11
<1>14. \A n \in 0..(N - 1) : n \in Typed => n + 1 \in Typed
  <2> SUFFICES ASSUME NEW n \in 0..(N - 1), n \in Typed PROVE g[n + 1] \in Values
    OBVIOUS
  <2>1. n + 1 \in 1..N /\ (n + 1) - 1 = n /\ g[n] \in Values
    OBVIOUS
  <2> QED
    BY <1>1, <1>11, <2>1
<1> HIDE DEF Typed
<1>15. \A n \in 0..N : n \in Typed
  BY <1>13, <1>14, Climb
<1>16. g \in [0..N -> Values]
  BY <1>12, <1>15 DEF Typed
<1> QED
  BY <1>0, <1>9, <1>11, <1>16 DEF Values

\* What joining lines makes of their places.
LEMMA GluedAll ==
  ASSUME NEW lines \in Seq(Line), NEW gap \in Nat, NEW w \in [0..Len(lines) -> Line], w[0] = <<>>,
         \A n \in 1..Len(lines) : Glued(w[n], w[n - 1], lines[n], IF w[n - 1] = <<>> THEN 0 ELSE gap)
  PROVE  /\ w[Len(lines)] \in Line
         /\ Marks(w[Len(lines)]) = MarksOf(lines)
         /\ InPlace(lines) => Ascends(w[Len(lines)])
<1>0. PICK N \in Nat : N = Len(lines)
  OBVIOUS
<1> DEFINE Upto(n) == UNION {Marks(lines[m]) : m \in 1..n}
           T == {n \in 0..N : Marks(w[n]) = Upto(n) /\ (InPlace(lines) => Ascends(w[n]))}
<1>1. 0 \in T
  <2>1. Marks(<<>>) = {} /\ Ascends(<<>>)
    BY DEF Marks, ToSet, Ascends
  <2>2. Upto(0) = {}
    OBVIOUS
  <2> QED
    BY <2>1, <2>2
<1>2. \A n \in 0..(N - 1) : n \in T => n + 1 \in T
  <2> HIDE DEF T
  <2> SUFFICES ASSUME NEW n \in 0..(N - 1), n \in T PROVE n + 1 \in T
    OBVIOUS
  <2>1. n + 1 \in 1..N /\ (n + 1) - 1 = n /\ n \in 0..N /\ n + 1 \in 0..N
    OBVIOUS
  <2>2. Marks(w[n]) = Upto(n) /\ (InPlace(lines) => Ascends(w[n]))
    BY DEF T
  <2>3. PICK g \in Nat : g = IF w[n] = <<>> THEN 0 ELSE gap
    OBVIOUS
  <2>4. w[n] \in Line /\ lines[n + 1] \in Line /\ Glued(w[n + 1], w[n], lines[n + 1], g)
    BY <1>0, <2>1, <2>3
  <2>5. Marks(w[n + 1]) = Marks(w[n]) \cup Marks(lines[n + 1])
    BY <2>4, GluedMarks
  <2>6. Upto(n + 1) = Upto(n) \cup Marks(lines[n + 1])
    <3>1. 1..(n + 1) = (1..n) \cup {n + 1}
      OBVIOUS
    <3> QED
      BY <3>1
  <2>7. ASSUME InPlace(lines) PROVE Ascends(w[n + 1])
    <3>1. Ascends(lines[n + 1])
      BY <1>0, <2>1, <2>7 DEF InPlace
    <3>2. Before(w[n], lines[n + 1])
      <4> SUFFICES ASSUME NEW p \in Marks(w[n]), NEW q \in Marks(lines[n + 1]) PROVE p <= q
        BY DEF Before
      <4>1. PICK m \in 1..n : p \in Marks(lines[m])
        BY <2>2
      <4>2. Before(lines[m], lines[n + 1])
        BY <1>0, <2>1, <2>7 DEF InPlace
      <4> QED
        BY <4>1, <4>2 DEF Before
    <3> QED
      BY <2>2, <2>4, <2>7, <3>1, <3>2, GluedAscends
  <2> HIDE DEF Upto
  <2> QED
    BY <2>1, <2>2, <2>5, <2>6, <2>7 DEF T
<1> HIDE DEF T
<1>3. \A n \in 0..N : n \in T
  BY <1>1, <1>2, Climb
<1>4. N \in T /\ w[N] \in Line
  BY <1>0, <1>3
<1>5. Upto(N) = MarksOf(lines)
  BY <1>0 DEF MarksOf
<1> HIDE DEF Upto
<1> QED
  BY <1>0, <1>4, <1>5 DEF T

\* The text of paragraphs has their places.
LEMMA InOneTextKeeps ==
  ASSUME NEW paragraphs \in Seq(Line)
  PROVE  /\ InOneText(paragraphs) \in Line /\ Marks(InOneText(paragraphs)) = MarksOf(paragraphs)
         /\ InPlace(paragraphs) => Ascends(InOneText(paragraphs))
<1>1. PICK w \in [0..Len(paragraphs) -> Line] :
        /\ InOneText(paragraphs) = w[Len(paragraphs)] /\ w[0] = <<>>
        /\ \A n \in 1..Len(paragraphs) : w[n] = Joined(w[n - 1], paragraphs[n])
  BY InOneTextUnfolds
<1>2. ASSUME NEW n \in 1..Len(paragraphs)
      PROVE  Glued(w[n], w[n - 1], paragraphs[n], IF w[n - 1] = <<>> THEN 0 ELSE 2)
  <2>1. w[n - 1] \in Line /\ paragraphs[n] \in Line /\ w[n] = Joined(w[n - 1], paragraphs[n])
    BY <1>1
  <2>2. Glued(Joined(w[n - 1], paragraphs[n]), w[n - 1], paragraphs[n], IF w[n - 1] = <<>> THEN 0 ELSE 2)
    BY <2>1, JoinedGlues
  <2> QED
    BY <2>1, <2>2
<1> QED
  BY <1>1, <1>2, GluedAll

\* So has the paragraph of lines.
LEMMA InOneParagraphKeeps ==
  ASSUME NEW lines \in Seq(Line)
  PROVE  /\ InOneParagraph(lines) \in Line /\ Marks(InOneParagraph(lines)) = MarksOf(lines)
         /\ InPlace(lines) => Ascends(InOneParagraph(lines))
<1>1. PICK w \in [0..Len(lines) -> Line] :
        /\ InOneParagraph(lines) = w[Len(lines)] /\ w[0] = <<>>
        /\ \A n \in 1..Len(lines) : w[n] = JoinedLine(w[n - 1], lines[n])
  BY InOneParagraphUnfolds
<1>2. ASSUME NEW n \in 1..Len(lines)
      PROVE  Glued(w[n], w[n - 1], lines[n], IF w[n - 1] = <<>> THEN 0 ELSE 1)
  <2>1. w[n - 1] \in Line /\ lines[n] \in Line /\ w[n] = JoinedLine(w[n - 1], lines[n])
    BY <1>1
  <2>2. Glued(JoinedLine(w[n - 1], lines[n]), w[n - 1], lines[n], IF w[n - 1] = <<>> THEN 0 ELSE 1)
    BY <2>1, JoinedLineGlues
  <2> QED
    BY <2>1, <2>2
<1> QED
  BY <1>1, <1>2, GluedAll

\* A slice of a line, place by place.
LEMMA Slice ==
  ASSUME NEW s \in Line, NEW a \in Nat \ {0}, NEW b \in 0..Len(s)
  PROVE  IsSlice(SubSeq(s, a, b), s, a, b)
<1>w. PICK w : w = SubSeq(s, a, b)
  OBVIOUS
<1>0. PICK N \in Nat : N = Len(s) /\ DOMAIN s = 1..N /\ s \in Seq(Nat) /\ b \in 0..N
  BY DEF Line
<1>1. \A i \in a..b : s[i] \in Nat
  BY <1>0
<1>2. /\ w \in Line /\ Len(w) = (IF a <= b THEN b - a + 1 ELSE 0)
      /\ \A i \in 1..(b - a + 1) : w[i] = s[a + i - 1]
  <2>1. a \in Int /\ b \in Int
    BY <1>0
  <2> QED
    BY <1>w, <1>1, <2>1, SubSeqProperties DEF Line
<1>3. PICK M \in Nat : M = Len(w) /\ DOMAIN w = 1..M
  <2>1. w \in Seq(Nat)
    BY <1>2 DEF Line
  <2>2. Len(w) \in Nat /\ DOMAIN w = 1..Len(w)
    BY <2>1
  <2> QED
    BY <2>2
<1>4. \A i \in 1..M : i \in 1..(b - a + 1) /\ a + i - 1 \in a..b /\ a + i - 1 \in 1..N
  BY <1>0, <1>2, <1>3
<1>5. \A i \in 1..M : w[i] = s[a + i - 1]
  BY <1>2, <1>4
<1>6. Marks(w) \subseteq Marks(s)
  BY <1>0, <1>3, <1>4, <1>5 DEF Marks, ToSet
<1>7. ASSUME Ascends(s) PROVE Ascends(w)
  <2> SUFFICES ASSUME NEW j \in 1..M, NEW i \in 1..j, w[j] # 0 PROVE w[i] <= w[j]
    BY <1>3 DEF Ascends
  <2>0. i \in 1..M
    OBVIOUS
  <2>1. w[i] = s[a + i - 1] /\ w[j] = s[a + j - 1]
    BY <1>5, <2>0
  <2>2. a + i - 1 \in 1..(a + j - 1) /\ a + j - 1 \in 1..N
    <3>1. a + j - 1 \in 1..N
      BY <1>4
    <3>2. a + i - 1 \in 1..N
      BY <1>4, <2>0
    <3> QED
      BY <3>1, <3>2
  <2> QED
    BY <1>0, <1>7, <2>1, <2>2 DEF Ascends
<1> QED
  BY <1>w, <1>2, <1>3, <1>4, <1>5, <1>6, <1>7 DEF IsSlice

\* The tail of a text.
LEMMA LastCharsSlice ==
  ASSUME NEW s \in Line, NEW n \in Nat
  PROVE  /\ LastChars(s, n) \in Line
         /\ Len(LastChars(s, n)) = (IF n <= Len(s) THEN n ELSE Len(s))
         /\ \A i \in 1..Len(LastChars(s, n)) : LastChars(s, n)[i] = s[Len(s) - Len(LastChars(s, n)) + i]
         /\ Marks(LastChars(s, n)) \subseteq Marks(s)
         /\ Ascends(s) => Ascends(LastChars(s, n))
<1>0. PICK N \in Nat : N = Len(s)
  BY DEF Line
<1>1. Most(1, N - n + 1) = IF n < N THEN N - n + 1 ELSE 1
  BY DEF Most
<1>a. PICK a \in Nat \ {0} : a = IF n < N THEN N - n + 1 ELSE 1
  <2>1. CASE n < N
    <3>1. N - n + 1 \in Nat \ {0}
      BY <2>1
    <3> QED
      BY <2>1, <3>1
  <2>2. CASE ~(n < N)
    BY <2>2
  <2> QED
    BY <2>1, <2>2
<1>2. a = IF n <= N THEN N - n + 1 ELSE 1
  BY <1>a
<1>3. PICK w : w = SubSeq(s, a, N)
  OBVIOUS
<1>4. LastChars(s, n) = w
  BY <1>0, <1>1, <1>a, <1>3 DEF LastChars
<1>5. /\ w \in Line /\ Len(w) = (IF a <= N THEN N - a + 1 ELSE 0)
      /\ \A i \in 1..Len(w) : w[i] = s[a + i - 1] /\ a + i - 1 \in a..N
      /\ Marks(w) \subseteq Marks(s)
      /\ Ascends(s) => Ascends(w)
  <2>1. N \in 0..Len(s)
    BY <1>0
  <2>2. IsSlice(SubSeq(s, a, N), s, a, N)
    BY <2>1, Slice
  <2>3. IsSlice(w, s, a, N)
    BY <1>3, <2>2
  <2> QED
    BY <2>3 DEF IsSlice
<1>6. Len(w) = (IF n <= N THEN n ELSE N)
  BY <1>2, <1>5
<1>7. \A i \in 1..Len(w) : a + i - 1 = N - Len(w) + i
  BY <1>2, <1>6
<1> QED
  BY <1>0, <1>4, <1>5, <1>6, <1>7

-----------------------------------------------------------------------------
(* Windows of a text: together they have all of it.                        *)

\* The number of steps that cover a length: the last one is needed.
LEMMA CeilingDiv ==
  ASSUME NEW x \in Nat \ {0}, NEW d \in Nat \ {0}, NEW q, q = (x + d - 1) \div d
  PROVE  q \in Nat \ {0} /\ q * d >= x /\ (q - 1) * d < x
OBVIOUS

\* chunker.py, chunking.py: windows a step apart, the last of which ends where the text does.
LEMMA WindowsAreWindowed ==
  ASSUME NEW text \in Line, NEW size \in Nat \ {0}, NEW step \in 1..size, NEW rest \in Nat, rest >= size
  PROVE  \E start : Windowed(Windows(text, size, step, rest), start, text, size, step, rest)
<1>0. PICK N \in Nat : N = Len(text)
  BY DEF Line
<1>a. step \in Nat \ {0} /\ step <= size
  OBVIOUS
<1>1. PICK cuts \in Nat :
        /\ cuts = IF N > rest THEN (N - rest + step - 1) \div step ELSE 0
        /\ cuts > 0 => N > rest /\ cuts * step >= N - rest /\ (cuts - 1) * step < N - rest
  <2>1. CASE N > rest
    <3>1. PICK q : q = (N - rest + step - 1) \div step
      OBVIOUS
    <3>2. N - rest \in Nat \ {0}
      BY <2>1
    <3>3. q \in Nat \ {0} /\ q * step >= N - rest /\ (q - 1) * step < N - rest
      BY <1>a, <3>1, <3>2, CeilingDiv
    <3> QED
      BY <2>1, <3>1, <3>3
  <2>2. CASE ~(N > rest)
    BY <2>2
  <2> QED
    BY <2>1, <2>2
<1> DEFINE ws == [i \in 1..(cuts + 1) |->
                    SubSeq(text, (i - 1) * step + 1, IF i <= cuts THEN (i - 1) * step + size ELSE N)]
           start == [i \in 1..(cuts + 1) |-> (i - 1) * step]
<1>2. Windows(text, size, step, rest) = ws
  BY <1>0, <1>1 DEF Windows
<1>3. \A i \in 1..(cuts + 1) : (i - 1) * step \in Nat
  <2> TAKE i \in 1..(cuts + 1)
  <2>1. PICK k \in Nat : k = i - 1
    OBVIOUS
  <2>2. k * step \in Nat
    BY <1>a
  <2> QED
    BY <2>1, <2>2
<1>4. \A i \in 1..cuts : (i - 1) * step + size <= N
  <2> TAKE i \in 1..cuts
  <2>1. PICK k \in Nat, c \in Nat : k = i - 1 /\ c = cuts - 1 /\ k <= c
    OBVIOUS
  <2>2. k * step <= c * step
    BY <1>a, <2>1
  <2>3. PICK u \in Nat, v \in Nat : u = k * step /\ v = c * step
    BY <1>a
  <2>4. v < N - rest /\ rest >= size
    BY <1>1, <2>1, <2>3
  <2>5. u + size <= N
    BY <2>2, <2>3, <2>4
  <2> QED
    BY <2>1, <2>3, <2>5
<1>5. \A i \in 1..cuts : i * step = (i - 1) * step + step
  <2> TAKE i \in 1..cuts
  <2>1. PICK k \in Nat : k = i - 1 /\ i = k + 1
    OBVIOUS
  <2>2. (k + 1) * step = k * step + step
    BY <1>a
  <2> QED
    BY <2>1, <2>2
<1>6. PICK last \in Nat : last = cuts * step
  BY <1>a
<1>7. last <= N /\ N - last <= rest /\ (cuts > 0 => N - last > rest - step)
  <2>1. CASE cuts = 0
    <3>1. last = 0
      BY <1>6, <2>1
    <3>2. ~(N > rest)
      <4> SUFFICES ASSUME N > rest PROVE FALSE
        OBVIOUS
      <4>1. PICK q : q = (N - rest + step - 1) \div step
        OBVIOUS
      <4>2. N - rest \in Nat \ {0}
        OBVIOUS
      <4>3. q \in Nat \ {0}
        BY <1>a, <4>1, <4>2, CeilingDiv
      <4> QED
        BY <1>1, <2>1, <4>1, <4>3
    <3> QED
      BY <2>1, <3>1, <3>2
  <2>2. CASE cuts > 0
    <3>0. cuts \in 1..cuts
      BY <2>2
    <3>1. PICK u \in Nat : u = (cuts - 1) * step
      BY <1>3, <3>0
    <3>2. last = u + step /\ u < N - rest /\ u + size <= N /\ last >= N - rest
      BY <1>1, <1>4, <1>5, <1>6, <2>2, <3>0, <3>1
    <3> QED
      BY <1>a, <3>2
  <2> QED
    BY <2>1, <2>2
<1>8. ASSUME NEW i \in 1..cuts
      PROVE  IsSlice(ws[i], text, start[i] + 1, start[i] + size)
  <2>1. PICK u \in Nat : u = (i - 1) * step
    BY <1>3
  <2>2. u + 1 \in Nat \ {0} /\ u + size \in 0..Len(text)
    BY <1>0, <1>4, <2>1
  <2>3. IsSlice(SubSeq(text, u + 1, u + size), text, u + 1, u + size)
    BY <2>2, Slice
  <2>4. i \in 1..(cuts + 1) /\ i <= cuts
    OBVIOUS
  <2>5. ws[i] = SubSeq(text, u + 1, u + size) /\ start[i] = u
    BY <2>1, <2>4
  <2> HIDE DEF ws, start
  <2> QED
    BY <2>3, <2>5
<1>9. IsSlice(ws[cuts + 1], text, start[cuts + 1] + 1, N)
  <2>1. cuts + 1 \in 1..(cuts + 1) /\ ~(cuts + 1 <= cuts) /\ (cuts + 1) - 1 = cuts
    OBVIOUS
  <2>2. ws[cuts + 1] = SubSeq(text, last + 1, N) /\ start[cuts + 1] = last
    BY <1>6, <2>1
  <2>3. last + 1 \in Nat \ {0} /\ N \in 0..Len(text)
    BY <1>0
  <2>4. IsSlice(SubSeq(text, last + 1, N), text, last + 1, N)
    BY <2>3, Slice
  <2> HIDE DEF ws, start
  <2> QED
    BY <2>2, <2>4
<1>10. ws \in Seq(Line) /\ Len(ws) = cuts + 1
  <2>1. \A i \in 1..(cuts + 1) : ws[i] \in Line
    <3> TAKE i \in 1..(cuts + 1)
    <3> HIDE DEF ws, start
    <3>1. i \in 1..cuts \/ i = cuts + 1
      OBVIOUS
    <3> QED
      BY <1>8, <1>9, <3>1 DEF IsSlice
  <2>2. ws = [i \in 1..(cuts + 1) |-> ws[i]]
    OBVIOUS
  <2> HIDE DEF ws
  <2> QED
    BY <2>1, <2>2
<1>11. start \in [1..(cuts + 1) -> Nat] /\ start[1] = 0 /\ start[cuts + 1] = last
  <2>1. start \in [1..(cuts + 1) -> Nat]
    BY <1>3
  <2>2. 1 \in 1..(cuts + 1) /\ (1 - 1) * step = 0 /\ cuts + 1 \in 1..(cuts + 1) /\ (cuts + 1) - 1 = cuts
    BY <1>a
  <2> QED
    BY <1>6, <2>1, <2>2
<1>12. \A i \in 1..cuts : start[i + 1] = start[i] + step /\ start[i] + size <= N
  <2> TAKE i \in 1..cuts
  <2>1. i \in 1..(cuts + 1) /\ i + 1 \in 1..(cuts + 1) /\ (i + 1) - 1 = i
    OBVIOUS
  <2>2. start[i] = (i - 1) * step /\ start[i + 1] = i * step
    BY <2>1
  <2> QED
    BY <1>4, <1>5, <2>2
<1> HIDE DEF ws, start
<1>13. Windowed(ws, start, text, size, step, rest)
  <2>1. Len(ws) = cuts + 1 /\ Len(ws) - 1 = cuts /\ Len(ws) \in Nat \ {0} /\ (Len(ws) > 1 => cuts > 0)
    BY <1>10
  <2> QED
    BY <1>0, <1>7, <1>8, <1>9, <1>10, <1>11, <1>12, <2>1 DEF Windowed
<1> QED
  BY <1>2, <1>13

\* The places a line has.
LEMMA MarksAre ==
  ASSUME NEW s \in Line
  PROVE  /\ \A k \in 1..Len(s) : s[k] # 0 => s[k] \in Marks(s)
         /\ \A p \in Marks(s) : \E k \in 1..Len(s) : s[k] = p /\ p # 0
         /\ Marks(s) \subseteq Nat \ {0}
<1>1. s \in Seq(Nat) /\ DOMAIN s = 1..Len(s) /\ Len(s) \in Nat
  BY DEF Line
<1>2. \A k \in 1..Len(s) : s[k] \in Nat
  BY <1>1
<1> QED
  BY <1>1, <1>2 DEF Marks, ToSet

\* Windows have every place of the text, and what ascends in the text ascends in them.
LEMMA WindowsKeep ==
  ASSUME NEW text \in Line, NEW size \in Nat \ {0}, NEW step \in 1..size, NEW rest \in Nat, rest >= size,
         NEW ws, NEW start, Windowed(ws, start, text, size, step, rest)
  PROVE  /\ MarksOf(ws) = Marks(text)
         /\ \A i \in 1..Len(ws) : Len(ws[i]) <= rest /\ (Ascends(text) => Ascends(ws[i]))
<1>0. PICK N \in Nat : N = Len(text) /\ DOMAIN text = 1..N
  BY DEF Line
<1>1. PICK M \in Nat \ {0} : M = Len(ws)
  BY DEF Windowed
<1>2. \A i \in 1..(M - 1) :
        /\ start[i + 1] = start[i] + step /\ start[i] + size <= N
        /\ IsSlice(ws[i], text, start[i] + 1, start[i] + size)
  BY <1>0, <1>1 DEF Windowed
<1>3. IsSlice(ws[M], text, start[M] + 1, N) /\ start[M] <= N /\ N - start[M] <= rest
  BY <1>0, <1>1 DEF Windowed
<1>4. start \in [1..M -> Nat] /\ start[1] = 0 /\ ws \in Seq(Line)
  BY <1>1 DEF Windowed
<1>5. ASSUME NEW i \in 1..M
      PROVE  /\ Len(ws[i]) <= rest /\ (Ascends(text) => Ascends(ws[i]))
             /\ Marks(ws[i]) \subseteq Marks(text)
  <2>1. PICK u \in Nat : u = start[i]
    BY <1>4
  <2>2. CASE i = M
    <3>1. IsSlice(ws[i], text, u + 1, N) /\ N - u <= rest
      BY <1>3, <2>1, <2>2
    <3> QED
      BY <3>1 DEF IsSlice
  <2>3. CASE i # M
    <3>0. i \in 1..(M - 1)
      BY <2>3
    <3>1. IsSlice(ws[i], text, u + 1, u + size)
      BY <1>2, <2>1, <3>0
    <3> QED
      BY <3>1 DEF IsSlice
  <2> QED
    BY <2>2, <2>3
<1> DEFINE Had(i) == \A p \in 1..N : p <= start[i] => text[p] = 0 \/ \E j \in 1..(i - 1) : text[p] \in Marks(ws[j])
           T == {n \in 0..(M - 1) : Had(n + 1)}
<1>6. 0 \in T
  <2>1. Had(1)
    BY <1>4
  <2> QED
    BY <2>1
<1>7. \A n \in 0..((M - 1) - 1) : n \in T => n + 1 \in T
  <2> HIDE DEF T
  <2> SUFFICES ASSUME NEW n \in 0..((M - 1) - 1), n \in T PROVE n + 1 \in T
    OBVIOUS
  <2>0. n + 1 \in 1..(M - 1) /\ n + 1 \in 0..(M - 1) /\ (n + 1) - 1 = n /\ n + 1 \in 1..M
    OBVIOUS
  <2>1. Had(n + 1)
    BY DEF T
  <2>2. PICK u \in Nat : u = start[n + 1]
    BY <1>4, <2>0
  <2>3. start[(n + 1) + 1] = u + step /\ u + size <= N /\ IsSlice(ws[n + 1], text, u + 1, u + size)
    BY <1>2, <2>0, <2>2
  <2>4. ASSUME NEW p \in 1..N, p <= u + step, text[p] # 0
        PROVE  \E j \in 1..(n + 1) : text[p] \in Marks(ws[j])
    <3>1. CASE p <= u
      <4>1. PICK j \in 1..((n + 1) - 1) : text[p] \in Marks(ws[j])
        BY <2>1, <2>2, <2>4, <3>1
      <4>2. j \in 1..(n + 1)
        BY <2>0
      <4> QED
        BY <4>1, <4>2
    <3>2. CASE p > u
      <4>1. PICK k \in Nat : k = p - u /\ k \in 1..size /\ (u + 1) + k - 1 = p
        BY <2>4, <3>2
      <4>2. Len(ws[n + 1]) = size /\ ws[n + 1] \in Line
        BY <2>3 DEF IsSlice
      <4>3. ws[n + 1][k] = text[p]
        BY <2>3, <4>1, <4>2 DEF IsSlice
      <4>4. text[p] \in Marks(ws[n + 1])
        <5>1. k \in 1..Len(ws[n + 1])
          BY <4>1, <4>2
        <5> QED
          BY <2>4, <4>2, <4>3, <5>1, MarksAre
      <4> QED
        BY <4>4
    <3> QED
      BY <2>4, <3>1, <3>2
  <2>5. Had((n + 1) + 1)
    <3> SUFFICES ASSUME NEW p \in 1..N, p <= start[(n + 1) + 1], text[p] # 0
                 PROVE  \E j \in 1..(((n + 1) + 1) - 1) : text[p] \in Marks(ws[j])
      OBVIOUS
    <3>1. PICK j \in 1..(n + 1) : text[p] \in Marks(ws[j])
      BY <2>3, <2>4
    <3>2. j \in 1..(((n + 1) + 1) - 1)
      OBVIOUS
    <3> QED
      BY <3>1, <3>2
  <2> HIDE DEF Had
  <2> QED
    BY <2>0, <2>5 DEF T
<1> HIDE DEF T
<1>8. \A n \in 0..(M - 1) : n \in T
  BY <1>6, <1>7, Climb
<1>9. Had(M)
  <2>1. M - 1 \in T /\ (M - 1) + 1 = M
    BY <1>8
  <2> HIDE DEF Had
  <2> QED
    BY <2>1 DEF T
<1>10. Marks(text) \subseteq MarksOf(ws)
  <2> SUFFICES ASSUME NEW p \in 1..N, text[p] # 0 PROVE text[p] \in MarksOf(ws)
    BY <1>0 DEF Marks, ToSet
  <2>1. PICK u \in Nat : u = start[M] /\ u <= N
    BY <1>3, <1>4
  <2>2. CASE p <= u
    <3>1. PICK j \in 1..(M - 1) : text[p] \in Marks(ws[j])
      BY <1>9, <2>1, <2>2
    <3>2. j \in 1..M
      OBVIOUS
    <3> QED
      BY <1>1, <3>1, <3>2 DEF MarksOf
  <2>3. CASE p > u
    <3>1. PICK k \in Nat : k = p - u /\ k \in 1..(N - u) /\ (u + 1) + k - 1 = p /\ u + 1 <= N /\ N - (u + 1) + 1 = N - u
      BY <2>1, <2>3
    <3>2. IsSlice(ws[M], text, u + 1, N)
      BY <1>3, <2>1
    <3>3. Len(ws[M]) = N - u /\ ws[M] \in Line
      BY <3>1, <3>2 DEF IsSlice
    <3>4. ws[M][k] = text[p]
      BY <3>1, <3>2, <3>3 DEF IsSlice
    <3>5. text[p] \in Marks(ws[M])
      <4>1. k \in 1..Len(ws[M])
        BY <3>1, <3>3
      <4> QED
        BY <3>3, <3>4, <4>1, MarksAre
    <3> QED
      BY <1>1, <3>5 DEF MarksOf
  <2> QED
    BY <2>1, <2>2, <2>3
<1>11. MarksOf(ws) \subseteq Marks(text)
  BY <1>1, <1>5 DEF MarksOf
<1> QED
  BY <1>1, <1>5, <1>10, <1>11

\* The concatenation has the members of the sequences.
LEMMA FlattenKeepsMembers ==
  ASSUME NEW S, NEW seqs \in Seq(Seq(S))
  PROVE  FlattenSeq(seqs) \in Seq(S) /\ SameMembers(FlattenSeq(seqs), seqs)
<1>1. PICK flat \in Seq(S) : flat = FlattenSeq(seqs)
  BY FlattenLays
<1>2. PICK off : Laid(off, seqs, flat)
  BY <1>1, FlattenLays
<1>3. PICK N \in Nat, M \in Nat : N = Len(seqs) /\ M = Len(flat)
  BY <1>1
<1>4. ASSUME NEW p \in 1..M PROVE \E n \in 1..N : \E k \in 1..Len(seqs[n]) : flat[p] = seqs[n][k]
  <2>1. PICK n \in 1..N : \E k \in 1..Len(seqs[n]) : p = off[n - 1] + k
    BY <1>2, <1>3 DEF Laid
  <2>2. PICK k \in 1..Len(seqs[n]) : p = off[n - 1] + k
    BY <2>1
  <2>3. flat[off[n - 1] + k] = seqs[n][k]
    BY <1>2, <1>3 DEF Laid
  <2> QED
    BY <2>2, <2>3
<1>5. ASSUME NEW n \in 1..N, NEW k \in 1..Len(seqs[n]) PROVE \E p \in 1..M : flat[p] = seqs[n][k]
  <2>1. PICK a \in Nat, b \in Nat : a = off[n - 1] /\ b = off[n]
    <3>1. n - 1 \in 0..N /\ n \in 0..N
      OBVIOUS
    <3>2. off[n - 1] \in Nat /\ off[n] \in Nat
      BY <1>2, <1>3, <3>1 DEF Laid
    <3> QED
      BY <3>2
  <2>2. PICK c \in Nat : c = Len(seqs[n])
    <3>1. seqs[n] \in Seq(S)
      BY <1>3
    <3> QED
      BY <3>1
  <2>3. b = a + c /\ b <= M /\ flat[a + k] = seqs[n][k]
    <3>1. off[n] = off[n - 1] + Len(seqs[n])
      BY <1>2, <1>3 DEF Laid
    <3>2. off[n] <= off[N]
      <4>1. N \in 0..N /\ n \in 0..N
        OBVIOUS
      <4> QED
        BY <1>2, <1>3, <4>1 DEF Laid
    <3>3. off[N] = M
      BY <1>2, <1>3 DEF Laid
    <3>4. flat[off[n - 1] + k] = seqs[n][k]
      BY <1>2, <1>3 DEF Laid
    <3> QED
      BY <2>1, <2>2, <3>1, <3>2, <3>3, <3>4
  <2>4. a + k \in 1..M
    BY <2>2, <2>3
  <2> QED
    BY <2>3, <2>4
<1>6. SameMembers(flat, seqs)
  BY <1>3, <1>4, <1>5 DEF SameMembers
<1> QED
  BY <1>1, <1>6

\* The places of the concatenation are those of its parts.
LEMMA FlattenKeepsMarks ==
  ASSUME NEW seqs \in Seq(Seq(Line))
  PROVE  MarksOf(FlattenSeq(seqs)) = UNION {MarksOf(seqs[n]) : n \in 1..Len(seqs)}
<1>1. PICK flat \in Seq(Line) : flat = FlattenSeq(seqs) /\ SameMembers(flat, seqs)
  BY FlattenKeepsMembers
<1>2. ASSUME NEW p \in MarksOf(flat) PROVE p \in UNION {MarksOf(seqs[n]) : n \in 1..Len(seqs)}
  <2>1. PICK i \in 1..Len(flat) : p \in Marks(flat[i])
    BY DEF MarksOf
  <2>2. PICK n \in 1..Len(seqs) : \E k \in 1..Len(seqs[n]) : flat[i] = seqs[n][k]
    BY <1>1 DEF SameMembers
  <2>3. p \in MarksOf(seqs[n])
    BY <2>1, <2>2 DEF MarksOf
  <2> QED
    BY <2>3
<1>3. ASSUME NEW n \in 1..Len(seqs), NEW p \in MarksOf(seqs[n]) PROVE p \in MarksOf(flat)
  <2>1. PICK k \in 1..Len(seqs[n]) : p \in Marks(seqs[n][k])
    BY DEF MarksOf
  <2>2. PICK i \in 1..Len(flat) : flat[i] = seqs[n][k]
    BY <1>1 DEF SameMembers
  <2> QED
    BY <2>1, <2>2 DEF MarksOf
<1> QED
  BY <1>1, <1>2, <1>3

\* The sizes that the settings give.
LEMMA WindowSizes ==
  /\ MaxChars \in Nat \ {0} /\ MinChars \in Nat
  /\ WindowOverlap \in Nat /\ WindowOverlap < MaxChars /\ MaxChars - WindowOverlap \in 1..MaxChars
  /\ TargetChars \in Nat \ {0} /\ OverlapChars \in Nat /\ OverlapChars < TargetChars
  /\ TargetChars - OverlapChars \in 1..TargetChars
  /\ (3 * TargetChars) \div 2 \in Nat /\ (3 * TargetChars) \div 2 >= TargetChars
<1>1. MaxTokens \in Nat \ {0} /\ MinTokens \in Nat \ {0} /\ TargetChars \in Nat \ {0}
      /\ OverlapChars \in 0..(TargetChars - 1) /\ OverlapPercent \in 0..99
  BY ChunkerAssumption
<1>2. PICK m \in Nat \ {0} : m = MaxChars
  BY <1>1 DEF MaxChars, Chars
<1>3. MinChars \in Nat
  BY <1>1 DEF MinChars, Chars
<1>4. PICK o \in Nat : o = WindowOverlap /\ o < m
  <2>1. PICK x \in Nat : x = m * OverlapPercent /\ x <= m * 99
    BY <1>1
  <2>2. x \div 100 \in Nat /\ x \div 100 < m
    BY <2>1
  <2> QED
    BY <1>2, <2>1, <2>2 DEF WindowOverlap, Percent
<1>5. (3 * TargetChars) \div 2 \in Nat /\ (3 * TargetChars) \div 2 >= TargetChars
  BY <1>1
<1>6. TargetChars - OverlapChars \in 1..TargetChars /\ OverlapChars \in Nat /\ OverlapChars < TargetChars
  BY <1>1
<1> QED
  BY <1>1, <1>2, <1>3, <1>4, <1>5, <1>6

\* Splitting long paragraphs loses nothing.
LEMMA UnitsKeep ==
  ASSUME NEW paragraphs \in Seq(Line)
  PROVE  /\ Units(paragraphs) \in Seq(Line)
         /\ MarksOf(Units(paragraphs)) = MarksOf(paragraphs)
         /\ \A i \in 1..Len(Units(paragraphs)) : Len(Units(paragraphs)[i]) <= MaxChars
<1> DEFINE cut == [k \in 1..Len(paragraphs) |->
                     Windows(paragraphs[k], MaxChars, MaxChars - WindowOverlap, MaxChars)]
<1>0. PICK N \in Nat : N = Len(paragraphs)
  OBVIOUS
<1>1. ASSUME NEW k \in 1..N
      PROVE  /\ cut[k] \in Seq(Line) /\ MarksOf(cut[k]) = Marks(paragraphs[k])
             /\ \A i \in 1..Len(cut[k]) : Len(cut[k][i]) <= MaxChars
  <2>1. paragraphs[k] \in Line /\ cut[k] = Windows(paragraphs[k], MaxChars, MaxChars - WindowOverlap, MaxChars)
    BY <1>0
  <2> HIDE DEF cut
  <2>2. PICK start : Windowed(cut[k], start, paragraphs[k], MaxChars, MaxChars - WindowOverlap, MaxChars)
    BY <2>1, WindowSizes, WindowsAreWindowed
  <2>3. cut[k] \in Seq(Line)
    BY <2>2 DEF Windowed
  <2>4. /\ MarksOf(cut[k]) = Marks(paragraphs[k])
        /\ \A i \in 1..Len(cut[k]) : Len(cut[k][i]) <= MaxChars
    BY <2>1, <2>2, WindowSizes, WindowsKeep
  <2> QED
    BY <2>3, <2>4
<1>2. cut \in Seq(Seq(Line)) /\ Len(cut) = N
  <2>1. cut = [k \in 1..N |-> cut[k]] /\ \A k \in 1..N : cut[k] \in Seq(Line)
    BY <1>0, <1>1
  <2> HIDE DEF cut
  <2> QED
    BY <2>1
<1>3. Units(paragraphs) = FlattenSeq(cut)
  BY DEF Units
<1> HIDE DEF cut
<1>4. Units(paragraphs) \in Seq(Line) /\ SameMembers(Units(paragraphs), cut)
  BY <1>2, <1>3, FlattenKeepsMembers
<1>5. MarksOf(Units(paragraphs)) = MarksOf(paragraphs)
  <2>1. MarksOf(Units(paragraphs)) = UNION {MarksOf(cut[n]) : n \in 1..N}
    BY <1>2, <1>3, FlattenKeepsMarks
  <2>2. UNION {MarksOf(cut[n]) : n \in 1..N} = UNION {Marks(paragraphs[n]) : n \in 1..N}
    BY <1>1
  <2> QED
    BY <1>0, <2>1, <2>2 DEF MarksOf
<1>6. \A i \in 1..Len(Units(paragraphs)) : Len(Units(paragraphs)[i]) <= MaxChars
  <2> TAKE i \in 1..Len(Units(paragraphs))
  <2>1. PICK n \in 1..N : \E k \in 1..Len(cut[n]) : Units(paragraphs)[i] = cut[n][k]
    BY <1>2, <1>4 DEF SameMembers
  <2> QED
    BY <1>1, <2>1
<1> QED
  BY <1>4, <1>5, <1>6

-----------------------------------------------------------------------------
(* Filling a buffer: what Pack and Split hold, and how long it gets.       *)

\* The two parts of a state of the packing.
LEMMA AccsAre ==
  ASSUME NEW acc \in Accs
  PROVE  acc.done \in Seq(Line) /\ acc.buf \in Line
BY DEF Accs

\* chunker.py: a paragraph joins the buffer, or closes it when the window is full.
LEMMA PackStep ==
  ASSUME NEW acc \in Accs, NEW unit \in Line
  PROVE  /\ Pack(acc, unit) \in Accs
         /\ \/ /\ acc.buf # <<>> /\ Len(Joined(acc.buf, unit)) > MaxChars
               /\ Flushes(Pack(acc, unit), acc, unit, WindowOverlap)
            \/ /\ ~(acc.buf # <<>> /\ Len(Joined(acc.buf, unit)) > MaxChars)
               /\ Grows(Pack(acc, unit), acc, unit)
<1>1. acc.done \in Seq(Line) /\ acc.buf \in Line /\ DOMAIN acc = {"done", "buf"}
      /\ Append(acc.done, acc.buf) \in Seq(Line)
  BY DEF Accs
<1>2. WindowOverlap \in Nat
  BY WindowSizes
<1>3. LastChars(acc.buf, WindowOverlap) \in Line
  BY <1>1, <1>2, LastCharsSlice
<1>4. Joined(acc.buf, unit) \in Line /\ Joined(LastChars(acc.buf, WindowOverlap), unit) \in Line
  BY <1>1, <1>3, JoinedGlues DEF Glued
<1>5. CASE acc.buf # <<>> /\ Len(Joined(acc.buf, unit)) > MaxChars
  <2> DEFINE d == Append(acc.done, acc.buf)
             b == Joined(LastChars(acc.buf, WindowOverlap), unit)
  <2>1. Pack(acc, unit) = [done |-> d, buf |-> b]
    BY <1>5 DEF Pack
  <2>2. d \in Seq(Line) /\ b \in Line
    BY <1>1, <1>4
  <2> HIDE DEF d, b
  <2>3. Pack(acc, unit) \in Accs /\ Pack(acc, unit).done = d /\ Pack(acc, unit).buf = b
    BY <2>1, <2>2 DEF Accs
  <2> QED
    BY <1>5, <2>3 DEF Flushes, d, b
<1>6. CASE ~(acc.buf # <<>> /\ Len(Joined(acc.buf, unit)) > MaxChars)
  <2> DEFINE b == Joined(acc.buf, unit)
  <2>1. Pack(acc, unit) = [acc EXCEPT !.buf = b]
    BY <1>6 DEF Pack
  <2>2. b \in Line
    BY <1>4
  <2> HIDE DEF b
  <2>3. Pack(acc, unit) \in Accs /\ Pack(acc, unit).done = acc.done /\ Pack(acc, unit).buf = b
    BY <1>1, <2>1, <2>2 DEF Accs
  <2> QED
    BY <1>6, <2>3 DEF Grows, b
<1> QED
  BY <1>5, <1>6

\* chunking.py: the same, by the other path's limit.
LEMMA SplitStep ==
  ASSUME NEW acc \in Accs, NEW unit \in Line
  PROVE  /\ Split(acc, unit) \in Accs
         /\ \/ Flushes(Split(acc, unit), acc, unit, OverlapChars) /\ acc.buf # <<>>
            \/ Grows(Split(acc, unit), acc, unit)
<1>1. acc.done \in Seq(Line) /\ acc.buf \in Line /\ DOMAIN acc = {"done", "buf"}
      /\ Append(acc.done, acc.buf) \in Seq(Line)
  BY DEF Accs
<1>2. OverlapChars \in Nat
  BY WindowSizes
<1>3. LastChars(acc.buf, OverlapChars) \in Line
  BY <1>1, <1>2, LastCharsSlice
<1>4. Joined(acc.buf, unit) \in Line /\ Joined(LastChars(acc.buf, OverlapChars), unit) \in Line
  BY <1>1, <1>3, JoinedGlues DEF Glued
<1>5. CASE acc.buf # <<>> /\ Len(acc.buf) + Len(unit) + 2 > TargetChars
  <2> DEFINE d == Append(acc.done, acc.buf)
             b == Joined(LastChars(acc.buf, OverlapChars), unit)
  <2>1. Split(acc, unit) = [done |-> d, buf |-> b]
    BY <1>5 DEF Split
  <2>2. d \in Seq(Line) /\ b \in Line
    BY <1>1, <1>4
  <2> HIDE DEF d, b
  <2>3. Split(acc, unit) \in Accs /\ Split(acc, unit).done = d /\ Split(acc, unit).buf = b
    BY <2>1, <2>2 DEF Accs
  <2> QED
    BY <1>5, <2>3 DEF Flushes, d, b
<1>6. CASE ~(acc.buf # <<>> /\ Len(acc.buf) + Len(unit) + 2 > TargetChars)
  <2> DEFINE b == Joined(acc.buf, unit)
  <2>1. Split(acc, unit) = [acc EXCEPT !.buf = b]
    BY <1>6 DEF Split
  <2>2. b \in Line
    BY <1>4
  <2> HIDE DEF b
  <2>3. Split(acc, unit) \in Accs /\ Split(acc, unit).done = acc.done /\ Split(acc, unit).buf = b
    BY <1>1, <2>1, <2>2 DEF Accs
  <2> QED
    BY <1>6, <2>3 DEF Grows, b
<1> QED
  BY <1>5, <1>6

\* The packing begins with nothing.
LEMMA EmptyAccIs == EmptyAcc \in Accs /\ EmptyAcc.done = <<>> /\ EmptyAcc.buf = <<>>
<1>1. <<>> \in Seq(Line) /\ <<>> \in Line
  BY DEF Line
<1> QED
  BY <1>1 DEF EmptyAcc, Accs

\* PackAll by its equation.
LEMMA PackAllUnfolds ==
  ASSUME NEW units \in Seq(Line)
  PROVE  \E f \in [0..Len(units) -> Accs] :
           /\ PackAll(units) = f[Len(units)]
           /\ f[0] = EmptyAcc
           /\ \A n \in 1..Len(units) : f[n] = Pack(f[n - 1], units[n])
<1>0. PICK N \in Nat : N = Len(units)
  OBVIOUS
<1> DEFINE Values == Accs
           F == [n \in 1..N |-> [s \in Values |-> Pack(s, units[n])]]
           Eq(g) == g = [n \in 0..N |-> IF n = 0 THEN EmptyAcc ELSE Pack(g[n - 1], units[n])]
<1>1. EmptyAcc \in Values /\ \A n \in 1..N, s \in Values : Pack(s, units[n]) \in Values
  <2>1. \A n \in 1..N : units[n] \in Line
    BY <1>0 DEF Line
  <2>2. \A n \in 1..N, s \in Accs : Pack(s, units[n]) \in Accs
    BY <2>1, PackStep
  <2> QED
    BY <2>1, <2>2, EmptyAccIs
<1> HIDE DEF Values
<1>2. Foldable(N, Values, EmptyAcc, F)
  BY <1>1 DEF Foldable
<1>3. \A n \in 1..N, s \in Values : F[n][s] = Pack(s, units[n])
  OBVIOUS
<1> HIDE DEF F
<1>4. Folded(N, Values, EmptyAcc, F)
  BY <1>2, FoldExists
<1>5. PICK f \in [0..N -> Values] : f[0] = EmptyAcc /\ \A n \in 1..N : f[n] = F[n][f[n - 1]]
  BY <1>4 DEF Folded
<1>6. \A n \in 1..N : f[n - 1] \in Values /\ f[n] = Pack(f[n - 1], units[n])
  <2>1. \A n \in 1..N : f[n - 1] \in Values
    BY <1>5
  <2> QED
    BY <1>3, <1>5, <2>1
<1>7. Eq(f)
  <2> DEFINE h == [n \in 0..N |-> IF n = 0 THEN EmptyAcc ELSE Pack(f[n - 1], units[n])]
  <2>1. \A n \in 0..N : f[n] = h[n]
    BY <1>5, <1>6
  <2>2. DOMAIN f = 0..N /\ DOMAIN h = 0..N /\ f = [n \in DOMAIN f |-> f[n]] /\ h = [n \in DOMAIN h |-> h[n]]
    BY <1>5
  <2>3. f = h
    BY <2>1, <2>2
  <2> QED
    BY <2>3
<1>8. PICK g : g = CHOOSE t : Eq(t)
  OBVIOUS
<1>9. PackAll(units) = g[N]
  BY <1>0, <1>8 DEF PackAll, EmptyAcc
<1>10. Eq(g)
  BY <1>7, <1>8
<1>11. g[0] = EmptyAcc /\ \A n \in 1..N : g[n] = Pack(g[n - 1], units[n])
  <2>1. g[0] = EmptyAcc
    BY <1>10
  <2>2. ASSUME NEW n \in 1..N PROVE g[n] = Pack(g[n - 1], units[n])
    <3>1. n \in 0..N /\ n # 0
      OBVIOUS
    <3> QED
      BY <1>10, <3>1
  <2> QED
    BY <2>1, <2>2
<1>12. DOMAIN g = 0..N /\ g = [n \in DOMAIN g |-> g[n]]
  BY <1>10
<1> HIDE DEF Eq
<1> DEFINE Typed == {n \in 0..N : g[n] \in Values}
<1>13. 0 \in Typed
  BY <1>1, <1>11
<1>14. \A n \in 0..(N - 1) : n \in Typed => n + 1 \in Typed
  <2> SUFFICES ASSUME NEW n \in 0..(N - 1), n \in Typed PROVE g[n + 1] \in Values
    OBVIOUS
  <2>1. n + 1 \in 1..N /\ (n + 1) - 1 = n /\ g[n] \in Values
    OBVIOUS
  <2> QED
    BY <1>1, <1>11, <2>1
<1> HIDE DEF Typed
<1>15. \A n \in 0..N : n \in Typed
  BY <1>13, <1>14, Climb
<1>16. g \in [0..N -> Values]
  BY <1>12, <1>15 DEF Typed
<1> QED
  BY <1>0, <1>9, <1>11, <1>16 DEF Values

\* SplitAll by its equation.
LEMMA SplitAllUnfolds ==
  ASSUME NEW paragraphs \in Seq(Line)
  PROVE  \E f \in [0..Len(paragraphs) -> Accs] :
           /\ SplitAll(paragraphs) = f[Len(paragraphs)]
           /\ f[0] = EmptyAcc
           /\ \A n \in 1..Len(paragraphs) : f[n] = Split(f[n - 1], paragraphs[n])
<1>0. PICK N \in Nat : N = Len(paragraphs)
  OBVIOUS
<1> DEFINE Values == Accs
           F == [n \in 1..N |-> [s \in Values |-> Split(s, paragraphs[n])]]
           Eq(g) == g = [n \in 0..N |-> IF n = 0 THEN EmptyAcc ELSE Split(g[n - 1], paragraphs[n])]
<1>1. EmptyAcc \in Values /\ \A n \in 1..N, s \in Values : Split(s, paragraphs[n]) \in Values
  <2>1. \A n \in 1..N : paragraphs[n] \in Line
    BY <1>0 DEF Line
  <2>2. \A n \in 1..N, s \in Accs : Split(s, paragraphs[n]) \in Accs
    BY <2>1, SplitStep
  <2> QED
    BY <2>1, <2>2, EmptyAccIs
<1> HIDE DEF Values
<1>2. Foldable(N, Values, EmptyAcc, F)
  BY <1>1 DEF Foldable
<1>3. \A n \in 1..N, s \in Values : F[n][s] = Split(s, paragraphs[n])
  OBVIOUS
<1> HIDE DEF F
<1>4. Folded(N, Values, EmptyAcc, F)
  BY <1>2, FoldExists
<1>5. PICK f \in [0..N -> Values] : f[0] = EmptyAcc /\ \A n \in 1..N : f[n] = F[n][f[n - 1]]
  BY <1>4 DEF Folded
<1>6. \A n \in 1..N : f[n - 1] \in Values /\ f[n] = Split(f[n - 1], paragraphs[n])
  <2>1. \A n \in 1..N : f[n - 1] \in Values
    BY <1>5
  <2> QED
    BY <1>3, <1>5, <2>1
<1>7. Eq(f)
  <2> DEFINE h == [n \in 0..N |-> IF n = 0 THEN EmptyAcc ELSE Split(f[n - 1], paragraphs[n])]
  <2>1. \A n \in 0..N : f[n] = h[n]
    BY <1>5, <1>6
  <2>2. DOMAIN f = 0..N /\ DOMAIN h = 0..N /\ f = [n \in DOMAIN f |-> f[n]] /\ h = [n \in DOMAIN h |-> h[n]]
    BY <1>5
  <2>3. f = h
    BY <2>1, <2>2
  <2> QED
    BY <2>3
<1>8. PICK g : g = CHOOSE t : Eq(t)
  OBVIOUS
<1>9. SplitAll(paragraphs) = g[N]
  BY <1>0, <1>8 DEF SplitAll, EmptyAcc
<1>10. Eq(g)
  BY <1>7, <1>8
<1>11. g[0] = EmptyAcc /\ \A n \in 1..N : g[n] = Split(g[n - 1], paragraphs[n])
  <2>1. g[0] = EmptyAcc
    BY <1>10
  <2>2. ASSUME NEW n \in 1..N PROVE g[n] = Split(g[n - 1], paragraphs[n])
    <3>1. n \in 0..N /\ n # 0
      OBVIOUS
    <3> QED
      BY <1>10, <3>1
  <2> QED
    BY <2>1, <2>2
<1>12. DOMAIN g = 0..N /\ g = [n \in DOMAIN g |-> g[n]]
  BY <1>10
<1> HIDE DEF Eq
<1> DEFINE Typed == {n \in 0..N : g[n] \in Values}
<1>13. 0 \in Typed
  BY <1>1, <1>11
<1>14. \A n \in 0..(N - 1) : n \in Typed => n + 1 \in Typed
  <2> SUFFICES ASSUME NEW n \in 0..(N - 1), n \in Typed PROVE g[n + 1] \in Values
    OBVIOUS
  <2>1. n + 1 \in 1..N /\ (n + 1) - 1 = n /\ g[n] \in Values
    OBVIOUS
  <2> QED
    BY <1>1, <1>11, <2>1
<1> HIDE DEF Typed
<1>15. \A n \in 0..N : n \in Typed
  BY <1>13, <1>14, Climb
<1>16. g \in [0..N -> Values]
  BY <1>12, <1>15 DEF Typed
<1> QED
  BY <1>0, <1>9, <1>11, <1>16 DEF Values

\* One line more.
LEMMA AppendKeeps ==
  ASSUME NEW lines \in Seq(Line), NEW w \in Line
  PROVE  /\ Append(lines, w) \in Seq(Line) /\ Len(Append(lines, w)) = Len(lines) + 1
         /\ \A k \in 1..Len(lines) : Append(lines, w)[k] = lines[k]
         /\ Append(lines, w)[Len(lines) + 1] = w
         /\ MarksOf(Append(lines, w)) = MarksOf(lines) \cup Marks(w)
         /\ \A n \in Nat : Within(lines, n) /\ Len(w) <= n => Within(Append(lines, w), n)
<1>0. PICK N \in Nat : N = Len(lines)
  OBVIOUS
<1> DEFINE more == Append(lines, w)
<1>1. /\ more \in Seq(Line) /\ Len(more) = N + 1
      /\ \A k \in 1..N : more[k] = lines[k]
      /\ more[N + 1] = w
  BY <1>0
<1> HIDE DEF more
<1>2. ASSUME NEW k \in 1..(N + 1)
      PROVE  k \in 1..N \/ k = N + 1
  OBVIOUS
<1>3. MarksOf(more) = MarksOf(lines) \cup Marks(w)
  BY <1>0, <1>1, <1>2 DEF MarksOf
<1>4. ASSUME NEW n \in Nat, Within(lines, n), Len(w) <= n
      PROVE  Within(more, n)
  BY <1>0, <1>1, <1>2, <1>4 DEF Within
<1> QED
  BY <1>0, <1>1, <1>3, <1>4 DEF more

\* One unit more.
LEMMA UnitMarksGrow ==
  ASSUME NEW units \in Seq(Line), NEW n \in 0..(Len(units) - 1)
  PROVE  /\ UnitMarks(units, n + 1) = UnitMarks(units, n) \cup Marks(units[n + 1])
         /\ UnitMarks(units, 0) = {} /\ UnitMarks(units, Len(units)) = MarksOf(units)
<1>1. \A k \in 1..(n + 1) : k \in 1..n \/ k = n + 1
  OBVIOUS
<1>2. \A k \in 1..n : k \in 1..(n + 1)
  OBVIOUS
<1>3. n + 1 \in 1..(n + 1)
  OBVIOUS
<1>4. UnitMarks(units, n + 1) = UnitMarks(units, n) \cup Marks(units[n + 1])
  BY <1>1, <1>2, <1>3 DEF UnitMarks
<1> QED
  BY <1>4 DEF UnitMarks, MarksOf

\* A step of the packing, whichever its limits are, drops no place and adds those of the unit.
LEMMA StepHolds ==
  ASSUME NEW acc \in Accs, NEW unit \in Line, NEW new \in Accs, NEW overlap \in Nat,
         Flushes(new, acc, unit, overlap) \/ Grows(new, acc, unit)
  PROVE  Held(new) = Held(acc) \cup Marks(unit)
<1>1. acc.done \in Seq(Line) /\ acc.buf \in Line
  BY AccsAre
<1>2. CASE Flushes(new, acc, unit, overlap)
  <2> DEFINE tail == LastChars(acc.buf, overlap)
  <2>1. tail \in Line /\ Marks(tail) \subseteq Marks(acc.buf)
    BY <1>1, LastCharsSlice
  <2>2. Marks(Joined(tail, unit)) = Marks(tail) \cup Marks(unit)
    <3> HIDE DEF tail
    <3> DEFINE gap == IF tail = <<>> THEN 0 ELSE 2
    <3>1. Glued(Joined(tail, unit), tail, unit, gap) /\ gap \in Nat
      BY <2>1, JoinedGlues
    <3> HIDE DEF gap
    <3> QED
      BY <2>1, <3>1, GluedMarks
  <2>3. MarksOf(Append(acc.done, acc.buf)) = MarksOf(acc.done) \cup Marks(acc.buf)
    BY <1>1, AppendKeeps
  <2>4. new.done = Append(acc.done, acc.buf) /\ new.buf = Joined(tail, unit)
    BY <1>2 DEF Flushes
  <2> HIDE DEF tail
  <2> QED
    BY <2>1, <2>2, <2>3, <2>4 DEF Held
<1>3. CASE Grows(new, acc, unit)
  <2>1. Marks(Joined(acc.buf, unit)) = Marks(acc.buf) \cup Marks(unit)
    <3> DEFINE gap == IF acc.buf = <<>> THEN 0 ELSE 2
    <3>1. Glued(Joined(acc.buf, unit), acc.buf, unit, gap) /\ gap \in Nat
      BY <1>1, JoinedGlues
    <3> HIDE DEF gap
    <3> QED
      BY <1>1, <3>1, GluedMarks
  <2>2. new.done = acc.done /\ new.buf = Joined(acc.buf, unit)
    BY <1>3 DEF Grows
  <2> QED
    BY <2>1, <2>2 DEF Held
<1> QED
  BY <1>2, <1>3

\* All units are in the windows and the buffer, and nothing else.
LEMMA PackAllHolds ==
  ASSUME NEW units \in Seq(Line)
  PROVE  /\ PackAll(units) \in Accs /\ Held(PackAll(units)) = MarksOf(units)
         /\ Within(units, MaxChars) =>
              /\ Within(PackAll(units).done, MaxChars + WindowOverlap + 2)
              /\ Len(PackAll(units).buf) <= MaxChars + WindowOverlap + 2
<1>0. PICK N \in Nat : N = Len(units)
  OBVIOUS
<1>1. PICK f \in [0..N -> Accs] :
           /\ PackAll(units) = f[N]
           /\ f[0] = EmptyAcc
           /\ \A n \in 1..N : f[n] = Pack(f[n - 1], units[n])
  BY <1>0, PackAllUnfolds
<1>2. MaxChars \in Nat /\ WindowOverlap \in Nat
  BY WindowSizes
<1>3. PICK limit \in Nat : limit = MaxChars + WindowOverlap + 2
  BY <1>2
<1> DEFINE Good(n) == /\ Held(f[n]) = UnitMarks(units, n)
                      /\ Within(units, MaxChars) => Within(f[n].done, limit) /\ Len(f[n].buf) <= limit
           T == {n \in 0..N : Good(n)}
<1>4. Good(0)
  <2>1. f[0].done = <<>> /\ f[0].buf = <<>>
    BY <1>1, EmptyAccIs
  <2>2. Held(f[0]) = {} /\ UnitMarks(units, 0) = {}
    BY <2>1 DEF Held, MarksOf, Marks, UnitMarks, ToSet
  <2>3. Within(f[0].done, limit) /\ Len(f[0].buf) <= limit
    BY <2>1, <1>3 DEF Within
  <2> QED
    BY <2>2, <2>3
<1>5. ASSUME NEW n \in 0..(N - 1), Good(n)
      PROVE  Good(n + 1)
  <2>0. n + 1 \in 1..N /\ (n + 1) - 1 = n /\ n \in 0..N /\ n \in 0..(Len(units) - 1)
    BY <1>0
  <2>1. PICK acc \in Accs : acc = f[n]
    BY <2>0
  <2>2. PICK unit \in Line : unit = units[n + 1]
    BY <1>0, <2>0
  <2>3. PICK new \in Accs : new = f[n + 1] /\ new = Pack(acc, unit)
    BY <1>1, <2>0, <2>1, <2>2
  <2>4. \/ /\ acc.buf # <<>> /\ Len(Joined(acc.buf, unit)) > MaxChars
           /\ Flushes(new, acc, unit, WindowOverlap)
        \/ /\ ~(acc.buf # <<>> /\ Len(Joined(acc.buf, unit)) > MaxChars)
           /\ Grows(new, acc, unit)
    BY <2>3, PackStep
  <2>5. Held(new) = Held(acc) \cup Marks(unit)
    BY <2>4, <1>2, StepHolds
  <2>6. Held(f[n + 1]) = UnitMarks(units, n + 1)
    BY <1>5, <2>0, <2>1, <2>2, <2>3, <2>5, UnitMarksGrow
  <2>7. acc.done \in Seq(Line) /\ acc.buf \in Line
    BY AccsAre
  <2>8. ASSUME Within(units, MaxChars)
        PROVE  Within(new.done, limit) /\ Len(new.buf) <= limit
    <3>1. Len(unit) <= MaxChars /\ Len(unit) \in Nat
      BY <1>0, <2>0, <2>2, <2>8 DEF Within, Line
    <3>2. Within(acc.done, limit) /\ Len(acc.buf) <= limit
      BY <1>5, <2>1, <2>8
    <3>3. CASE Flushes(new, acc, unit, WindowOverlap)
      <4>1. Within(Append(acc.done, acc.buf), limit)
        BY <3>2, <2>7, AppendKeeps
      <4> DEFINE tail == LastChars(acc.buf, WindowOverlap)
      <4>2. tail \in Line /\ Len(tail) <= WindowOverlap /\ Len(tail) \in Nat
        <5>1. tail \in Line /\ Len(tail) = (IF WindowOverlap <= Len(acc.buf) THEN WindowOverlap ELSE Len(acc.buf))
          BY <2>7, <1>2, LastCharsSlice
        <5>2. Len(acc.buf) \in Nat
          BY <2>7 DEF Line
        <5> QED
          BY <5>1, <5>2, <1>2
      <4> HIDE DEF tail
      <4>3. Len(Joined(tail, unit)) = Len(tail) + (IF tail = <<>> THEN 0 ELSE 2) + Len(unit)
        BY <4>2, JoinedGlues DEF Glued
      <4>4. Len(Joined(tail, unit)) <= limit
        BY <4>3, <4>2, <3>1, <1>2, <1>3
      <4> QED
        BY <3>3, <4>1, <4>4 DEF Flushes, tail
    <3>4. CASE /\ ~(acc.buf # <<>> /\ Len(Joined(acc.buf, unit)) > MaxChars)
               /\ Grows(new, acc, unit)
      <4>1. new.done = acc.done /\ new.buf = Joined(acc.buf, unit)
        BY <3>4 DEF Grows
      <4>2. Len(Joined(acc.buf, unit)) = Len(acc.buf) + (IF acc.buf = <<>> THEN 0 ELSE 2) + Len(unit)
            /\ Len(acc.buf) \in Nat
        <5>1. Len(acc.buf) \in Nat
          BY <2>7 DEF Line
        <5>2. Glued(Joined(acc.buf, unit), acc.buf, unit, IF acc.buf = <<>> THEN 0 ELSE 2)
          BY <2>7, JoinedGlues
        <5> QED
          BY <5>1, <5>2 DEF Glued
      <4>3. acc.buf = <<>> => Len(acc.buf) = 0
        OBVIOUS
      <4>4. Len(Joined(acc.buf, unit)) <= limit
        BY <4>2, <4>3, <3>4, <3>1, <1>2, <1>3
      <4> QED
        BY <3>2, <4>1, <4>4
    <3> QED
      BY <2>4, <3>3, <3>4
  <2> QED
    BY <2>3, <2>6, <2>8
<1>6. 0 \in T /\ \A n \in 0..(N - 1) : n \in T => n + 1 \in T
  <2> HIDE DEF Good
  <2> QED
    BY <1>4, <1>5
<1> HIDE DEF T
<1>7. \A n \in 0..N : n \in T
  BY <1>6, Climb
<1>8. Good(N)
  BY <1>7 DEF T
<1>9. UnitMarks(units, N) = MarksOf(units)
  BY <1>0 DEF UnitMarks, MarksOf
<1> QED
  BY <1>1, <1>3, <1>8, <1>9

\* The longest window is longer than each kind of window.
LEMMA LargestWindowIs ==
  /\ LargestWindow \in Nat
  /\ MaxChars + WindowOverlap + 2 <= LargestWindow
  /\ (12 * MaxChars) \div 10 + 2 <= LargestWindow
  /\ (3 * TargetChars) \div 2 <= LargestWindow
<1>1. PICK m \in Nat, w \in Nat, t \in Nat : m = MaxChars /\ w = WindowOverlap /\ t = (3 * TargetChars) \div 2
  BY WindowSizes
<1>2. PICK k \in Nat : k = (12 * m) \div 10
  OBVIOUS
<1>3. LargestWindow = Most(Most(m + w, k) + 2, t)
  BY <1>1, <1>2 DEF LargestWindow
<1>4. Most(Most(m + w, k) + 2, t) \in Nat /\ m + w + 2 <= Most(Most(m + w, k) + 2, t)
      /\ k + 2 <= Most(Most(m + w, k) + 2, t) /\ t <= Most(Most(m + w, k) + 2, t)
  BY DEF Most
<1> QED
  BY <1>1, <1>2, <1>3, <1>4

\* The last of the lines is joined with one more.
LEMMA MergeKeeps ==
  ASSUME NEW lines \in Seq(Line), NEW w \in Line, NEW n \in Nat \ {0}, n = Len(lines), NEW new,
         Merged(new, lines, n, w), NEW limit \in Nat,
         Within(lines, limit), Len(Joined(lines[n], w)) <= limit
  PROVE  /\ new \in Seq(Line) /\ Len(new) = n /\ new[n] = Joined(lines[n], w)
         /\ \A k \in 1..(n - 1) : new[k] = lines[k]
         /\ MarksOf(new) = MarksOf(lines) \cup Marks(w) /\ Within(new, limit)
<1>1. lines[n] \in Line
  OBVIOUS
<1>2. PICK a \in Line : a = lines[n]
  BY <1>1
<1> DEFINE gap == IF a = <<>> THEN 0 ELSE 2
<1>3. Glued(Joined(a, w), a, w, gap) /\ gap \in Nat
  BY JoinedGlues
<1> HIDE DEF gap
<1>4. Marks(Joined(a, w)) = Marks(a) \cup Marks(w)
  BY <1>3, GluedMarks
<1>5. PICK j \in Line : j = Joined(a, w)
  BY <1>3 DEF Glued
<1>6. new = [lines EXCEPT ![n] = j]
  BY <1>2, <1>5 DEF Merged
<1>7. new \in Seq(Line) /\ Len(new) = n /\ new[n] = j /\ \A k \in 1..(n - 1) : new[k] = lines[k]
  BY <1>6
<1>8. \A k \in 1..n : k \in 1..(n - 1) \/ k = n
  OBVIOUS
<1>9. \A k \in 1..(n - 1) : k \in 1..n
  OBVIOUS
<1>10. n - 1 \in 0..(n - 1) /\ (n - 1) + 1 = n
  OBVIOUS
<1>16. n - 1 \in 0..(Len(new) - 1)
  BY <1>7, <1>10
<1>11. MarksOf(new) = UnitMarks(new, n - 1) \cup Marks(j)
  BY <1>7, <1>10, <1>16, UnitMarksGrow
<1>12. MarksOf(lines) = UnitMarks(lines, n - 1) \cup Marks(a)
  BY <1>2, <1>10, UnitMarksGrow
<1>15. UnitMarks(new, n - 1) = UnitMarks(lines, n - 1)
  BY <1>7 DEF UnitMarks
<1>13. MarksOf(new) = MarksOf(lines) \cup Marks(w)
  BY <1>4, <1>11, <1>12, <1>15, <1>5
<1>14. Within(new, limit)
  BY <1>7, <1>8, <1>9, <1>2, <1>5 DEF Within
<1> QED
  BY <1>2, <1>5, <1>7, <1>13, <1>14

\* A run of text is packed without loss into windows of bounded length.
LEMMA PackParagraphsKeeps ==
  ASSUME NEW paragraphs \in Seq(Line)
  PROVE  /\ PackParagraphs(paragraphs) \in Seq(Line)
         /\ MarksOf(PackParagraphs(paragraphs)) = MarksOf(paragraphs)
         /\ Within(PackParagraphs(paragraphs), LargestWindow)
<1>1. PICK units \in Seq(Line) : /\ units = Units(paragraphs) /\ MarksOf(units) = MarksOf(paragraphs)
                                 /\ Within(units, MaxChars)
  BY UnitsKeep DEF Within
<1>2. PICK acc \in Accs : /\ acc = PackAll(Units(paragraphs)) /\ Held(acc) = MarksOf(paragraphs)
                          /\ Within(acc.done, MaxChars + WindowOverlap + 2)
                          /\ Len(acc.buf) <= MaxChars + WindowOverlap + 2
  BY <1>1, PackAllHolds
<1>3. acc.done \in Seq(Line) /\ acc.buf \in Line
  BY AccsAre
<1>4. PICK n \in Nat : n = Len(acc.done)
  BY <1>3
<1>5. MaxChars \in Nat /\ WindowOverlap \in Nat /\ LargestWindow \in Nat
  BY WindowSizes, LargestWindowIs
<1>6. \A k \in 1..n : Len(acc.done[k]) \in Nat
  BY <1>3, <1>4 DEF Line
<1>7. Within(acc.done, LargestWindow) /\ Len(acc.buf) <= LargestWindow /\ Len(acc.buf) \in Nat
  <2>1. Len(acc.buf) \in Nat
    BY <1>3 DEF Line
  <2>2. MaxChars + WindowOverlap + 2 <= LargestWindow
    BY LargestWindowIs
  <2>3. Within(acc.done, LargestWindow)
    BY <1>2, <1>4, <1>5, <1>6, <2>2 DEF Within
  <2> QED
    BY <1>2, <1>5, <2>1, <2>2, <2>3
<1> DEFINE short == /\ acc.buf # <<>> /\ n > 0 /\ Len(acc.buf) < MinChars
                    /\ 10 * (Len(acc.done[n]) + Len(acc.buf)) < 12 * MaxChars
<1>8. PackParagraphs(paragraphs) =
         CASE acc.buf = <<>> -> acc.done
           [] short -> [acc.done EXCEPT ![n] = Joined(@, acc.buf)]
           [] OTHER -> Append(acc.done, acc.buf)
  BY <1>2, <1>4 DEF PackParagraphs
<1>9. CASE acc.buf = <<>>
  <2>1. Marks(acc.buf) = {}
    BY <1>9 DEF Marks, ToSet
  <2>3. PackParagraphs(paragraphs) = acc.done
    BY <1>8, <1>9
  <2> QED
    BY <1>2, <1>3, <1>7, <2>1, <2>3 DEF Held
<1>10. CASE acc.buf # <<>> /\ short
  <2>1. PackParagraphs(paragraphs) = [acc.done EXCEPT ![n] = Joined(@, acc.buf)]
    BY <1>8, <1>10
  <2>2. PICK a \in Line : a = acc.done[n]
    BY <1>3, <1>4, <1>10
  <2>3. Len(Joined(a, acc.buf)) <= LargestWindow
    <3>1. Glued(Joined(a, acc.buf), a, acc.buf, IF a = <<>> THEN 0 ELSE 2)
      BY <1>3, <2>2, JoinedGlues
    <3>2. PICK x \in Nat, y \in Nat : x = Len(a) /\ y = Len(acc.buf)
      BY <1>3, <2>2 DEF Line
    <3> DEFINE gap == IF a = <<>> THEN 0 ELSE 2
    <3>7. gap \in Nat /\ gap <= 2
      OBVIOUS
    <3> HIDE DEF gap
    <3>3. Len(Joined(a, acc.buf)) <= x + y + 2
      <4>1. Len(Joined(a, acc.buf)) = x + gap + y
        BY <3>1, <3>2 DEF Glued, gap
      <4> QED
        BY <4>1, <3>7
    <3>4. 10 * (x + y) < 12 * MaxChars
      BY <1>10, <2>2, <3>2
    <3>5. x + y <= (12 * MaxChars) \div 10 /\ (12 * MaxChars) \div 10 \in Nat
      BY <3>4, <1>5
    <3>6. Len(Joined(a, acc.buf)) \in Nat
      <4>1. Joined(a, acc.buf) \in Line
        BY <3>1 DEF Glued
      <4> QED
        BY <4>1 DEF Line
    <3> QED
      BY <3>3, <3>5, <3>6, <1>5, LargestWindowIs
  <2>4. n \in Nat \ {0}
    BY <1>10
  <2> HIDE DEF short
  <2>5. PICK new : new = [acc.done EXCEPT ![n] = Joined(@, acc.buf)]
    OBVIOUS
  <2>6. new \in Seq(Line) /\ MarksOf(new) = MarksOf(acc.done) \cup Marks(acc.buf) /\ Within(new, LargestWindow)
    <3>1. PICK done \in Seq(Line), w \in Line, limit \in Nat : done = acc.done /\ w = acc.buf /\ limit = LargestWindow
      BY <1>3, <1>5
    <3>2. /\ Merged(new, done, n, w) /\ n = Len(done) /\ Within(done, limit)
          /\ Len(Joined(done[n], w)) <= limit
      BY <2>5, <1>4, <1>7, <2>2, <2>3, <3>1 DEF Merged
    <3>3. new \in Seq(Line) /\ MarksOf(new) = MarksOf(done) \cup Marks(w) /\ Within(new, limit)
      BY <2>4, <3>2, MergeKeeps
    <3> QED
      BY <3>1, <3>3
  <2> QED
    BY <1>2, <2>1, <2>5, <2>6 DEF Held
<1>11. CASE acc.buf # <<>> /\ ~short
  <2>1. PackParagraphs(paragraphs) = Append(acc.done, acc.buf)
    BY <1>8, <1>11
  <2> HIDE DEF short
  <2>2. Append(acc.done, acc.buf) \in Seq(Line)
        /\ MarksOf(Append(acc.done, acc.buf)) = MarksOf(acc.done) \cup Marks(acc.buf)
        /\ Within(Append(acc.done, acc.buf), LargestWindow)
    BY <1>3, <1>5, <1>7, AppendKeeps
  <2> QED
    BY <1>2, <2>1, <2>2 DEF Held
<1> QED
  BY <1>9, <1>10, <1>11

\* The other path drops no place either.
LEMMA SplitAllHolds ==
  ASSUME NEW paragraphs \in Seq(Line)
  PROVE  SplitAll(paragraphs) \in Accs /\ Held(SplitAll(paragraphs)) = MarksOf(paragraphs)
<1>0. PICK N \in Nat : N = Len(paragraphs)
  OBVIOUS
<1>1. PICK f \in [0..N -> Accs] :
           /\ SplitAll(paragraphs) = f[N]
           /\ f[0] = EmptyAcc
           /\ \A n \in 1..N : f[n] = Split(f[n - 1], paragraphs[n])
  BY <1>0, SplitAllUnfolds
<1>2. OverlapChars \in Nat
  BY WindowSizes
<1> DEFINE Good(n) == Held(f[n]) = UnitMarks(paragraphs, n)
           T == {n \in 0..N : Good(n)}
<1>4. Good(0)
  <2>1. f[0].done = <<>> /\ f[0].buf = <<>>
    BY <1>1, EmptyAccIs
  <2> QED
    BY <2>1 DEF Held, MarksOf, Marks, UnitMarks, ToSet
<1>5. ASSUME NEW n \in 0..(N - 1), Good(n)
      PROVE  Good(n + 1)
  <2>0. n + 1 \in 1..N /\ (n + 1) - 1 = n /\ n \in 0..N /\ n \in 0..(Len(paragraphs) - 1)
    BY <1>0
  <2>1. PICK acc \in Accs : acc = f[n]
    BY <2>0
  <2>2. PICK unit \in Line : unit = paragraphs[n + 1]
    BY <1>0, <2>0
  <2>3. PICK new \in Accs : new = f[n + 1] /\ new = Split(acc, unit)
    BY <1>1, <2>0, <2>1, <2>2
  <2>4. Flushes(new, acc, unit, OverlapChars) \/ Grows(new, acc, unit)
    BY <2>3, SplitStep
  <2>5. Held(new) = Held(acc) \cup Marks(unit)
    BY <2>4, <1>2, StepHolds
  <2> QED
    BY <1>5, <2>0, <2>1, <2>2, <2>3, <2>5, UnitMarksGrow
<1>6. 0 \in T /\ \A n \in 0..(N - 1) : n \in T => n + 1 \in T
  <2> HIDE DEF Good
  <2> QED
    BY <1>4, <1>5
<1> HIDE DEF T
<1>7. \A n \in 0..N : n \in T
  BY <1>6, Climb
<1>8. Good(N)
  BY <1>7 DEF T
<1>9. UnitMarks(paragraphs, N) = MarksOf(paragraphs)
  BY <1>0 DEF UnitMarks, MarksOf
<1> QED
  BY <1>1, <1>8, <1>9

\* The windows of one text of the other path.
LEMMA SplitWindowsKeep ==
  ASSUME NEW text \in Line
  PROVE  /\ SplitWindows(text) \in Seq(Line) /\ MarksOf(SplitWindows(text)) = Marks(text)
         /\ Within(SplitWindows(text), (3 * TargetChars) \div 2)
         /\ Ascends(text) => \A i \in 1..Len(SplitWindows(text)) : Ascends(SplitWindows(text)[i])
<1>1. PICK size \in Nat \ {0}, rest \in Nat, step \in Nat :
         step \in 1..size /\ size = TargetChars /\ rest = (3 * TargetChars) \div 2
         /\ step = TargetChars - OverlapChars /\ rest >= size
  BY WindowSizes
<1>2. PICK start : Windowed(Windows(text, size, step, rest), start, text, size, step, rest)
  BY <1>1, WindowsAreWindowed
<1>3. PICK ws : ws = Windows(text, size, step, rest)
  OBVIOUS
<1>4. Windowed(ws, start, text, size, step, rest)
  BY <1>2, <1>3
<1>5. MarksOf(ws) = Marks(text) /\ \A i \in 1..Len(ws) : Len(ws[i]) <= rest /\ (Ascends(text) => Ascends(ws[i]))
  BY <1>1, <1>4, WindowsKeep
<1>6. ws \in Seq(Line)
  BY <1>4 DEF Windowed
<1>7. SplitWindows(text) = ws
  BY <1>1, <1>3 DEF SplitWindows
<1> QED
  BY <1>1, <1>5, <1>6, <1>7 DEF Within

\* chunking.py: the buffer that is left is a text as well.
LEMMA WholeKeeps ==
  ASSUME NEW acc \in Accs
  PROVE  Whole(acc) \in Seq(Line) /\ MarksOf(Whole(acc)) = Held(acc)
<1>1. acc.done \in Seq(Line) /\ acc.buf \in Line
  BY AccsAre
<1>2. CASE acc.buf = <<>>
  <2>1. Marks(acc.buf) = {}
    BY <1>2 DEF Marks, ToSet
  <2> QED
    BY <1>1, <1>2, <2>1 DEF Whole, Held
<1>3. CASE acc.buf # <<>>
  BY <1>1, <1>3, AppendKeeps DEF Whole, Held
<1> QED
  BY <1>2, <1>3

\* A text of the other path is split without loss into windows of bounded length.
LEMMA SplitTextKeeps ==
  ASSUME NEW e, Paragraphs(e) \in Seq(Line)
  PROVE  /\ SplitText(e) \in Seq(Line)
         /\ MarksOf(SplitText(e)) = MarksOf(Paragraphs(e))
         /\ Within(SplitText(e), LargestWindow)
<1>1. PICK acc \in Accs : acc = SplitAll(Paragraphs(e)) /\ Held(acc) = MarksOf(Paragraphs(e))
  BY SplitAllHolds
<1>2. PICK whole \in Seq(Line) : whole = Whole(acc) /\ MarksOf(whole) = MarksOf(Paragraphs(e))
  BY <1>1, WholeKeeps
<1>3. PICK N \in Nat : N = Len(whole)
  OBVIOUS
<1>4. PICK seqs : seqs = [i \in 1..N |-> SplitWindows(whole[i])]
  OBVIOUS
<1>5. SplitText(e) = FlattenSeq(seqs)
  BY <1>1, <1>2, <1>3, <1>4 DEF SplitText, Whole, SplitWindows
<1>6. \A i \in 1..N : whole[i] \in Line
  BY <1>3
<1>7. \A i \in 1..N : /\ SplitWindows(whole[i]) \in Seq(Line) /\ MarksOf(SplitWindows(whole[i])) = Marks(whole[i])
                      /\ Within(SplitWindows(whole[i]), (3 * TargetChars) \div 2)
  BY <1>6, SplitWindowsKeep
<1>8. seqs \in Seq(Seq(Line)) /\ Len(seqs) = N /\ \A i \in 1..N : seqs[i] = SplitWindows(whole[i])
  BY <1>4, <1>7
<1>9. FlattenSeq(seqs) \in Seq(Line) /\ SameMembers(FlattenSeq(seqs), seqs)
  BY <1>8, FlattenKeepsMembers
<1>10. MarksOf(FlattenSeq(seqs)) = UNION {MarksOf(seqs[n]) : n \in 1..N}
  BY <1>8, FlattenKeepsMarks
<1>11. UNION {MarksOf(seqs[n]) : n \in 1..N} = MarksOf(whole)
  <2>1. \A n \in 1..N : MarksOf(seqs[n]) = Marks(whole[n])
    BY <1>7, <1>8
  <2>2. MarksOf(whole) = UNION {Marks(whole[n]) : n \in 1..N}
    BY <1>3 DEF MarksOf
  <2> QED
    BY <2>1, <2>2
<1>12. \A i \in 1..N : Within(seqs[i], (3 * TargetChars) \div 2)
  BY <1>7, <1>8
<1>13. PICK flat \in Seq(Line) : flat = FlattenSeq(seqs)
  BY <1>9
<1>14. Within(flat, LargestWindow)
  <2> SUFFICES ASSUME NEW k \in 1..Len(flat) PROVE Len(flat[k]) <= LargestWindow
    BY DEF Within
  <2>4. PICK n \in 1..N : \E j \in 1..Len(seqs[n]) : flat[k] = seqs[n][j]
    BY <1>8, <1>9, <1>13 DEF SameMembers
  <2>1. PICK j \in 1..Len(seqs[n]) : flat[k] = seqs[n][j]
    BY <2>4
  <2>2. Len(flat[k]) <= (3 * TargetChars) \div 2
    BY <2>1, <1>12 DEF Within
  <2>3. flat[k] \in Line
    OBVIOUS
  <2>5. Len(flat[k]) \in Nat
    BY <2>3 DEF Line
  <2> QED
    BY <2>2, <2>5, LargestWindowIs, WindowSizes
<1> QED
  BY <1>2, <1>5, <1>9, <1>10, <1>11, <1>13, <1>14

-----------------------------------------------------------------------------
(* The items of a file and their lines: a place names its item and line.   *)

\* Division undoes what makes a place.
LEMMA DivMod ==
  ASSUME NEW a \in Nat, NEW m \in Nat \ {0}, NEW c \in 0..(m - 1)
  PROVE  a * m + c \in Nat /\ (a * m + c) \div m = a /\ (a * m + c) % m = c
OBVIOUS

\* Reading order is the order of places.
LEMMA Lexicographic ==
  ASSUME NEW a \in Nat, NEW b \in Nat, NEW m \in Nat \ {0}, NEW c \in 0..(m - 1), NEW d \in 0..(m - 1)
  PROVE  /\ a < b => a * m + c < b * m + d
         /\ a = b /\ c <= d => a * m + c <= b * m + d
OBVIOUS

\* What a place says of itself.
LEMMA PlaceDecodes ==
  ASSUME NEW i \in Nat \ {0}, NEW k \in 1..(MaxLines - 1), NEW c \in 1..(MaxLine - 1)
  PROVE  Place(i, k, c) \in Nat \ {0} /\ ItemOf(Place(i, k, c)) = i /\ LineOf(Place(i, k, c)) = k
<1>1. PICK l \in Nat \ {0}, m \in Nat \ {0} : l = MaxLines /\ m = MaxLine
  BY ParserAssumption
<1>2. k \in 0..(l - 1) /\ c \in 0..(m - 1) /\ c > 0 /\ i \in Nat
  BY <1>1
<1>3. i * l + k \in Nat /\ (i * l + k) \div l = i /\ (i * l + k) % l = k
  BY <1>2, DivMod
<1>4. PICK a \in Nat : a = i * l + k
  BY <1>3
<1>5. a * m + c \in Nat /\ (a * m + c) \div m = a
  BY <1>2, DivMod
<1>6. PICK p \in Nat : p = a * m + c
  BY <1>5
<1>7. a * m \in Nat
  OBVIOUS
<1>8. p # 0
  BY <1>2, <1>6, <1>7
<1>9. Place(i, k, c) = p
  BY <1>1, <1>4, <1>6 DEF Place
<1>10. ItemOf(p) = i /\ LineOf(p) = k
  BY <1>1, <1>3, <1>4, <1>5, <1>6 DEF ItemOf, LineOf
<1> QED
  BY <1>8, <1>9, <1>10

\* Places grow with the item, the line and the character.
LEMMA PlaceGrows ==
  ASSUME NEW i \in Nat \ {0}, NEW k \in 1..(MaxLines - 1), NEW c \in 1..(MaxLine - 1),
         NEW j \in Nat \ {0}, NEW h \in 1..(MaxLines - 1), NEW d \in 1..(MaxLine - 1),
         i < j \/ (i = j /\ k < h) \/ (i = j /\ k = h /\ c <= d)
  PROVE  Place(i, k, c) <= Place(j, h, d)
<1>1. PICK l \in Nat \ {0}, m \in Nat \ {0} : l = MaxLines /\ m = MaxLine
  BY ParserAssumption
<1>2. k \in 0..(l - 1) /\ c \in 0..(m - 1) /\ h \in 0..(l - 1) /\ d \in 0..(m - 1) /\ i \in Nat /\ j \in Nat
  BY <1>1
<1>3. i * l + k \in Nat /\ j * l + h \in Nat
  BY <1>2, DivMod
<1>4. PICK a \in Nat, b \in Nat : a = i * l + k /\ b = j * l + h
  BY <1>3
<1>5. i < j => a < b
  BY <1>2, <1>4, Lexicographic
<1>6. i = j /\ k < h => a < b
  <2>1. i * l \in Nat
    OBVIOUS
  <2> QED
    BY <2>1, <1>2, <1>4
<1>7. i = j /\ k = h => a = b
  BY <1>4
<1>8. a < b => a * m + c < b * m + d
  BY <1>2, Lexicographic
<1>9. a = b /\ c <= d => a * m + c <= b * m + d
  BY <1>2, Lexicographic
<1>10. Place(i, k, c) = a * m + c /\ Place(j, h, d) = b * m + d
  BY <1>1, <1>4 DEF Place
<1>11. a * m + c \in Nat /\ b * m + d \in Nat
  BY <1>2, DivMod
<1> QED
  BY <1>5, <1>6, <1>7, <1>8, <1>9, <1>10, <1>11

\* An item of a file.
LEMMA ItemsAre ==
  ASSUME IsFile(source)
  PROVE  /\ Items \in Seq(FileItems) /\ Items # <<>> /\ Len(Items) \in Nat \ {0}
         /\ source.type \in Types /\ source.backend \in {"docling", "legacy"}
         /\ \A i \in 1..Len(Items) :
              /\ Items[i] \in FileItems
              /\ Items[i].kind \in KindsOf(source.type) /\ Items[i].kind \in {Heading, Text, Table, Figure}
              /\ Items[i].page \in Nat \ {0} /\ Items[i].title \in STRING
              /\ Items[i].lengths \in Seq(1..(MaxLine - 1)) /\ Len(Items[i].lengths) < MaxLines
              /\ Items[i].captioned \in BOOLEAN /\ Items[i].cropped \in BOOLEAN /\ Items[i].running \in BOOLEAN
              /\ \A j \in 1..i : Items[j].page <= Items[i].page
<1>1. source \in [type: Types, backend: {"docling", "legacy"}, items: Seq(FileItems)] /\ source.items # <<>>
  BY DEF IsFile
<1>2. Items \in Seq(FileItems) /\ Items # <<>> /\ source.type \in Types /\ source.backend \in {"docling", "legacy"}
  BY <1>1 DEF Items
<1>3. Len(Items) \in Nat \ {0}
  BY <1>2
<1>4. \A i \in 1..Len(Items) : /\ Items[i].kind \in KindsOf(source.type) /\ Len(Items[i].lengths) < MaxLines
                               /\ \A j \in 1..i : Items[j].page <= Items[i].page
  BY DEF IsFile, Items
<1>5. \A i \in 1..Len(Items) : Items[i] \in FileItems
  BY <1>2
<1>6. \A x \in FileItems :
              /\ x.kind \in {Heading, Text, Table, Figure}
              /\ x.page \in Nat \ {0} /\ x.title \in STRING
              /\ x.lengths \in Seq(1..(MaxLine - 1))
              /\ x.captioned \in BOOLEAN /\ x.cropped \in BOOLEAN /\ x.running \in BOOLEAN
  BY DEF FileItems
<1> QED
  BY <1>2, <1>3, <1>4, <1>5, <1>6

\* The lines of an item: not empty, each place saying which item and which line it is of.
LEMMA LinesAre ==
  ASSUME IsFile(source), NEW i \in 1..Len(Items)
  PROVE  /\ Lines(i) \in Seq(Line) /\ Len(Lines(i)) = Len(Items[i].lengths)
         /\ \A k \in 1..Len(Lines(i)) :
              /\ Lines(i)[k] \in Line /\ Len(Lines(i)[k]) = Items[i].lengths[k] /\ Lines(i)[k] # <<>>
              /\ k \in 1..(MaxLines - 1)
              /\ \A c \in 1..Len(Lines(i)[k]) : /\ c \in 1..(MaxLine - 1)
                                                /\ Lines(i)[k][c] = Place(i, k, c)
<1>1. Items[i].lengths \in Seq(1..(MaxLine - 1)) /\ Len(Items[i].lengths) < MaxLines /\ i \in Nat \ {0}
  BY ItemsAre
<1>2. PICK ls \in Seq(1..(MaxLine - 1)) : ls = Items[i].lengths
  BY <1>1
<1>3. PICK N \in Nat : N = Len(ls)
  OBVIOUS
<1>4. MaxLines \in Nat \ {0} /\ MaxLine \in Nat \ {0}
  BY ParserAssumption
<1> DEFINE line(k) == [c \in 1..ls[k] |-> Place(i, k, c)]
<1>5. Lines(i) = [k \in 1..N |-> line(k)]
  BY <1>2, <1>3 DEF Lines
<1>6. ASSUME NEW k \in 1..N
      PROVE  /\ line(k) \in Line /\ Len(line(k)) = ls[k] /\ line(k) # <<>> /\ k \in 1..(MaxLines - 1)
             /\ \A c \in 1..ls[k] : c \in 1..(MaxLine - 1) /\ line(k)[c] = Place(i, k, c)
  <2>1. k \in 1..(MaxLines - 1)
    BY <1>1, <1>2, <1>3, <1>4
  <2>2. PICK n \in 1..(MaxLine - 1) : n = ls[k]
    <3>1. ASSUME NEW S, ls \in Seq(S) PROVE ls[k] \in S
      BY <1>3, <3>1
    <3>2. ls[k] \in 1..(MaxLine - 1)
      BY <3>1
    <3> QED
      BY <3>2
  <2>3. \A c \in 1..n : c \in 1..(MaxLine - 1)
    BY <1>4
  <2>4. \A c \in 1..n : Place(i, k, c) \in Nat
    BY <1>1, <2>1, <2>3, PlaceDecodes
  <2>5. [c \in 1..n |-> Place(i, k, c)] \in Seq(Nat) /\ Len([c \in 1..n |-> Place(i, k, c)]) = n
    BY <2>4, <1>4
  <2>6. [c \in 1..n |-> Place(i, k, c)] # <<>>
    BY <2>5, <1>4
  <2> QED
    BY <2>1, <2>2, <2>3, <2>5, <2>6 DEF Line
<1> HIDE DEF line
<1>7. \A k \in 1..N : line(k) \in Line
  BY <1>6
<1>8. Lines(i) \in Seq(Line) /\ Len(Lines(i)) = N /\ \A k \in 1..N : Lines(i)[k] = line(k)
  BY <1>5, <1>7
<1> QED
  BY <1>2, <1>3, <1>6, <1>8

\* The places in a line of an item, and the order in which the lines of an item come.
LEMMA LinesDecode ==
  ASSUME IsFile(source), NEW i \in 1..Len(Items), NEW k \in 1..Len(Lines(i)), NEW p \in Marks(Lines(i)[k])
  PROVE  ItemOf(p) = i /\ LineOf(p) = k /\ \E c \in 1..(MaxLine - 1) : p = Place(i, k, c)
<1>1. /\ Lines(i)[k] \in Line /\ k \in 1..(MaxLines - 1) /\ i \in Nat \ {0}
      /\ \A c \in 1..Len(Lines(i)[k]) : c \in 1..(MaxLine - 1) /\ Lines(i)[k][c] = Place(i, k, c)
  BY LinesAre, ItemsAre
<1>2. PICK c \in 1..Len(Lines(i)[k]) : p = Lines(i)[k][c]
  BY <1>1, MarksAre
<1>3. c \in 1..(MaxLine - 1) /\ p = Place(i, k, c)
  BY <1>1, <1>2
<1> QED
  BY <1>1, <1>3, PlaceDecodes

\* The lines of an item, and those of later items, are in the order of their places.
LEMMA LinesAscend ==
  ASSUME IsFile(source), NEW i \in 1..Len(Items)
  PROVE  /\ InPlace(Lines(i))
         /\ \A j \in 1..Len(Items) : i < j => \A k \in 1..Len(Lines(i)), h \in 1..Len(Lines(j)) :
              Before(Lines(i)[k], Lines(j)[h])
<1>1. ASSUME NEW k \in 1..Len(Lines(i))
      PROVE  Ascends(Lines(i)[k])
  <2>1. /\ Lines(i)[k] \in Line /\ k \in 1..(MaxLines - 1) /\ i \in Nat \ {0}
        /\ \A c \in 1..Len(Lines(i)[k]) : c \in 1..(MaxLine - 1) /\ Lines(i)[k][c] = Place(i, k, c)
    BY LinesAre, ItemsAre
  <2> SUFFICES ASSUME NEW d \in 1..Len(Lines(i)[k]), NEW c \in 1..d
               PROVE  Lines(i)[k][c] <= Lines(i)[k][d]
    BY DEF Ascends
  <2>2. PICK n \in Nat : n = Len(Lines(i)[k])
    BY <2>1 DEF Line
  <2>3. c \in 1..n /\ d \in 1..n /\ c <= d
    BY <2>2
  <2>4. c \in 1..(MaxLine - 1) /\ d \in 1..(MaxLine - 1)
    BY <2>1, <2>2, <2>3
  <2>5. Place(i, k, c) <= Place(i, k, d)
    BY <2>1, <2>3, <2>4, PlaceGrows
  <2> QED
    BY <2>1, <2>2, <2>3, <2>5
<1>2. ASSUME NEW j \in 1..Len(Items), NEW k \in 1..Len(Lines(i)), NEW h \in 1..Len(Lines(j)),
             i < j \/ (i = j /\ k < h)
      PROVE  Before(Lines(i)[k], Lines(j)[h])
  <2> SUFFICES ASSUME NEW p \in Marks(Lines(i)[k]), NEW q \in Marks(Lines(j)[h])
               PROVE  p <= q
    BY DEF Before
  <2>1. PICK c \in 1..(MaxLine - 1) : p = Place(i, k, c)
    BY LinesDecode
  <2>2. PICK d \in 1..(MaxLine - 1) : q = Place(j, h, d)
    BY LinesDecode
  <2>3. k \in 1..(MaxLines - 1) /\ h \in 1..(MaxLines - 1) /\ i \in Nat \ {0} /\ j \in Nat \ {0}
    BY LinesAre, ItemsAre
  <2> QED
    BY <1>2, <2>1, <2>2, <2>3, PlaceGrows
<1>3. Lines(i) \in Seq(Line)
  BY LinesAre
<1>4. ASSUME NEW n \in 1..Len(Lines(i)), NEW m \in 1..(n - 1)
      PROVE  Before(Lines(i)[m], Lines(i)[n])
  <2>1. m \in 1..Len(Lines(i)) /\ m < n
    BY <1>3
  <2> QED
    BY <1>2, <2>1
<1> QED
  BY <1>1, <1>2, <1>4 DEF InPlace

-----------------------------------------------------------------------------
(* Elements, and the parsers: everything in a file is in an element.       *)

\* An element is made of an item, its lines and the title it stands under.
LEMMA ElementIs ==
  ASSUME IsFile(source), NEW kind \in {Text, Table, Figure}, NEW section \in Titles, NEW i \in 1..Len(Items),
         NEW text \in Seq(Line), NEW spaced \in BOOLEAN
  PROVE  /\ Element(kind, section, i, text, spaced) \in Elements
         /\ Element(kind, section, i, text, spaced).kind = kind
         /\ Element(kind, section, i, text, spaced).section = section
         /\ Element(kind, section, i, text, spaced).page = Items[i].page
         /\ Element(kind, section, i, text, spaced).text = text
         /\ Element(kind, section, i, text, spaced).rows = (IF kind = Table THEN Items[i].lengths ELSE <<>>)
         /\ Element(kind, section, i, text, spaced).item = i
<1>1. /\ Items[i].page \in Nat \ {0} /\ Items[i].captioned \in BOOLEAN /\ Items[i].cropped \in BOOLEAN
      /\ Items[i].lengths \in Seq(1..(MaxLine - 1))
  BY ItemsAre
<1>2. PICK rows : rows = IF kind = Table THEN Items[i].lengths ELSE <<>>
  OBVIOUS
<1>3. rows \in Seq(Nat)
  <2>1. Items[i].lengths \in Seq(Nat)
    BY <1>1, ParserAssumption
  <2> QED
    BY <1>2, <2>1
<1>4. PICK page \in Nat \ {0}, captioned \in BOOLEAN, cropped \in BOOLEAN :
         page = Items[i].page /\ captioned = Items[i].captioned /\ cropped = Items[i].cropped
  BY <1>1
<1>5. Element(kind, section, i, text, spaced) =
         [kind |-> kind, section |-> section, page |-> page, text |-> text, spaced |-> spaced,
          rows |-> rows, captioned |-> captioned, cropped |-> cropped, item |-> i]
  BY <1>2, <1>4 DEF Element
<1> QED
  BY <1>2, <1>3, <1>4, <1>5 DEF Elements

\* What an element has.
LEMMA ElementsAre ==
  ASSUME NEW el \in Elements
  PROVE  /\ el.kind \in {Text, Table, Figure} /\ el.section \in Titles /\ el.page \in Nat \ {0}
         /\ el.text \in Seq(Line) /\ el.spaced \in BOOLEAN /\ el.rows \in Seq(Nat)
         /\ el.captioned \in BOOLEAN /\ el.cropped \in BOOLEAN /\ el.item \in 1..Len(Items)
BY DEF Elements

\* A table or a figure.
LEMMA VisualIs ==
  ASSUME IsFile(source), NEW section \in Titles, NEW i \in 1..Len(Items), Items[i].kind \in {Table, Figure}
  PROVE  /\ Visual(i, section) \in Elements
         /\ Visual(i, section).kind = Items[i].kind /\ Visual(i, section).kind # Text
         /\ Visual(i, section).section = section
         /\ Visual(i, section).item = i
         /\ Items[i].kind = Table => Visual(i, section).rows = Items[i].lengths
<1>0. PICK ls \in Seq(Line) : ls = Lines(i)
  BY LinesAre
<1>1. PICK text \in Seq(Line) : text = IF Items[i].kind = Figure THEN Lines(i) ELSE <<>>
  <2>1. (IF Items[i].kind = Figure THEN ls ELSE <<>>) \in Seq(Line)
    OBVIOUS
  <2> QED
    BY <1>0, <2>1
<1>2. PICK kind \in {Text, Table, Figure} : kind = Items[i].kind /\ kind # Text
  BY DEF Text, Table, Figure
<1>6. PICK spaced \in BOOLEAN : spaced = TRUE
  OBVIOUS
<1>3. Visual(i, section) = Element(kind, section, i, text, spaced)
  BY <1>1, <1>2, <1>6 DEF Visual
<1>4. PICK el : el = Element(kind, section, i, text, spaced)
  OBVIOUS
<1>5. /\ el \in Elements /\ el.kind = kind /\ el.section = section /\ el.item = i
      /\ el.rows = (IF kind = Table THEN Items[i].lengths ELSE <<>>)
  BY <1>4, ElementIs
<1> QED
  BY <1>2, <1>3, <1>4, <1>5

\* A title is a string, that of a heading above or the blank one.
LEMMA TitleOfIs ==
  ASSUME IsFile(source), NEW js \in SUBSET (1..Len(Items))
  PROVE  TitleOf(js) \in Titles
<1>1. CASE js = {}
  <2>1. TitleOf(js) = ""
    BY <1>1 DEF TitleOf
  <2> QED
    BY <2>1 DEF Titles
<1>2. CASE js # {}
  <2>1. Len(Items) \in Nat
    BY ItemsAre
  <2> DEFINE T == {Len(Items) - j : j \in js}
  <2>2. T \in SUBSET Nat /\ T # {}
    <3>1. \A j \in js : Len(Items) - j \in Nat
      BY <2>1
    <3> QED
      BY <1>2, <3>1
  <2>3. PICK m \in T : \A n \in T : m <= n
    BY <2>2, LeastElement
  <2>4. PICK j \in js : m = Len(Items) - j
    BY <2>3
  <2>5. \A k \in js : k <= j
    <3> SUFFICES ASSUME NEW k \in js PROVE k <= j
      OBVIOUS
    <3>1. Len(Items) - k \in T
      OBVIOUS
    <3>2. m <= Len(Items) - k
      BY <2>3, <3>1
    <3>3. k \in Nat /\ j \in Nat
      BY <2>1
    <3> QED
      BY <3>2, <3>3, <2>1, <2>4
  <2>6. (CHOOSE i \in js : \A k \in js : k <= i) \in js
    BY <2>5
  <2>7. \A i \in js : Items[i].title \in Titles
    BY DEF Titles
  <2> QED
    BY <1>2, <2>6, <2>7 DEF TitleOf
<1> QED
  BY <1>1, <1>2

\* The title above an item is one of the titles of the file, or none.
LEMMA TitleAboveIs ==
  ASSUME IsFile(source), NEW i
  PROVE  TitleAbove(i) \in Titles
<1>1. {j \in Headings : j < i} \in SUBSET (1..Len(Items))
  BY DEF Headings, Is
<1> QED
  BY <1>1, TitleOfIs DEF TitleAbove

\* The lines of several items.
LEMMA LinesOfAre ==
  ASSUME IsFile(source), NEW is \in Seq(1..Len(Items))
  PROVE  /\ LinesOf(is) \in Seq(Line)
         /\ \A p \in 1..Len(LinesOf(is)) : \E n \in 1..Len(is) :
                \E k \in 1..Len(Lines(is[n])) : LinesOf(is)[p] = Lines(is[n])[k]
         /\ \A n \in 1..Len(is) : \A k \in 1..Len(Lines(is[n])) :
                \E p \in 1..Len(LinesOf(is)) : LinesOf(is)[p] = Lines(is[n])[k]
<1>1. PICK N \in Nat : N = Len(is)
  OBVIOUS
<1>2. \A n \in 1..N : is[n] \in 1..Len(Items)
  BY <1>1
<1>3. \A n \in 1..N : Lines(is[n]) \in Seq(Line)
  BY <1>2, LinesAre
<1>4. PICK seqs : seqs = [n \in 1..N |-> Lines(is[n])]
  OBVIOUS
<1>5. seqs \in Seq(Seq(Line)) /\ Len(seqs) = N /\ \A n \in 1..N : seqs[n] = Lines(is[n])
  BY <1>3, <1>4
<1>6. FlattenSeq(seqs) \in Seq(Line) /\ SameMembers(FlattenSeq(seqs), seqs)
  BY <1>5, FlattenKeepsMembers
<1>7. LinesOf(is) = FlattenSeq(seqs)
  BY <1>1, <1>4 DEF LinesOf
<1>8. PICK flat \in Seq(Line) : flat = FlattenSeq(seqs)
  BY <1>6
<1>9. \A p \in 1..Len(flat) : \E n \in 1..N : \E k \in 1..Len(seqs[n]) : flat[p] = seqs[n][k]
  BY <1>5, <1>6, <1>8 DEF SameMembers
<1>10. \A n \in 1..N : \A k \in 1..Len(seqs[n]) : \E p \in 1..Len(flat) : flat[p] = seqs[n][k]
  BY <1>5, <1>6, <1>8 DEF SameMembers
<1>11. \A p \in 1..Len(flat) : \E n \in 1..N : \E k \in 1..Len(Lines(is[n])) : flat[p] = Lines(is[n])[k]
  <2> SUFFICES ASSUME NEW p \in 1..Len(flat)
               PROVE  \E n \in 1..N : \E k \in 1..Len(Lines(is[n])) : flat[p] = Lines(is[n])[k]
    OBVIOUS
  <2>1. PICK n \in 1..N : \E k \in 1..Len(seqs[n]) : flat[p] = seqs[n][k]
    BY <1>9
  <2>2. seqs[n] = Lines(is[n])
    BY <1>5
  <2> QED
    BY <2>1, <2>2
<1>12. \A n \in 1..N : \A k \in 1..Len(Lines(is[n])) : \E p \in 1..Len(flat) : flat[p] = Lines(is[n])[k]
  <2> SUFFICES ASSUME NEW n \in 1..N, NEW k \in 1..Len(Lines(is[n]))
               PROVE  \E p \in 1..Len(flat) : flat[p] = Lines(is[n])[k]
    OBVIOUS
  <2>1. seqs[n] = Lines(is[n])
    BY <1>5
  <2> QED
    BY <1>10, <2>1
<1>13. LinesOf(is) = flat /\ Len(is) = N
  BY <1>1, <1>7, <1>8
<1>14. flat \in Seq(Line)
  BY <1>8
<1> QED
  BY <1>11, <1>12, <1>13, <1>14

\* Sequences of lines that are in order, and follow each other in order, make one that is.
LEMMA FlattenInPlace ==
  ASSUME NEW seqs \in Seq(Seq(Line)), \A n \in 1..Len(seqs) : InPlace(seqs[n]),
         \A m, n \in 1..Len(seqs) : m < n => \A k \in 1..Len(seqs[m]), h \in 1..Len(seqs[n]) : Before(seqs[m][k], seqs[n][h])
  PROVE  InPlace(FlattenSeq(seqs))
<1>1. PICK N \in Nat : N = Len(seqs)
  OBVIOUS
<1>3. \A n \in 1..N : seqs[n] \in Seq(Line) /\ Len(seqs[n]) \in Nat
  BY <1>1
<1>6. PICK flat : flat = FlattenSeq(seqs)
  OBVIOUS
<1>7. flat \in Seq(Line) /\ \E off : Laid(off, seqs, flat)
  BY <1>6, FlattenLays
<1>8. PICK off : Laid(off, seqs, flat)
  BY <1>7
<1>9. \A n \in 0..N : off[n] \in Nat
  BY <1>1, <1>8 DEF Laid
<1>10. ASSUME NEW p \in 1..Len(flat)
       PROVE  \E n \in 1..N : \E k \in 1..Len(seqs[n]) : p = off[n - 1] + k /\ flat[p] = seqs[n][k]
  <2>1. PICK n \in 1..N : \E k \in 1..Len(seqs[n]) : p = off[n - 1] + k
    BY <1>1, <1>8 DEF Laid
  <2>2. PICK k \in 1..Len(seqs[n]) : p = off[n - 1] + k
    BY <2>1
  <2>3. flat[off[n - 1] + k] = seqs[n][k]
    BY <1>1, <1>8 DEF Laid
  <2> QED
    BY <2>2, <2>3
<1>11. ASSUME NEW p \in 1..Len(flat)
       PROVE  Ascends(flat[p])
  <2>1. PICK n \in 1..N : \E k \in 1..Len(seqs[n]) : p = off[n - 1] + k /\ flat[p] = seqs[n][k]
    BY <1>10
  <2>2. PICK k \in 1..Len(seqs[n]) : flat[p] = seqs[n][k]
    BY <2>1
  <2>3. InPlace(seqs[n])
    BY <1>1
  <2> QED
    BY <2>2, <2>3 DEF InPlace
<1>12. ASSUME NEW q \in 1..Len(flat), NEW p \in 1..(q - 1)
       PROVE  Before(flat[p], flat[q])
  <2>0. PICK L \in Nat : L = Len(flat)
    BY <1>7
  <2>1. p \in 1..Len(flat) /\ p < q /\ p \in Nat /\ q \in Nat
    BY <2>0
  <2>2. PICK m \in 1..N : \E k \in 1..Len(seqs[m]) : p = off[m - 1] + k /\ flat[p] = seqs[m][k]
    BY <1>10, <2>1
  <2>3. PICK k \in 1..Len(seqs[m]) : p = off[m - 1] + k /\ flat[p] = seqs[m][k]
    BY <2>2
  <2>4. PICK n \in 1..N : \E h \in 1..Len(seqs[n]) : q = off[n - 1] + h /\ flat[q] = seqs[n][h]
    BY <1>10
  <2>5. PICK h \in 1..Len(seqs[n]) : q = off[n - 1] + h /\ flat[q] = seqs[n][h]
    BY <2>4
  <2>6. k \in Nat /\ h \in Nat /\ k <= Len(seqs[m]) /\ Len(seqs[m]) \in Nat /\ h >= 1
    BY <1>3, <2>3, <2>5
  <2>7. m <= n
    <3> SUFFICES ASSUME n < m PROVE FALSE
      OBVIOUS
    <3>1. n \in 0..(m - 1) /\ m - 1 \in 0..N /\ n \in 0..N
      OBVIOUS
    <3>2. off[n] <= off[m - 1]
      BY <3>1, <1>1, <1>8 DEF Laid
    <3>3. off[n] = off[n - 1] + Len(seqs[n])
      BY <1>1, <1>8 DEF Laid
    <3>4. n - 1 \in 0..N
      OBVIOUS
    <3>5. PICK a \in Nat, b \in Nat, c \in Nat : a = off[n] /\ b = off[m - 1] /\ c = off[n - 1]
      BY <1>9, <3>1, <3>4
    <3>6. h <= Len(seqs[n]) /\ Len(seqs[n]) \in Nat
      BY <1>3, <2>5
    <3> QED
      <4>1. PICK s \in Nat : s = Len(seqs[n]) /\ h <= s
        BY <3>6
      <4>2. a <= b /\ a = c + s /\ p = b + k /\ q = c + h
        BY <2>3, <2>5, <3>2, <3>3, <3>5, <4>1
      <4> QED
        BY <2>1, <2>6, <4>1, <4>2
  <2>8. CASE m = n
    <3>1. k < h
      <4>2. m - 1 \in 0..N
        OBVIOUS
      <4>1. PICK a \in Nat : a = off[m - 1]
        BY <1>9, <4>2
      <4> QED
        BY <2>1, <2>3, <2>5, <2>6, <2>8, <4>1
    <3>2. InPlace(seqs[n])
      BY <1>1
    <3>3. k \in 1..(h - 1)
      BY <2>6, <3>1
    <3> QED
      BY <2>3, <2>5, <2>8, <3>2, <3>3 DEF InPlace
  <2>9. CASE m < n
    BY <1>1, <2>3, <2>5, <2>9
  <2> QED
    BY <2>7, <2>8, <2>9
<1>13. InPlace(flat)
  BY <1>11, <1>12 DEF InPlace
<1> QED
  BY <1>6, <1>13

\* The lines of items come in order when the items do.
LEMMA LinesOfAscend ==
  ASSUME IsFile(source), NEW is \in Seq(1..Len(Items)), \A m, n \in 1..Len(is) : m < n => is[m] < is[n]
  PROVE  InPlace(LinesOf(is))
<1>1. PICK N \in Nat : N = Len(is)
  OBVIOUS
<1>2. \A n \in 1..N : is[n] \in 1..Len(Items)
  BY <1>1
<1>3. \A n \in 1..N : Lines(is[n]) \in Seq(Line) /\ InPlace(Lines(is[n]))
  BY <1>2, LinesAre, LinesAscend
<1>4. PICK seqs : seqs = [n \in 1..N |-> Lines(is[n])]
  OBVIOUS
<1>5. seqs \in Seq(Seq(Line)) /\ Len(seqs) = N /\ \A n \in 1..N : seqs[n] = Lines(is[n])
  BY <1>3, <1>4
<1>6. ASSUME NEW m \in 1..N, NEW n \in 1..N, m < n, NEW k \in 1..Len(seqs[m]), NEW h \in 1..Len(seqs[n])
      PROVE  Before(seqs[m][k], seqs[n][h])
  <2>1. is[m] < is[n] /\ is[m] \in 1..Len(Items) /\ is[n] \in 1..Len(Items)
    BY <1>1, <1>2, <1>6
  <2>2. seqs[m] = Lines(is[m]) /\ seqs[n] = Lines(is[n])
    BY <1>5
  <2> QED
    BY <2>1, <2>2, LinesAscend
<1>7. InPlace(FlattenSeq(seqs))
  BY <1>3, <1>5, <1>6, FlattenInPlace
<1>8. LinesOf(is) = FlattenSeq(seqs)
  BY <1>1, <1>4 DEF LinesOf
<1> QED
  BY <1>7, <1>8

\* One sequence of elements behind another has what either has.
LEMMA ConcatMakes ==
  ASSUME NEW a, NEW b, Made(a), Made(b)
  PROVE  Made(a \o b) /\ \A i : Gives(a, i) \/ Gives(b, i) => Gives(a \o b, i)
<1>1. a \in Seq(Elements) /\ b \in Seq(Elements)
  BY DEF Made
<1>2. PICK w \in Seq(Elements) : w = a \o b /\ Behind(w, a, b)
  BY <1>1, Concatenates
<1>3. PICK m \in Nat, n \in Nat : m = Len(a) /\ n = Len(b) /\ Len(w) = m + n
  BY <1>2 DEF Behind
<1>4. \A e \in 1..m : w[e] = a[e] /\ e \in 1..Len(w)
  BY <1>2, <1>3 DEF Behind
<1>5. \A e \in 1..n : w[m + e] = b[e] /\ m + e \in 1..Len(w)
  BY <1>2, <1>3 DEF Behind
<1>6. \A e \in 1..Len(w) : e \in 1..m \/ \E d \in 1..n : e = m + d
  <2> SUFFICES ASSUME NEW e \in 1..Len(w), e \notin 1..m PROVE \E d \in 1..n : e = m + d
    OBVIOUS
  <2>1. e - m \in 1..n /\ e = m + (e - m)
    BY <1>3
  <2> QED
    BY <2>1
<1>7. Made(w)
  <2> SUFFICES ASSUME NEW e \in 1..Len(w) PROVE FromFile(w[e])
    BY DEF Made
  <2>1. CASE e \in 1..m
    <3>1. w[e] = a[e]
      BY <1>4, <2>1
    <3> QED
      BY <1>3, <2>1, <3>1 DEF Made
  <2>2. CASE \E d \in 1..n : e = m + d
    <3>1. PICK d \in 1..n : e = m + d
      BY <2>2
    <3>2. w[e] = b[d]
      BY <1>5, <3>1
    <3> QED
      BY <1>3, <3>2 DEF Made
  <2> QED
    BY <1>6, <2>1, <2>2
<1>8. ASSUME NEW i, Gives(a, i) PROVE Gives(w, i)
  BY <1>3, <1>4, <1>8 DEF Gives
<1>9. ASSUME NEW i, Gives(b, i) PROVE Gives(w, i)
  <2>1. ASSUME Items[i].kind = Text, NEW k \in 1..Len(Lines(i)) PROVE \E e \in 1..Len(w) : HasLine(w[e], Lines(i)[k])
    <3>1. PICK d \in 1..n : HasLine(b[d], Lines(i)[k])
      BY <1>3, <1>9, <2>1 DEF Gives
    <3>2. w[m + d] = b[d] /\ m + d \in 1..Len(w)
      BY <1>5
    <3> QED
      BY <3>1, <3>2
  <2>2. ASSUME Items[i].kind = Table, Items[i].lengths # <<>> PROVE \E e \in 1..Len(w) : IsTable(w[e], i)
    <3>1. PICK d \in 1..n : IsTable(b[d], i)
      BY <1>3, <1>9, <2>2 DEF Gives
    <3>2. w[m + d] = b[d] /\ m + d \in 1..Len(w)
      BY <1>5
    <3> QED
      BY <3>1, <3>2
  <2> QED
    BY <2>1, <2>2 DEF Gives
<1> QED
  BY <1>2, <1>7, <1>8, <1>9

\* So has the concatenation of many.
LEMMA FlattenMakes ==
  ASSUME NEW seqs \in Seq(Seq(Elements)), \A n \in 1..Len(seqs) : Made(seqs[n])
  PROVE  /\ Made(FlattenSeq(seqs))
         /\ \A n \in 1..Len(seqs) : \A i : Gives(seqs[n], i) => Gives(FlattenSeq(seqs), i)
<1>1. PICK flat \in Seq(Elements) : flat = FlattenSeq(seqs) /\ SameMembers(flat, seqs)
  BY FlattenKeepsMembers
<1>2. \A p \in 1..Len(flat) : \E n \in 1..Len(seqs) : \E k \in 1..Len(seqs[n]) : flat[p] = seqs[n][k]
  BY <1>1 DEF SameMembers
<1>3. \A n \in 1..Len(seqs) : \A k \in 1..Len(seqs[n]) : \E p \in 1..Len(flat) : flat[p] = seqs[n][k]
  BY <1>1 DEF SameMembers
<1>4. Made(flat)
  <2> SUFFICES ASSUME NEW p \in 1..Len(flat) PROVE FromFile(flat[p])
    BY DEF Made
  <2>1. PICK n \in 1..Len(seqs) : \E k \in 1..Len(seqs[n]) : flat[p] = seqs[n][k]
    BY <1>2
  <2>2. PICK k \in 1..Len(seqs[n]) : flat[p] = seqs[n][k]
    BY <2>1
  <2>3. Made(seqs[n])
    OBVIOUS
  <2> QED
    BY <2>2, <2>3 DEF Made
<1>5. ASSUME NEW n \in 1..Len(seqs), NEW i, Gives(seqs[n], i) PROVE Gives(flat, i)
  <2>1. ASSUME Items[i].kind = Text, NEW k \in 1..Len(Lines(i)) PROVE \E e \in 1..Len(flat) : HasLine(flat[e], Lines(i)[k])
    <3>1. PICK d \in 1..Len(seqs[n]) : HasLine(seqs[n][d], Lines(i)[k])
      BY <1>5, <2>1 DEF Gives
    <3>2. PICK p \in 1..Len(flat) : flat[p] = seqs[n][d]
      BY <1>3
    <3> QED
      BY <3>1, <3>2
  <2>2. ASSUME Items[i].kind = Table, Items[i].lengths # <<>> PROVE \E e \in 1..Len(flat) : IsTable(flat[e], i)
    <3>1. PICK d \in 1..Len(seqs[n]) : IsTable(seqs[n][d], i)
      BY <1>5, <2>2 DEF Gives
    <3>2. PICK p \in 1..Len(flat) : flat[p] = seqs[n][d]
      BY <1>3
    <3> QED
      BY <3>1, <3>2
  <2> QED
    BY <2>1, <2>2 DEF Gives
<1> QED
  BY <1>1, <1>4, <1>5

\* The items that can be read are items of the file.
LEMMA ReadableAre ==
  ASSUME IsFile(source)
  PROVE  Readable \in SUBSET (1..Len(Items)) /\ 1..Len(Items) \in SUBSET Nat /\ IsFiniteSet(1..Len(Items))
         /\ \A kind : Is(kind) \in SUBSET (1..Len(Items))
<1>1. Len(Items) \in Nat
  BY ItemsAre
<1>2. IsFiniteSet(1..Len(Items))
  BY <1>1, FS_Interval
<1> QED
  BY <1>1, <1>2 DEF Readable, Is

\* Items in their order.
LEMMA ItemsInOrder ==
  ASSUME IsFile(source), NEW is \in SUBSET (1..Len(Items))
  PROVE  /\ InOrder(is) \in Seq(is) /\ InOrder(is) \in Seq(1..Len(Items)) /\ Lists(InOrder(is), is)
         /\ Len(InOrder(is)) \in Nat
<1>1. is \in SUBSET Nat /\ IsFiniteSet(is)
  BY ReadableAre, FS_Subset
<1>2. Lists(InOrder(is), is)
  BY <1>1, InOrderLists
<1>3. InOrder(is) \in Seq(is)
  BY <1>2 DEF Lists
<1>4. ASSUME NEW S, NEW T, NEW s \in Seq(S), S \subseteq T PROVE s \in Seq(T) /\ Len(s) \in Nat
  BY <1>4
<1>5. InOrder(is) \in Seq(1..Len(Items)) /\ Len(InOrder(is)) \in Nat
  BY <1>3, <1>4
<1> QED
  BY <1>2, <1>3, <1>5

\* One text element of the lines of some items, or nothing.
LEMMA OneTextMakes ==
  ASSUME IsFile(source), NEW is \in Seq(Readable), \A m, n \in 1..Len(is) : m < n => is[m] < is[n],
         NEW section \in Titles, \A n \in 1..Len(is) : Under(is[n], section), NEW spaced \in BOOLEAN
  PROVE  /\ Made(OneText(is, section, spaced)) /\ Len(OneText(is, section, spaced)) \in 0..1
         /\ \A n \in 1..Len(is) : Items[is[n]].kind = Text => Gives(OneText(is, section, spaced), is[n])
         /\ \A e \in 1..Len(OneText(is, section, spaced)) : OneText(is, section, spaced)[e].text = LinesOf(is)
<1>1. Readable \in SUBSET (1..Len(Items))
  BY ReadableAre
<1>2. is \in Seq(1..Len(Items)) /\ \A n \in 1..Len(is) : is[n] \in Readable /\ is[n] \in 1..Len(Items)
  <2>1. \A n \in 1..Len(is) : is[n] \in Readable
    OBVIOUS
  <2>2. is \in Seq(1..Len(Items))
    <3>1. ASSUME NEW S, NEW T, is \in Seq(S), S \subseteq T PROVE is \in Seq(T)
      BY <3>1
    <3> QED
      BY <3>1, <1>1
  <2> QED
    BY <1>1, <2>1, <2>2
<1>3. PICK ls \in Seq(Line) : ls = LinesOf(is)
  BY <1>2, LinesOfAre
<1>4. /\ \A p \in 1..Len(ls) : \E n \in 1..Len(is) : \E k \in 1..Len(Lines(is[n])) : ls[p] = Lines(is[n])[k]
      /\ \A n \in 1..Len(is) : \A k \in 1..Len(Lines(is[n])) : \E p \in 1..Len(ls) : ls[p] = Lines(is[n])[k]
      /\ InPlace(ls)
  BY <1>2, <1>3, LinesOfAre, LinesOfAscend
<1>5. PICK els : els = OneText(is, section, spaced)
  OBVIOUS
<1>6. CASE ls = <<>>
  <2>1. els = <<>>
    BY <1>3, <1>5, <1>6 DEF OneText
  <2>2. Made(els) /\ Len(els) \in 0..1
    BY <2>1 DEF Made
  <2>3. \A n \in 1..Len(is) : \A k \in 1..Len(Lines(is[n])) : FALSE
    BY <1>4, <1>6
  <2>4. ASSUME NEW n \in 1..Len(is), Items[is[n]].kind = Text
        PROVE  Gives(els, is[n])
    BY <2>3, <2>4 DEF Gives, Text, Table
  <2>5. Len(els) = 0
    BY <2>1
  <2> QED
    BY <1>5, <2>2, <2>4, <2>5
<1>7. CASE ls # <<>>
  <2>1. Len(ls) \in Nat \ {0}
    BY <1>7
  <2>2. is[1] \in 1..Len(Items)
    <3>1. \E n \in 1..Len(is) : TRUE
      BY <1>4, <2>1
    <3>2. Len(is) \in Nat
      BY <1>2
    <3>3. 1 \in 1..Len(is)
      BY <3>1, <3>2
    <3> QED
      BY <1>2, <3>3
  <2>3. PICK el : el = Element(Text, section, is[1], ls, spaced)
    OBVIOUS
  <2>4. el \in Elements /\ el.kind = Text /\ el.section = section /\ el.text = ls
    <3>1. PICK kind \in {Text, Table, Figure} : kind = Text
      OBVIOUS
    <3>2. PICK i \in 1..Len(Items) : i = is[1]
      BY <2>2
    <3>3. el = Element(kind, section, i, ls, spaced)
      BY <2>3, <3>1, <3>2
    <3>4. el \in Elements /\ el.kind = kind /\ el.section = section /\ el.text = ls
      BY <3>3, ElementIs
    <3> QED
      BY <3>1, <3>4
  <2>5. els = <<el>>
    BY <1>3, <1>5, <1>7, <2>3 DEF OneText
  <2>6. els \in Seq(Elements) /\ Len(els) = 1 /\ els[1] = el
    BY <2>4, <2>5
  <2>7. FromFile(el)
    <3> SUFFICES ASSUME NEW p \in 1..Len(ls)
                 PROVE  \E i \in Readable : \E k \in 1..Len(Lines(i)) : ls[p] = Lines(i)[k] /\ Under(i, section)
      BY <1>4, <2>4 DEF FromFile
    <3>1. PICK n \in 1..Len(is) : \E k \in 1..Len(Lines(is[n])) : ls[p] = Lines(is[n])[k]
      BY <1>4
    <3>2. is[n] \in Readable /\ Under(is[n], section)
      BY <1>2
    <3> QED
      BY <3>1, <3>2
  <2>8. Made(els)
    <3>1. \A e \in 1..Len(els) : e = 1
      BY <2>6
    <3> QED
      BY <2>6, <2>7, <3>1 DEF Made
  <2>9. ASSUME NEW n \in 1..Len(is), Items[is[n]].kind = Text
        PROVE  Gives(els, is[n])
    <3>1. Items[is[n]].kind # Table
      BY <2>9 DEF Text, Table
    <3>2. 1 \in 1..Len(els)
      BY <2>6
    <3>3. ASSUME NEW k \in 1..Len(Lines(is[n])) PROVE HasLine(els[1], Lines(is[n])[k])
      <4>1. \E p \in 1..Len(ls) : ls[p] = Lines(is[n])[k]
        BY <1>4
      <4> QED
        BY <2>4, <2>6, <4>1 DEF HasLine
    <3> QED
      BY <3>1, <3>2, <3>3 DEF Gives
  <2>10. \A e \in 1..Len(els) : els[e].text = ls
    <3>1. \A e \in 1..Len(els) : e = 1
      BY <2>6
    <3> QED
      BY <2>4, <2>6, <3>1
  <2> QED
    BY <1>3, <1>5, <2>6, <2>8, <2>9, <2>10
<1> QED
  BY <1>6, <1>7

\* A table or figure is of the file.
LEMMA VisualFromFile ==
  ASSUME IsFile(source), NEW i \in Is(Table) \cup Is(Figure), NEW el, VisualOf(el, i)
  PROVE  FromFile(el) /\ el.kind # Text /\ el.kind = Items[i].kind /\ el.item = i
<1>1. PICK section \in Titles : el = Visual(i, section)
  BY DEF VisualOf
<1>2. i \in 1..Len(Items) /\ Items[i].kind \in {Table, Figure}
  BY DEF Is
<1>3. el \in Elements /\ el.kind # Text /\ el.kind = Items[i].kind /\ el.item = i
  BY <1>1, <1>2, VisualIs
<1>4. el.text = (IF Items[i].kind = Figure THEN Lines(i) ELSE <<>>)
  BY <1>1 DEF Visual, Element
<1>5. InPlace(Lines(i))
  BY <1>2, LinesAscend
<1>6. InPlace(<<>>)
  BY DEF InPlace
<1> QED
  BY <1>3, <1>4, <1>5, <1>6 DEF FromFile

\* Tables and figures, one by one.
LEMMA VisualsMake ==
  ASSUME IsFile(source), NEW is \in Seq(Is(Table) \cup Is(Figure)), NEW els,
         els = [n \in 1..Len(is) |-> els[n]], \A n \in 1..Len(is) : VisualOf(els[n], is[n])
  PROVE  /\ Made(els) /\ Len(els) = Len(is)
         /\ \A n \in 1..Len(is) : els[n].kind # Text /\ Gives(els, is[n])
<1>1. PICK N \in Nat : N = Len(is)
  OBVIOUS
<1>2. \A n \in 1..N : is[n] \in Is(Table) \cup Is(Figure)
  BY <1>1
<1>3. \A n \in 1..N : FromFile(els[n]) /\ els[n].kind # Text /\ els[n].kind = Items[is[n]].kind /\ els[n].item = is[n]
  BY <1>1, <1>2, VisualFromFile
<1>4. \A n \in 1..N : els[n] \in Elements
  BY <1>3 DEF FromFile
<1>5. els = [n \in 1..N |-> els[n]]
  BY <1>1
<1>6. els \in Seq(Elements) /\ Len(els) = N
  BY <1>4, <1>5
<1>7. Made(els)
  BY <1>3, <1>6 DEF Made
<1>8. ASSUME NEW n \in 1..N PROVE Gives(els, is[n])
  <2>1. Items[is[n]].kind # Text
    BY <1>2, <1>3
  <2>2. Items[is[n]].kind = Table => IsTable(els[n], is[n])
    BY <1>3 DEF IsTable
  <2>3. n \in 1..Len(els)
    BY <1>6
  <2> QED
    BY <2>1, <2>2, <2>3 DEF Gives
<1> QED
  BY <1>1, <1>3, <1>6, <1>7, <1>8

\* Items that can be read, in their order.
LEMMA ReadableInOrder ==
  ASSUME IsFile(source), NEW is \in SUBSET Readable
  PROVE  /\ InOrder(is) \in Seq(Readable)
         /\ \A n \in 1..Len(InOrder(is)) : InOrder(is)[n] \in is
         /\ \A m, n \in 1..Len(InOrder(is)) : m < n => InOrder(is)[m] < InOrder(is)[n]
         /\ \A i \in is : \E n \in 1..Len(InOrder(is)) : InOrder(is)[n] = i
<1>1. is \in SUBSET (1..Len(Items))
  BY ReadableAre
<1>2. InOrder(is) \in Seq(is) /\ Lists(InOrder(is), is)
  BY <1>1, ItemsInOrder
<1>3. ASSUME NEW S, NEW T, NEW s \in Seq(S), S \subseteq T PROVE s \in Seq(T) /\ \A n \in 1..Len(s) : s[n] \in S
  BY <1>3
<1>4. InOrder(is) \in Seq(Readable) /\ \A n \in 1..Len(InOrder(is)) : InOrder(is)[n] \in is
  BY <1>2, <1>3
<1> QED
  BY <1>2, <1>4 DEF Lists

\* A text element of all items in a set.
LEMMA TextMakes ==
  ASSUME IsFile(source), NEW is \in SUBSET Readable, NEW section \in Titles, \A i \in is : Under(i, section),
         NEW spaced \in BOOLEAN
  PROVE  /\ Made(OneText(InOrder(is), section, spaced)) /\ Len(OneText(InOrder(is), section, spaced)) \in 0..1
         /\ \A i \in is : Items[i].kind = Text => Gives(OneText(InOrder(is), section, spaced), i)
         /\ \A e \in 1..Len(OneText(InOrder(is), section, spaced)) :
              OneText(InOrder(is), section, spaced)[e].text = LinesOf(InOrder(is))
<1>1. PICK order \in Seq(Readable) :
         /\ order = InOrder(is)
         /\ \A n \in 1..Len(order) : order[n] \in is
         /\ \A m, n \in 1..Len(order) : m < n => order[m] < order[n]
         /\ \A i \in is : \E n \in 1..Len(order) : order[n] = i
  BY ReadableInOrder
<1>2. \A n \in 1..Len(order) : Under(order[n], section)
  BY <1>1
<1>3. PICK els : els = OneText(order, section, spaced)
  OBVIOUS
<1>4. /\ Made(els) /\ Len(els) \in 0..1
      /\ \A n \in 1..Len(order) : Items[order[n]].kind = Text => Gives(els, order[n])
      /\ \A e \in 1..Len(els) : els[e].text = LinesOf(order)
  BY <1>1, <1>2, <1>3, OneTextMakes
<1>5. ASSUME NEW i \in is, Items[i].kind = Text PROVE Gives(els, i)
  <2>1. PICK n \in 1..Len(order) : order[n] = i
    BY <1>1
  <2> QED
    BY <1>4, <1>5, <2>1
<1> QED
  BY <1>1, <1>3, <1>4, <1>5

\* The tables or figures of a set.
LEMMA SetOfVisualsMakes ==
  ASSUME IsFile(source), NEW is \in SUBSET (Is(Table) \cup Is(Figure)), NEW els, NEW order, order = InOrder(is),
         els = [n \in 1..Len(order) |-> els[n]], \A n \in 1..Len(order) : VisualOf(els[n], order[n])
  PROVE  /\ Made(els) /\ Len(els) = Len(order)
         /\ \A n \in 1..Len(els) : els[n].kind # Text
         /\ \A i \in is : Gives(els, i)
<1>1. is \in SUBSET (1..Len(Items))
  BY ReadableAre
<1>2. order \in Seq(is) /\ Lists(order, is)
  BY <1>1, ItemsInOrder
<1>3. ASSUME NEW S, NEW T, NEW s \in Seq(S), S \subseteq T PROVE s \in Seq(T)
  BY <1>3
<1>4. order \in Seq(Is(Table) \cup Is(Figure))
  BY <1>2, <1>3
<1>5. Made(els) /\ Len(els) = Len(order) /\ \A n \in 1..Len(order) : els[n].kind # Text /\ Gives(els, order[n])
  BY <1>4, VisualsMake
<1>6. \A i \in is : \E n \in 1..Len(order) : order[n] = i
  BY <1>2 DEF Lists
<1> QED
  BY <1>5, <1>6

\* The tables that any parser but ParseDocling shows.
LEMMA TablesMake ==
  ASSUME IsFile(source), NEW els, els = [n \in 1..Len(Tables) |-> els[n]],
         \A n \in 1..Len(Tables) : VisualOf(els[n], Tables[n])
  PROVE  /\ Made(els) /\ Len(els) = Len(Tables) /\ \A n \in 1..Len(els) : els[n].kind # Text
         /\ \A i \in Is(Table) : Gives(els, i)
<1> DEFINE is == {i \in Is(Table) : Items[i].lengths # <<>>}
<1>1. is \in SUBSET (Is(Table) \cup Is(Figure))
  OBVIOUS
<1>2. PICK order : order = Tables /\ order = InOrder(is)
  BY DEF Tables
<1>3. ASSUME NEW i \in Is(Table), i \notin is PROVE Gives(els, i)
  BY <1>3 DEF Gives, Is, Text, Table
<1> HIDE DEF is
<1>4. Made(els) /\ Len(els) = Len(order) /\ (\A n \in 1..Len(els) : els[n].kind # Text) /\ \A i \in is : Gives(els, i)
  BY <1>1, <1>2, SetOfVisualsMakes
<1> QED
  BY <1>2, <1>3, <1>4

\* A table or a figure is an element by itself.
LEMMA VisualIsOf ==
  ASSUME NEW i, NEW section \in Titles
  PROVE  VisualOf(Visual(i, section), i)
BY DEF VisualOf

\* There may be no title.
LEMMA NoTitle == "" \in Titles
BY DEF Titles

\* docling_parser.py: an element for each item that can be used.
LEMMA DoclingMakes ==
  ASSUME IsFile(source)
  PROVE  Made(ParseDocling) /\ \A i \in 1..Len(Items) : Gives(ParseDocling, i)
<1> DEFINE usable == {i \in 1..Len(Items) : Usable(i)}
<1>1. PICK kept : kept = InOrder(usable)
  OBVIOUS
<1>2. usable \in SUBSET (1..Len(Items))
  OBVIOUS
<1>3. kept \in Seq(1..Len(Items)) /\ Lists(kept, usable)
  BY <1>1, <1>2, ItemsInOrder
<1>4. PICK N \in Nat : N = Len(kept)
  BY <1>3
<1>5. \A n \in 1..N : kept[n] \in usable
  <2>1. kept \in Seq(usable)
    BY <1>3 DEF Lists
  <2> HIDE DEF usable
  <2> QED
    BY <1>4, <2>1
<1> DEFINE elementOf(i) == IF Items[i].kind = Text THEN Element(Text, TitleAbove(i), i, Lines(i), TRUE)
                           ELSE Visual(i, TitleAbove(i))
<1>6. PICK els : els = ParseDocling /\ els = [n \in 1..N |-> elementOf(kept[n])]
  BY <1>1, <1>4 DEF ParseDocling
<1>7. ASSUME NEW i \in usable
      PROVE  /\ FromFile(elementOf(i))
             /\ Items[i].kind = Text => \A k \in 1..Len(Lines(i)) : HasLine(elementOf(i), Lines(i)[k])
             /\ Items[i].kind = Table => IsTable(elementOf(i), i)
  <2>1. i \in 1..Len(Items) /\ Items[i].kind \in {Text, Table, Figure}
    BY DEF Usable
  <2>2. PICK section \in Titles : section = TitleAbove(i)
    BY TitleAboveIs
  <2>3. CASE Items[i].kind = Text
    <3>1. PICK kind \in {Text, Table, Figure}, spaced \in BOOLEAN, text \in Seq(Line) :
             kind = Text /\ spaced = TRUE /\ text = Lines(i)
      BY <2>1, LinesAre
    <3>2. PICK el : el = Element(kind, section, i, text, spaced)
      OBVIOUS
    <3>3. el \in Elements /\ el.kind = kind /\ el.section = section /\ el.text = text
      BY <2>1, <3>2, ElementIs
    <3>4. elementOf(i) = el
      BY <2>2, <2>3, <3>1, <3>2
    <3>5. InPlace(text)
      BY <2>1, <3>1, LinesAscend
    <3>6. i \in Readable /\ Under(i, section)
      BY <2>1, <2>2, <2>3 DEF Readable, Is, Under
    <3>7. FromFile(el)
      BY <3>1, <3>3, <3>5, <3>6 DEF FromFile
    <3>8. \A k \in 1..Len(Lines(i)) : HasLine(el, Lines(i)[k])
      BY <3>1, <3>3 DEF HasLine
    <3>9. Items[i].kind # Table
      BY <2>3 DEF Text, Table
    <3> HIDE DEF elementOf
    <3> QED
      BY <3>4, <3>7, <3>8, <3>9
  <2>4. CASE Items[i].kind # Text
    <3>1. i \in Is(Table) \cup Is(Figure)
      BY <2>1, <2>4 DEF Is
    <3>2. PICK el : el = Visual(i, section)
      OBVIOUS
    <3>3. VisualOf(el, i)
      BY <3>2, VisualIsOf
    <3>4. FromFile(el) /\ el.kind = Items[i].kind /\ el.item = i
      BY <3>1, <3>3, VisualFromFile
    <3>5. elementOf(i) = el
      BY <2>2, <2>4, <3>2
    <3> HIDE DEF elementOf
    <3> QED
      BY <2>4, <3>4, <3>5 DEF IsTable
  <2> QED
    BY <2>3, <2>4
<1> HIDE DEF elementOf
<1>8. \A n \in 1..N : els[n] = elementOf(kept[n]) /\ FromFile(els[n])
  BY <1>5, <1>6, <1>7
<1>9. \A n \in 1..N : els[n] \in Elements
  BY <1>8 DEF FromFile
<1>10. els \in Seq(Elements) /\ Len(els) = N
  BY <1>6, <1>8, <1>9
<1>11. Made(els)
  BY <1>8, <1>10 DEF Made
<1>12. ASSUME NEW i \in usable PROVE Gives(els, i)
  <2>1. PICK n \in 1..N : kept[n] = i
    BY <1>3, <1>4 DEF Lists
  <2>2. els[n] = elementOf(i) /\ n \in 1..Len(els)
    BY <1>8, <1>10, <2>1
  <2> HIDE DEF usable
  <2> QED
    BY <1>7, <2>2 DEF Gives
<1>13. ASSUME NEW i \in 1..Len(Items), i \notin usable PROVE Gives(els, i)
  <2>1. Items[i].kind # Table /\ (Items[i].kind = Text => Items[i].lengths = <<>>)
    BY <1>13 DEF Usable
  <2>2. Len(Lines(i)) = Len(Items[i].lengths)
    BY LinesAre
  <2> QED
    BY <2>1, <2>2 DEF Gives
<1> QED
  BY <1>6, <1>11, <1>12, <1>13

\* parsers/office.py: a table for each sheet with a cell, or an empty one.
LEMMA SheetsMake ==
  ASSUME IsFile(source), source.type \in {"xlsx", "csv"}
  PROVE  Made(ParseSheets) /\ \A i \in 1..Len(Items) : Gives(ParseSheets, i)
<1>1. \A i \in 1..Len(Items) : Items[i].kind = Table /\ i \in Is(Table)
  <2>1. KindsOf(source.type) = {Table}
    BY DEF KindsOf
  <2>2. \A i \in 1..Len(Items) : Items[i].kind = Table
    BY <2>1, ItemsAre
  <2> QED
    BY <2>2 DEF Is
<1>2. CASE Tables = <<>>
  <2>1. 1 \in 1..Len(Items)
    BY ItemsAre
  <2>2. PICK el : el = Visual(1, "")
    OBVIOUS
  <2>3. FromFile(el)
    BY <1>1, <2>1, <2>2, NoTitle, VisualIsOf, VisualFromFile
  <2>4. ParseSheets = <<el>>
    BY <1>2, <2>2 DEF ParseSheets
  <2>5. el \in Elements
    BY <2>3 DEF FromFile
  <2>6. PICK els \in Seq(Elements) : els = ParseSheets /\ Len(els) = 1 /\ els[1] = el
    <3>1. <<el>> \in Seq(Elements) /\ Len(<<el>>) = 1 /\ <<el>>[1] = el
      BY <2>5
    <3> QED
      BY <2>4, <3>1
  <2>7. Made(els)
    <3>1. \A e \in 1..Len(els) : e = 1
      BY <2>6
    <3> QED
      BY <2>3, <2>6, <3>1 DEF Made
  <2>8. ASSUME NEW i \in 1..Len(Items) PROVE Gives(els, i)
    <3>1. PICK none : none = [n \in 1..Len(Tables) |-> none[n]] /\ none = <<>>
      <4>1. Len(Tables) = 0
        BY <1>2
      <4>2. <<>> = [n \in 1..0 |-> <<>>[n]]
        OBVIOUS
      <4> QED
        BY <4>1, <4>2
    <3>2. Len(Tables) = 0
      BY <1>2
    <3>3. \A n \in 1..Len(Tables) : VisualOf(none[n], Tables[n])
      BY <3>2
    <3>4. Gives(none, i)
      BY <1>1, <3>1, <3>3, TablesMake
    <3>5. Len(none) = 0 /\ Items[i].kind = Table
      BY <1>1, <3>1
    <3>6. Items[i].lengths = <<>>
      BY <3>4, <3>5 DEF Gives
    <3> QED
      BY <3>5, <3>6 DEF Gives, Text, Table
  <2> QED
    BY <2>6, <2>7, <2>8
<1>3. CASE Tables # <<>>
  <2>1. PICK els : els = ParseSheets /\ els = [n \in 1..Len(Tables) |-> Visual(Tables[n], Items[Tables[n]].title)]
    BY <1>3 DEF ParseSheets
  <2>2. ASSUME NEW n \in 1..Len(Tables) PROVE VisualOf(els[n], Tables[n])
    <3> DEFINE is == {i \in Is(Table) : Items[i].lengths # <<>>}
    <3>1. is \in SUBSET (1..Len(Items))
      BY ReadableAre
    <3>2. Tables \in Seq(1..Len(Items))
      BY <3>1, ItemsInOrder DEF Tables
    <3>3. Items[Tables[n]].title \in Titles
      <4>1. ASSUME NEW S, NEW s \in Seq(S), n \in 1..Len(s) PROVE s[n] \in S
        BY <4>1
      <4>2. Tables[n] \in 1..Len(Items)
        BY <3>2, <4>1
      <4> QED
        BY <4>2 DEF Titles
    <3>4. els[n] = Visual(Tables[n], Items[Tables[n]].title)
      BY <2>1
    <3> QED
      BY <3>3, <3>4, VisualIsOf
  <2>3. els = [n \in 1..Len(Tables) |-> els[n]]
    BY <2>1
  <2> QED
    BY <1>1, <2>1, <2>2, <2>3, TablesMake
<1> QED
  BY <1>2, <1>3

\* parsers/text.py: a text file is one text.
LEMMA TxtMakes ==
  ASSUME IsFile(source), source.type = "txt"
  PROVE  Made(ParseTxt) /\ \A i \in 1..Len(Items) : Gives(ParseTxt, i)
<1>1. \A i \in 1..Len(Items) : Items[i].kind = Text /\ i \in Is(Text)
  <2>1. KindsOf(source.type) = {Text}
    BY DEF KindsOf
  <2>2. \A i \in 1..Len(Items) : Items[i].kind = Text
    BY <2>1, ItemsAre
  <2> QED
    BY <2>2 DEF Is
<1>2. Is(Text) \in SUBSET Readable
  BY DEF Readable
<1>3. \A i \in Is(Text) : Under(i, "")
  BY DEF Under
<1>4. PICK spaced \in BOOLEAN, is \in SUBSET Readable, section \in Titles : spaced = TRUE /\ is = Is(Text) /\ section = ""
  BY <1>2, NoTitle
<1>5. PICK els : els = OneText(InOrder(is), section, spaced)
  OBVIOUS
<1>6. Made(els) /\ \A i \in is : Items[i].kind = Text => Gives(els, i)
  BY <1>3, <1>4, <1>5, TextMakes
<1>7. els = ParseTxt
  BY <1>4, <1>5 DEF ParseTxt
<1> QED
  BY <1>1, <1>4, <1>6, <1>7

\* parsers/image.py: an image is a figure.
LEMMA ImageMakes ==
  ASSUME IsFile(source), source.type = "image"
  PROVE  Made(ParseImage) /\ \A i \in 1..Len(Items) : Gives(ParseImage, i)
<1>1. \A i \in 1..Len(Items) : Items[i].kind = Figure /\ i \in Is(Figure)
  <2>1. KindsOf(source.type) = {Figure}
    BY DEF KindsOf
  <2>2. \A i \in 1..Len(Items) : Items[i].kind = Figure
    BY <2>1, ItemsAre
  <2> QED
    BY <2>2 DEF Is
<1>2. PICK N \in Nat : N = Len(Items)
  BY ItemsAre
<1>3. PICK is : is = [n \in 1..N |-> n]
  OBVIOUS
<1>4. is \in Seq(Is(Table) \cup Is(Figure)) /\ Len(is) = N /\ \A n \in 1..N : is[n] = n
  BY <1>1, <1>2, <1>3
<1>5. PICK els : els = ParseImage
  OBVIOUS
<1>6. els = [n \in 1..Len(is) |-> els[n]] /\ \A n \in 1..Len(is) : els[n] = Visual(is[n], "")
  BY <1>2, <1>4, <1>5 DEF ParseImage
<1>7. \A n \in 1..Len(is) : VisualOf(els[n], is[n])
  BY <1>6, NoTitle, VisualIsOf
<1>8. Made(els) /\ \A n \in 1..Len(is) : Gives(els, is[n])
  BY <1>4, <1>6, <1>7, VisualsMake
<1> QED
  BY <1>2, <1>4, <1>5, <1>8

\* parsers/text.py: the text of a page with its headings, and then the tables.
LEMMA HtmlMakes ==
  ASSUME IsFile(source), source.type = "html"
  PROVE  Made(ParseHtml) /\ \A i \in 1..Len(Items) : Gives(ParseHtml, i)
<1>1. \A i \in 1..Len(Items) : Items[i].kind \in {Heading, Text, Table}
  <2>1. KindsOf(source.type) = {Heading, Text, Table}
    BY DEF KindsOf
  <2> QED
    BY <2>1, ItemsAre
<1>2. \A i \in Readable : Under(i, "")
  BY DEF Under
<1>3. PICK spaced \in BOOLEAN, is \in SUBSET Readable, section \in Titles : spaced = TRUE /\ is = Readable /\ section = ""
  BY NoTitle
<1>4. PICK els : els = OneText(InOrder(is), section, spaced)
  OBVIOUS
<1>5. Made(els) /\ \A i \in is : Items[i].kind = Text => Gives(els, i)
  BY <1>2, <1>3, <1>4, TextMakes
<1>6. PICK tables : tables = [n \in 1..Len(Tables) |-> Visual(Tables[n], "")]
  OBVIOUS
<1>7. tables = [n \in 1..Len(Tables) |-> tables[n]] /\ \A n \in 1..Len(Tables) : VisualOf(tables[n], Tables[n])
  BY <1>6, NoTitle, VisualIsOf
<1>8. Made(tables) /\ \A i \in Is(Table) : Gives(tables, i)
  BY <1>7, TablesMake
<1>9. ParseHtml = els \o tables
  BY <1>3, <1>4, <1>6 DEF ParseHtml, Readable
<1>10. Made(els \o tables) /\ \A i : Gives(els, i) \/ Gives(tables, i) => Gives(els \o tables, i)
  BY <1>5, <1>8, ConcatMakes
<1>11. ASSUME NEW i \in 1..Len(Items) PROVE Gives(els, i) \/ Gives(tables, i)
  <2>1. CASE Items[i].kind = Text
    BY <1>3, <1>5, <2>1 DEF Readable, Is
  <2>2. CASE Items[i].kind = Table
    BY <1>8, <2>2 DEF Is
  <2>3. CASE Items[i].kind = Heading
    BY <2>3 DEF Gives, Heading, Text, Table
  <2> QED
    BY <1>1, <2>1, <2>2, <2>3
<1> QED
  BY <1>9, <1>10, <1>11

\* The largest number of a finite set.
LEMMA GreatestElement ==
  ASSUME NEW N \in Nat, NEW T \in SUBSET (0..N), T # {}
  PROVE  \E m \in T : \A n \in T : n <= m
<1> DEFINE U == {N - n : n \in T}
<1>1. \A n \in T : n \in 0..N /\ N - n \in Nat
  OBVIOUS
<1>2. U \in SUBSET Nat /\ U # {}
  BY <1>1
<1>3. PICK u \in U : \A v \in U : u <= v
  BY <1>2, LeastElement
<1>4. PICK m \in T : u = N - m
  BY <1>3
<1>5. ASSUME NEW n \in T PROVE n <= m
  <2>1. N - n \in U
    OBVIOUS
  <2>2. N - m <= N - n
    BY <1>3, <1>4, <2>1
  <2> QED
    BY <1>1, <2>2
<1> QED
  BY <1>5

\* office.py: a section begins at the start of the file and at each heading.
LEMMA StartsAre ==
  ASSUME IsFile(source)
  PROVE  /\ Lists(Starts, {0} \cup Headings) /\ Len(Starts) \in Nat \ {0} /\ Starts[1] = 0
         /\ \A n \in 1..Len(Starts) : Starts[n] \in Nat /\ (n > 1 => Starts[n] \in Headings)
         /\ \A j \in Headings : \E n \in 2..Len(Starts) : Starts[n] = j
         /\ \A m, n \in 1..Len(Starts) : m < n => Starts[m] < Starts[n]
<1>1. PICK L \in Nat : L = Len(Items)
  BY ItemsAre
<1>2. Headings \in SUBSET (1..L)
  BY <1>1 DEF Headings, Is
<1>3. {0} \cup Headings \in SUBSET (0..L)
  BY <1>2
<1>4. IsFiniteSet(0..L) /\ (0..L) \in SUBSET Nat
  BY FS_Interval
<1>5. PICK H \in SUBSET Nat : H = {0} \cup Headings /\ IsFiniteSet(H)
  <2>1. IsFiniteSet({0} \cup Headings)
    BY <1>3, <1>4, FS_Subset
  <2>2. {0} \cup Headings \in SUBSET Nat
    BY <1>3, <1>4
  <2> QED
    BY <2>1, <2>2
<1>6. PICK s : s = Starts /\ s = InOrder(H)
  BY <1>5 DEF Starts
<1>7. Lists(s, H)
  BY <1>5, <1>6, InOrderLists
<1>8. s \in Seq(H)
  BY <1>7 DEF Lists
<1>9. PICK N \in Nat : N = Len(s)
  BY <1>8
<1>10. \A n \in 1..N : s[n] \in H
  BY <1>8, <1>9
<1>11. \A n \in 1..N : s[n] \in Nat
  BY <1>5, <1>10
<1>12. \A m, n \in 1..N : m < n => s[m] < s[n]
  BY <1>7, <1>9 DEF Lists
<1>13. PICK z \in 1..N : s[z] = 0
  BY <1>5, <1>7, <1>9 DEF Lists
<1>14. 1 \in 1..N /\ N \in Nat \ {0}
  BY <1>13
<1>15. s[1] = 0
  <2>1. z # 1 => s[1] < s[z]
    BY <1>12, <1>13, <1>14
  <2> QED
    BY <1>11, <1>13, <1>14, <2>1
<1>16. ASSUME NEW n \in 1..N, n > 1 PROVE s[n] \in Headings
  <2>1. s[1] < s[n]
    BY <1>12, <1>14, <1>16
  <2> QED
    BY <1>5, <1>10, <1>15, <2>1
<1>17. ASSUME NEW j \in Headings PROVE \E n \in 2..N : s[n] = j
  <2>1. PICK n \in 1..N : s[n] = j
    BY <1>5, <1>7, <1>9 DEF Lists
  <2>2. j # 0
    BY <1>2
  <2> QED
    BY <1>15, <2>1, <2>2
<1> QED
  BY <1>5, <1>6, <1>7, <1>9, <1>11, <1>12, <1>14, <1>15, <1>16, <1>17

\* The title above an item is that of the section it is in.
LEMMA SectionIsTitled ==
  ASSUME IsFile(source), NEW n \in 1..Len(Starts), NEW i \in BodyOf(n)
  PROVE  TitleAbove(i) = SectionTitle(n)
<1>1. PICK N \in Nat \ {0} : N = Len(Starts)
  BY StartsAre
<1>2. i \in 1..Len(Items) /\ Len(Items) \in Nat /\ i > Starts[n] /\ (n < N => i < Starts[n + 1])
  BY <1>1, ItemsAre DEF BodyOf, Is
<1>3. \A m \in 1..N : Starts[m] \in Nat
  BY <1>1, StartsAre
<1>4. ASSUME NEW j \in Headings, j < i PROVE n > 1 /\ j <= Starts[n]
  <2>1. PICK m \in 2..N : Starts[m] = j
    BY <1>1, StartsAre
  <2>2. m <= n
    <3> SUFFICES ASSUME n < m PROVE FALSE
      OBVIOUS
    <3>1. n < N /\ n + 1 \in 1..N /\ m \in 1..N
      BY <1>1
    <3>2. n + 1 < m => Starts[n + 1] < Starts[m]
      BY <1>1, <3>1, StartsAre
    <3>3. Starts[n + 1] <= Starts[m]
      BY <1>3, <3>1, <3>2
    <3> QED
      BY <1>2, <1>3, <1>4, <2>1, <3>1, <3>3
  <2>3. m < n => Starts[m] < Starts[n]
    BY <1>1, StartsAre
  <2> QED
    BY <1>1, <1>3, <2>1, <2>2, <2>3
<1>5. PICK js : js = {j \in Headings : j < i}
  OBVIOUS
<1>6. CASE n = 1
  <2>1. js = {}
    BY <1>4, <1>5, <1>6
  <2> QED
    BY <1>5, <1>6, <2>1 DEF TitleAbove, TitleOf, SectionTitle
<1>7. CASE n # 1
  <2>1. n > 1 /\ n \in 1..N
    BY <1>1, <1>7
  <2>2. Starts[n] \in Headings
    BY <2>1, StartsAre
  <2>3. PICK h : h = Starts[n] /\ h \in js
    BY <1>2, <1>5, <2>2
  <2>4. \A j \in js : j <= h
    BY <1>4, <1>5, <2>3
  <2>5. js \subseteq Int
    <3>1. \A j \in js : j \in 1..Len(Items)
      BY <1>5 DEF Headings, Is
    <3> QED
      BY <3>1
  <2>6. \A j \in js : (\A k \in js : k <= j) => j = h
    BY <2>3, <2>4, <2>5
  <2>7. (CHOOSE j \in js : \A k \in js : k <= j) = h
    BY <2>3, <2>4, <2>6
  <2>8. TitleOf(js) = Items[h].title
    BY <2>3, <2>7 DEF TitleOf
  <2> QED
    BY <1>5, <1>7, <2>3, <2>8 DEF TitleAbove, SectionTitle
<1> QED
  BY <1>6, <1>7

\* Every text is in a section.
LEMMA SectionsCover ==
  ASSUME IsFile(source), NEW i \in Is(Text)
  PROVE  \E n \in 1..Len(Starts) : i \in BodyOf(n)
<1>1. PICK N \in Nat \ {0} : N = Len(Starts)
  BY StartsAre
<1>2. i \in 1..Len(Items) /\ Items[i].kind = Text
  BY DEF Is
<1>3. i \in Nat \ {0}
  BY <1>2, ItemsAre
<1> DEFINE T == {n \in 1..N : Starts[n] < i}
<1>4. T \in SUBSET (0..N)
  OBVIOUS
<1>5. 1 \in T
  BY <1>1, <1>3, StartsAre
<1>6. PICK n \in T : \A m \in T : m <= n
  BY <1>4, <1>5, GreatestElement
<1>7. ASSUME n < N PROVE i < Starts[n + 1]
  <2>1. n + 1 \in 1..N /\ n + 1 > 1
    BY <1>7
  <2>2. n + 1 \notin T
    BY <1>6, <2>1
  <2>3. ~(Starts[n + 1] < i) /\ Starts[n + 1] \in Nat /\ Starts[n + 1] \in Headings
    BY <1>1, <2>1, <2>2, StartsAre
  <2>4. Starts[n + 1] # i
    BY <1>2, <2>3 DEF Headings, Is, Heading, Text
  <2> QED
    BY <1>3, <2>3, <2>4
<1> QED
  BY <1>1, <1>6, <1>7 DEF BodyOf

\* The texts of the sections, one behind the other.
LEMMA BySectionIs ==
  ASSUME NEW spaced
  PROVE  BySection(spaced) = FlattenSeq(SectionTexts(spaced))
BY DEF BySection, SectionTexts, Starts, BodyOf, SectionTitle

\* office.py, text.py: the text of one section has all of its items.
LEMMA SectionMakes ==
  ASSUME IsFile(source), NEW spaced \in BOOLEAN, NEW n \in 1..Len(Starts)
  PROVE  /\ Made(SectionTexts(spaced)[n]) /\ Len(SectionTexts(spaced)[n]) \in 0..1
         /\ \A i \in BodyOf(n) : Gives(SectionTexts(spaced)[n], i)
         /\ \A e \in 1..Len(SectionTexts(spaced)[n]) : SectionTexts(spaced)[n][e].text = LinesOf(InOrder(BodyOf(n)))
<1>1. PICK is \in SUBSET Readable : is = BodyOf(n)
  BY DEF BodyOf, Readable
<1>2. PICK section \in Titles : section = SectionTitle(n)
  <2>1. n > 1 => Starts[n] \in Headings
    BY StartsAre
  <2>2. n > 1 => Starts[n] \in 1..Len(Items)
    BY <2>1 DEF Headings, Is
  <2>3. n = 1 \/ n > 1
    BY StartsAre
  <2> QED
    BY <2>2, <2>3 DEF SectionTitle, Titles
<1>3. \A i \in is : Under(i, section)
  BY <1>1, <1>2, SectionIsTitled DEF Under
<1>4. PICK els : els = OneText(InOrder(is), section, spaced)
  OBVIOUS
<1>5. /\ Made(els) /\ Len(els) \in 0..1 /\ \A i \in is : Items[i].kind = Text => Gives(els, i)
      /\ \A e \in 1..Len(els) : els[e].text = LinesOf(InOrder(is))
  BY <1>3, <1>4, TextMakes
<1>6. SectionTexts(spaced)[n] = els
  BY <1>1, <1>2, <1>4 DEF SectionTexts
<1>7. \A i \in is : Items[i].kind = Text
  BY <1>1 DEF BodyOf, Is
<1> QED
  BY <1>1, <1>5, <1>6, <1>7

\* office.py, text.py: every text of the file is in the text of its section.
LEMMA SectionsMake ==
  ASSUME IsFile(source), NEW spaced \in BOOLEAN
  PROVE  Made(BySection(spaced)) /\ \A i \in Is(Text) : Gives(BySection(spaced), i)
<1>1. PICK N \in Nat : N = Len(Starts)
  BY StartsAre
<1>2. PICK seqs : seqs = SectionTexts(spaced)
  OBVIOUS
<1>3. \A n \in 1..N : Made(seqs[n]) /\ \A i \in BodyOf(n) : Gives(seqs[n], i)
  BY <1>1, <1>2, SectionMakes
<1>4. \A n \in 1..N : seqs[n] \in Seq(Elements)
  BY <1>3 DEF Made
<1>5. seqs = [n \in 1..N |-> seqs[n]]
  BY <1>1, <1>2 DEF SectionTexts
<1>6. seqs \in Seq(Seq(Elements)) /\ Len(seqs) = N
  BY <1>4, <1>5
<1>7. PICK flat : flat = FlattenSeq(seqs)
  OBVIOUS
<1>8. Made(flat) /\ \A n \in 1..N : \A i : Gives(seqs[n], i) => Gives(flat, i)
  BY <1>3, <1>6, <1>7, FlattenMakes
<1>9. ASSUME NEW i \in Is(Text) PROVE Gives(flat, i)
  <2>1. PICK n \in 1..N : i \in BodyOf(n)
    BY <1>1, SectionsCover
  <2> QED
    BY <1>3, <1>8, <2>1
<1>10. BySection(spaced) = flat
  BY <1>2, <1>7, BySectionIs
<1> QED
  BY <1>8, <1>9, <1>10

\* text.py: everything in a Markdown file is in an element.
LEMMA MarkdownMakes ==
  ASSUME IsFile(source), source.type = "md"
  PROVE  Made(ParseMarkdown) /\ \A i \in 1..Len(Items) : Gives(ParseMarkdown, i)
<1>1. \A i \in 1..Len(Items) : Items[i].kind \in {Heading, Text}
  <2>1. KindsOf(source.type) = {Heading, Text}
    BY DEF KindsOf
  <2> QED
    BY <2>1, ItemsAre
<1>2. PICK spaced \in BOOLEAN : spaced = TRUE
  OBVIOUS
<1>3. PICK els : els = BySection(spaced)
  OBVIOUS
<1>4. Made(els) /\ \A i \in Is(Text) : Gives(els, i)
  BY <1>3, SectionsMake
<1>5. ASSUME NEW i \in 1..Len(Items) PROVE Gives(els, i)
  <2>1. CASE Items[i].kind = Text
    BY <1>4, <2>1 DEF Is
  <2>2. CASE Items[i].kind = Heading
    BY <2>2 DEF Gives, Heading, Text, Table
  <2> QED
    BY <1>1, <2>1, <2>2
<1> QED
  BY <1>2, <1>3, <1>4, <1>5 DEF ParseMarkdown

\* office.py: everything in a Word file is in an element.
LEMMA DocxMakes ==
  ASSUME IsFile(source), source.type = "docx"
  PROVE  Made(ParseDocx) /\ \A i \in 1..Len(Items) : Gives(ParseDocx, i)
<1>2. PICK spaced \in BOOLEAN : spaced = FALSE
  OBVIOUS
<1>3. PICK els : els = BySection(spaced)
  OBVIOUS
<1>4. Made(els) /\ \A i \in Is(Text) : Gives(els, i)
  BY <1>3, SectionsMake
<1>5. PICK section \in Titles : section = TitleOf(Headings)
  BY TitleOfIs DEF Headings, Is
<1>6. PICK tables : tables = [n \in 1..Len(Tables) |-> Visual(Tables[n], section)]
  OBVIOUS
<1>7. tables = [n \in 1..Len(Tables) |-> tables[n]] /\ \A n \in 1..Len(Tables) : VisualOf(tables[n], Tables[n])
  BY <1>6, VisualIsOf
<1>8. Made(tables) /\ \A i \in Is(Table) : Gives(tables, i)
  BY <1>7, TablesMake
<1>9. ParseDocx = els \o tables
  BY <1>2, <1>3, <1>5, <1>6 DEF ParseDocx
<1>10. Made(els \o tables) /\ \A i : Gives(els, i) \/ Gives(tables, i) => Gives(els \o tables, i)
  BY <1>4, <1>8, ConcatMakes
<1>11. ASSUME NEW i \in 1..Len(Items) PROVE Gives(els, i) \/ Gives(tables, i)
  <2>1. CASE Items[i].kind = Text
    BY <1>4, <2>1 DEF Is
  <2>2. CASE Items[i].kind = Table
    BY <1>8, <2>2 DEF Is
  <2>3. CASE Items[i].kind # Text /\ Items[i].kind # Table
    BY <2>3 DEF Gives
  <2> QED
    BY <2>1, <2>2, <2>3
<1> QED
  BY <1>9, <1>10, <1>11

\* pdf.py: a page is its text, what is shown of it, and its tables.
LEMMA ParsePageIs ==
  ASSUME NEW p
  PROVE  ParsePage(p) = (PageText(p) \o PageShows(p)) \o PageTables(p)
BY DEF ParsePage, OnPage, PageText, PageFigures, PageScan, PageShows, PageTables, Readable

\* No elements are made of nothing.
LEMMA EmptyMade == Made(<<>>) /\ Len(<<>>) = 0
<1>1. <<>> \in Seq(Elements) /\ Len(<<>>) = 0
  OBVIOUS
<1> QED
  BY <1>1 DEF Made

\* What a page shows between its text and its tables is no text.
LEMMA PageShowsMake ==
  ASSUME IsFile(source), NEW p
  PROVE  Made(PageShows(p)) /\ \A e \in 1..Len(PageShows(p)) : PageShows(p)[e].kind # Text
<1>1. CASE PageText(p) # <<>>
  <2>1. PICK is \in SUBSET (Is(Table) \cup Is(Figure)) : is = OnPage({i \in Is(Figure) : Items[i].cropped}, p)
    BY DEF OnPage
  <2>2. PICK order : order = InOrder(is) /\ order = PageFigures(p)
    BY <2>1 DEF PageFigures
  <2>3. PICK els : els = [n \in 1..Len(order) |-> Visual(order[n], "")]
    OBVIOUS
  <2>4. els = [n \in 1..Len(order) |-> els[n]] /\ \A n \in 1..Len(order) : VisualOf(els[n], order[n])
    BY <2>3, NoTitle, VisualIsOf
  <2>5. Made(els) /\ \A n \in 1..Len(els) : els[n].kind # Text
    BY <2>1, <2>2, <2>4, SetOfVisualsMakes
  <2>6. PageShows(p) = els
    BY <1>1, <2>2, <2>3 DEF PageShows
  <2> QED
    BY <2>5, <2>6
<1>2. CASE PageText(p) = <<>> /\ PageScan(p) = <<>>
  <2>1. PageShows(p) = <<>>
    BY <1>2 DEF PageShows
  <2> QED
    BY <2>1, EmptyMade
<1>3. CASE PageText(p) = <<>> /\ PageScan(p) # <<>>
  <2>1. OnPage(Is(Figure), p) \in SUBSET (1..Len(Items))
    BY DEF OnPage, Is
  <2>2. PICK scan \in Seq(1..Len(Items)) : scan = PageScan(p) /\ scan # <<>> /\ Lists(scan, OnPage(Is(Figure), p))
    BY <1>3, <2>1, ItemsInOrder DEF PageScan
  <2>3. PICK i \in 1..Len(Items) : i = scan[1]
    BY <2>2
  <2>4. PICK ls \in Seq(Line) : ls = LinesOf(scan)
    BY LinesOfAre
  <2>5. InPlace(ls)
    BY <2>2, <2>4, LinesOfAscend DEF Lists
  <2>6. PICK kind \in {Text, Table, Figure}, section \in Titles, spaced \in BOOLEAN :
           kind = Figure /\ section = "" /\ spaced = TRUE
    BY NoTitle
  <2>7. PICK el : el = Element(kind, section, i, ls, spaced)
    OBVIOUS
  <2>8. el \in Elements /\ el.kind = kind /\ el.text = ls
    BY <2>7, ElementIs
  <2>9. kind # Text
    BY <2>6 DEF Figure, Text
  <2>10. FromFile(el)
    BY <2>5, <2>8, <2>9 DEF FromFile
  <2>11. PageShows(p) = <<el>>
    BY <1>3, <2>2, <2>3, <2>4, <2>6, <2>7 DEF PageShows
  <2>12. PICK els \in Seq(Elements) : els = <<el>> /\ Len(els) = 1 /\ els[1] = el
    <3>1. <<el>> \in Seq(Elements) /\ Len(<<el>>) = 1 /\ <<el>>[1] = el
      BY <2>8
    <3> QED
      BY <3>1
  <2>13. \A e \in 1..Len(els) : e = 1
    BY <2>12
  <2> QED
    BY <2>8, <2>9, <2>10, <2>11, <2>12, <2>13 DEF Made
<1> QED
  BY <1>1, <1>2, <1>3

\* pdf.py: the text of a page has all the texts on it.
LEMMA PageTextMakes ==
  ASSUME IsFile(source), source.type = "pdf", NEW p
  PROVE  /\ Made(PageText(p)) /\ Len(PageText(p)) \in 0..1
         /\ \A i \in OnPage(Is(Text), p) : Gives(PageText(p), i)
         /\ \A e \in 1..Len(PageText(p)) : PageText(p)[e].text = LinesOf(InOrder(OnPage(Readable, p)))
<1>1. PICK is \in SUBSET Readable, section \in Titles, spaced \in BOOLEAN :
         is = OnPage(Readable, p) /\ section = "" /\ spaced = FALSE
  BY NoTitle DEF OnPage
<1>2. \A i \in is : Under(i, section)
  BY DEF Under
<1>3. PICK els : els = OneText(InOrder(is), section, spaced)
  OBVIOUS
<1>4. /\ Made(els) /\ Len(els) \in 0..1 /\ \A i \in is : Items[i].kind = Text => Gives(els, i)
      /\ \A e \in 1..Len(els) : els[e].text = LinesOf(InOrder(is))
  BY <1>2, <1>3, TextMakes
<1>5. PageText(p) = els
  BY <1>1, <1>3 DEF PageText
<1>6. \A i \in OnPage(Is(Text), p) : i \in is /\ Items[i].kind = Text
  BY <1>1 DEF OnPage, Is, Readable
<1> QED
  BY <1>1, <1>4, <1>5, <1>6

\* pdf.py: every table of a page that has rows is an element.
LEMMA PageTablesMake ==
  ASSUME IsFile(source), NEW p
  PROVE  /\ Made(PageTables(p)) /\ \A e \in 1..Len(PageTables(p)) : PageTables(p)[e].kind # Text
         /\ \A i \in OnPage(Is(Table), p) : Gives(PageTables(p), i)
<1>1. PICK is \in SUBSET (Is(Table) \cup Is(Figure)) : is = {i \in Is(Table) : Items[i].lengths # <<>> /\ Items[i].page = p}
  OBVIOUS
<1>2. PICK order : order = InOrder(is) /\ order = TablesOf(p)
  BY <1>1 DEF TablesOf
<1>3. PICK els : els = [n \in 1..Len(order) |-> Visual(order[n], "")]
  OBVIOUS
<1>4. els = [n \in 1..Len(order) |-> els[n]] /\ \A n \in 1..Len(order) : VisualOf(els[n], order[n])
  BY <1>3, NoTitle, VisualIsOf
<1>5. Made(els) /\ (\A n \in 1..Len(els) : els[n].kind # Text) /\ \A i \in is : Gives(els, i)
  BY <1>1, <1>2, <1>4, SetOfVisualsMakes
<1>6. PageTables(p) = els
  BY <1>2, <1>3 DEF PageTables
<1>7. ASSUME NEW i \in OnPage(Is(Table), p) PROVE Gives(els, i)
  <2>1. i \in Is(Table) /\ Items[i].page = p /\ Items[i].kind # Text
    BY DEF OnPage, Is, Text, Table
  <2>2. CASE Items[i].lengths = <<>>
    BY <2>1, <2>2 DEF Gives
  <2>3. CASE Items[i].lengths # <<>>
    BY <1>1, <1>5, <2>1, <2>3
  <2> QED
    BY <2>2, <2>3
<1> QED
  BY <1>5, <1>6, <1>7

\* pdf.py: everything on a page is in an element.
LEMMA PageMakes ==
  ASSUME IsFile(source), source.type = "pdf", NEW p
  PROVE  Made(ParsePage(p)) /\ \A i \in OnPage(1..Len(Items), p) : Gives(ParsePage(p), i)
<1>1. PICK a, b, c : a = PageText(p) /\ b = PageShows(p) /\ c = PageTables(p)
  OBVIOUS
<1>2. Made(a) /\ \A i \in OnPage(Is(Text), p) : Gives(a, i)
  BY <1>1, PageTextMakes
<1>3. Made(b)
  BY <1>1, PageShowsMake
<1>4. Made(c) /\ \A i \in OnPage(Is(Table), p) : Gives(c, i)
  BY <1>1, PageTablesMake
<1>5. PICK ab : ab = a \o b
  OBVIOUS
<1>6. Made(ab) /\ \A i : Gives(a, i) => Gives(ab, i)
  BY <1>2, <1>3, <1>5, ConcatMakes
<1>7. PICK abc : abc = ab \o c
  OBVIOUS
<1>8. Made(abc) /\ \A i : Gives(ab, i) \/ Gives(c, i) => Gives(abc, i)
  BY <1>4, <1>6, <1>7, ConcatMakes
<1>9. ASSUME NEW i \in OnPage(1..Len(Items), p) PROVE Gives(abc, i)
  <2>0. i \in 1..Len(Items) /\ Items[i].page = p
    BY DEF OnPage
  <2>1. CASE Items[i].kind = Text
    BY <1>2, <1>6, <1>8, <2>0, <2>1 DEF Is, OnPage
  <2>2. CASE Items[i].kind = Table
    BY <1>4, <1>8, <2>0, <2>2 DEF Is, OnPage
  <2>3. CASE Items[i].kind # Text /\ Items[i].kind # Table
    BY <2>3 DEF Gives
  <2> QED
    BY <2>1, <2>2, <2>3
<1>10. ParsePage(p) = abc
  BY <1>1, <1>5, <1>7, ParsePageIs
<1> QED
  BY <1>8, <1>9, <1>10

\* pdf.py: every page with an item is parsed, in the order of the pages.
LEMMA FilePagesAre ==
  ASSUME IsFile(source)
  PROVE  /\ Len(FilePages) \in Nat
         /\ \A i \in 1..Len(Items) : \E n \in 1..Len(FilePages) : FilePages[n] = Items[i].page
         /\ \A m, n \in 1..Len(FilePages) : m < n => FilePages[m] < FilePages[n]
<1>1. PICK L \in Nat : L = Len(Items)
  BY ItemsAre
<1>2. PICK P : P = {Items[i].page : i \in 1..L}
  OBVIOUS
<1>3. P \in SUBSET Nat
  BY <1>1, <1>2, ItemsAre
<1>4. IsFiniteSet(P)
  <2>1. IsFiniteSet(1..L)
    BY FS_Interval
  <2> DEFINE f == [i \in 1..L |-> Items[i].page]
  <2>2. f \in Surjection(1..L, P)
    BY <1>2 DEF Surjection
  <2> QED
    BY <2>1, <2>2, FS_Surjection
<1>5. Lists(InOrder(P), P)
  BY <1>3, <1>4, InOrderLists
<1>6. FilePages = InOrder(P)
  BY <1>1, <1>2 DEF FilePages
<1>7. Len(InOrder(P)) \in Nat
  BY <1>5 DEF Lists
<1> QED
  BY <1>1, <1>2, <1>5, <1>6, <1>7 DEF Lists

\* pdf.py: everything in a PDF is in an element.
LEMMA PdfMakes ==
  ASSUME IsFile(source), source.type = "pdf"
  PROVE  Made(ParsePdf) /\ \A i \in 1..Len(Items) : Gives(ParsePdf, i)
<1>1. PICK N \in Nat : N = Len(FilePages)
  BY FilePagesAre
<1>2. PICK seqs : seqs = [n \in 1..N |-> ParsePage(FilePages[n])]
  OBVIOUS
<1>3. \A n \in 1..N : Made(seqs[n]) /\ \A i \in OnPage(1..Len(Items), FilePages[n]) : Gives(seqs[n], i)
  BY <1>2, PageMakes
<1>4. \A n \in 1..N : seqs[n] \in Seq(Elements)
  BY <1>3 DEF Made
<1>5. seqs = [n \in 1..N |-> seqs[n]]
  BY <1>2
<1>6. seqs \in Seq(Seq(Elements)) /\ Len(seqs) = N
  BY <1>4, <1>5
<1>7. PICK flat : flat = FlattenSeq(seqs)
  OBVIOUS
<1>8. Made(flat) /\ \A n \in 1..N : \A i : Gives(seqs[n], i) => Gives(flat, i)
  BY <1>3, <1>6, <1>7, FlattenMakes
<1>9. ASSUME NEW i \in 1..Len(Items) PROVE Gives(flat, i)
  <2>1. PICK n \in 1..N : FilePages[n] = Items[i].page
    BY <1>1, FilePagesAre
  <2>2. i \in OnPage(1..Len(Items), FilePages[n])
    BY <2>1 DEF OnPage
  <2> QED
    BY <1>3, <1>8, <2>2
<1>10. ParsePdf = flat
  BY <1>1, <1>2, <1>7 DEF ParsePdf, FilePages
<1> QED
  BY <1>8, <1>9, <1>10

\* Whatever the type of the file and the parser it goes to.
LEMMA ParseMakes ==
  ASSUME IsFile(source), HasParser
  PROVE  Made(Parse) /\ \A i \in 1..Len(Items) : Gives(Parse, i)
<1>1. CASE Docling
  BY <1>1, DoclingMakes DEF Parse
<1>2. CASE ~Docling
  <2>0. source.type \in Types /\ source.type # "pptx"
    BY <1>2, ItemsAre DEF HasParser
  <2>1. CASE source.type = "pdf"
    <3>1. Parse = ParsePdf
      BY <1>2, <2>1 DEF Parse
    <3> QED
      BY <2>1, <3>1, PdfMakes
  <2>2. CASE source.type = "docx"
    <3>1. Parse = ParseDocx
      BY <1>2, <2>2 DEF Parse
    <3> QED
      BY <2>2, <3>1, DocxMakes
  <2>3. CASE source.type \in {"xlsx", "csv"}
    <3>1. Parse = ParseSheets
      BY <1>2, <2>3 DEF Parse
    <3> QED
      BY <2>3, <3>1, SheetsMake
  <2>4. CASE source.type = "md"
    <3>1. Parse = ParseMarkdown
      BY <1>2, <2>4 DEF Parse
    <3> QED
      BY <2>4, <3>1, MarkdownMakes
  <2>5. CASE source.type = "html"
    <3>1. Parse = ParseHtml
      BY <1>2, <2>5 DEF Parse
    <3> QED
      BY <2>5, <3>1, HtmlMakes
  <2>6. CASE source.type = "txt"
    <3>1. Parse = ParseTxt
      BY <1>2, <2>6 DEF Parse
    <3> QED
      BY <2>6, <3>1, TxtMakes
  <2>7. CASE source.type = "image"
    <3>1. Parse = ParseImage
      BY <1>2, <2>7 DEF Parse
    <3> QED
      BY <2>7, <3>1, ImageMakes
  <2> QED
    BY <2>0, <2>1, <2>2, <2>3, <2>4, <2>5, <2>6, <2>7 DEF Types
<1> QED
  BY <1>1, <1>2

-----------------------------------------------------------------------------
(* Repeated lines: only they are removed.                                  *)

\* What is left of a text are lines of it, all but the repeated ones, in their order.
LEMMA CleanedKeeps ==
  ASSUME NEW old \in Seq(Line), NEW new, Cleaned(new, old)
  PROVE  /\ new \in Seq(Line)
         /\ \A n \in 1..Len(new) : \E k \in 1..Len(old) : new[n] = old[k]
         /\ \A k \in 1..Len(old) : Running(old[k]) \/ \E n \in 1..Len(new) : new[n] = old[k]
         /\ InPlace(old) => InPlace(new)
<1>1. PICK order \in Seq(1..Len(old)) :
         /\ \A m, n \in 1..Len(order) : m < n => order[m] < order[n]
         /\ new = [n \in 1..Len(order) |-> old[order[n]]]
         /\ \A k \in 1..Len(old) : Running(old[k]) \/ \E n \in 1..Len(order) : order[n] = k
  BY DEF Cleaned
<1>2. PICK N \in Nat : N = Len(order)
  OBVIOUS
<1>3. PICK M \in Nat : M = Len(old)
  OBVIOUS
<1>4. \A n \in 1..N : order[n] \in 1..M
  BY <1>2, <1>3
<1>5. \A n \in 1..N : new[n] = old[order[n]] /\ old[order[n]] \in Line
  BY <1>1, <1>2, <1>3, <1>4
<1>6. new = [n \in 1..N |-> new[n]]
  BY <1>1, <1>2
<1>7. new \in Seq(Line) /\ Len(new) = N
  <2>1. \A n \in 1..N : new[n] \in Line
    BY <1>5
  <2>2. new \in [1..N -> Line]
    BY <1>6, <2>1
  <2> QED
    BY <2>2
<1>8. ASSUME InPlace(old) PROVE InPlace(new)
  <2>1. \A n \in 1..N : Ascends(new[n])
    BY <1>3, <1>4, <1>5, <1>8 DEF InPlace
  <2>2. ASSUME NEW n \in 1..N, NEW m \in 1..(n - 1) PROVE Before(new[m], new[n])
    <3>1. m \in 1..N /\ m < n
      BY <1>2
    <3>2. order[m] < order[n] /\ order[m] \in 1..M /\ order[n] \in 1..M
      BY <1>1, <1>2, <1>4, <3>1
    <3>3. order[m] \in 1..(order[n] - 1)
      BY <3>2
    <3>4. Before(old[order[m]], old[order[n]])
      BY <1>3, <1>8, <3>2, <3>3 DEF InPlace
    <3> QED
      BY <1>5, <3>1, <3>4
  <2> QED
    BY <1>7, <2>1, <2>2 DEF InPlace
<1>9. \A n \in 1..N : \E k \in 1..M : new[n] = old[k]
  BY <1>4, <1>5
<1>10. ASSUME NEW k \in 1..M, ~Running(old[k]) PROVE \E n \in 1..N : new[n] = old[k]
  <2>1. PICK n \in 1..N : order[n] = k
    BY <1>1, <1>2, <1>3, <1>10
  <2> QED
    BY <1>5, <2>1
<1> QED
  BY <1>3, <1>7, <1>8, <1>9, <1>10

\* Nothing may be removed at all.
LEMMA SameIsCleaned ==
  ASSUME NEW old \in Seq(Line)
  PROVE  Cleaned(old, old)
<1>1. PICK N \in Nat : N = Len(old)
  OBVIOUS
<1>2. PICK order : order = [n \in 1..N |-> n]
  OBVIOUS
<1>3. order \in Seq(1..N) /\ Len(order) = N /\ \A n \in 1..N : order[n] = n
  BY <1>2
<1>4. old = [n \in 1..N |-> old[n]]
  BY <1>1
<1>5. old = [n \in 1..Len(order) |-> old[order[n]]]
  <2>1. [n \in 1..N |-> old[n]] = [n \in 1..N |-> old[order[n]]]
    BY <1>3
  <2> QED
    BY <1>3, <1>4, <2>1
<1> QED
  BY <1>1, <1>3, <1>5 DEF Cleaned

\* Only running lines go.
LEMMA StripCleans ==
  ASSUME NEW texts \in Seq(Seq(Line))
  PROVE  /\ StripRepeated(texts) = [m \in 1..Len(texts) |-> StripRepeated(texts)[m]]
         /\ \A m \in 1..Len(texts) : Cleaned(StripRepeated(texts)[m], texts[m])
<1>1. PICK N \in Nat : N = Len(texts)
  OBVIOUS
<1>2. \A m \in 1..N : texts[m] \in Seq(Line)
  BY <1>1
<1> DEFINE kept(m) == {k \in 1..Len(texts[m]) : ~Running(texts[m][k])}
<1>3. CASE StripRepeated(texts) = texts
  <2>1. texts = [m \in 1..N |-> texts[m]]
    BY <1>1
  <2>2. \A m \in 1..N : Cleaned(texts[m], texts[m])
    BY <1>2, SameIsCleaned
  <2> QED
    BY <1>1, <1>3, <2>1, <2>2
<1>4. CASE StripRepeated(texts) = [m \in 1..N |-> At(texts[m], kept(m))]
  <2>1. ASSUME NEW m \in 1..N PROVE Cleaned(At(texts[m], kept(m)), texts[m])
    <3>0. PICK old \in Seq(Line) : old = texts[m]
      BY <1>2
    <3>1. PICK is : old = texts[m] /\ is = kept(m)
      BY <3>0
    <3>2. is \in SUBSET (1..Len(old)) /\ \A k \in 1..Len(old) : Running(old[k]) \/ k \in is
      BY <3>1
    <3> HIDE DEF kept
    <3>3. PICK order : Lists(order, is) /\ At(old, is) = [n \in 1..Len(order) |-> old[order[n]]]
      BY <3>2, AtLists
    <3>4. order \in Seq(is) /\ \A i \in is : \E n \in 1..Len(order) : order[n] = i
      BY <3>3 DEF Lists
    <3>5. ASSUME NEW X, NEW Y, NEW s \in Seq(X), X \subseteq Y PROVE s \in Seq(Y)
      BY <3>5
    <3>6. order \in Seq(1..Len(old))
      BY <3>2, <3>4, <3>5
    <3>7. \A i, j \in 1..Len(order) : i < j => order[i] < order[j]
      BY <3>3 DEF Lists
    <3>8. \A k \in 1..Len(old) : Running(old[k]) \/ \E n \in 1..Len(order) : order[n] = k
      BY <3>2, <3>4
    <3>9. Cleaned(At(old, is), old)
      BY <3>3, <3>6, <3>7, <3>8 DEF Cleaned
    <3> QED
      BY <3>1, <3>9
  <2> HIDE DEF kept
  <2> QED
    BY <1>1, <1>4, <2>1
<1> QED
  BY <1>1, <1>3, <1>4 DEF StripRepeated

\* pipeline.py: the elements stay, their texts without the repeated lines.
LEMMA DenoiseKeeps ==
  ASSUME NEW els \in Seq(Elements)
  PROVE  Denoise(els) \in Seq(Elements) /\ Len(Denoise(els)) = Len(els)
         /\ \A e \in 1..Len(els) : Denoised(Denoise(els)[e], els[e])
<1>1. PICK N \in Nat : N = Len(els)
  OBVIOUS
<1>2. \A e \in 1..N : els[e] \in Elements
  BY <1>1
<1>3. \A e \in 1..N : Denoised(els[e], els[e])
  <2>1. \A e \in 1..N : els[e].text \in Seq(Line)
    BY <1>2, ElementsAre
  <2>2. \A e \in 1..N : Cleaned(els[e].text, els[e].text)
    BY <2>1, SameIsCleaned
  <2> QED
    BY <1>2, <2>2 DEF Denoised
<1>4. CASE ~HasPages
  <2>1. Denoise(els) = els
    BY <1>4 DEF Denoise
  <2> QED
    BY <1>1, <1>3, <2>1
<1>5. CASE HasPages
  <2> DEFINE is == {n \in 1..Len(els) : els[n].kind = Text}
         places == InOrder(is)
         texts == [m \in 1..Len(places) |-> els[places[m]].text]
         cleaned == StripRepeated(texts)
         textOf(n) == cleaned[CHOOSE m \in 1..Len(places) : places[m] = n]
         newOf(n) == IF els[n].kind = Text THEN [els[n] EXCEPT !.text = textOf(n)] ELSE els[n]
  <2>11. PICK new : new = Denoise(els) /\ new = [n \in 1..N |-> newOf(n)]
    <3>1. Denoise(els) = [n \in 1..Len(els) |-> newOf(n)]
      BY <1>5 DEF Denoise
    <3> QED
      BY <1>1, <3>1
  <2>1. is \in SUBSET Nat /\ IsFiniteSet(is) /\ is \in SUBSET (1..N)
    <3>1. is \in SUBSET (1..N)
      BY <1>1
    <3>2. IsFiniteSet(1..N)
      BY FS_Interval
    <3> QED
      BY <3>1, <3>2, FS_Subset
  <2>3. Lists(places, is)
    BY <2>1, InOrderLists
  <2>4. PICK M \in Nat : M = Len(places)
    <3>1. PICK o : o = places
      OBVIOUS
    <3>2. Lists(o, is)
      BY <2>3, <3>1
    <3> HIDE DEF is, places
    <3>3. Len(o) \in Nat
      BY <3>2 DEF Lists
    <3> QED
      BY <3>1, <3>3
  <2>5. \A m \in 1..M : places[m] \in is
    <3>1. places \in Seq(is)
      BY <2>3 DEF Lists
    <3> HIDE DEF is
    <3> QED
      BY <2>4, <3>1
  <2>7. \A m \in 1..M : els[places[m]].text \in Seq(Line) /\ els[places[m]].kind = Text
    BY <1>1, <1>2, <2>5, ElementsAre
  <2>8. texts \in Seq(Seq(Line)) /\ Len(texts) = M /\ \A m \in 1..M : texts[m] = els[places[m]].text
    BY <2>4, <2>7
  <2>10. \A m \in 1..M : Cleaned(cleaned[m], els[places[m]].text)
    BY <2>8, StripCleans
  <2> HIDE DEF places, texts, cleaned
  <2>12. ASSUME NEW n \in 1..N PROVE Denoised(newOf(n), els[n])
    <3>1. CASE els[n].kind # Text
      BY <1>3, <3>1
    <3>2. CASE els[n].kind = Text
      <4>1. n \in is
        BY <1>1, <3>2
      <4>2. PICK m \in 1..M : m = CHOOSE k \in 1..Len(places) : places[k] = n
        BY <2>3, <2>4, <4>1 DEF Lists
      <4>3. places[m] = n
        BY <2>3, <2>4, <4>1, <4>2 DEF Lists
      <4>4. PICK text : text = textOf(n) /\ text = cleaned[m]
        BY <4>2
      <4>5. Cleaned(text, els[n].text)
        BY <2>10, <4>3, <4>4
      <4>6. PICK el \in Elements : el = els[n]
        BY <1>2
      <4>7. text \in Seq(Line)
        BY <4>5, <4>6, ElementsAre, CleanedKeeps
      <4>8. newOf(n) = [el EXCEPT !.text = text]
        BY <3>2, <4>4, <4>6
      <4>9. PICK w : w = [el EXCEPT !.text = text]
        OBVIOUS
      <4>10. w \in Elements /\ w.text = text
             /\ \A field \in {"kind", "section", "page", "spaced", "rows", "captioned", "cropped", "item"} :
                  w[field] = el[field]
        BY <4>7, <4>9 DEF Elements
      <4> HIDE DEF newOf, textOf
      <4> QED
        BY <3>2, <4>5, <4>6, <4>8, <4>9, <4>10 DEF Denoised
    <3> QED
      BY <3>1, <3>2
  <2> HIDE DEF newOf
  <2>13. \A n \in 1..N : newOf(n) \in Elements
    BY <2>12 DEF Denoised
  <2>14. new \in Seq(Elements) /\ Len(new) = N /\ \A n \in 1..N : new[n] = newOf(n)
    BY <2>11, <2>13
  <2> QED
    BY <1>1, <2>11, <2>12, <2>14
<1> QED
  BY <1>4, <1>5

\* pipeline.py: nothing but the text of an element changes.
LEMMA DenoisedFields ==
  ASSUME NEW new, NEW el, Denoised(new, el)
  PROVE  /\ new.kind = el.kind /\ new.section = el.section /\ new.page = el.page /\ new.spaced = el.spaced
         /\ new.rows = el.rows /\ new.captioned = el.captioned /\ new.cropped = el.cropped /\ new.item = el.item
BY DEF Denoised

\* pipeline.py: what an element had, it still has, but for the repeated lines.
LEMMA DenoiseMakes ==
  ASSUME IsFile(source), NEW els, Made(els)
  PROVE  Made(Denoise(els)) /\ \A i : Gives(els, i) => Reads(Denoise(els), i)
<1>1. els \in Seq(Elements)
  BY DEF Made
<1>2. PICK new \in Seq(Elements) : /\ new = Denoise(els) /\ Len(new) = Len(els)
                                   /\ \A e \in 1..Len(els) : Denoised(new[e], els[e])
  BY <1>1, DenoiseKeeps
<1>3. ASSUME NEW e \in 1..Len(els)
      PROVE  /\ FromFile(new[e])
             /\ \A line : HasLine(els[e], line) => Running(line) \/ HasLine(new[e], line)
             /\ \A i : IsTable(els[e], i) => IsTable(new[e], i)
  <2>1. PICK el \in Elements, w \in Elements : el = els[e] /\ w = new[e] /\ Denoised(w, el) /\ FromFile(el)
    BY <1>1, <1>2 DEF Made
  <2>2. w.kind = el.kind /\ w.section = el.section /\ w.item = el.item
    BY <2>1, DenoisedFields
  <2>0. PICK old \in Seq(Line) : old = el.text
    BY ElementsAre
  <2>3. PICK text : old = el.text /\ text = w.text /\ Cleaned(text, old)
    BY <2>1, ElementsAre, <2>0 DEF Denoised
  <2>4. /\ text \in Seq(Line)
        /\ \A n \in 1..Len(text) : \E k \in 1..Len(old) : text[n] = old[k]
        /\ \A k \in 1..Len(old) : Running(old[k]) \/ \E n \in 1..Len(text) : text[n] = old[k]
        /\ InPlace(old) => InPlace(text)
    <3>1. old \in Seq(Line)
      BY <2>0
    <3>2. Cleaned(text, old)
      BY <2>3
    <3> QED
      BY <3>1, <3>2, CleanedKeeps
  <2>5. InPlace(text)
    BY <2>1, <2>3, <2>4 DEF FromFile
  <2>6. ASSUME el.kind = Text, NEW n \in 1..Len(text)
        PROVE  \E i \in Readable : \E k \in 1..Len(Lines(i)) : text[n] = Lines(i)[k] /\ Under(i, el.section)
    <3>1. PICK k \in 1..Len(old) : text[n] = old[k]
      BY <2>4
    <3>2. \E i \in Readable : \E h \in 1..Len(Lines(i)) : old[k] = Lines(i)[h] /\ Under(i, el.section)
      BY <2>1, <2>3, <2>6 DEF FromFile
    <3> QED
      BY <3>1, <3>2
  <2>7. FromFile(w)
    BY <2>2, <2>3, <2>5, <2>6 DEF FromFile
  <2>8. ASSUME NEW line, HasLine(el, line), ~Running(line) PROVE HasLine(w, line)
    BY <2>2, <2>3, <2>4, <2>8 DEF HasLine
  <2> QED
    BY <2>1, <2>2, <2>7, <2>8 DEF IsTable
<1>4. Made(new)
  BY <1>2, <1>3 DEF Made
<1>5. ASSUME NEW i, Gives(els, i) PROVE Reads(new, i)
  <2>1. ASSUME Items[i].kind = Text, NEW k \in 1..Len(Lines(i)), ~Running(Lines(i)[k])
        PROVE  \E e \in 1..Len(new) : HasLine(new[e], Lines(i)[k])
    <3>1. PICK e \in 1..Len(els) : HasLine(els[e], Lines(i)[k])
      BY <1>5, <2>1 DEF Gives
    <3> QED
      BY <1>2, <1>3, <2>1, <3>1
  <2>2. ASSUME Items[i].kind = Table, Items[i].lengths # <<>>
        PROVE  \E e \in 1..Len(new) : IsTable(new[e], i)
    <3>1. PICK e \in 1..Len(els) : IsTable(els[e], i)
      BY <1>5, <2>2 DEF Gives
    <3> QED
      BY <1>2, <1>3, <3>1
  <2> QED
    BY <2>1, <2>2 DEF Reads
<1> QED
  BY <1>2, <1>4, <1>5

\* parsers/, pipeline.py: what the chunker is given has everything in the file but repeated lines.
LEMMA ParsedIsRead ==
  ASSUME IsFile(source), HasParser
  PROVE  Read(Denoise(Parse))
<1>1. PICK els : els = Parse
  OBVIOUS
<1>2. Made(els) /\ \A i \in 1..Len(Items) : Gives(els, i)
  BY <1>1, ParseMakes
<1> QED
  BY <1>1, <1>2, DenoiseMakes DEF Read

-----------------------------------------------------------------------------
(* The windows of one run of text.                                         *)

\* The total of numbers is a number, and nothing adds up to nothing.
LEMMA TotalIs ==
  ASSUME NEW numbers \in Seq(Nat)
  PROVE  TotalOf(numbers) \in Nat /\ (Len(numbers) = 0 => TotalOf(numbers) = 0)
<1>1. PICK N \in Nat : N = Len(numbers)
  OBVIOUS
<1>2. PICK f \in [0..N -> Nat] : TotalOf(numbers) = f[N] /\ f[0] = 0
  BY <1>1, TotalOfUnfolds
<1> QED
  BY <1>1, <1>2

\* The paragraphs of an element have the places of its lines, in their order.
LEMMA ParagraphsKeep ==
  ASSUME doc \in Seq(Elements), NEW e \in 1..Len(doc)
  PROVE  /\ Paragraphs(e) \in Seq(Line) /\ MarksOf(Paragraphs(e)) = MarksOf(doc[e].text)
         /\ InPlace(doc[e].text) => InPlace(Paragraphs(e))
         /\ Content(e) \in Line /\ Marks(Content(e)) = MarksOf(doc[e].text) /\ Len(Content(e)) \in Nat
<1>1. PICK text \in Seq(Line) : text = doc[e].text
  BY ElementsAre
<1>2. PICK ps : ps = Paragraphs(e)
  OBVIOUS
<1>3. ps \in Seq(Line) /\ MarksOf(ps) = MarksOf(text) /\ (InPlace(text) => InPlace(ps))
  <2>1. CASE doc[e].spaced \/ text = <<>>
    BY <1>1, <1>2, <2>1 DEF Paragraphs
  <2>2. CASE ~(doc[e].spaced \/ text = <<>>)
    <3>1. PICK p \in Line : p = InOneParagraph(text) /\ Marks(p) = MarksOf(text) /\ (InPlace(text) => Ascends(p))
      BY InOneParagraphKeeps
    <3>2. ps = <<p>>
      BY <1>1, <1>2, <2>2, <3>1 DEF Paragraphs
    <3>3. ps \in Seq(Line) /\ Len(ps) = 1 /\ ps[1] = p
      BY <3>2
    <3>4. 1..Len(ps) = {1}
      BY <3>3
    <3>5. MarksOf(ps) = Marks(p)
      BY <3>3, <3>4 DEF MarksOf
    <3>6. Ascends(p) => InPlace(ps)
      <4>1. ASSUME NEW n \in 1..Len(ps) PROVE 1..(n - 1) = {}
        BY <3>3
      <4> QED
        BY <3>3, <3>4, <4>1 DEF InPlace
    <3> QED
      BY <3>1, <3>3, <3>5, <3>6
  <2> QED
    BY <2>1, <2>2
<1>4. PICK c : c = InOneText(ps)
  OBVIOUS
<1>5. c \in Line /\ Marks(c) = MarksOf(ps)
  BY <1>3, <1>4, InOneTextKeeps
<1>6. Content(e) = c
  BY <1>2, <1>4 DEF Content
<1>7. Len(c) \in Nat
  BY <1>5 DEF Line
<1> QED
  BY <1>1, <1>2, <1>3, <1>5, <1>6, <1>7

\* A share of a length is a length.
LEMMA PercentIs ==
  ASSUME NEW n \in Nat
  PROVE  Percent(n) \in Nat
BY ChunkerAssumption DEF Percent

\* chunker.py: the estimate of how far the pieces reach is a number.
LEMMA ConsumedIs ==
  ASSUME NEW pieces \in Seq(Line), NEW i \in 1..Len(pieces)
  PROVE  ConsumedBefore(pieces, i) \in Nat
<1>0. i \in Nat
  OBVIOUS
<1> DEFINE size(n) == Most(1, Len(pieces[n]) - Percent(Len(pieces[n])))
<1>1. ASSUME NEW n \in 1..(i - 1) PROVE size(n) \in Nat
  <2>1. PICK l \in Nat : l = Len(pieces[n])
    <3>1. pieces[n] \in Line
      <4>1. n \in 1..Len(pieces)
        OBVIOUS
      <4> QED
        BY <4>1
    <3> QED
      BY <3>1 DEF Line
  <2>2. PICK p \in Nat : p = Percent(l)
    BY PercentIs
  <2>3. Most(1, l - p) \in Nat
    BY DEF Most
  <2> QED
    BY <2>1, <2>2, <2>3
<1> HIDE DEF size
<1>2. PICK s : s = [n \in 1..(i - 1) |-> size(n)]
  OBVIOUS
<1>3. s \in Seq(Nat)
  BY <1>0, <1>1, <1>2
<1>4. TotalOf(s) \in Nat
  BY <1>3, TotalIs
<1> QED
  BY <1>2, <1>4 DEF ConsumedBefore, size

\* chunker.py: so is where an element begins, and the first begins at 0.
LEMMA BeginsIs ==
  ASSUME doc \in Seq(Elements), NEW elements \in Seq(1..Len(doc)), NEW j \in 1..Len(elements)
  PROVE  BeginsAt(elements, j) \in Nat /\ (j = 1 => BeginsAt(elements, j) = 0)
<1>0. j \in Nat /\ j - 1 \in Nat
  OBVIOUS
<1> DEFINE size(n) == Len(Content(elements[n])) + 2
<1>1. ASSUME NEW n \in 1..(j - 1) PROVE size(n) \in Nat
  <2>1. n \in 1..Len(elements)
    OBVIOUS
  <2>2. elements[n] \in 1..Len(doc)
    BY <2>1
  <2>3. Len(Content(elements[n])) \in Nat
    BY <2>2, ParagraphsKeep
  <2> QED
    BY <2>3
<1> HIDE DEF size
<1>2. PICK s : s = [n \in 1..(j - 1) |-> size(n)]
  OBVIOUS
<1>3. s \in Seq(Nat) /\ Len(s) = j - 1
  BY <1>0, <1>1, <1>2
<1>4. TotalOf(s) \in Nat /\ (Len(s) = 0 => TotalOf(s) = 0)
  BY <1>3, TotalIs
<1>5. BeginsAt(elements, j) = TotalOf(s)
  BY <1>2 DEF BeginsAt, size
<1> QED
  BY <1>3, <1>4, <1>5

\* chunker.py: the page of a piece is that of one of the elements.
LEMMA PageForIs ==
  ASSUME doc \in Seq(Elements), NEW elements \in Seq(1..Len(doc)), elements # <<>>, NEW consumed \in Nat
  PROVE  \E j \in 1..Len(elements) : PageFor(elements, consumed) = elements[j]
<1>1. PICK N \in Nat : N = Len(elements)
  OBVIOUS
<1>2. 1 \in 1..N
  BY <1>1
<1>3. \A j \in 1..N : BeginsAt(elements, j) \in Nat /\ (j = 1 => BeginsAt(elements, j) = 0)
  BY <1>1, BeginsIs
<1> DEFINE T == {j \in 1..N : BeginsAt(elements, j) <= consumed}
<1>4. T \in SUBSET (0..N) /\ 1 \in T
  BY <1>2, <1>3
<1>5. PICK m \in T : \A n \in T : n <= m
  BY <1>1, <1>4, GreatestElement
<1>6. m \in 1..N /\ BeginsAt(elements, m) <= consumed
  OBVIOUS
<1>7. ASSUME NEW k \in (m + 1)..N PROVE BeginsAt(elements, k) > consumed
  <2>1. k \in 1..N /\ ~(k <= m)
    BY <1>6
  <2>2. k \notin T
    BY <1>5, <2>1
  <2>3. ~(BeginsAt(elements, k) <= consumed)
    BY <2>1, <2>2
  <2> QED
    BY <1>3, <2>1, <2>3
<1>8. PICK j : j = CHOOSE h \in 1..Len(elements) :
        /\ BeginsAt(elements, h) <= consumed
        /\ \A k \in (h + 1)..Len(elements) : BeginsAt(elements, k) > consumed
  OBVIOUS
<1>9. j \in 1..Len(elements)
  BY <1>1, <1>6, <1>7, <1>8
<1> QED
  BY <1>8, <1>9 DEF PageFor

\* A chunk made of a kind, an element, a text and a length.
LEMMA ChunkIs ==
  ASSUME doc \in Seq(Elements), NEW kind \in Kinds, NEW e \in 1..Len(doc), NEW text \in Line, NEW size \in Nat
  PROVE  /\ Chunk(kind, e, text, size) \in ChunkRecs
         /\ Chunk(kind, e, text, size) = [kind |-> kind, section |-> doc[e].section, page |-> doc[e].page, of |-> e,
               text |-> text, size |-> size, rows |-> <<0, 0>>, hint |-> 0]
<1>1. PICK section \in Titles, page \in Nat \ {0} : section = doc[e].section /\ page = doc[e].page
  <2>1. doc[e] \in Elements
    OBVIOUS
  <2>2. doc[e].section \in Titles /\ doc[e].page \in Nat \ {0}
    BY <2>1, ElementsAre
  <2> QED
    BY <2>2
<1>2. PICK rows \in Seq(Nat) : rows = <<0, 0>>
  <2>1. <<0, 0>> \in Seq(Nat)
    OBVIOUS
  <2> QED
    BY <2>1
<1>3. Chunk(kind, e, text, size) = [kind |-> kind, section |-> section, page |-> page, of |-> e,
               text |-> text, size |-> size, rows |-> rows, hint |-> 0]
  BY <1>1, <1>2 DEF Chunk
<1>4. Chunk(kind, e, text, size) \in ChunkRecs
  BY <1>3 DEF ChunkRecs
<1> QED
  BY <1>4 DEF Chunk

\* The elements with any text are elements of the run, in its order.
LEMMA WrittenAre ==
  ASSUME doc \in Seq(Elements), NEW elements \in Seq(1..Len(doc))
  PROVE  \E order : WrittenBy(order, elements)
<1>1. PICK is \in SUBSET (1..Len(elements)) : is = {j \in 1..Len(elements) : Content(elements[j]) # <<>>}
  OBVIOUS
<1>2. PICK w : w = At(elements, is)
  OBVIOUS
<1>3. PICK order : /\ Lists(order, is) /\ w = [n \in 1..Len(order) |-> elements[order[n]]]
                   /\ w \in Seq(1..Len(doc)) /\ Len(w) = Len(order) /\ Len(order) \in Nat
  BY <1>2, AtLists
<1>4. order \in Seq(is) /\ \A i \in is : \E n \in 1..Len(order) : order[n] = i
  BY <1>3 DEF Lists
<1>5. ASSUME NEW X, NEW Y, NEW s \in Seq(X), X \subseteq Y PROVE s \in Seq(Y)
  BY <1>5
<1>6. order \in Seq(1..Len(elements))
  BY <1>4, <1>5
<1>7. \A m, n \in 1..Len(order) : m < n => order[m] < order[n]
  BY <1>3 DEF Lists
<1>8. \A j \in 1..Len(elements) : Content(elements[j]) = <<>> \/ \E n \in 1..Len(order) : order[n] = j
  BY <1>1, <1>4
<1>9. \A n \in 1..Len(order) : w[n] = elements[order[n]]
  BY <1>3
<1>10. Written(elements) = w
  BY <1>1, <1>2 DEF Written
<1>11. /\ w \in Seq(1..Len(doc)) /\ Len(w) = Len(order) /\ Len(order) \in Nat
       /\ \A n \in 1..Len(order) : w[n] = elements[order[n]]
  BY <1>3, <1>9
<1> QED
  BY <1>6, <1>7, <1>8, <1>10, <1>11 DEF WrittenBy

\* Nothing to say of an element without text.
LEMMA NoMarks == Marks(<<>>) = {}
BY DEF Marks, ToSet

\* The paragraphs of a run have the places of its elements.
LEMMA RunParagraphsKeep ==
  ASSUME doc \in Seq(Elements), NEW elements \in Seq(1..Len(doc))
  PROVE  /\ RunParagraphs(elements) \in Seq(Line)
         /\ MarksOf(RunParagraphs(elements)) = RunMarks(elements)
         /\ Written(elements) = <<>> => RunParagraphs(elements) = <<>>
<1>0. PICK w : w = Written(elements)
  OBVIOUS
<1>a. PICK order : WrittenBy(order, elements)
  BY WrittenAre
<1>1. /\ order \in Seq(1..Len(elements)) /\ Len(order) \in Nat /\ w = Written(elements)
      /\ w \in Seq(1..Len(doc)) /\ Len(w) = Len(order)
      /\ \A n \in 1..Len(order) : w[n] = elements[order[n]]
  BY <1>0, <1>a DEF WrittenBy
<1>b. \A j \in 1..Len(elements) : Content(elements[j]) = <<>> \/ \E n \in 1..Len(order) : order[n] = j
  BY <1>a DEF WrittenBy
<1>2. PICK N \in Nat : N = Len(w)
  BY <1>1
<1>3. \A n \in 1..N : w[n] \in 1..Len(doc) /\ order[n] \in 1..Len(elements)
  BY <1>1, <1>2
<1>4. \A n \in 1..N : Paragraphs(w[n]) \in Seq(Line) /\ MarksOf(Paragraphs(w[n])) = MarksOf(doc[w[n]].text)
  BY <1>3, ParagraphsKeep
<1>5. PICK seqs : seqs = [n \in 1..N |-> Paragraphs(w[n])]
  OBVIOUS
<1>6. seqs \in Seq(Seq(Line)) /\ Len(seqs) = N /\ \A n \in 1..N : seqs[n] = Paragraphs(w[n])
  BY <1>4, <1>5
<1>7. FlattenSeq(seqs) \in Seq(Line) /\ MarksOf(FlattenSeq(seqs)) = UNION {MarksOf(seqs[n]) : n \in 1..N}
  BY <1>6, FlattenKeepsMembers, FlattenKeepsMarks
<1>8. RunParagraphs(elements) = FlattenSeq(seqs)
  BY <1>1, <1>2, <1>5 DEF RunParagraphs
<1>9. \A n \in 1..N : MarksOf(seqs[n]) = MarksOf(doc[elements[order[n]]].text)
  BY <1>1, <1>2, <1>4, <1>6
<1>10. ASSUME NEW x \in RunMarks(elements) PROVE x \in UNION {MarksOf(seqs[n]) : n \in 1..N}
  <2>1. PICK j \in 1..Len(elements) : x \in MarksOf(doc[elements[j]].text)
    BY DEF RunMarks
  <2>2. elements[j] \in 1..Len(doc)
    OBVIOUS
  <2>3. Marks(Content(elements[j])) = MarksOf(doc[elements[j]].text)
    BY <2>2, ParagraphsKeep
  <2>4. Content(elements[j]) # <<>>
    BY <2>1, <2>3, NoMarks
  <2>5. PICK n \in 1..N : order[n] = j
    <3>1. PICK n \in 1..Len(order) : order[n] = j
      BY <1>b, <2>4, Zenon
    <3>2. 1..Len(order) = 1..N
      BY <1>1, <1>2
    <3> QED
      BY <3>1, <3>2
  <2> QED
    BY <1>9, <2>1, <2>5
<1>11. ASSUME NEW n \in 1..N, NEW x \in MarksOf(seqs[n]) PROVE x \in RunMarks(elements)
  <2>1. PICK j \in 1..Len(elements) : j = order[n]
    BY <1>3
  <2>2. x \in MarksOf(doc[elements[j]].text)
    BY <1>9, <1>11, <2>1
  <2> QED
    BY <2>2 DEF RunMarks
<1>12. RunMarks(elements) = UNION {MarksOf(seqs[n]) : n \in 1..N}
  BY <1>10, <1>11
<1>13. ASSUME w = <<>> PROVE FlattenSeq(seqs) = <<>>
  <2>1. N = 0
    BY <1>2, <1>13
  <2>2. PICK flat \in Seq(Line) : flat = FlattenSeq(seqs) /\ SameMembers(flat, seqs)
    BY <1>6, FlattenKeepsMembers
  <2>3. \A p \in 1..Len(flat) : FALSE
    BY <1>6, <2>1, <2>2 DEF SameMembers
  <2>4. Len(flat) = 0
    BY <2>3
  <2> QED
    BY <2>2, <2>4
<1> QED
  BY <1>1, <1>7, <1>8, <1>12, <1>13

\* Of nothing no window is made.
LEMMA NothingPacked == PackParagraphs(<<>>) = <<>>
<1>1. PICK none \in Seq(Line) : none = <<>>
  <2>1. <<>> \in Seq(Line)
    OBVIOUS
  <2> QED
    BY <2>1
<1>2. PICK units \in Seq(Line) : units = Units(none)
  BY UnitsKeep
<1>3. Len(units) = 0
  <2>1. PICK seqs : seqs = [k \in 1..Len(none) |->
                      Windows(none[k], MaxChars, MaxChars - WindowOverlap, MaxChars)]
    OBVIOUS
  <2>2. Len(none) = 0
    BY <1>1
  <2>3. seqs \in Seq(Seq(Line)) /\ Len(seqs) = 0
    BY <2>1, <2>2
  <2>4. PICK flat \in Seq(Line) : flat = FlattenSeq(seqs) /\ SameMembers(flat, seqs)
    BY <2>3, FlattenKeepsMembers
  <2>5. \A p \in 1..Len(flat) : FALSE
    BY <2>3, <2>4 DEF SameMembers
  <2>6. units = flat
    BY <1>2, <2>1, <2>4 DEF Units
  <2> QED
    BY <2>5, <2>6
<1>4. PICK f : PackAll(units) = f[Len(units)] /\ f[0] = EmptyAcc
  BY PackAllUnfolds
<1>5. PackAll(units) = EmptyAcc
  BY <1>3, <1>4
<1>6. PackAll(Units(none)).buf = <<>> /\ PackAll(Units(none)).done = <<>>
  BY <1>2, <1>5, EmptyAccIs
<1>7. PackParagraphs(none) = <<>>
  BY <1>6 DEF PackParagraphs
<1> QED
  BY <1>1, <1>7

\* chunker.py: the windows of a run have all of its text and are no longer than the longest.
LEMMA RunPieces ==
  ASSUME doc \in Seq(Elements), NEW elements \in Seq(1..Len(doc))
  PROVE  /\ PackParagraphs(RunParagraphs(elements)) \in Seq(Line)
         /\ MarksOf(PackParagraphs(RunParagraphs(elements))) = RunMarks(elements)
         /\ Within(PackParagraphs(RunParagraphs(elements)), LargestWindow)
         /\ Written(elements) = <<>> => PackParagraphs(RunParagraphs(elements)) = <<>>
<1>1. PICK ps \in Seq(Line) : ps = RunParagraphs(elements)
  BY RunParagraphsKeep
<1>2. MarksOf(ps) = RunMarks(elements) /\ (Written(elements) = <<>> => ps = <<>>)
  BY <1>1, RunParagraphsKeep
<1>3. PackParagraphs(ps) \in Seq(Line) /\ MarksOf(PackParagraphs(ps)) = MarksOf(ps)
          /\ Within(PackParagraphs(ps), LargestWindow)
  BY PackParagraphsKeeps
<1> QED
  BY <1>1, <1>2, <1>3, NothingPacked

\* chunker.py: the page of a window is that of an element with text.
LEMMA WindowPage ==
  ASSUME doc \in Seq(Elements), NEW elements \in Seq(1..Len(doc)), Written(elements) # <<>>, NEW consumed \in Nat
  PROVE  \E j \in 1..Len(elements) : doc[PageFor(Written(elements), consumed)].page = doc[elements[j]].page
                                     /\ elements[j] \in 1..Len(doc)
<1>1. PICK order : WrittenBy(order, elements)
  BY WrittenAre
<1>2. PICK w \in Seq(1..Len(doc)) : w = Written(elements) /\ Len(w) = Len(order) /\ w # <<>>
  BY <1>1 DEF WrittenBy
<1>3. PICK n \in 1..Len(w) : PageFor(w, consumed) = w[n]
  BY <1>2, PageForIs
<1>4. order[n] \in 1..Len(elements) /\ w[n] = elements[order[n]]
  BY <1>1, <1>2 DEF WrittenBy
<1>5. PICK j \in 1..Len(elements) : j = order[n]
  BY <1>4
<1>6. elements[j] \in 1..Len(doc) /\ PageFor(Written(elements), consumed) = elements[j]
  BY <1>2, <1>3, <1>4, <1>5
<1> QED
  BY <1>6

\* chunker.py: the chunk of a window.
LEMMA RunChunkIs ==
  ASSUME doc \in Seq(Elements), NEW elements \in Seq(1..Len(doc)), elements # <<>>,
         NEW text \in Line, Marks(text) \subseteq RunMarks(elements), Len(text) <= LargestWindow,
         NEW j \in 1..Len(elements), NEW c, NEW page, page = doc[elements[j]].page,
         OnPageOf(c, elements[1], text, page)
  PROVE  Window(c, elements) /\ c.text = text
<1>1. elements[1] \in 1..Len(doc) /\ elements[j] \in 1..Len(doc)
  OBVIOUS
<1>2. page \in Nat \ {0} /\ Text \in Kinds /\ Len(text) \in Nat
  BY <1>1, ElementsAre DEF Kinds, Line
<1>3. PICK b : b = Chunk(Text, elements[1], text, Len(text))
  OBVIOUS
<1>4. PICK section : section = doc[elements[1]].section
  OBVIOUS
<1>5. PICK rows : rows = <<0, 0>>
  OBVIOUS
<1>6. b \in ChunkRecs /\ b = [kind |-> Text, section |-> section, page |-> doc[elements[1]].page, of |-> elements[1],
               text |-> text, size |-> Len(text), rows |-> rows, hint |-> 0]
  BY <1>1, <1>2, <1>3, <1>4, <1>5, ChunkIs
<1>7. c = [b EXCEPT !.page = page]
  BY <1>3 DEF OnPageOf
<1>8. c \in ChunkRecs
  BY <1>2, <1>6, <1>7 DEF ChunkRecs
<1>9. c.kind = Text /\ c.section = section /\ c.of = elements[1] /\ c.size = Len(text) /\ c.hint = 0 /\ c.rows = rows
      /\ c.text = text /\ c.page = page
  BY <1>6, <1>7
<1> QED
  BY <1>4, <1>5, <1>8, <1>9 DEF Window

\* chunker.py: a run gives a chunk for each of its windows, in their order.
LEMMA ChunkTextRunIs ==
  ASSUME doc \in Seq(Elements), NEW elements \in Seq(1..Len(doc)), elements # <<>>
  PROVE  WindowsOf(ChunkTextRun(elements), elements, PackParagraphs(RunParagraphs(elements)))
<1>1. PICK pieces \in Seq(Line) : pieces = PackParagraphs(RunParagraphs(elements))
  BY RunPieces
<1>2. MarksOf(pieces) = RunMarks(elements) /\ Within(pieces, LargestWindow) /\ (Written(elements) = <<>> => pieces = <<>>)
  BY <1>1, RunPieces
<1> DEFINE page(i) == doc[PageFor(Written(elements), ConsumedBefore(pieces, i))].page
<1> DEFINE chunk(i) == [Chunk(Text, elements[1], pieces[i], Len(pieces[i])) EXCEPT !.page = page(i)]
<1>3. ChunkTextRun(elements) = [i \in 1..Len(pieces) |-> chunk(i)]
  BY <1>1 DEF ChunkTextRun, RunParagraphs, Written
<1>4. ASSUME NEW i \in 1..Len(pieces) PROVE Window(chunk(i), elements) /\ chunk(i).text = pieces[i]
  <2>1. pieces[i] \in Line /\ Marks(pieces[i]) \subseteq RunMarks(elements) /\ Len(pieces[i]) <= LargestWindow
    BY <1>2 DEF MarksOf, Within
  <2>2. PICK text \in Line : text = pieces[i] /\ Marks(text) \subseteq RunMarks(elements) /\ Len(text) <= LargestWindow
    BY <2>1
  <2>3. Written(elements) # <<>>
    BY <1>2
  <2>4. ConsumedBefore(pieces, i) \in Nat
    BY ConsumedIs
  <2>5. PICK j \in 1..Len(elements) : page(i) = doc[elements[j]].page
    BY <2>3, <2>4, WindowPage
  <2>6. PICK p : p = page(i) /\ p = doc[elements[j]].page
    BY <2>5
  <2>7. PICK c : c = chunk(i)
    OBVIOUS
  <2>8. OnPageOf(c, elements[1], text, p)
    BY <2>2, <2>6, <2>7 DEF OnPageOf
  <2>9. Window(c, elements) /\ c.text = text
    BY <2>2, <2>6, <2>8, RunChunkIs
  <2> QED
    BY <2>2, <2>7, <2>9
<1> HIDE DEF chunk, page
<1>5. PICK made : made = [i \in 1..Len(pieces) |-> chunk(i)]
  OBVIOUS
<1>6. PICK N \in Nat : N = Len(pieces)
  BY <1>1
<1>7. \A i \in 1..N : made[i] = chunk(i) /\ made[i] \in ChunkRecs
  BY <1>4, <1>5, <1>6 DEF Window
<1>8. made \in Seq(ChunkRecs) /\ Len(made) = N
  BY <1>5, <1>6, <1>7
<1>9. \A i \in 1..Len(made) : Window(made[i], elements) /\ made[i].text = pieces[i]
  BY <1>4, <1>6, <1>7, <1>8
<1> QED
  BY <1>1, <1>3, <1>5, <1>6, <1>8, <1>9 DEF WindowsOf

-----------------------------------------------------------------------------
(* The ranges of the rows of a table, and what shows a table or a figure.  *)

\* One range more.
LEMMA TileGrows ==
  ASSUME NEW ranges, NEW n, Tile(ranges, n), NEW m \in Nat, n + 1 <= m
  PROVE  Tile(Append(ranges, <<n + 1, m>>), m)
<1>1. PICK R \in Nat : R = Len(ranges)
  BY DEF Tile
<1>2. n \in Nat /\ ranges \in Seq(Seq(Nat))
  BY DEF Tile
<1>3. PICK pair \in Seq(Nat) : pair = <<n + 1, m>>
  <2>1. <<n + 1, m>> \in Seq(Nat)
    BY <1>2
  <2> QED
    BY <2>1
<1>4. pair[1] = n + 1 /\ pair[2] = m
  BY <1>3
<1>5. PICK new : new = Append(ranges, pair)
  OBVIOUS
<1>6. new \in Seq(Seq(Nat)) /\ Len(new) = R + 1 /\ new[R + 1] = pair /\ \A k \in 1..R : new[k] = ranges[k]
  BY <1>1, <1>2, <1>5
<1>7. R > 0 => new[1][1] = 1
  BY <1>1, <1>6 DEF Tile
<1>8. R = 0 => new[1][1] = 1
  BY <1>1, <1>4, <1>6 DEF Tile
<1>9. \A k \in 1..R : /\ new[k][1] \in Nat /\ new[k][2] \in Nat /\ new[k][1] <= new[k][2] /\ new[k][1] > 0
                      /\ new[k][2] <= m
  <2>1. \A k \in 1..R : /\ ranges[k][1] \in Nat /\ ranges[k][2] \in Nat /\ ranges[k][1] <= ranges[k][2]
                         /\ ranges[k][1] > 0 /\ ranges[k][2] <= n
    BY <1>1 DEF Tile
  <2>2. ASSUME NEW k \in 1..R PROVE ranges[k][2] <= m
    <3>1. PICK v \in Nat : v = ranges[k][2] /\ v <= n
      BY <2>1
    <3>2. v <= m
      BY <1>2, <3>1
    <3> QED
      BY <3>1, <3>2
  <2> QED
    BY <1>6, <2>1, <2>2
<1>10. ASSUME NEW k \in 1..R, k > 1 PROVE new[k][1] = new[k - 1][2] + 1
  <2>1. ranges[k][1] = ranges[k - 1][2] + 1
    BY <1>1, <1>10 DEF Tile
  <2>2. new[k] = ranges[k] /\ new[k - 1] = ranges[k - 1]
    <3>1. k - 1 \in 1..R
      BY <1>1, <1>10
    <3> QED
      BY <1>6, <3>1
  <2> QED
    BY <2>1, <2>2
<1>11. R > 0 => new[R + 1][1] = new[R][2] + 1
  <2>1. R > 0 => ranges[R][2] = n /\ new[R] = ranges[R]
    BY <1>1, <1>6 DEF Tile
  <2> QED
    BY <1>4, <1>6, <2>1
<1>12. \A k \in 1..Len(new) : /\ new[k][1] \in Nat /\ new[k][2] \in Nat /\ new[k][1] <= new[k][2] /\ new[k][1] > 0
                              /\ new[k][2] <= m
                              /\ k > 1 => new[k][1] = new[k - 1][2] + 1
  <2> SUFFICES ASSUME NEW k \in 1..(R + 1)
               PROVE  /\ new[k][1] \in Nat /\ new[k][2] \in Nat /\ new[k][1] <= new[k][2] /\ new[k][1] > 0
                      /\ new[k][2] <= m
                      /\ k > 1 => new[k][1] = new[k - 1][2] + 1
    BY <1>6
  <2>1. CASE k \in 1..R
    BY <1>9, <1>10, <2>1
  <2>2. CASE k = R + 1
    <3>1. new[k][1] = n + 1 /\ new[k][2] = m /\ n \in Nat
      BY <1>2, <1>4, <1>6, <2>2
    <3>2. k > 1 => new[k][1] = new[k - 1][2] + 1
      <4>1. k - 1 = R /\ (k > 1 => R > 0)
        BY <2>2
      <4> QED
        BY <1>11, <2>2, <4>1
    <3> QED
      BY <3>1, <3>2
  <2> QED
    BY <2>1, <2>2
<1>13. new[Len(new)][2] = m
  BY <1>4, <1>6
<1>14. Len(new) \in Nat /\ Len(new) > 0
  BY <1>6
<1>15. new[1][1] = 1
  BY <1>7, <1>8
<1>16. Tile(new, m)
  BY <1>6, <1>12, <1>13, <1>14, <1>15 DEF Tile
<1> QED
  BY <1>3, <1>5, <1>16

\* chunker.py: a row joins the range or opens the next one.
LEMMA PackRowIs ==
  ASSUME doc \in Seq(Elements), NEW e \in 1..Len(doc), NEW acc \in RowAccs, NEW i \in 1..Len(doc[e].rows)
  PROVE  /\ PackRow(e, acc, i) \in RowAccs
         /\ Stays(PackRow(e, acc, i), acc) \/ Closes(PackRow(e, acc, i), acc, i)
<1>1. doc[e].rows \in Seq(Nat)
  BY ElementsAre
<1>2. PICK line \in Nat : line = doc[e].rows[i]
  BY <1>1
<1>3. PICK done \in Seq(Seq(Nat)), first \in Nat \ {0}, used \in Nat : acc = [done |-> done, first |-> first, used |-> used]
  <2>1. acc.done \in Seq(Seq(Nat)) /\ acc.first \in Nat \ {0} /\ acc.used \in Nat
        /\ acc = [done |-> acc.done, first |-> acc.first, used |-> acc.used]
    BY DEF RowAccs
  <2> QED
    BY <2>1
<1>4. i \in Nat \ {0} /\ i - 1 \in Nat
  BY <1>1
<1>5. CASE i > acc.first /\ SummaryChars + acc.used + line > MaxChars
  <2>1. PICK pair \in Seq(Nat) : pair = <<first, i - 1>>
    <3>1. <<first, i - 1>> \in Seq(Nat)
      BY <1>4
    <3> QED
      BY <3>1
  <2>a. ASSUME NEW S, NEW s \in Seq(S), NEW x \in S PROVE Append(s, x) \in Seq(S)
    OBVIOUS
  <2>b. Append(done, pair) \in Seq(Seq(Nat))
    BY <2>a
  <2>2. PICK d \in Seq(Seq(Nat)) : d = Append(done, pair)
    BY <2>b
  <2>3. PackRow(e, acc, i) = [done |-> d, first |-> i, used |-> line + 1]
    BY <1>2, <1>3, <1>5, <2>1, <2>2 DEF PackRow
  <2>4. PackRow(e, acc, i) \in RowAccs
    BY <1>4, <2>3 DEF RowAccs
  <2>5. i > first /\ acc.first = first /\ acc.done = done
    BY <1>3, <1>5
  <2> QED
    <3>1. PackRow(e, acc, i).done = Append(acc.done, <<acc.first, i - 1>>) /\ PackRow(e, acc, i).first = i
      BY <2>1, <2>2, <2>3, <2>5, <1>3
    <3> QED
      BY <2>4, <2>5, <3>1 DEF Closes
<1>6. CASE ~(i > acc.first /\ SummaryChars + acc.used + line > MaxChars)
  <2>1. PackRow(e, acc, i) = [done |-> done, first |-> first, used |-> used + line + 1]
    BY <1>2, <1>3, <1>6 DEF PackRow
  <2>2. PackRow(e, acc, i) \in RowAccs
    BY <2>1 DEF RowAccs
  <2> QED
    BY <1>3, <2>1, <2>2 DEF Stays
<1> QED
  BY <1>5, <1>6

\* RowRanges by its equation.
LEMMA RowRangesUnfolds ==
  ASSUME doc \in Seq(Elements), NEW e \in 1..Len(doc)
  PROVE  \E f \in [0..Len(doc[e].rows) -> RowAccs] :
           /\ RowRanges(e) = LastRange(f[Len(doc[e].rows)], Len(doc[e].rows))
           /\ f[0] = EmptyRows
           /\ \A n \in 1..Len(doc[e].rows) : f[n] = PackRow(e, f[n - 1], n)
<1>0. PICK N \in Nat : N = Len(doc[e].rows)
  BY ElementsAre
<1> DEFINE Values == RowAccs
           F == [n \in 1..N |-> [s \in Values |-> PackRow(e, s, n)]]
           Eq(g) == g = [n \in 0..N |-> IF n = 0 THEN EmptyRows ELSE PackRow(e, g[n - 1], n)]
<1>1. EmptyRows \in Values /\ \A n \in 1..N, s \in Values : PackRow(e, s, n) \in Values
  <2>1. EmptyRows \in RowAccs
    BY DEF EmptyRows, RowAccs
  <2> QED
    BY <1>0, <2>1, PackRowIs
<1> HIDE DEF Values
<1>2. Foldable(N, Values, EmptyRows, F)
  BY <1>1 DEF Foldable
<1>3. \A n \in 1..N, s \in Values : F[n][s] = PackRow(e, s, n)
  OBVIOUS
<1> HIDE DEF F
<1>4. Folded(N, Values, EmptyRows, F)
  BY <1>2, FoldExists
<1>5. PICK f \in [0..N -> Values] : f[0] = EmptyRows /\ \A n \in 1..N : f[n] = F[n][f[n - 1]]
  BY <1>4 DEF Folded
<1>6. \A n \in 1..N : f[n - 1] \in Values /\ f[n] = PackRow(e, f[n - 1], n)
  <2>1. \A n \in 1..N : f[n - 1] \in Values
    BY <1>5
  <2> QED
    BY <1>3, <1>5, <2>1
<1>7. Eq(f)
  <2> DEFINE h == [n \in 0..N |-> IF n = 0 THEN EmptyRows ELSE PackRow(e, f[n - 1], n)]
  <2>1. \A n \in 0..N : f[n] = h[n]
    BY <1>5, <1>6
  <2>2. DOMAIN f = 0..N /\ DOMAIN h = 0..N /\ f = [n \in DOMAIN f |-> f[n]] /\ h = [n \in DOMAIN h |-> h[n]]
    BY <1>5
  <2>3. f = h
    BY <2>1, <2>2
  <2> QED
    BY <2>3
<1>8. PICK g : g = CHOOSE t : Eq(t)
  OBVIOUS
<1>9. RowRanges(e) = LastRange(g[N], N)
  BY <1>0, <1>8 DEF RowRanges, Rows, LastRange, EmptyRows
<1>10. Eq(g)
  BY <1>7, <1>8
<1>11. g[0] = EmptyRows /\ \A n \in 1..N : g[n] = PackRow(e, g[n - 1], n)
  <2>1. g[0] = EmptyRows
    BY <1>10
  <2>2. ASSUME NEW n \in 1..N PROVE g[n] = PackRow(e, g[n - 1], n)
    <3>1. n \in 0..N /\ n # 0
      OBVIOUS
    <3> QED
      BY <1>10, <3>1
  <2> QED
    BY <2>1, <2>2
<1>12. DOMAIN g = 0..N /\ g = [n \in DOMAIN g |-> g[n]]
  BY <1>10
<1> HIDE DEF Eq
<1> DEFINE Typed == {n \in 0..N : g[n] \in Values}
<1>13. 0 \in Typed
  BY <1>1, <1>11
<1>14. \A n \in 0..(N - 1) : n \in Typed => n + 1 \in Typed
  <2> SUFFICES ASSUME NEW n \in 0..(N - 1), n \in Typed PROVE g[n + 1] \in Values
    OBVIOUS
  <2>1. n + 1 \in 1..N /\ (n + 1) - 1 = n /\ g[n] \in Values
    OBVIOUS
  <2> QED
    BY <1>1, <1>11, <2>1
<1> HIDE DEF Typed
<1>15. \A n \in 0..N : n \in Typed
  BY <1>13, <1>14, Climb
<1>16. g \in [0..N -> Values]
  BY <1>12, <1>15 DEF Typed
<1> QED
  BY <1>0, <1>9, <1>11, <1>16 DEF Values

\* chunker.py: the ranges of a table with rows follow on each other, from the first row to the last.
LEMMA RowRangesTile ==
  ASSUME doc \in Seq(Elements), NEW e \in 1..Len(doc), doc[e].rows # <<>>
  PROVE  Tile(RowRanges(e), Len(doc[e].rows)) /\ RowRanges(e) # <<>>
<1>1. PICK N \in Nat : N = Len(doc[e].rows)
  BY ElementsAre
<1>2. N > 0
  <2>1. doc[e].rows \in Seq(Nat)
    BY ElementsAre
  <2> QED
    BY <1>1, <2>1
<1>3. PICK f \in [0..N -> RowAccs] : /\ RowRanges(e) = LastRange(f[N], N) /\ f[0] = EmptyRows
                                     /\ \A n \in 1..N : f[n] = PackRow(e, f[n - 1], n)
  BY <1>1, RowRangesUnfolds
<1> DEFINE Good(n) == Tile(f[n].done, f[n].first - 1) /\ f[n].first <= (IF n = 0 THEN 1 ELSE n)
           T == {n \in 0..N : Good(n)}
<1>4. Good(0)
  BY <1>3 DEF EmptyRows, Tile
<1>5. ASSUME NEW n \in 0..(N - 1), Good(n) PROVE Good(n + 1)
  <2>1. f[n] \in RowAccs /\ n + 1 \in 1..N /\ (n + 1) - 1 = n
    BY <1>3
  <2>2. PICK acc \in RowAccs : acc = f[n]
    BY <2>1
  <2>3. PICK new : new = f[n + 1] /\ new = PackRow(e, acc, n + 1)
    BY <1>3, <2>1, <2>2
  <2>4. PICK first \in Nat \ {0} : first = acc.first
    BY DEF RowAccs
  <2>5. Stays(new, acc) \/ Closes(new, acc, n + 1)
    BY <1>1, <2>1, <2>3, PackRowIs
  <2>6. Tile(acc.done, first - 1) /\ first <= (IF n = 0 THEN 1 ELSE n)
    BY <1>5, <2>2, <2>4
  <2>7. CASE Stays(new, acc)
    BY <2>3, <2>4, <2>6, <2>7 DEF Stays
  <2>8. CASE Closes(new, acc, n + 1)
    <3>0. n + 1 > first /\ new.done = Append(acc.done, <<first, (n + 1) - 1>>) /\ new.first = n + 1
      BY <2>4, <2>8, Zenon DEF Closes
    <3>1. PICK m \in Nat : m = first - 1
      OBVIOUS
    <3>2. n \in Nat /\ m + 1 <= n /\ m + 1 = first /\ (n + 1) - 1 = n
      BY <3>0, <3>1
    <3>3. Tile(Append(acc.done, <<m + 1, n>>), n)
      BY <2>6, <3>1, <3>2, TileGrows
    <3>4. Tile(new.done, n) /\ new.first - 1 = n /\ new.first <= n + 1
      <4>1. new.done = Append(acc.done, <<m + 1, n>>)
        BY <3>0, <3>2
      <4>2. Tile(new.done, n)
        BY <3>3, <4>1
      <4>3. new.first - 1 = n /\ new.first <= n + 1
        BY <3>0, <3>2
      <4> QED
        BY <4>2, <4>3
    <3> QED
      BY <2>3, <3>2, <3>4
  <2> QED
    BY <2>5, <2>7, <2>8
<1> HIDE DEF Good
<1>6. 0 \in T /\ \A n \in 0..(N - 1) : n \in T => n + 1 \in T
  BY <1>4, <1>5
<1>7. \A n \in 0..N : n \in T
  BY <1>6, Climb
<1>8. Good(N)
  BY <1>7
<1>9. PICK done, first : done = f[N].done /\ first = f[N].first /\ first \in Nat \ {0}
  BY <1>3 DEF RowAccs
<1>10. Tile(done, first - 1) /\ first <= N
  BY <1>2, <1>8, <1>9 DEF Good
<1>11. PICK m \in Nat : m = first - 1
  BY <1>9
<1>12. Tile(Append(done, <<m + 1, N>>), N)
  BY <1>9, <1>10, <1>11, TileGrows
<1>13. RowRanges(e) = Append(done, <<m + 1, N>>)
  BY <1>3, <1>9, <1>11 DEF LastRange
<1>14. Tile(RowRanges(e), N)
  BY <1>12, <1>13
<1>15. RowRanges(e) # <<>>
  <2> SUFFICES ASSUME RowRanges(e) = <<>> PROVE FALSE
    OBVIOUS
  <2>1. Len(RowRanges(e)) = 0
    OBVIOUS
  <2> QED
    BY <1>2, <1>14, <2>1 DEF Tile
<1> QED
  BY <1>1, <1>14, <1>15

\* The length of rows is a number.
LEMMA RowsLengthIs ==
  ASSUME NEW rows \in Seq(Nat)
  PROVE  RowsLength(rows) \in Nat
<1>1. PICK N \in Nat : N = Len(rows)
  OBVIOUS
<1>2. PICK s : s = [n \in 1..N |-> rows[n] + 1]
  OBVIOUS
<1>3. \A n \in 1..N : rows[n] + 1 \in Nat
  BY <1>1
<1>4. s \in Seq(Nat)
  BY <1>2, <1>3
<1> QED
  BY <1>1, <1>2, <1>4, TotalIs DEF RowsLength

\* A whole table or figure.
LEMMA WholeShows ==
  ASSUME doc \in Seq(Elements), NEW e \in 1..Len(doc), NEW kind, kind = doc[e].kind, NEW size \in Nat, NEW hint \in Nat,
         NEW c, WholeOf(c, e, kind, size, hint)
  PROVE  Shows(c, e, hint) /\ c.rows = <<0, 0>> /\ c.rows[1] = 0
<1>1. kind \in Kinds /\ <<>> \in Line
  BY ElementsAre DEF Kinds, Line
<1>2. PICK b : b = Chunk(kind, e, <<>>, size)
  OBVIOUS
<1>3. PICK section, page : section = doc[e].section /\ page = doc[e].page
  OBVIOUS
<1>4. PICK rows : rows = <<0, 0>>
  OBVIOUS
<1>5. PICK text : text = <<>>
  OBVIOUS
<1>6. b \in ChunkRecs /\ b = [kind |-> kind, section |-> section, page |-> page, of |-> e,
               text |-> text, size |-> size, rows |-> rows, hint |-> 0]
  BY <1>1, <1>2, <1>3, <1>4, <1>5, ChunkIs
<1>7. c = [b EXCEPT !.hint = hint]
  BY <1>2 DEF WholeOf
<1>8. c \in ChunkRecs
  BY <1>6, <1>7 DEF ChunkRecs
<1>9. c.kind = kind /\ c.section = section /\ c.of = e /\ c.hint = hint /\ c.text = text /\ c.rows = rows
  BY <1>6, <1>7
<1>10. rows[1] = 0
  BY <1>4
<1> QED
  BY <1>3, <1>4, <1>5, <1>8, <1>9, <1>10 DEF Shows

\* The same table or figure, for some of its rows.
LEMMA PartShows ==
  ASSUME NEW whole, NEW e, NEW hint, Shows(whole, e, hint), NEW rows \in Seq(Nat), NEW size \in Nat,
         NEW c, PartOf(c, whole, rows, size)
  PROVE  Shows(c, e, hint) /\ c.rows = rows
<1>1. whole \in ChunkRecs
  BY DEF Shows
<1>2. c = [kind |-> whole.kind, section |-> whole.section, page |-> whole.page, of |-> whole.of,
               text |-> whole.text, size |-> size, rows |-> rows, hint |-> whole.hint]
  BY <1>1 DEF ChunkRecs, PartOf
<1>3. /\ whole.kind \in Kinds /\ whole.section \in Titles /\ whole.page \in Nat \ {0} /\ whole.of \in Nat \ {0}
      /\ whole.text \in Line /\ whole.hint \in Nat
  BY <1>1 DEF ChunkRecs
<1>4. c \in ChunkRecs
  BY <1>2, <1>3 DEF ChunkRecs
<1>5. c.kind = whole.kind /\ c.section = whole.section /\ c.of = whole.of /\ c.text = whole.text
          /\ c.hint = whole.hint /\ c.rows = rows
  BY <1>2
<1> QED
  BY <1>4, <1>5 DEF Shows

\* The length of a range of rows is a number.
LEMMA RowsSizeIs ==
  ASSUME doc \in Seq(Elements), NEW e \in 1..Len(doc), NEW ranges, Tile(ranges, Len(doc[e].rows)),
         NEW k \in 1..Len(ranges)
  PROVE  ranges[k] \in Seq(Nat) /\ RowsSize(e, ranges[k]) \in Nat
<1>1. PICK rows \in Seq(Nat) : rows = doc[e].rows
  BY ElementsAre
<1>2. PICK range : range = ranges[k]
  OBVIOUS
<1>3. range \in Seq(Nat) /\ range[1] \in Nat /\ range[2] \in Nat /\ range[1] > 0 /\ range[2] <= Len(rows)
  BY <1>1, <1>2 DEF Tile
<1>4. SubSeq(rows, range[1], range[2]) \in Seq(Nat)
  <2>1. PICK a \in Nat, b \in Nat : a = range[1] /\ b = range[2] /\ a > 0 /\ b <= Len(rows)
    BY <1>3
  <2>2. SubSeq(rows, a, b) \in Seq(Nat)
    <3>1. PICK M \in Nat : M = Len(rows)
      BY <1>1
    <3>2. \A n \in a..b : n \in 1..M
      BY <2>1, <3>1
    <3>3. \A n \in 1..M : rows[n] \in Nat
      BY <1>1, <3>1
    <3> QED
      BY <2>1, <3>2, <3>3, SubSeqProperties
  <2> QED
    BY <2>1, <2>2
<1>5. RowsLength(SubSeq(rows, range[1], range[2])) \in Nat
  BY <1>4, RowsLengthIs
<1>6. SummaryChars \in Nat
  BY ChunkerAssumption
<1> QED
  BY <1>1, <1>2, <1>3, <1>5, <1>6 DEF RowsSize

\* chunker.py: a table is one chunk, and its rows in ranges when it has many.
LEMMA ChunkTableShows ==
  ASSUME doc \in Seq(Elements), NEW e \in 1..Len(doc), doc[e].kind = Table, NEW hint \in Nat
  PROVE  ShownBy(ChunkTable(e, hint), e, hint)
<1> DEFINE whole == [Chunk(Table, e, <<>>, TableSize(e)) EXCEPT !.hint = hint]
           ranges == IF Rows(e) > RowThreshold THEN RowRanges(e) ELSE <<>>
           part(i) == [whole EXCEPT !.rows = ranges[i], !.size = RowsSize(e, ranges[i])]
           parts == [i \in 1..Len(ranges) |-> part(i)]
<1>1. ChunkTable(e, hint) = <<whole>> \o parts
  BY DEF ChunkTable
<1>2. PICK N \in Nat : N = Len(doc[e].rows)
  BY ElementsAre
<1>3. TableSize(e) \in Nat
  <2>1. RowsLength(doc[e].rows) \in Nat
    BY ElementsAre, RowsLengthIs
  <2> QED
    BY <2>1, ChunkerAssumption DEF TableSize
<1>4. Shows(whole, e, hint) /\ whole.rows[1] = 0
  <2>1. PICK size \in Nat : size = TableSize(e)
    BY <1>3
  <2>2. PICK w : w = whole
    OBVIOUS
  <2>3. WholeOf(w, e, Table, size, hint)
    BY <2>1, <2>2 DEF WholeOf
  <2> HIDE DEF whole
  <2>4. Shows(w, e, hint) /\ w.rows[1] = 0
    BY <2>3, WholeShows
  <2> QED
    BY <2>2, <2>4
<1>5. RowThreshold \in Nat
  BY ChunkerAssumption
<1>6. /\ N > RowThreshold => Tile(ranges, N) /\ ranges # <<>>
      /\ ~(N > RowThreshold) => ranges = <<>>
  <2>1. N > RowThreshold => doc[e].rows # <<>>
    BY <1>2, <1>5
  <2> QED
    BY <1>2, <2>1, RowRangesTile DEF Rows
<1>7. ASSUME NEW i \in 1..Len(ranges) PROVE Shows(part(i), e, hint) /\ part(i).rows = ranges[i]
  <2>1. Tile(ranges, N)
    <3>1. ranges # <<>>
      <4> HIDE DEF ranges
      <4> SUFFICES ASSUME ranges = <<>> PROVE FALSE
        OBVIOUS
      <4> QED
        BY <1>7
    <3> QED
      BY <1>6, <3>1
  <2>2. ranges[i] \in Seq(Nat) /\ RowsSize(e, ranges[i]) \in Nat
    <3> HIDE DEF ranges
    <3> QED
      BY <1>2, <2>1, RowsSizeIs
  <2>3. PICK r \in Seq(Nat), s \in Nat : r = ranges[i] /\ s = RowsSize(e, ranges[i])
    BY <2>2
  <2>4. PICK w : w = whole
    OBVIOUS
  <2>5. PICK c : c = part(i)
    OBVIOUS
  <2>6. PartOf(c, w, r, s)
    BY <2>3, <2>4, <2>5 DEF PartOf
  <2>7. Shows(c, e, hint) /\ c.rows = r
    BY <1>4, <2>4, <2>6, PartShows
  <2> QED
    BY <2>3, <2>5, <2>7
<1> HIDE DEF part, whole, ranges
<1>8. PICK R \in Nat : R = Len(ranges)
  <2>1. ranges = <<>> => Len(ranges) \in Nat
    OBVIOUS
  <2>2. Tile(ranges, N) => Len(ranges) \in Nat
    BY DEF Tile
  <2> QED
    BY <1>6, <2>1, <2>2
<1>9. PICK ps : ps = parts
  OBVIOUS
<1>10. ps \in Seq(ChunkRecs) /\ Len(ps) = R /\ \A i \in 1..R : ps[i] = part(i)
  BY <1>7, <1>8, <1>9 DEF Shows
<1>11. PICK head : head = <<whole>>
  OBVIOUS
<1>12. head \in Seq(ChunkRecs) /\ Len(head) = 1 /\ head[1] = whole
  BY <1>4, <1>11 DEF Shows
<1>13. PICK made : made = head \o ps
  OBVIOUS
<1>14. made \in Seq(ChunkRecs) /\ Behind(made, head, ps)
  BY <1>10, <1>12, <1>13, Concatenates
<1>15. Len(made) = 1 + R /\ made[1] = whole
  <2>1. 1 \in 1..(Len(head) + Len(ps)) /\ 1 <= Len(head)
    BY <1>10, <1>12
  <2> QED
    BY <1>10, <1>12, <1>14, <2>1 DEF Behind
<1>16. ASSUME NEW k \in 1..R PROVE made[k + 1] = part(k)
  <2>1. k + 1 \in 1..(Len(head) + Len(ps)) /\ ~(k + 1 <= Len(head)) /\ (k + 1) - Len(head) = k
    BY <1>10, <1>12
  <2> QED
    BY <1>10, <1>14, <2>1 DEF Behind
<1>17. ASSUME NEW n \in 1..Len(made) PROVE Shows(made[n], e, hint)
  <2>1. CASE n = 1
    BY <1>4, <1>15, <2>1
  <2>2. CASE n # 1
    <3>1. PICK k \in 1..R : k = n - 1 /\ n = k + 1
      BY <1>15, <2>2
    <3> QED
      BY <1>7, <1>8, <1>16, <3>1
  <2> QED
    BY <2>1, <2>2
<1>18. N > RowThreshold => Tile(ranges, N) /\ ranges # <<>> /\ Len(made) = Len(ranges) + 1
                           /\ \A k \in 1..Len(ranges) : made[k + 1].rows = ranges[k]
  <2>1. \A k \in 1..R : made[k + 1].rows = ranges[k]
    BY <1>7, <1>8, <1>16
  <2> QED
    BY <1>6, <1>8, <1>15, <2>1
<1>19. ShownBy(made, e, hint)
  BY <1>2, <1>4, <1>14, <1>15, <1>17, <1>18 DEF ShownBy
<1> QED
  BY <1>1, <1>9, <1>11, <1>13, <1>19

\* One chunk of a table or figure.
LEMMA OneShown ==
  ASSUME doc \in Seq(Elements), NEW e \in 1..Len(doc), NEW size \in Nat, NEW hint \in Nat,
         ~Docling \/ doc[e].kind # Table,
         NEW c, c = [Chunk(doc[e].kind, e, <<>>, size) EXCEPT !.hint = hint]
  PROVE  ShownBy(<<c>>, e, hint)
<1>1. PICK kind : kind = doc[e].kind
  OBVIOUS
<1>w. WholeOf(c, e, kind, size, hint)
  BY <1>1 DEF WholeOf
<1>2. Shows(c, e, hint) /\ c.rows[1] = 0
  BY <1>1, <1>w, WholeShows
<1>3. PICK made : made = <<c>>
  OBVIOUS
<1>4. made \in Seq(ChunkRecs) /\ Len(made) = 1 /\ made[1] = c
  BY <1>2, <1>3 DEF Shows
<1>5. \A n \in 1..Len(made) : Shows(made[n], e, hint)
  <2>1. \A n \in 1..Len(made) : n = 1
    BY <1>4
  <2> QED
    BY <1>2, <1>4, <2>1
<1>6. ShownBy(made, e, hint)
  BY <1>2, <1>4, <1>5 DEF ShownBy
<1> QED
  BY <1>3, <1>6

\* chunker.py: a figure is one chunk, named by a line or not.
LEMMA ChunkFigureShows ==
  ASSUME doc \in Seq(Elements), NEW e \in 1..Len(doc), doc[e].kind = Figure,
         NEW hint \in 0..Len(doc), hint # 0 => doc[hint].text # <<>>
  PROVE  ShownBy(ChunkFigure(e, hint), e, hint)
<1> DEFINE line == IF hint = 0 THEN 0 ELSE Len(doc[hint].text[1]) + 2
<1>1. line \in Nat
  <2>1. CASE hint = 0
    BY <2>1
  <2>2. CASE hint # 0
    <3>1. PICK text \in Seq(Line) : text = doc[hint].text /\ text # <<>>
      <4>1. hint \in 1..Len(doc)
        BY <2>2
      <4> QED
        BY <2>2, <4>1, ElementsAre
    <3>2. text[1] \in Line
      BY <3>1
    <3>3. Len(text[1]) \in Nat
      BY <3>2 DEF Line
    <3> QED
      BY <2>2, <3>1, <3>3
  <2> QED
    BY <2>1, <2>2
<1>2. Len(Content(e)) \in Nat
  BY ParagraphsKeep
<1> DEFINE size == line + Len(Content(e))
<1>3. size \in Nat
  BY <1>1, <1>2
<1>4. ChunkFigure(e, hint) = <<[Chunk(Figure, e, <<>>, size) EXCEPT !.hint = hint]>>
  BY DEF ChunkFigure
<1> HIDE DEF size
<1>5. hint \in Nat /\ doc[e].kind # Table
  BY DEF Figure, Table
<1>6. PICK c : c = [Chunk(doc[e].kind, e, <<>>, size) EXCEPT !.hint = hint]
  OBVIOUS
<1>7. ShownBy(<<c>>, e, hint)
  BY <1>3, <1>5, <1>6, OneShown
<1> QED
  BY <1>4, <1>6, <1>7

\* A run of one element.
LEMMA RunOfOne ==
  ASSUME doc \in Seq(Elements), NEW e \in 1..Len(doc)
  PROVE  <<e>> \in Seq(1..Len(doc)) /\ Len(<<e>>) = 1 /\ <<e>> # <<>> /\ RunMarks(<<e>>) = MarksOf(doc[e].text)
<1>1. PICK els : els = <<e>>
  OBVIOUS
<1>2. els \in Seq(1..Len(doc)) /\ Len(els) = 1 /\ els[1] = e /\ els # <<>>
  BY <1>1
<1>3. 1..Len(els) = {1}
  BY <1>2
<1>4. RunMarks(els) = MarksOf(doc[e].text)
  BY <1>2, <1>3 DEF RunMarks
<1> QED
  BY <1>1, <1>2, <1>4

\* The text of an element by itself.
LEMMA PlainWindow ==
  ASSUME doc \in Seq(Elements), NEW e \in 1..Len(doc), NEW text \in Line,
         Marks(text) \subseteq MarksOf(doc[e].text), Len(text) <= LargestWindow
  PROVE  Window(Chunk(Text, e, text, Len(text)), <<e>>) /\ Chunk(Text, e, text, Len(text)).text = text
<1>1. PICK els : els = <<e>>
  OBVIOUS
<1>2. els \in Seq(1..Len(doc)) /\ Len(els) = 1 /\ els[1] = e /\ RunMarks(els) = MarksOf(doc[e].text)
  BY <1>1, RunOfOne
<1>3. PICK section, page : section = doc[e].section /\ page = doc[e].page
  OBVIOUS
<1>4. PICK rows : rows = <<0, 0>>
  OBVIOUS
<1>5. PICK size \in Nat : size = Len(text)
  BY DEF Line
<1>6. PICK b : b = Chunk(Text, e, text, size)
  OBVIOUS
<1>7. b \in ChunkRecs /\ b = [kind |-> Text, section |-> section, page |-> page, of |-> e,
               text |-> text, size |-> size, rows |-> rows, hint |-> 0]
  <2>1. Text \in Kinds
    BY DEF Kinds
  <2> QED
    BY <2>1, <1>3, <1>4, <1>6, ChunkIs
<1>8. b.kind = Text /\ b.section = section /\ b.of = e /\ b.hint = 0 /\ b.text = text /\ b.rows = rows
          /\ b.size = size /\ b.page = page
  BY <1>7
<1>9. 1 \in 1..Len(els) /\ b.page = doc[els[1]].page
  BY <1>2, <1>3, <1>8
<1>10. Window(b, els)
  BY <1>2, <1>3, <1>4, <1>5, <1>7, <1>8, <1>9 DEF Window
<1> QED
  BY <1>1, <1>5, <1>6, <1>8, <1>10

\* chunking.py: a text gives windows of it, a table or a figure one chunk.
LEMMA BuildChunksIs ==
  ASSUME doc \in Seq(Elements), NEW e \in 1..Len(doc), ~Docling
  PROVE  /\ doc[e].kind = Text => /\ WindowsOf(BuildChunks(e), <<e>>, SplitText(e)) /\ SplitText(e) \in Seq(Line)
                                  /\ MarksOf(SplitText(e)) = MarksOf(doc[e].text)
         /\ doc[e].kind # Text => ShownBy(BuildChunks(e), e, 0)
<1>1. CASE doc[e].kind = Text
  <2>1. Paragraphs(e) \in Seq(Line) /\ MarksOf(Paragraphs(e)) = MarksOf(doc[e].text)
    BY ParagraphsKeep
  <2>2. PICK pieces \in Seq(Line) : /\ pieces = SplitText(e) /\ MarksOf(pieces) = MarksOf(doc[e].text)
                                    /\ Within(pieces, LargestWindow)
    BY <2>1, SplitTextKeeps
  <2> DEFINE chunk(i) == Chunk(Text, e, pieces[i], Len(pieces[i]))
  <2>3. BuildChunks(e) = [i \in 1..Len(pieces) |-> chunk(i)]
    BY <1>1, <2>2 DEF BuildChunks, Text, Table
  <2>4. ASSUME NEW i \in 1..Len(pieces) PROVE Window(chunk(i), <<e>>) /\ chunk(i).text = pieces[i]
    <3>1. pieces[i] \in Line /\ Marks(pieces[i]) \subseteq MarksOf(doc[e].text) /\ Len(pieces[i]) <= LargestWindow
      <4>1. pieces[i] \in Line
        BY <2>2
      <4>2. Marks(pieces[i]) \subseteq MarksOf(pieces)
        BY DEF MarksOf
      <4>3. Len(pieces[i]) <= LargestWindow
        BY <2>2 DEF Within
      <4> QED
        BY <2>2, <4>1, <4>2, <4>3
    <3> QED
      BY <3>1, PlainWindow
  <2> HIDE DEF chunk
  <2>5. PICK made : made = [i \in 1..Len(pieces) |-> chunk(i)]
    OBVIOUS
  <2>6. PICK N \in Nat : N = Len(pieces)
    BY <2>2
  <2>7. \A i \in 1..N : made[i] = chunk(i) /\ made[i] \in ChunkRecs
    BY <2>4, <2>5, <2>6 DEF Window
  <2>8. made \in Seq(ChunkRecs) /\ Len(made) = N
    BY <2>5, <2>6, <2>7
  <2>9. \A i \in 1..Len(made) : Window(made[i], <<e>>) /\ made[i].text = pieces[i]
    BY <2>4, <2>6, <2>7, <2>8
  <2>10. WindowsOf(made, <<e>>, pieces)
    BY <2>6, <2>8, <2>9 DEF WindowsOf
  <2> QED
    BY <1>1, <2>2, <2>3, <2>5, <2>10
<1>2. CASE doc[e].kind = Table
  <2>1. PICK size \in Nat : size = RowsLength(doc[e].rows)
    BY ElementsAre, RowsLengthIs
  <2>2. BuildChunks(e) = <<Chunk(Table, e, <<>>, size)>>
    BY <1>2, <2>1 DEF BuildChunks, Text, Table
  <2>3. PICK b : b = Chunk(Table, e, <<>>, size)
    OBVIOUS
  <2>4. b = [Chunk(doc[e].kind, e, <<>>, size) EXCEPT !.hint = 0]
    <3>1. PICK section, page, none, rows :
            b = [kind |-> Table, section |-> section, page |-> page, of |-> e, text |-> none,
                 size |-> size, rows |-> rows, hint |-> 0]
      BY <2>3 DEF Chunk
    <3>2. b = [b EXCEPT !.hint = 0]
      BY <3>1
    <3> QED
      BY <1>2, <2>3, <3>2
  <2>5. ShownBy(<<b>>, e, 0)
    BY <2>4, OneShown
  <2> QED
    BY <1>2, <2>2, <2>3, <2>5 DEF Text, Table
<1>3. CASE doc[e].kind = Figure
  <2>1. BuildChunks(e) = ChunkFigure(e, 0)
    BY <1>3 DEF BuildChunks, Text, Table, Figure
  <2>2. ShownBy(ChunkFigure(e, 0), e, 0)
    BY <1>3, ChunkFigureShows
  <2> QED
    BY <1>3, <2>1, <2>2 DEF Text, Figure
<1> QED
  BY <1>1, <1>2, <1>3, ElementsAre

-----------------------------------------------------------------------------
(* The Docling path: an element is one item, in the order of the items.    *)

\* docling_parser.py: what becomes an element is a text, a table or a figure.
LEMMA UsableKinds ==
  ASSUME IsFile(source), NEW i \in 1..Len(Items), Usable(i)
  PROVE  Items[i].kind \in {Text, Table, Figure}
BY DEF Usable

\* docling_parser.py: the element of one item.
LEMMA ItemMakes ==
  ASSUME IsFile(source), NEW i \in 1..Len(Items), Usable(i), NEW el,
         el = IF Items[i].kind = Text THEN Element(Text, TitleAbove(i), i, Lines(i), TRUE) ELSE Visual(i, TitleAbove(i))
  PROVE  OfItem(el) /\ el.item = i
<1>1. PICK section \in Titles : section = TitleAbove(i)
  BY TitleAboveIs
<1>2. Lines(i) \in Seq(Line)
  BY LinesAre
<1>3. CASE Items[i].kind = Text
  <2>1. PICK kind \in {Text, Table, Figure}, spaced \in BOOLEAN, text \in Seq(Line) :
             kind = Text /\ spaced = TRUE /\ text = Lines(i)
    BY <1>2
  <2>2. el = Element(kind, section, i, text, spaced)
    BY <1>1, <1>3, <2>1
  <2>3. el.kind = Text /\ el.section = section /\ el.page = Items[i].page /\ el.text = text /\ el.item = i
    <3>1. PICK v : v = Element(kind, section, i, text, spaced)
      OBVIOUS
    <3>2. v.kind = kind /\ v.section = section /\ v.page = Items[i].page /\ v.text = text /\ v.item = i
      BY <3>1, ElementIs
    <3> QED
      BY <2>1, <2>2, <3>1, <3>2
  <2> QED
    BY <1>1, <1>3, <2>1, <2>3 DEF OfItem, Text, Table
<1>4. CASE Items[i].kind # Text
  <2>1. Items[i].kind \in {Table, Figure}
    BY <1>4, UsableKinds
  <2>2. el = Visual(i, section)
    BY <1>1, <1>4
  <2>3. /\ el.kind = Items[i].kind /\ el.kind # Text /\ el.section = section /\ el.item = i
        /\ Items[i].kind = Table => el.rows = Items[i].lengths
    <3>1. PICK v : v = Visual(i, section)
      OBVIOUS
    <3>2. /\ v.kind = Items[i].kind /\ v.kind # Text /\ v.section = section /\ v.item = i
          /\ Items[i].kind = Table => v.rows = Items[i].lengths
      BY <2>1, <3>1, VisualIs
    <3> QED
      BY <2>2, <3>1, <3>2
  <2>4. el.page = Items[i].page
    BY <2>2 DEF Visual, Element
  <2> QED
    BY <1>1, <2>3, <2>4 DEF OfItem
<1> QED
  BY <1>3, <1>4

\* docling_parser.py: an element for each item that has something to say.
LEMMA ParsedDocling ==
  ASSUME IsFile(source)
  PROVE  DoclingDoc(ParseDocling)
<1>1. PICK is \in SUBSET (1..Len(Items)) : is = {i \in 1..Len(Items) : Usable(i)}
  OBVIOUS
<1>2. PICK kept \in Seq(1..Len(Items)) : kept = InOrder(is) /\ Lists(kept, is)
  BY ItemsInOrder
<1>3. PICK N \in Nat : N = Len(kept)
  OBVIOUS
<1> DEFINE el(i) == IF Items[i].kind = Text THEN Element(Text, TitleAbove(i), i, Lines(i), TRUE)
               ELSE Visual(i, TitleAbove(i))
<1>4. ParseDocling = [n \in 1..Len(kept) |-> el(kept[n])]
  BY <1>1, <1>2 DEF ParseDocling
<1>5. \A n \in 1..N : kept[n] \in is /\ kept[n] \in 1..Len(Items) /\ Usable(kept[n])
  <2>1. kept \in Seq(is)
    BY <1>2 DEF Lists
  <2> QED
    BY <1>1, <1>3, <2>1
<1>6. \A n \in 1..N : OfItem(el(kept[n])) /\ el(kept[n]).item = kept[n]
  BY <1>5, ItemMakes
<1> HIDE DEF el
<1>7. PICK els : els = ParseDocling
  OBVIOUS
<1>8. Len(els) = N /\ \A n \in 1..N : els[n] = el(kept[n])
  BY <1>3, <1>4, <1>7
<1>9. \A n \in 1..Len(els) : OfItem(els[n]) /\ els[n].item = kept[n]
  BY <1>6, <1>8
<1>10. \A m, n \in 1..Len(els) : m < n => els[m].item < els[n].item
  BY <1>2, <1>3, <1>8, <1>9 DEF Lists
<1>11. \A i \in 1..Len(Items) : Usable(i) => \E n \in 1..Len(els) : els[n].item = i
  <2> SUFFICES ASSUME NEW i \in is PROVE \E n \in 1..Len(els) : els[n].item = i
    BY <1>1
  <2>1. PICK n \in 1..Len(kept) : kept[n] = i
    BY <1>2 DEF Lists
  <2> QED
    BY <1>3, <1>8, <1>9, <2>1
<1> QED
  BY <1>7, <1>9, <1>10, <1>11 DEF DoclingDoc

\* What is left of a text are lines of it.
LEMMA CleanedLines ==
  ASSUME NEW old \in Seq(Line), NEW new, Cleaned(new, old)
  PROVE  Among(new, old)
BY CleanedKeeps DEF Among

\* Removing lines leaves the element that of its item.
LEMMA DenoisedItem ==
  ASSUME IsFile(source), NEW el \in Elements, NEW w \in Elements, Denoised(w, el), OfItem(el)
  PROVE  OfItem(w) /\ w.item = el.item
<1>1. /\ w.kind = el.kind /\ w.section = el.section /\ w.page = el.page
      /\ w.rows = el.rows /\ w.item = el.item
  BY DenoisedFields
<1>2. PICK old \in Seq(Line) : old = el.text
  BY ElementsAre
<1>3. PICK t : t = w.text /\ Cleaned(t, old)
  BY <1>2 DEF Denoised
<1>4. \A n \in 1..Len(t) : \E k \in 1..Len(old) : t[n] = old[k]
  <2>1. Among(t, old)
    BY <1>2, <1>3, CleanedLines
  <2> QED
    BY <2>1 DEF Among
<1>5. w.kind = Text => \A n \in 1..Len(w.text) : \E k \in 1..Len(Lines(w.item)) : w.text[n] = Lines(w.item)[k]
  <2> SUFFICES ASSUME w.kind = Text, NEW n \in 1..Len(t) PROVE \E k \in 1..Len(Lines(w.item)) : t[n] = Lines(w.item)[k]
    BY <1>3
  <2>1. PICK h \in 1..Len(old) : t[n] = old[h]
    BY <1>4
  <2>2. PICK k \in 1..Len(Lines(el.item)) : old[h] = Lines(el.item)[k]
    BY <1>1, <1>2 DEF OfItem
  <2> QED
    BY <1>1, <2>1, <2>2
<1> QED
  BY <1>1, <1>5 DEF OfItem

\* Removing repeated lines leaves each element that of its item.
LEMMA DenoisedDocling ==
  ASSUME IsFile(source), NEW els \in Seq(Elements), DoclingDoc(els)
  PROVE  DoclingDoc(Denoise(els))
<1>1. PICK new \in Seq(Elements) : new = Denoise(els) /\ Len(new) = Len(els)
               /\ \A e \in 1..Len(els) : Denoised(new[e], els[e])
  BY DenoiseKeeps
<1>2. ASSUME NEW e \in 1..Len(new) PROVE OfItem(new[e]) /\ new[e].item = els[e].item
  <2>1. PICK el \in Elements : el = els[e]
    BY <1>1
  <2>2. PICK w \in Elements : w = new[e]
    OBVIOUS
  <2>3. Denoised(w, el) /\ OfItem(el)
    BY <1>1, <2>1, <2>2 DEF DoclingDoc
  <2> QED
    BY <2>1, <2>2, <2>3, DenoisedItem
<1>3. \A e, f \in 1..Len(new) : e < f => new[e].item < new[f].item
  BY <1>1, <1>2 DEF DoclingDoc
<1>4. \A i \in 1..Len(Items) : Usable(i) => \E e \in 1..Len(new) : new[e].item = i
  BY <1>1, <1>2 DEF DoclingDoc
<1> QED
  BY <1>1, <1>2, <1>3, <1>4 DEF DoclingDoc

\* docling_parser.py: what the chunker is given, when Docling reads the file.
LEMMA DoclingIsRead ==
  ASSUME IsFile(source), Docling
  PROVE  DoclingDoc(Denoise(Parse))
<1>1. PICK els \in Seq(Elements) : els = ParseDocling
  BY DoclingMakes DEF Made
<1>2. Parse = els
  BY <1>1 DEF Parse
<1>3. DoclingDoc(els)
  BY <1>1, ParsedDocling
<1> QED
  BY <1>2, <1>3, DenoisedDocling

-----------------------------------------------------------------------------
(* The loops: what is emitted, and what is still held.                     *)

\* Chunks behind chunks, and the places of both.
LEMMA ChunksAfter ==
  ASSUME NEW cs \in Seq(ChunkRecs), NEW new \in Seq(ChunkRecs)
  PROVE  After(cs \o new, cs, new) /\ MarksIn(cs \o new) = MarksIn(cs) \cup MarksIn(new)
<1>1. PICK A \in Nat, B \in Nat : A = Len(cs) /\ B = Len(new)
  OBVIOUS
<1>2. PICK w : w = cs \o new
  OBVIOUS
<1>3. w \in Seq(ChunkRecs) /\ Behind(w, cs, new)
  BY <1>2, Concatenates
<1>4. Len(w) = A + B
  BY <1>1, <1>3 DEF Behind
<1>5. \A n \in 1..A : w[n] = cs[n] /\ n \in 1..(A + B)
  <2> SUFFICES ASSUME NEW n \in 1..A PROVE w[n] = cs[n] /\ n \in 1..(A + B)
    OBVIOUS
  <2>1. n \in 1..(A + B) /\ n <= A
    OBVIOUS
  <2> QED
    BY <1>1, <1>3, <2>1 DEF Behind
<1>6. \A k \in 1..B : w[A + k] = new[k] /\ A + k \in 1..(A + B)
  <2> SUFFICES ASSUME NEW k \in 1..B PROVE w[A + k] = new[k] /\ A + k \in 1..(A + B)
    OBVIOUS
  <2>1. A + k \in 1..(A + B) /\ ~(A + k <= A) /\ (A + k) - A = k
    OBVIOUS
  <2> QED
    BY <1>1, <1>3, <2>1 DEF Behind
<1>7. \A n \in 1..(A + B) : n \in 1..A \/ \E k \in 1..B : n = A + k
  <2> SUFFICES ASSUME NEW n \in 1..(A + B), ~(n \in 1..A) PROVE \E k \in 1..B : n = A + k
    OBVIOUS
  <2>1. n - A \in 1..B /\ n = A + (n - A)
    OBVIOUS
  <2> QED
    BY <2>1
<1>8. After(w, cs, new)
  BY <1>1, <1>3, <1>4, <1>5, <1>6, <1>7 DEF After
<1>9. MarksIn(w) = MarksIn(cs) \cup MarksIn(new)
  <2>1. ASSUME NEW p \in MarksIn(w) PROVE p \in MarksIn(cs) \cup MarksIn(new)
    <3>1. PICK n \in 1..(A + B) : p \in Marks(w[n].text)
      BY <1>4, <2>1 DEF MarksIn
    <3>2. CASE n \in 1..A
      BY <1>1, <1>5, <3>1, <3>2 DEF MarksIn
    <3>3. CASE ~(n \in 1..A)
      <4>1. PICK k \in 1..B : n = A + k
        BY <1>7, <3>3
      <4> QED
        BY <1>1, <1>6, <3>1, <4>1 DEF MarksIn
    <3> QED
      BY <3>2, <3>3
  <2>2. ASSUME NEW p \in MarksIn(cs) PROVE p \in MarksIn(w)
    <3>1. PICK n \in 1..A : p \in Marks(cs[n].text)
      BY <1>1, <2>2 DEF MarksIn
    <3>2. n \in 1..Len(w) /\ p \in Marks(w[n].text)
      BY <1>4, <1>5, <3>1
    <3> QED
      BY <3>2 DEF MarksIn
  <2>3. ASSUME NEW p \in MarksIn(new) PROVE p \in MarksIn(w)
    <3>1. PICK k \in 1..B : p \in Marks(new[k].text)
      BY <1>1, <2>3 DEF MarksIn
    <3>2. PICK n \in 1..Len(w) : n = A + k /\ w[n] = new[k]
      BY <1>4, <1>6
    <3>3. p \in Marks(w[n].text)
      BY <3>1, <3>2
    <3> QED
      BY <3>3 DEF MarksIn
  <2> QED
    BY <2>1, <2>2, <2>3
<1> QED
  BY <1>2, <1>8, <1>9

\* New chunks that show no rows of an earlier table leave that table as it is.
LEMMA RangesStay ==
  ASSUME NEW cs, NEW new, NEW w, After(w, cs, new), NEW e, RangesIn(cs, e),
         \A k \in 1..Len(new) : new[k].rows[1] > 0 => new[k].of # e
  PROVE  RangesIn(w, e)
<1>1. PICK A \in Nat, B \in Nat : A = Len(cs) /\ B = Len(new) /\ Len(w) = A + B
  BY DEF After
<1>2. \A n \in 1..A : w[n] = cs[n]
  BY <1>1 DEF After
<1>3. PICK a \in 1..A, b \in 1..A :
      /\ a <= b /\ cs[a].rows[1] = 1 /\ cs[b].rows[2] = Len(doc[e].rows)
      /\ \A n \in 1..A : cs[n].of = e /\ cs[n].rows[1] > 0 <=> n \in a..b
      /\ \A n \in a..b : (n > a => cs[n].rows[1] = cs[n - 1].rows[2] + 1) /\ cs[n].rows[1] <= cs[n].rows[2]
  BY <1>1 DEF RangesIn
<1>4. w[a].rows[1] = 1 /\ w[b].rows[2] = Len(doc[e].rows) /\ a \in 1..Len(w) /\ b \in 1..Len(w)
  BY <1>1, <1>2, <1>3
<1>5. ASSUME NEW n \in 1..Len(w) PROVE w[n].of = e /\ w[n].rows[1] > 0 <=> n \in a..b
  <2>1. CASE n \in 1..A
    BY <1>2, <1>3, <2>1
  <2>2. CASE ~(n \in 1..A)
    <3>1. PICK k \in 1..B : n = A + k
      BY <1>1, <2>2 DEF After
    <3>2. w[n] = new[k]
      BY <1>1, <3>1 DEF After
    <3>3. ~(w[n].of = e /\ w[n].rows[1] > 0)
      BY <1>1, <3>2
    <3>4. ~(n \in a..b)
      BY <1>3, <3>1
    <3> QED
      BY <3>3, <3>4
  <2> QED
    BY <2>1, <2>2
<1>6. ASSUME NEW n \in a..b PROVE (n > a => w[n].rows[1] = w[n - 1].rows[2] + 1) /\ w[n].rows[1] <= w[n].rows[2]
  <2>1. n \in 1..A /\ w[n] = cs[n]
    BY <1>2, <1>3
  <2>2. n > a => n - 1 \in 1..A /\ w[n - 1] = cs[n - 1]
    <3>1. n > a => n - 1 \in 1..A
      BY <1>3
    <3> QED
      BY <1>2, <3>1
  <2> QED
    BY <1>3, <2>1, <2>2
<1> QED
  BY <1>3, <1>4, <1>5, <1>6 DEF RangesIn

\* What was emitted of an element, or held, still is when the run is emitted.
LEMMA CoveredStays ==
  ASSUME NEW cs, NEW new, NEW w, After(w, cs, new), MarksIn(w) = MarksIn(cs) \cup MarksIn(new),
         NEW e, NEW rn, NEW rest, Covered(cs, rn, e), RunMarks(rn) \subseteq MarksIn(new) \cup RunMarks(rest),
         \A k \in 1..Len(new) : new[k].rows[1] > 0 => new[k].of # e
  PROVE  Covered(w, rest, e)
<1>1. doc[e].kind = Text => MarksOf(doc[e].text) \subseteq MarksIn(w) \cup RunMarks(rest)
  BY DEF Covered
<1>2. doc[e].kind = Table => \E n \in 1..Len(w) : w[n].of = e
  <2> SUFFICES ASSUME doc[e].kind = Table PROVE \E n \in 1..Len(w) : w[n].of = e
    OBVIOUS
  <2>1. PICK n \in 1..Len(cs) : cs[n].of = e
    BY DEF Covered
  <2>2. w[n] = cs[n] /\ n \in 1..Len(w)
    BY DEF After
  <2> QED
    BY <2>1, <2>2
<1>3. Docling /\ doc[e].kind = Table /\ Len(doc[e].rows) > RowThreshold => RangesIn(w, e)
  <2> SUFFICES ASSUME RangesIn(cs, e) PROVE RangesIn(w, e)
    BY DEF Covered
  <2> QED
    BY RangesStay
<1> QED
  BY <1>1, <1>2, <1>3 DEF Covered

\* Sound chunks behind sound chunks: what was covered still is.
LEMMA LoopGrows ==
  ASSUME NEW cs, NEW rn, NEW last, NEW nx, Loop(cs, rn, last, nx), NEW new, NewChunks(new, nx),
         NEW rest, RunMarks(rn) \subseteq MarksIn(new) \cup RunMarks(rest), NEW w, w = cs \o new
  PROVE  Grown(w, cs, new, rest, nx)
<1>1. nx \in Nat /\ cs \in Seq(ChunkRecs) /\ new \in Seq(ChunkRecs)
  BY DEF Loop, NewChunks
<1>2. After(w, cs, new) /\ MarksIn(w) = MarksIn(cs) \cup MarksIn(new)
  BY <1>1, ChunksAfter
<1>3. ASSUME NEW n \in 1..Len(w)
      PROVE  /\ Sound(w[n]) /\ (w[n].rows[1] > 0 => w[n].of < nx + 1)
             /\ (\A k \in 1..Len(new) : new[k].rows[1] = 0) => (w[n].rows[1] > 0 => w[n].of < nx)
  <2>1. CASE n \in 1..Len(cs)
    <3>1. w[n] = cs[n] /\ Sound(cs[n]) /\ (cs[n].rows[1] > 0 => cs[n].of < nx)
      BY <1>2, <2>1 DEF After, Loop
    <3>2. cs[n].of \in Nat
      BY <3>1 DEF Sound
    <3> QED
      BY <1>1, <3>1, <3>2
  <2>2. CASE ~(n \in 1..Len(cs))
    <3>1. PICK k \in 1..Len(new) : n = Len(cs) + k
      BY <1>2, <2>2 DEF After
    <3>2. w[n] = new[k] /\ Sound(new[k]) /\ (new[k].rows[1] > 0 => new[k].of = nx)
      BY <1>2, <3>1 DEF After, NewChunks
    <3> QED
      BY <1>1, <3>2
  <2> QED
    BY <2>1, <2>2
<1>4. ASSUME NEW e \in 1..Len(doc), e < nx PROVE Covered(w, rest, e)
  <2>1. Covered(cs, rn, e)
    BY <1>4 DEF Loop
  <2>2. \A k \in 1..Len(new) : new[k].rows[1] > 0 => new[k].of # e
    BY <1>1, <1>4 DEF NewChunks
  <2> QED
    BY <1>2, <2>1, <2>2, CoveredStays
<1>5. w \in Seq(ChunkRecs)
  BY <1>2 DEF After
<1> QED
  BY <1>2, <1>3, <1>4, <1>5 DEF Grown

\* The windows of a run are sound.
LEMMA WindowsAreNew ==
  ASSUME doc \in Seq(Elements), NEW els, RunOf(els), NEW made, NEW pieces, WindowsOf(made, els, pieces), NEW nx
  PROVE  /\ NewChunks(made, nx) /\ MarksIn(made) = MarksOf(pieces)
         /\ \A k \in 1..Len(made) : made[k].rows[1] = 0
<1>1. made \in Seq(ChunkRecs) /\ Len(made) = Len(pieces)
          /\ \A k \in 1..Len(made) : Window(made[k], els) /\ made[k].text = pieces[k]
  BY DEF WindowsOf
<1>2. els[1] \in 1..Len(doc)
  BY DEF RunOf
<1>3. ASSUME NEW c, Window(c, els) PROVE Sound(c) /\ c.rows[1] = 0
  <2>1. c.rows[1] = 0
    <3>1. PICK rows : rows = <<0, 0>>
      OBVIOUS
    <3>2. rows[1] = 0 /\ c.rows = rows
      BY <1>3, <3>1 DEF Window
    <3> QED
      BY <3>2
  <2>2. /\ c \in ChunkRecs /\ c.of \in 1..Len(doc) /\ c.kind = Text /\ c.size <= LargestWindow
        /\ c.hint = 0 /\ c.rows = <<0, 0>>
    BY <1>2, <1>3 DEF Window
  <2>3. \E x : RunOf(x) /\ Window(c, x)
    BY <1>3
  <2> QED
    BY <2>1, <2>2, <2>3 DEF Sound
<1>4. \A k \in 1..Len(made) : Sound(made[k]) /\ made[k].rows[1] = 0
  BY <1>1, <1>3
<1>5. NewChunks(made, nx)
  BY <1>1, <1>4 DEF NewChunks
<1>6. MarksIn(made) = MarksOf(pieces)
  BY <1>1 DEF MarksIn, MarksOf
<1> QED
  BY <1>4, <1>5, <1>6

\* chunker.py: closing the run emits all of it.
LEMMA LoopFlushes ==
  ASSUME doc \in Seq(Elements), NEW cs, NEW rn, NEW last, NEW nx, Loop(cs, rn, last, nx)
  PROVE  Loop(IF rn = <<>> THEN cs ELSE cs \o ChunkTextRun(rn), <<>>, last, nx)
<1>1. CASE rn = <<>>
  BY <1>1
<1>2. CASE rn # <<>>
  <2>1. RunOf(rn)
    BY <1>2 DEF Loop
  <2>2. rn \in Seq(1..Len(doc))
    BY <2>1 DEF RunOf
  <2>3. PICK new : new = ChunkTextRun(rn)
    OBVIOUS
  <2>4. PICK pieces : pieces = PackParagraphs(RunParagraphs(rn))
    OBVIOUS
  <2>5. WindowsOf(new, rn, pieces) /\ MarksOf(pieces) = RunMarks(rn)
    BY <1>2, <2>2, <2>3, <2>4, ChunkTextRunIs, RunPieces
  <2>6. NewChunks(new, nx) /\ MarksIn(new) = RunMarks(rn) /\ \A k \in 1..Len(new) : new[k].rows[1] = 0
    BY <2>1, <2>5, WindowsAreNew
  <2>7. PICK w : w = cs \o new
    OBVIOUS
  <2>8. PICK rest : rest = <<>>
    OBVIOUS
  <2>9. /\ w \in Seq(ChunkRecs)
        /\ \A n \in 1..Len(w) : Sound(w[n]) /\ (w[n].rows[1] > 0 => w[n].of < nx)
        /\ \A e \in 1..Len(doc) : e < nx => Covered(w, rest, e)
    <3>1. RunMarks(rn) \subseteq MarksIn(new) \cup RunMarks(rest)
      BY <2>6
    <3>2. Grown(w, cs, new, rest, nx)
      BY <2>6, <2>7, <3>1, LoopGrows
    <3> QED
      BY <2>6, <3>2 DEF Grown
  <2>10. Loop(w, rest, last, nx)
    BY <2>8, <2>9 DEF Loop
  <2> QED
    BY <1>2, <2>3, <2>7, <2>8, <2>10
<1> QED
  BY <1>1, <1>2

\* One more element in the run.
LEMMA RunMarksGrow ==
  ASSUME NEW rn \in Seq(1..Len(doc)), NEW e \in 1..Len(doc)
  PROVE  /\ Append(rn, e) \in Seq(1..Len(doc)) /\ Len(Append(rn, e)) = Len(rn) + 1
         /\ \A j \in 1..Len(rn) : Append(rn, e)[j] = rn[j]
         /\ Append(rn, e)[Len(rn) + 1] = e
         /\ RunMarks(Append(rn, e)) = RunMarks(rn) \cup MarksOf(doc[e].text)
<1>1. PICK N \in Nat : N = Len(rn)
  OBVIOUS
<1>2. PICK w : w = Append(rn, e)
  OBVIOUS
<1>3. w \in Seq(1..Len(doc)) /\ Len(w) = N + 1 /\ w[N + 1] = e /\ \A j \in 1..N : w[j] = rn[j]
  BY <1>1, <1>2
<1>4. ASSUME NEW p \in RunMarks(w) PROVE p \in RunMarks(rn) \cup MarksOf(doc[e].text)
  <2>1. PICK j \in 1..(N + 1) : p \in MarksOf(doc[w[j]].text)
    BY <1>3, <1>4 DEF RunMarks
  <2>2. CASE j \in 1..N
    BY <1>1, <1>3, <2>1, <2>2 DEF RunMarks
  <2>3. CASE j = N + 1
    BY <1>3, <2>1, <2>3
  <2> QED
    BY <2>2, <2>3
<1>5. ASSUME NEW p \in RunMarks(rn) PROVE p \in RunMarks(w)
  <2>1. PICK j \in 1..N : p \in MarksOf(doc[rn[j]].text)
    BY <1>1, <1>5 DEF RunMarks
  <2>2. PICK k \in 1..Len(w) : k = j /\ w[k] = rn[j]
    BY <1>3
  <2>3. p \in MarksOf(doc[w[k]].text)
    BY <2>1, <2>2
  <2> QED
    BY <2>3 DEF RunMarks
<1>6. ASSUME NEW p \in MarksOf(doc[e].text) PROVE p \in RunMarks(w)
  <2>1. PICK k \in 1..Len(w) : w[k] = e
    BY <1>3
  <2> QED
    BY <1>6, <2>1 DEF RunMarks
<1>7. RunMarks(w) = RunMarks(rn) \cup MarksOf(doc[e].text)
  BY <1>4, <1>5, <1>6
<1> QED
  BY <1>1, <1>2, <1>3, <1>7

\* The run may hold more.
LEMMA CoveredLater ==
  ASSUME NEW cs, NEW rn, NEW rest, NEW e, Covered(cs, rn, e), RunMarks(rn) \subseteq RunMarks(rest)
  PROVE  Covered(cs, rest, e)
BY DEF Covered

\* chunker.py: a text of the run's section, or the first one, joins the run.
LEMMA LoopText ==
  ASSUME doc \in Seq(Elements), NEW cs, NEW rn, NEW last, NEW nx, Loop(cs, rn, last, nx), rn \in Seq(1..Len(doc)),
         Docling, nx \in 1..Len(doc), doc[nx].kind = Text,
         rn # <<>> => doc[nx].section = doc[rn[1]].section
  PROVE  Loop(cs, Append(rn, nx), nx, nx + 1)
<1>1. PICK N \in Nat : N = Len(rn)
  OBVIOUS
<1>2. PICK w : w = Append(rn, nx)
  OBVIOUS
<1>3. /\ w \in Seq(1..Len(doc)) /\ Len(w) = N + 1 /\ \A j \in 1..N : w[j] = rn[j]
      /\ w[N + 1] = nx
      /\ RunMarks(w) = RunMarks(rn) \cup MarksOf(doc[nx].text)
  BY <1>1, <1>2, RunMarksGrow
<1>4. PICK L \in Nat : L = Len(doc)
  OBVIOUS
<1>5. N = 0 <=> rn = <<>>
  BY <1>1
<1>6. N > 0 => RunOf(rn) /\ rn[1] + N = nx /\ doc[nx].section = doc[rn[1]].section
  BY <1>1, <1>5 DEF Loop
<1>7. w[1] \in 1..L /\ w[1] + N = nx
  <2>1. CASE N = 0
    BY <1>3, <1>4, <2>1
  <2>2. CASE N # 0
    <3>1. 1 \in 1..N /\ N > 0
      BY <2>2
    <3>2. w[1] = rn[1] /\ rn[1] \in 1..Len(doc)
      BY <1>1, <1>3, <3>1
    <3> QED
      BY <1>4, <1>6, <3>1, <3>2
  <2> QED
    BY <2>1, <2>2
<1>8. ASSUME NEW j \in 1..(N + 1) PROVE w[j] = w[1] + j - 1 /\ doc[w[j]].kind = Text /\ doc[w[j]].section = doc[w[1]].section
  <2>1. CASE j = N + 1
    <3>1. w[j] = nx /\ w[j] = w[1] + j - 1
      BY <1>3, <1>7, <2>1
    <3>2. doc[w[j]].section = doc[w[1]].section
      <4>1. N = 0 => w[j] = w[1]
        BY <2>1
      <4>2. N > 0 => w[1] = rn[1]
        BY <1>3
      <4> QED
        BY <1>6, <3>1, <4>1, <4>2
    <3> QED
      BY <3>1, <3>2
  <2>2. CASE j # N + 1
    <3>1. j \in 1..N /\ N > 0 /\ 1 \in 1..N
      BY <2>2
    <3>2. w[j] = rn[j] /\ w[1] = rn[1]
      BY <1>3, <3>1
    <3>3. rn[j] = rn[1] + j - 1 /\ doc[rn[j]].kind = Text /\ doc[rn[j]].section = doc[rn[1]].section
      BY <1>1, <1>6, <3>1 DEF RunOf
    <3> QED
      BY <3>2, <3>3
  <2> QED
    BY <2>1, <2>2
<1>9. RunOf(w)
  BY <1>3, <1>8 DEF RunOf
<1>10. ASSUME NEW e \in 1..L, e < nx + 1 PROVE Covered(cs, w, e)
  <2>1. CASE e = nx
    BY <1>3, <2>1 DEF Covered, Text, Table
  <2>2. CASE e # nx
    <3>1. e < nx
      BY <1>10, <2>2
    <3>2. Covered(cs, rn, e)
      BY <1>4, <3>1 DEF Loop
    <3> QED
      BY <1>3, <3>2, CoveredLater
  <2> QED
    BY <2>1, <2>2
<1>11. \A n \in 1..Len(cs) : Sound(cs[n]) /\ (cs[n].rows[1] > 0 => cs[n].of < nx + 1)
  <2> SUFFICES ASSUME NEW n \in 1..Len(cs) PROVE Sound(cs[n]) /\ (cs[n].rows[1] > 0 => cs[n].of < nx + 1)
    OBVIOUS
  <2>1. Sound(cs[n]) /\ (cs[n].rows[1] > 0 => cs[n].of < nx)
    BY DEF Loop
  <2>2. cs[n].of \in Nat
    BY <2>1 DEF Sound
  <2> QED
    BY <2>1, <2>2
<1>12. PICK m \in Nat : m = nx + 1
  OBVIOUS
<1>13. m \in 1..(L + 2) /\ m \in 2..(L + 1) /\ w[1] + Len(w) = m /\ nx = m - 1 /\ nx \in 0..L
  <2>1. PICK f \in 1..L : f = w[1] /\ f + N = nx
    BY <1>7
  <2>2. nx \in 1..L
    BY <1>4
  <2>3. f + (N + 1) = m /\ m \in 2..(L + 1) /\ m \in 1..(L + 2) /\ nx = m - 1 /\ nx \in 0..L
    <3>1. PICK x \in Nat : x = nx /\ x >= 1 /\ x <= L
      BY <2>2
    <3>2. PICK y \in Nat : y = f
      OBVIOUS
    <3>3. y + N = x /\ m = x + 1
      BY <1>12, <2>1, <3>1, <3>2
    <3>4. y + (N + 1) = m
      BY <3>3
    <3>5. m \in 2..(L + 1) /\ m \in 1..(L + 2) /\ x = m - 1 /\ x \in 0..L
      BY <3>1, <3>3
    <3> QED
      BY <3>1, <3>2, <3>4, <3>5
  <2> QED
    BY <1>3, <2>1, <2>3
<1>14. Loop(cs, w, nx, m)
  BY <1>4, <1>9, <1>10, <1>11, <1>12, <1>13 DEF Loop
<1> QED
  BY <1>2, <1>12, <1>14

\* The loop after an element whose chunks have all of it.
LEMMA LoopAdds ==
  ASSUME NEW cs, NEW rn, rn = <<>>, NEW last, NEW nx, Loop(cs, rn, last, nx), Len(doc) \in Nat, nx \in 1..Len(doc),
         NEW new, NewChunks(new, nx), NEW w, w = cs \o new, Grown(w, cs, new, rn, nx) => Covered(w, rn, nx)
  PROVE  Loop(w, rn, 0, nx + 1)
<1>1. RunMarks(rn) \subseteq MarksIn(new) \cup RunMarks(rn)
  OBVIOUS
<1>2. Grown(w, cs, new, rn, nx)
  BY <1>1, LoopGrows
<1>3. \A e \in 1..Len(doc) : e < nx + 1 => Covered(w, rn, e)
  BY <1>2 DEF Grown
<1>4. nx + 1 \in 1..(Len(doc) + 2) /\ 0 \in 0..Len(doc)
  OBVIOUS
<1> QED
  BY <1>2, <1>3, <1>4 DEF Grown, Loop

\* The end of the loop.
LEMMA LoopEnds ==
  ASSUME NEW cs, NEW rn, rn = <<>>, NEW last, NEW nx, Loop(cs, rn, last, nx), Len(doc) \in Nat, nx = Len(doc) + 1
  PROVE  Loop(cs, rn, 0, nx + 1)
<1>1. \A e \in 1..Len(doc) : e < nx + 1 => Covered(cs, rn, e)
  BY DEF Loop
<1>2. \A n \in 1..Len(cs) : Sound(cs[n]) /\ (cs[n].rows[1] > 0 => cs[n].of < nx + 1)
  <2> SUFFICES ASSUME NEW n \in 1..Len(cs) PROVE Sound(cs[n]) /\ (cs[n].rows[1] > 0 => cs[n].of < nx + 1)
    OBVIOUS
  <2>1. Sound(cs[n])
    BY DEF Loop
  <2>2. cs[n].of \in 1..Len(doc)
    BY <2>1 DEF Sound
  <2> QED
    BY <2>1, <2>2
<1>3. nx + 1 \in 1..(Len(doc) + 2) /\ 0 \in 0..Len(doc)
  OBVIOUS
<1> QED
  BY <1>1, <1>2, <1>3 DEF Loop

\* A table or figure shown is sound.
LEMMA ShownIsNew ==
  ASSUME NEW e \in 1..Len(doc), doc[e].kind # Text, NEW hint, hint # 0 => hint = e - 1 /\ doc[hint].kind = Text,
         NEW made, ShownBy(made, e, hint)
  PROVE  NewChunks(made, e)
<1>1. ASSUME NEW c, Shows(c, e, hint) PROVE Sound(c) /\ c.of = e
  <2>1. c \in ChunkRecs /\ c.of = e /\ c.kind # Text /\ c.hint = hint
    BY <1>1 DEF Shows
  <2>2. Shows(c, c.of, c.hint)
    BY <1>1, <2>1
  <2> QED
    BY <2>1, <2>2 DEF Sound
<1>2. \A k \in 1..Len(made) : Sound(made[k]) /\ made[k].of = e
  BY <1>1 DEF ShownBy
<1> QED
  BY <1>2 DEF NewChunks, ShownBy

\* A table or figure that is shown is covered.
LEMMA ShownIsCovered ==
  ASSUME NEW cs, NEW rn, NEW last, NEW nx, Loop(cs, rn, last, nx), nx \in 1..Len(doc), doc[nx].kind # Text, NEW hint,
         NEW made, ShownBy(made, nx, hint), NEW w, Grown(w, cs, made, rn, nx)
  PROVE  Covered(w, rn, nx)
<1>1. PICK A \in Nat, B \in Nat : A = Len(cs) /\ B = Len(made) /\ Len(w) = A + B
  BY DEF Grown, After
<1>2. /\ \A n \in 1..A : w[n] = cs[n]
      /\ \A k \in 1..B : w[A + k] = made[k] /\ A + k \in 1..Len(w)
      /\ \A n \in 1..Len(w) : n \in 1..A \/ \E k \in 1..B : n = A + k
  BY <1>1 DEF Grown, After
<1>3. B > 0 /\ made[1].rows[1] = 0 /\ \A k \in 1..B : made[k].of = nx
  BY <1>1 DEF ShownBy, Shows
<1>4. \E n \in 1..Len(w) : w[n].of = nx
  <2>1. 1 \in 1..B
    BY <1>3
  <2> QED
    BY <1>2, <1>3, <2>1
<1>5. ASSUME Docling, doc[nx].kind = Table, Len(doc[nx].rows) > RowThreshold PROVE RangesIn(w, nx)
  <2>1. PICK ranges : /\ Tile(ranges, Len(doc[nx].rows)) /\ ranges # <<>> /\ B = Len(ranges) + 1
                      /\ \A k \in 1..Len(ranges) : made[k + 1].rows = ranges[k]
    BY <1>1, <1>5 DEF ShownBy
  <2>2. PICK R \in Nat : R = Len(ranges) /\ R > 0 /\ B = R + 1
    <3>1. ranges \in Seq(Seq(Nat)) /\ Len(ranges) \in Nat
      BY <2>1 DEF Tile
    <3>2. Len(ranges) # 0
      BY <2>1, <3>1
    <3> QED
      BY <2>1, <3>1, <3>2
  <2>3. ASSUME NEW k \in 1..R PROVE w[A + 1 + k].rows = ranges[k] /\ w[A + 1 + k].of = nx
    <3>1. k + 1 \in 1..B /\ A + (k + 1) = A + 1 + k
      BY <2>2
    <3>2. w[A + (k + 1)] = made[k + 1]
      BY <1>2, <3>1
    <3>3. made[k + 1].rows = ranges[k] /\ made[k + 1].of = nx
      BY <1>3, <2>1, <2>2, <3>1
    <3> QED
      BY <3>1, <3>2, <3>3
  <2>4. /\ ranges[1][1] = 1 /\ ranges[R][2] = Len(doc[nx].rows)
        /\ \A k \in 1..R : ranges[k][1] > 0 /\ ranges[k][1] <= ranges[k][2] /\ (k > 1 => ranges[k][1] = ranges[k - 1][2] + 1)
    BY <2>1, <2>2 DEF Tile
  <2>5. PICK a \in Nat, b \in Nat : a = A + 2 /\ b = A + 1 + R
    OBVIOUS
  <2>6. a \in 1..Len(w) /\ b \in 1..Len(w) /\ a <= b
    BY <1>1, <2>2, <2>5
  <2>7. w[a].rows[1] = 1 /\ w[b].rows[2] = Len(doc[nx].rows)
    <3>1. 1 \in 1..R /\ R \in 1..R /\ a = A + 1 + 1
      BY <2>2, <2>5
    <3> QED
      BY <2>3, <2>4, <2>5, <3>1
  <2>8. ASSUME NEW n \in 1..Len(w) PROVE w[n].of = nx /\ w[n].rows[1] > 0 <=> n \in a..b
    <3>1. CASE n \in 1..A
      <4>1. w[n] = cs[n] /\ (cs[n].rows[1] > 0 => cs[n].of < nx)
        BY <1>1, <1>2, <3>1 DEF Loop
      <4>2. ~(w[n].of = nx /\ w[n].rows[1] > 0)
        BY <4>1
      <4>3. ~(n \in a..b)
        BY <2>5, <3>1
      <4> QED
        BY <4>2, <4>3
    <3>2. CASE n = A + 1
      <4>1. w[n] = made[1]
        BY <1>2, <1>3, <3>2
      <4>2. ~(w[n].rows[1] > 0) /\ ~(n \in a..b)
        BY <1>3, <2>5, <3>2, <4>1
      <4> QED
        BY <4>2
    <3>3. CASE n > A + 1
      <4>1. PICK k \in 1..R : n = A + 1 + k
        <5>1. n \in Nat /\ n <= A + (R + 1)
          BY <1>1, <2>2
        <5>2. n - (A + 1) \in 1..R /\ n = A + 1 + (n - (A + 1))
          BY <3>3, <5>1
        <5> QED
          BY <5>2
      <4>2. n \in a..b
        BY <2>5, <4>1
      <4> QED
        BY <2>3, <2>4, <4>1, <4>2
    <3> QED
      BY <3>1, <3>2, <3>3
  <2>9. ASSUME NEW n \in a..b PROVE (n > a => w[n].rows[1] = w[n - 1].rows[2] + 1) /\ w[n].rows[1] <= w[n].rows[2]
    <3>1. PICK k \in 1..R : n = A + 1 + k
      <4>1. n - (A + 1) \in 1..R /\ n = A + 1 + (n - (A + 1))
        BY <2>5
      <4> QED
        BY <4>1
    <3>2. w[n].rows = ranges[k]
      BY <2>3, <3>1
    <3>3. n > a => w[n - 1].rows = ranges[k - 1] /\ k > 1
      <4>1. n > a => k > 1 /\ k - 1 \in 1..R /\ n - 1 = A + 1 + (k - 1)
        BY <2>5, <3>1
      <4> QED
        BY <2>3, <4>1
    <3> QED
      BY <2>4, <3>2, <3>3
  <2> QED
    BY <2>6, <2>7, <2>8, <2>9 DEF RangesIn
<1> QED
  BY <1>4, <1>5 DEF Covered

\* chunker.py, chunking.py: a table or figure, and the line above it is used up.
LEMMA LoopShows ==
  ASSUME doc \in Seq(Elements), NEW cs, NEW rn, rn = <<>>, NEW last, NEW nx, Loop(cs, rn, last, nx), nx \in 1..Len(doc),
         doc[nx].kind # Text, NEW hint, hint # 0 => hint = nx - 1 /\ doc[hint].kind = Text,
         NEW made, ShownBy(made, nx, hint), NEW w, w = cs \o made
  PROVE  Loop(w, rn, 0, nx + 1)
<1>1. NewChunks(made, nx)
  BY ShownIsNew
<1>2. Grown(w, cs, made, rn, nx) => Covered(w, rn, nx)
  BY ShownIsCovered
<1>3. Len(doc) \in Nat
  OBVIOUS
<1> QED
  BY <1>1, <1>2, <1>3, LoopAdds

\* chunking.py: the windows of one text.
LEMMA LoopSplits ==
  ASSUME doc \in Seq(Elements), NEW cs, NEW rn, rn = <<>>, NEW last, NEW nx, Loop(cs, rn, last, nx), nx \in 1..Len(doc),
         doc[nx].kind = Text, NEW made, NEW pieces, WindowsOf(made, <<nx>>, pieces),
         MarksOf(pieces) = MarksOf(doc[nx].text), NEW w, w = cs \o made
  PROVE  Loop(w, rn, 0, nx + 1)
<1>1. PICK els : els = <<nx>>
  OBVIOUS
<1>2. RunOf(els)
  <2>1. els \in Seq(1..Len(doc)) /\ Len(els) = 1 /\ els[1] = nx
    BY <1>1
  <2>2. \A j \in 1..Len(els) : j = 1
    BY <2>1
  <2>3. nx = nx + 1 - 1
    OBVIOUS
  <2> QED
    BY <2>1, <2>2, <2>3 DEF RunOf
<1>3. NewChunks(made, nx) /\ MarksIn(made) = MarksOf(pieces)
  BY <1>1, <1>2, WindowsAreNew
<1>4. ASSUME Grown(w, cs, made, rn, nx) PROVE Covered(w, rn, nx)
  <2>1. MarksOf(doc[nx].text) \subseteq MarksIn(w)
    BY <1>3, <1>4 DEF Grown
  <2> QED
    BY <2>1 DEF Covered, Text, Table
<1>5. Len(doc) \in Nat
  OBVIOUS
<1> QED
  BY <1>3, <1>4, <1>5, LoopAdds

\* What the loop is at.
LEMMA LoopTypes ==
  ASSUME doc \in Seq(Elements), NEW cs, NEW rn, NEW last, NEW nx, Loop(cs, rn, last, nx)
  PROVE  /\ rn \in Seq(1..Len(doc)) /\ Len(doc) \in Nat /\ nx \in Nat \ {0} /\ last \in 0..Len(doc)
         /\ ~Docling => rn = <<>> /\ last = 0
         /\ last # 0 => last = nx - 1 /\ doc[last].kind = Text
<1>1. <<>> \in Seq(1..Len(doc))
  OBVIOUS
<1>2. rn # <<>> => rn \in Seq(1..Len(doc))
  BY DEF Loop, RunOf
<1>3. PICK L \in Nat : L = Len(doc)
  OBVIOUS
<1>4. nx \in 1..(L + 2) /\ last \in 0..L /\ (last # 0 => Docling /\ last = nx - 1 /\ doc[last].kind = Text)
      /\ (rn # <<>> => Docling)
  BY <1>3 DEF Loop
<1>5. nx \in Nat \ {0}
  BY <1>4
<1>6. rn \in Seq(1..Len(doc))
  BY <1>1, <1>2
<1> QED
  BY <1>3, <1>4, <1>5, <1>6

\* chunker.py: the loop takes a text.
LEMMA TextKeepsLoop ==
  ASSUME doc \in Seq(Elements), Loop(chunks, run, lastText, next), AddText
  PROVE  Loop(chunks', run', lastText', next')
<1>1. PICK cs, rn, last, nx : cs = chunks /\ rn = run /\ last = lastText /\ nx = next
  OBVIOUS
<1>2. Loop(cs, rn, last, nx) /\ rn \in Seq(1..Len(doc)) /\ nx \in 1..Len(doc) /\ doc[nx].kind = Text /\ Docling
  <2>1. Loop(cs, rn, last, nx)
    BY <1>1
  <2>2. rn \in Seq(1..Len(doc)) /\ Len(doc) \in Nat /\ nx \in Nat \ {0}
    BY <2>1, LoopTypes
  <2>3. nx <= Len(doc) /\ doc[nx].kind = Text /\ Docling
    BY <1>1 DEF AddText, AtText
  <2> QED
    BY <2>1, <2>2, <2>3
<1>3. CASE rn # <<>> /\ doc[nx].section # doc[rn[1]].section
  <2>1. PICK new : new = IF rn = <<>> THEN cs ELSE cs \o ChunkTextRun(rn)
    OBVIOUS
  <2>2. chunks' = new /\ run' = <<nx>> /\ lastText' = nx /\ next' = nx + 1
    BY <1>1, <1>3, <2>1 DEF AddText, Flushed
  <2>3. PICK none : none = <<>>
    OBVIOUS
  <2>4. Loop(new, none, last, nx)
    BY <1>2, <2>1, <2>3, LoopFlushes
  <2>5. none \in Seq(1..Len(doc))
    BY <2>3
  <2>6. Loop(new, Append(none, nx), nx, nx + 1)
    BY <1>2, <2>3, <2>4, <2>5, LoopText
  <2>7. Append(none, nx) = <<nx>>
    BY <2>3
  <2> QED
    BY <2>2, <2>6, <2>7
<1>4. CASE ~(rn # <<>> /\ doc[nx].section # doc[rn[1]].section)
  <2>1. chunks' = cs /\ run' = Append(rn, nx) /\ lastText' = nx /\ next' = nx + 1
    BY <1>1, <1>4 DEF AddText
  <2>2. Loop(cs, Append(rn, nx), nx, nx + 1)
    BY <1>2, <1>4, LoopText
  <2> QED
    BY <2>1, <2>2
<1> QED
  BY <1>3, <1>4

\* chunker.py: the loop takes a table or figure.
LEMMA VisualKeepsLoop ==
  ASSUME doc \in Seq(Elements), Loop(chunks, run, lastText, next), AddVisual
  PROVE  Loop(chunks', run', lastText', next')
<1>1. PICK cs, rn, last, nx : cs = chunks /\ rn = run /\ last = lastText /\ nx = next
  OBVIOUS
<1>2. Loop(cs, rn, last, nx)
  BY <1>1
<1>3. nx \in 1..Len(doc) /\ doc[nx].kind # Text /\ last \in 0..Len(doc)
          /\ (last # 0 => last = nx - 1 /\ doc[last].kind = Text)
  <2>1. Len(doc) \in Nat /\ nx \in Nat \ {0} /\ last \in 0..Len(doc) /\ (last # 0 => last = nx - 1 /\ doc[last].kind = Text)
    BY <1>2, LoopTypes
  <2>2. nx <= Len(doc) /\ doc[nx].kind # Text
    BY <1>1 DEF AddVisual, AtVisual
  <2> QED
    BY <2>1, <2>2
<1>4. PICK hint : hint = CaptionHint(nx)
  OBVIOUS
<1>5. hint \in 0..Len(doc) /\ (hint # 0 => hint = nx - 1 /\ doc[hint].kind = Text /\ doc[hint].text # <<>>)
  <2>1. hint = 0 \/ (hint = last /\ doc[last].text # <<>>)
    BY <1>1, <1>4 DEF CaptionHint
  <2>2. 0 \in 0..Len(doc)
    BY <1>3
  <2> QED
    BY <1>3, <2>1, <2>2
<1>6. PICK flushed : flushed = IF rn = <<>> THEN cs ELSE cs \o ChunkTextRun(rn)
  OBVIOUS
<1>7. PICK made : made = IF doc[nx].kind = Table THEN ChunkTable(nx, hint) ELSE ChunkFigure(nx, hint)
  OBVIOUS
<1>8. chunks' = flushed \o made /\ run' = <<>> /\ lastText' = 0 /\ next' = nx + 1
  BY <1>1, <1>4, <1>6, <1>7 DEF AddVisual, Flushed
<1>9. PICK none : none = <<>>
  OBVIOUS
<1>10. Loop(flushed, none, last, nx)
  BY <1>2, <1>6, <1>9, LoopFlushes
<1>11. doc[nx].kind \in {Table, Figure}
  BY <1>3, ElementsAre
<1>12. ShownBy(made, nx, hint)
  <2>1. CASE doc[nx].kind = Table
    <3>1. hint \in Nat
      BY <1>5
    <3>2. ShownBy(ChunkTable(nx, hint), nx, hint)
      BY <1>3, <2>1, <3>1, ChunkTableShows
    <3> QED
      BY <1>7, <2>1, <3>2
  <2>2. CASE doc[nx].kind = Figure
    <3>1. ShownBy(ChunkFigure(nx, hint), nx, hint)
      BY <1>3, <1>5, <2>2, ChunkFigureShows
    <3> QED
      BY <1>7, <2>2, <3>1 DEF Figure, Table
  <2> QED
    BY <1>11, <2>1, <2>2
<1>13. PICK w : w = flushed \o made
  OBVIOUS
<1>14. hint # 0 => hint = nx - 1 /\ doc[hint].kind = Text
  BY <1>5
<1>15. Loop(w, none, 0, nx + 1)
  BY <1>3, <1>9, <1>10, <1>12, <1>13, <1>14, LoopShows
<1> QED
  BY <1>8, <1>9, <1>13, <1>15

\* chunker.py: the end of the elements closes the run.
LEMMA FlushKeepsLoop ==
  ASSUME doc \in Seq(Elements), Loop(chunks, run, lastText, next), LastFlush
  PROVE  Loop(chunks', run', lastText', next')
<1>1. PICK cs, rn, last, nx : cs = chunks /\ rn = run /\ last = lastText /\ nx = next
  OBVIOUS
<1>2. Loop(cs, rn, last, nx)
  BY <1>1
<1>3. PICK flushed : flushed = IF rn = <<>> THEN cs ELSE cs \o ChunkTextRun(rn)
  OBVIOUS
<1>4. chunks' = flushed /\ run' = <<>> /\ lastText' = 0 /\ next' = nx + 1 /\ nx = Len(doc) + 1
  BY <1>1, <1>3 DEF LastFlush, Flushed
<1>5. PICK none : none = <<>>
  OBVIOUS
<1>6. Loop(flushed, none, last, nx)
  BY <1>2, <1>3, <1>5, LoopFlushes
<1>7. Len(doc) \in Nat
  OBVIOUS
<1>8. Loop(flushed, none, 0, nx + 1)
  BY <1>4, <1>5, <1>6, <1>7, LoopEnds
<1> QED
  BY <1>4, <1>5, <1>8

\* chunking.py: the loop takes an element of another type of file.
LEMMA ElementKeepsLoop ==
  ASSUME doc \in Seq(Elements), Loop(chunks, run, lastText, next), AddElement
  PROVE  Loop(chunks', run', lastText', next')
<1>1. PICK cs, rn, last, nx : cs = chunks /\ rn = run /\ last = lastText /\ nx = next
  OBVIOUS
<1>2. Loop(cs, rn, last, nx)
  BY <1>1
<1>3. nx \in 1..Len(doc) /\ ~Docling /\ rn = <<>> /\ last = 0
  <2>1. Len(doc) \in Nat /\ nx \in Nat \ {0} /\ (~Docling => rn = <<>> /\ last = 0)
    BY <1>2, LoopTypes
  <2>2. nx <= Len(doc) /\ ~Docling
    BY <1>1 DEF AddElement
  <2> QED
    BY <2>1, <2>2
<1>4. PICK made : made = BuildChunks(nx)
  OBVIOUS
<1>5. PICK w : w = cs \o made
  OBVIOUS
<1>6. chunks' = w /\ run' = rn /\ lastText' = 0 /\ next' = nx + 1
  BY <1>1, <1>3, <1>4, <1>5 DEF AddElement
<1>7. CASE doc[nx].kind = Text
  <2>1. PICK pieces : pieces = SplitText(nx)
    OBVIOUS
  <2>2. WindowsOf(made, <<nx>>, pieces) /\ MarksOf(pieces) = MarksOf(doc[nx].text)
    BY <1>3, <1>4, <1>7, <2>1, BuildChunksIs
  <2>3. Loop(w, rn, 0, nx + 1)
    BY <1>2, <1>3, <1>5, <1>7, <2>2, LoopSplits
  <2> QED
    BY <1>6, <2>3
<1>8. CASE doc[nx].kind # Text
  <2>1. PICK hint : hint = 0
    OBVIOUS
  <2>2. ShownBy(made, nx, hint)
    BY <1>3, <1>4, <1>8, <2>1, BuildChunksIs
  <2>3. Loop(w, rn, 0, nx + 1)
    BY <1>2, <1>3, <1>5, <1>8, <2>1, <2>2, LoopShows
  <2> QED
    BY <1>6, <2>3
<1> QED
  BY <1>7, <1>8

-----------------------------------------------------------------------------
(* One document from its file to the index: the invariant of the ingestion.*)

\* A step that leaves the file leaves what is said of it.
LEMMA FileStays ==
  ASSUME source' = source
  PROVE  /\ Titles' = Titles /\ Elements' = Elements /\ ChunkRecs' = ChunkRecs /\ Items' = Items
         /\ \A i : Lines(i)' = Lines(i) /\ TitleAbove(i)' = TitleAbove(i) /\ (Usable(i)' <=> Usable(i))
         /\ Readable' = Readable /\ (Docling' <=> Docling)
<1>1. Titles' = Titles /\ Items' = Items
  BY DEF Titles, Items
<1>2. Elements' = Elements /\ ChunkRecs' = ChunkRecs
  BY <1>1 DEF Elements, ChunkRecs
<1>3. \A i : Lines(i)' = Lines(i)
  BY DEF Lines, Items
<1>4. Headings' = Headings
  BY DEF Headings, Is, Items
<1>5. \A i : TitleAbove(i)' = TitleAbove(i)
  BY <1>4 DEF TitleAbove, TitleOf, Items
<1>6. \A i : Usable(i)' <=> Usable(i)
  BY DEF Usable, Items
<1>7. Readable' = Readable /\ (Docling' <=> Docling)
  BY DEF Readable, Is, Items, Docling
<1> QED
  BY <1>1, <1>2, <1>3, <1>5, <1>6, <1>7

\* An element is still of the file.
LEMMA FromFileStays ==
  ASSUME NEW el, FromFile(el), source' = source
  PROVE  FromFile(el)'
<1>1. \A i, section : Under(i, section) => Under(i, section)'
  BY FileStays DEF Under
<1> QED
  BY <1>1, FileStays DEF FromFile

\* An element is still that of its item.
LEMMA OfItemStays ==
  ASSUME NEW el, OfItem(el), source' = source
  PROVE  OfItem(el)'
BY FileStays DEF OfItem

\* The elements still have an item.
LEMMA ReadsStay ==
  ASSUME NEW els, NEW i, Reads(els, i), source' = source
  PROVE  Reads(els, i)'
<1>1. \A line : Running(line)' <=> Running(line)
  BY FileStays DEF Running
<1> QED
  BY <1>1, FileStays DEF Reads, HasLine, IsTable

\* The elements are still what the chunker may be given.
LEMMA DocStays ==
  ASSUME DocInv, doc' = doc, source' = source
  PROVE  DocInv'
<1>1. \A el : FromFile(el) => FromFile(el)'
  BY FromFileStays
<1>2. \A els, i : Reads(els, i) => Reads(els, i)'
  BY ReadsStay
<1>3. Read(doc) => Read(doc)'
  BY <1>1, <1>2, FileStays DEF Read, Made
<1>4. \A el : OfItem(el) => OfItem(el)'
  BY OfItemStays
<1>5. DoclingDoc(doc) => DoclingDoc(doc)'
  BY <1>4, FileStays DEF DoclingDoc
<1> QED
  BY <1>3, <1>5, FileStays DEF DocInv

\* A chunk is still sound.
LEMMA SoundStays ==
  ASSUME NEW c, Sound(c), doc' = doc, source' = source
  PROVE  Sound(c)'
<1>1. \A els : RunMarks(els)' = RunMarks(els)
  BY DEF RunMarks
<1>2. \A els : Window(c, els) => Window(c, els)'
  BY <1>1, FileStays DEF Window
<1>3. \A els : RunOf(els) => RunOf(els)'
  BY DEF RunOf
<1>4. Shows(c, c.of, c.hint) => Shows(c, c.of, c.hint)'
  BY FileStays DEF Shows
<1> QED
  BY <1>2, <1>3, <1>4, FileStays DEF Sound

\* An element is still covered.
LEMMA CoveredSame ==
  ASSUME NEW cs, NEW rn, NEW e, Covered(cs, rn, e), doc' = doc, source' = source
  PROVE  Covered(cs, rn, e)'
BY DEF Covered, RunMarks, Docling, RangesIn

\* What holds of the loop after a step that leaves the file is the invariant after it.
LEMMA LoopStays ==
  ASSUME Loop(chunks', run', lastText', next'), doc' = doc, source' = source
  PROVE  LoopInv'
<1>1. \A c : Sound(c) => Sound(c)'
  BY SoundStays
<1>2. \A cs, rn, e : Covered(cs, rn, e) => Covered(cs, rn, e)'
  BY CoveredSame
<1> QED
  BY <1>1, <1>2 DEF LoopInv, Loop, ChunkRecs, Titles, Items, Docling, RunOf

\* Before the first element nothing is emitted and nothing is missing.
LEMMA LoopBegins ==
  ASSUME doc \in Seq(Elements)
  PROVE  Loop(<<>>, <<>>, 0, 1)
<1>1. Len(doc) \in Nat
  OBVIOUS
<1>2. <<>> \in Seq(ChunkRecs) /\ Len(<<>>) = 0 /\ 1..0 = {}
  OBVIOUS
<1>3. \A e \in 1..Len(doc) : ~(e < 1)
  BY <1>1
<1>4. 1 \in 1..(Len(doc) + 2) /\ 0 \in 0..Len(doc)
  BY <1>1
<1> QED
  BY <1>2, <1>3, <1>4 DEF Loop

\* What is indexed has the lengths of the chunks.
LEMMA UpsertedSizes ==
  ASSUME LoopInv, UpsertChunks
  PROVE  \A c \in ToSet(listed') : SizeKnown(c)
<1> SUFFICES ASSUME NEW c \in ToSet(listed') PROVE SizeKnown(c)
  OBVIOUS
<1>1. PICK i \in 1..Len(chunks) :
        c = [id |-> i, kind |-> chunks[i].kind, size |-> chunks[i].size, uri |-> Uri(chunks[i])]
  BY DEF UpsertChunks, ToSet
<1>2. Sound(chunks[i])
  BY <1>1 DEF LoopInv, Loop
<1>3. chunks[i].size \in Nat /\ (chunks[i].kind = Text => chunks[i].size <= LargestWindow)
  BY <1>2 DEF Sound, ChunkRecs
<1>4. c.size = chunks[i].size /\ c.kind = chunks[i].kind
  BY <1>1
<1> QED
  BY <1>3, <1>4 DEF SizeKnown

\* One step of the chunking.
LEMMA BuildKeepsLoop ==
  ASSUME DocInv, LoopInv, ChunkNext
  PROVE  DocInv' /\ LoopInv' /\ source' = source
<1>1. doc' = doc /\ source' = source
  BY DEF ChunkNext, AddText, AddVisual, LastFlush, AddElement
<1>2. doc \in Seq(Elements) /\ Loop(chunks, run, lastText, next)
  BY DEF DocInv, Read, Made, LoopInv
<1>3. Loop(chunks', run', lastText', next')
  BY <1>2, TextKeepsLoop, VisualKeepsLoop, FlushKeepsLoop, ElementKeepsLoop DEF ChunkNext
<1> QED
  BY <1>1, <1>3, DocStays, LoopStays

\* The parser gives the chunker what the file has.
LEMMA ParsedDocIsRead ==
  ASSUME source \in Sources, HasParser, ParseFile
  PROVE  DocInv'
<1>0. IsFile(source)
  BY ChunkerAssumption
<1>1. PICK els : els = Denoise(Parse)
  OBVIOUS
<1>2. Read(els) /\ (Docling => DoclingDoc(els))
  BY <1>0, <1>1, ParsedIsRead, DoclingIsRead
<1>3. doc' = els /\ source' = source
  BY <1>1 DEF ParseFile
<1>4. \A el : FromFile(el) => FromFile(el)'
  BY <1>3, FromFileStays
<1>5. \A es, i : Reads(es, i) => Reads(es, i)'
  BY <1>3, ReadsStay
<1>6. Read(els) => Read(doc)'
  BY <1>3, <1>4, <1>5, FileStays DEF Read, Made, Reads
<1>7. \A el : OfItem(el) => OfItem(el)'
  BY <1>3, OfItemStays
<1>8. DoclingDoc(els) => DoclingDoc(doc)'
  BY <1>3, <1>7, FileStays DEF DoclingDoc
<1> QED
  BY <1>2, <1>3, <1>6, <1>8, FileStays DEF DocInv

\* A step that leaves the file and the loop leaves what they are.
LEMMA ChunkingStays ==
  ASSUME UNCHANGED chunkVars
  PROVE  /\ source' = source /\ next' = next /\ run' = run /\ lastText' = lastText /\ chunks' = chunks
         /\ DocInv => DocInv'
         /\ LoopInv => LoopInv'
<1>1. source' = source /\ doc' = doc /\ next' = next /\ run' = run /\ lastText' = lastText /\ chunks' = chunks
  BY DEF chunkVars
<1>2. LoopInv => Loop(chunks', run', lastText', next')
  BY <1>1 DEF LoopInv
<1> QED
  BY <1>1, <1>2, DocStays, LoopStays

\* The steps of the stores, one by one.
LEMMA StoresKeepFile ==
  ASSUME FileInv, StoresNext
  PROVE  FileInv'
<1>0. \A c : SizeKnown(c) => SizeKnown(c)'
  BY DEF SizeKnown, LargestWindow
<1>a. ToSet(<<>>) = {}
  BY DEF ToSet
<1>1. CASE Reingest
  BY <1>0, <1>1 DEF Reingest, Reset, FileInv
<1>2. CASE ClearVectors
  BY <1>a, <1>2, ChunkingStays DEF ClearVectors, FileInv
<1>3. CASE ClearObjects
  BY <1>0, <1>3, ChunkingStays DEF ClearObjects, FileInv
<1>4. CASE ParseStored
  <2>1. DocInv'
    BY <1>4, ParsedDocIsRead DEF ParseStored, FileInv
  <2> QED
    BY <1>0, <1>4, <2>1 DEF ParseStored, ParseFile, FileInv
<1>5. CASE ResolveFigures
  <2>1. LoopInv
    <3>1. Loop(<<>>, <<>>, 0, 1)
      BY <1>5, LoopBegins DEF ResolveFigures, FileInv, DocInv, Read, Made
    <3> QED
      BY <1>5, <3>1 DEF ResolveFigures, FileInv, LoopInv
  <2> QED
    BY <1>0, <1>5, <2>1, ChunkingStays DEF ResolveFigures, FileInv
<1>6. CASE BuildChunk
  <2>1. DocInv' /\ LoopInv' /\ source' = source
    BY <1>6, BuildKeepsLoop DEF BuildChunk, FileInv
  <2> QED
    BY <1>0, <1>6, <2>1 DEF BuildChunk, storeVars, FileInv
<1>7. CASE UpsertChunks
  <2>1. \A c \in ToSet(listed') : SizeKnown(c)
    BY <1>7, UpsertedSizes DEF UpsertChunks, FileInv
  <2>2. \A c \in ToSet(listed') : SizeKnown(c)'
    BY <1>0, <2>1
  <2> QED
    BY <1>7, <2>2, ChunkingStays DEF UpsertChunks, FileInv
<1>8. CASE SkipPages
  BY <1>0, <1>8, ChunkingStays DEF SkipPages, FileInv
<1>9. CASE IndexPages
  BY <1>0, <1>9, ChunkingStays DEF IndexPages, FileInv
<1>10. CASE PagePassRaises
  BY <1>0, <1>10, ChunkingStays DEF PagePassRaises, FileInv
<1>11. CASE IngestFails
  BY <1>0, <1>11 DEF IngestFails, Reset, FileInv
<1>12. CASE DeleteDocument
  BY <1>a, <1>12, ChunkingStays DEF DeleteDocument, FileInv
<1> QED
  BY <1>1, <1>2, <1>3, <1>4, <1>5, <1>6, <1>7, <1>8, <1>9, <1>10, <1>11, <1>12 DEF StoresNext

\* A search reads the index and leaves it.
LEMMA SearchKeepsFile ==
  ASSUME FileInv, UNCHANGED <<chunkVars, storeVars>>
  PROVE  FileInv'
<1>1. \A c : SizeKnown(c) => SizeKnown(c)'
  BY DEF SizeKnown, LargestWindow
<1> QED
  BY <1>1, ChunkingStays DEF FileInv, storeVars

\* parsers/, chunker.py, chunking.py, indexer.py: no step of an
\* ingestion loses anything of the file, and what is indexed has the lengths of the windows.
THEOREM FileInvariant == Spec => []FileInv
<1>1. Init => FileInv
  BY DEF Init, ChunkInit, StoresInit, FileInv, ToSet
<1>2. FileInv /\ [Next]_vars => FileInv'
  BY StoresKeepFile, SearchKeepsFile DEF Next, Stores, SearchChunks, SearchPages, PackText, PackPage, vars
<1> QED
  BY <1>1, <1>2, PTL DEF Spec

-----------------------------------------------------------------------------
(* Nothing of a file is lost.                                              *)

\* When the loop has ended, everything it has passed is in the chunks.
LEMMA AllCovered ==
  ASSUME FileInv, row = "chunking", Chunked
  PROVE  \A e \in 1..Len(doc) :
           /\ doc[e].kind = Text => MarksOf(doc[e].text) \subseteq MarksIn(chunks)
           /\ doc[e].kind = Table => \E n \in 1..Len(chunks) : chunks[n].of = e
           /\ Docling /\ doc[e].kind = Table /\ Len(doc[e].rows) > RowThreshold => RangesIn(chunks, e)
<1>1. LoopInv /\ doc \in Seq(Elements)
  BY DEF FileInv, DocInv, Read, Made
<1>2. Len(doc) \in Nat
  BY <1>1
<1>3. next = Len(doc) + (IF Docling THEN 2 ELSE 1)
  BY DEF Chunked
<1>4. run = <<>>
  <2> SUFFICES ASSUME run # <<>> PROVE FALSE
    OBVIOUS
  <2>1. Docling /\ next \in 2..(Len(doc) + 1)
    BY <1>1 DEF LoopInv, Loop
  <2>2. next = Len(doc) + 2
    BY <1>3, <2>1
  <2> QED
    BY <1>2, <2>1, <2>2
<1>5. RunMarks(run) = {}
  <2>1. Len(run) = 0 /\ 1..0 = {}
    BY <1>4
  <2> QED
    BY <2>1 DEF RunMarks
<1>6. ASSUME NEW e \in 1..Len(doc) PROVE Covered(chunks, run, e)
  <2>1. e < next
    BY <1>2, <1>3
  <2> QED
    BY <1>1, <2>1 DEF LoopInv, Loop
<1> QED
  BY <1>5, <1>6 DEF Covered

\* Only the first line of an item can be a running one.
LEMMA RunningDecodes ==
  ASSUME IsFile(source), NEW i \in 1..Len(Items), NEW k \in 1..Len(Lines(i)), Running(Lines(i)[k])
  PROVE  k = 1 /\ Items[i].running
<1>1. PICK line \in Line : line = Lines(i)[k] /\ line # <<>>
  BY LinesAre
<1>2. PICK n \in Nat \ {0} : n = Len(line)
  BY <1>1 DEF Line
<1>3. 1 \in 1..Len(line)
  BY <1>2
<1>4. line[1] = Place(i, k, 1) /\ 1 \in 1..(MaxLine - 1) /\ k \in 1..(MaxLines - 1)
  BY <1>1, <1>3, LinesAre
<1>5. i \in Nat \ {0}
  BY ItemsAre
<1>6. ItemOf(line[1]) = i /\ LineOf(line[1]) = k
  BY <1>4, <1>5, PlaceDecodes
<1> QED
  BY <1>1, <1>6 DEF Running

\* The places of an item are those of its lines.
LEMMA PlacesAre ==
  ASSUME IsFile(source), NEW i \in 1..Len(Items), NEW p \in PlacesOf(i)
  PROVE  \E k \in 1..Len(Lines(i)) : p \in Marks(Lines(i)[k])
<1>1. PICK k \in 1..Len(Lines(i)) : p \in ToSet(Lines(i)[k])
  BY DEF PlacesOf
<1>2. PICK line \in Line : line = Lines(i)[k]
  BY LinesAre
<1>3. PICK c \in 1..Len(line) : p = line[c]
  BY <1>1, <1>2 DEF ToSet
<1>4. p = Place(i, k, c) /\ c \in 1..(MaxLine - 1) /\ k \in 1..(MaxLines - 1)
  BY <1>2, <1>3, LinesAre
<1>5. p # 0
  <2>1. i \in Nat \ {0}
    BY ItemsAre
  <2>2. Place(i, k, c) \in Nat \ {0}
    BY <1>4, <2>1, PlaceDecodes
  <2> QED
    BY <1>4, <2>2
<1> QED
  BY <1>1, <1>5 DEF Marks

\* What is in the texts of the chunks is in one of the chunks.
LEMMA MarksInChunks ==
  ASSUME NEW p \in MarksIn(chunks)
  PROVE  p \in UNION {PlacesIn(c) : c \in Chunks}
<1>1. PICK n \in 1..Len(chunks) : p \in Marks(chunks[n].text)
  BY DEF MarksIn
<1>2. chunks[n] \in Chunks /\ p \in PlacesIn(chunks[n])
  BY <1>1 DEF Chunks, PlacesIn, Marks
<1> QED
  BY <1>2

\* chunker.py, chunking.py: no character of a text is lost but those of a repeated line.
LEMMA NoTextLost ==
  ASSUME FileInv, row = "chunking", Chunked, NEW i \in Is(Text)
  PROVE  {p \in PlacesOf(i) : ~(Items[i].running /\ LineOf(p) = 1)} \subseteq UNION {PlacesIn(c) : c \in Chunks}
<1> SUFFICES ASSUME NEW p \in PlacesOf(i), ~(Items[i].running /\ LineOf(p) = 1)
             PROVE  p \in UNION {PlacesIn(c) : c \in Chunks}
  OBVIOUS
<1>1. IsFile(source) /\ i \in 1..Len(Items) /\ Items[i].kind = Text
  BY ChunkerAssumption DEF FileInv, Is
<1>2. PICK k \in 1..Len(Lines(i)) : p \in Marks(Lines(i)[k])
  BY <1>1, PlacesAre
<1>3. LineOf(p) = k
  BY <1>1, <1>2, LinesDecode
<1>4. ~Running(Lines(i)[k])
  BY <1>1, <1>3, RunningDecodes
<1>5. Reads(doc, i)
  BY <1>1 DEF FileInv, DocInv, Read
<1>6. PICK e \in 1..Len(doc) : HasLine(doc[e], Lines(i)[k])
  BY <1>1, <1>4, <1>5 DEF Reads
<1>7. doc[e].kind = Text /\ p \in MarksOf(doc[e].text)
  BY <1>2, <1>6 DEF HasLine, MarksOf
<1>8. p \in MarksIn(chunks)
  BY <1>7, AllCovered
<1> QED
  BY <1>8, MarksInChunks

\* In the Docling path an element is one item and an item is one element.
LEMMA OneElement ==
  ASSUME DocInv, Docling, NEW e \in 1..Len(doc), NEW f \in 1..Len(doc), doc[e].item = doc[f].item
  PROVE  e = f
<1>1. \A g, h \in 1..Len(doc) : g < h => doc[g].item < doc[h].item
  BY DEF DocInv, DoclingDoc
<1>2. doc \in Seq(Elements)
  BY DEF DocInv, Read, Made
<1>3. doc[e] \in Elements /\ doc[f] \in Elements
  BY <1>2
<1>4. doc[e].item \in Int /\ doc[f].item \in Int
  BY <1>3, ElementsAre
<1>5. ~(e < f) /\ ~(f < e)
  BY <1>1, <1>4
<1> QED
  BY <1>5

\* The ranges of an element are those of the table it is.
LEMMA RangesAreRows ==
  ASSUME NEW cs, NEW e, NEW i, RangesIn(cs, e), Len(cs) \in Nat, Len(doc[e].rows) = Len(Items[i].lengths),
         \A n \in 1..Len(cs) : doc[cs[n].of].item = i <=> cs[n].of = e
  PROVE  RowsOf(cs, i)
<1>1. PICK a \in 1..Len(cs), b \in 1..Len(cs) :
      /\ a <= b /\ cs[a].rows[1] = 1 /\ cs[b].rows[2] = Len(doc[e].rows)
      /\ \A n \in 1..Len(cs) : cs[n].of = e /\ cs[n].rows[1] > 0 <=> n \in a..b
      /\ \A n \in a..b : (n > a => cs[n].rows[1] = cs[n - 1].rows[2] + 1) /\ cs[n].rows[1] <= cs[n].rows[2]
  BY DEF RangesIn
<1>2. \A n \in a..b : n \in 1..Len(cs)
  OBVIOUS
<1>3. {n \in 1..Len(cs) : doc[cs[n].of].item = i /\ cs[n].rows[1] > 0} = a..b
  BY <1>1, <1>2
<1> QED
  BY <1>1, <1>3 DEF RowsOf

\* chunker.py, chunking.py: a table with rows has a chunk, and a long one its rows in ranges.
LEMMA NoTableLost ==
  ASSUME FileInv, row = "chunking", Chunked, NEW i \in Is(Table), Items[i].lengths # <<>>
  PROVE  /\ \E c \in Chunks : doc[c.of].item = i
         /\ Docling /\ Len(Items[i].lengths) > RowThreshold => RowsOf(chunks, i)
<1>1. IsFile(source) /\ i \in 1..Len(Items) /\ Items[i].kind = Table
  BY ChunkerAssumption DEF FileInv, Is
<1>2. Reads(doc, i)
  BY <1>1 DEF FileInv, DocInv, Read
<1>3. PICK e \in 1..Len(doc) : IsTable(doc[e], i)
  BY <1>1, <1>2 DEF Reads
<1>4. doc[e].kind = Table /\ doc[e].item = i
  BY <1>3 DEF IsTable
<1>5. PICK n \in 1..Len(chunks) : chunks[n].of = e
  BY <1>4, AllCovered
<1>6. chunks[n] \in Chunks /\ doc[chunks[n].of].item = i
  BY <1>4, <1>5 DEF Chunks
<1>7. ASSUME Docling, Len(Items[i].lengths) > RowThreshold PROVE RowsOf(chunks, i)
  <2>1. DocInv /\ LoopInv
    BY DEF FileInv
  <2>2. OfItem(doc[e])
    BY <1>7, <2>1 DEF DocInv, DoclingDoc
  <2>3. doc[e].rows = Items[i].lengths
    BY <1>4, <2>2 DEF OfItem
  <2>4. RangesIn(chunks, e)
    BY <1>4, <1>7, <2>3, AllCovered
  <2>5. ASSUME NEW m \in 1..Len(chunks) PROVE doc[chunks[m].of].item = i <=> chunks[m].of = e
    <3>1. Sound(chunks[m])
      BY <2>1 DEF LoopInv, Loop
    <3>2. chunks[m].of \in 1..Len(doc)
      BY <3>1 DEF Sound
    <3> QED
      BY <1>4, <1>7, <2>1, <3>2, OneElement
  <2>6. Len(chunks) \in Nat
    <3>1. chunks \in Seq(ChunkRecs)
      BY <2>1 DEF LoopInv, Loop
    <3> QED
      BY <3>1
  <2> QED
    BY <2>3, <2>4, <2>5, <2>6, RangesAreRows
<1> QED
  BY <1>6, <1>7

\* chunker.py, chunking.py: for every file whatever its type, no text but that of a repeated line
\* and no table with rows is missing from the chunks.
THEOREM FileIsKept == Spec => []NothingLost
<1>1. FileInv => NothingLost
  <2> SUFFICES ASSUME FileInv, row = "chunking", Chunked
               PROVE  /\ \A i \in Is(Text) :
                           {p \in PlacesOf(i) : ~(Items[i].running /\ LineOf(p) = 1)}
                               \subseteq UNION {PlacesIn(c) : c \in Chunks}
                      /\ \A i \in Is(Table) : Items[i].lengths # <<>> =>
                           /\ \E c \in Chunks : doc[c.of].item = i
                           /\ Docling /\ Len(Items[i].lengths) > RowThreshold => RowsOf(chunks, i)
    BY DEF NothingLost, RowsOf
  <2> QED
    BY NoTextLost, NoTableLost
<1> QED
  BY <1>1, FileInvariant, PTL

-----------------------------------------------------------------------------
(* A chunk stands under its title, on its page, behind its line.           *)

\* A line of an element is one of an item.
LEMMA LineDecodes ==
  ASSUME IsFile(source), NEW i \in 1..Len(Items), NEW k \in 1..Len(Lines(i)), NEW line, line = Lines(i)[k],
         NEW p \in Marks(line)
  PROVE  ItemOf(p) = i
BY LinesDecode

\* A mark of a run is one of one of its elements.
LEMMA RunMarkIs ==
  ASSUME NEW els, NEW p \in RunMarks(els)
  PROVE  \E j \in 1..Len(els) : \E n \in 1..Len(doc[els[j]].text) : p \in Marks(doc[els[j]].text[n])
BY DEF RunMarks, MarksOf

\* parsers/: a text of a Markdown or Word file stands under the title above it.
LEMMA WindowsUnder ==
  ASSUME IsFile(source), DocInv, NEW c, Sound(c), source.type \in {"md", "docx"}, NEW i \in From(c.text)
  PROVE  TitleAbove(i) = c.section
<1>1. PICK p \in Marks(c.text) : i = ItemOf(p)
  BY DEF From
<1>2. CASE c.kind # Text
  <2>1. c.text = <<>>
    BY <1>2 DEF Sound, Shows
  <2>2. Marks(c.text) = {}
    BY <2>1 DEF Marks, ToSet
  <2> QED
    BY <2>2
<1>3. CASE c.kind = Text
  <2>1. PICK els : RunOf(els) /\ Window(c, els)
    BY <1>3 DEF Sound
  <2>2. p \in RunMarks(els) /\ c.section = doc[els[1]].section
    BY <2>1 DEF Window
  <2>3. PICK j \in 1..Len(els) : \E n \in 1..Len(doc[els[j]].text) : p \in Marks(doc[els[j]].text[n])
    BY <2>2, RunMarkIs
  <2>4. els[j] \in 1..Len(doc) /\ doc[els[j]].kind = Text /\ doc[els[j]].section = doc[els[1]].section
    BY <2>1 DEF RunOf
  <2>5. FromFile(doc[els[j]])
    BY <2>4 DEF DocInv, Read, Made
  <2>6. PICK n \in 1..Len(doc[els[j]].text) : p \in Marks(doc[els[j]].text[n])
    BY <2>3
  <2>7. PICK h \in Readable : \E k \in 1..Len(Lines(h)) :
                            doc[els[j]].text[n] = Lines(h)[k] /\ Under(h, doc[els[j]].section)
    BY <2>4, <2>5, <2>6 DEF FromFile
  <2>8. h \in 1..Len(Items)
    BY DEF Readable, Is
  <2>9. ItemOf(p) = h
    BY <2>6, <2>7, <2>8, LineDecodes
  <2>10. TitleAbove(h) = doc[els[j]].section
    BY <2>7 DEF Under
  <2> QED
    BY <1>1, <2>2, <2>4, <2>9, <2>10
<1> QED
  BY <1>2, <1>3

\* The items of the elements of a run, with nothing but them in between.
LEMMA RunTogether ==
  ASSUME DocInv, Docling, NEW els, RunOf(els), NEW is, is \subseteq {doc[els[j]].item : j \in 1..Len(els)}
  PROVE  Together(is, doc[els[1]].section)
<1> SUFFICES ASSUME NEW i \in is, NEW j \in is, NEW h \in i..j, Usable(h)
             PROVE  Items[h].kind = Text /\ TitleAbove(h) = doc[els[1]].section
  BY DEF Together
<1>1. PICK x \in 1..Len(els) : i = doc[els[x]].item
  OBVIOUS
<1>2. PICK y \in 1..Len(els) : j = doc[els[y]].item
  OBVIOUS
<1>3. PICK D \in Nat, N \in Nat : D = Len(doc) /\ N = Len(els)
  BY DEF DocInv, Read, Made, RunOf
<1>4. \A e \in 1..D : doc[e].item \in 1..Len(Items) /\ OfItem(doc[e])
  BY <1>3, ElementsAre DEF DocInv, DoclingDoc, Read, Made
<1>5. \A z \in 1..N : els[z] \in 1..D /\ els[z] = els[1] + z - 1 /\ doc[els[z]].kind = Text
                        /\ doc[els[z]].section = doc[els[1]].section
  <2>1. \A z \in 1..N : els[z] = els[1] + z - 1 /\ doc[els[z]].kind = Text
                        /\ doc[els[z]].section = doc[els[1]].section
    BY <1>3 DEF RunOf
  <2>2. els \in Seq(1..D)
    BY <1>3 DEF RunOf
  <2>3. \A z \in 1..N : els[z] \in 1..D
    BY <1>3, <2>2
  <2> QED
    BY <2>1, <2>3
<1>6. h \in 1..Len(Items) /\ i \in Nat /\ j \in Nat /\ h \in Nat
  <2>1. i \in 1..Len(Items) /\ j \in 1..Len(Items)
    BY <1>1, <1>2, <1>3, <1>4, <1>5
  <2> QED
    BY <2>1
<1>7. PICK e \in 1..D : doc[e].item = h
  BY <1>3, <1>6 DEF DocInv, DoclingDoc
<1>8. \A f, g \in 1..D : f < g => doc[f].item < doc[g].item
  BY <1>3 DEF DocInv, DoclingDoc
<1>9. PICK a \in 1..D, b \in 1..D : a = els[x] /\ b = els[y]
  BY <1>3, <1>5
<1>10. doc[a].item <= doc[e].item /\ doc[e].item <= doc[b].item
  <2>1. doc[a].item = i /\ doc[e].item = h /\ doc[b].item = j
    BY <1>1, <1>2, <1>7, <1>9
  <2>2. i <= h /\ h <= j
    BY <1>6
  <2> QED
    BY <2>1, <2>2
<1>11. a <= e /\ e <= b
  <2>0. ASSUME NEW d \in 1..D PROVE doc[d].item \in Nat
    <3>1. doc[d].item \in 1..Len(Items)
      BY <1>4
    <3> QED
      BY <3>1
  <2>1. doc[a].item \in Nat /\ doc[b].item \in Nat /\ doc[e].item \in Nat
    BY <2>0
  <2>2. ASSUME e < a PROVE FALSE
    <3>1. doc[e].item < doc[a].item
      BY <1>8, <2>2
    <3> QED
      BY <1>10, <2>1, <3>1
  <2>3. ASSUME b < e PROVE FALSE
    <3>1. doc[b].item < doc[e].item
      BY <1>8, <2>3
    <3> QED
      BY <1>10, <2>1, <3>1
  <2> QED
    BY <2>2, <2>3
<1>12. PICK z \in 1..N : els[z] = e
  <2>0. x \in 1..N /\ 1 \in 1..N
    BY <1>1, <1>3
  <2>1. PICK first \in 1..D : first = els[1]
    BY <1>5, <2>0
  <2>2. a = first + x - 1 /\ b = first + y - 1 /\ x \in 1..N /\ y \in 1..N
    BY <1>3, <1>5, <1>9, <2>1
  <2>3. PICK z \in Int : z = e - first + 1
    OBVIOUS
  <2>4. z \in 1..N /\ first + z - 1 = e
    BY <1>11, <2>2, <2>3
  <2> QED
    BY <1>5, <2>1, <2>4
<1>13. doc[e].kind = Text /\ doc[e].section = doc[els[1]].section
  BY <1>5, <1>12
<1>14. OfItem(doc[e])
  BY <1>4
<1> QED
  BY <1>7, <1>13, <1>14 DEF OfItem

\* chunker.py: a window stands under the title above all of its text, with no table or figure in
\* between, and on the page of one of its elements.
LEMMA WindowsTogether ==
  ASSUME IsFile(source), DocInv, Docling, NEW c, Sound(c), c.kind = Text
  PROVE  \E i \in Is(Text) : Items[i].page = c.page /\ Together(From(c.text) \cup {i}, c.section)
<1>1. PICK els : RunOf(els) /\ Window(c, els)
  BY DEF Sound
<1>2. PICK j \in 1..Len(els) : c.page = doc[els[j]].page
  BY <1>1 DEF Window
<1>3. \A z \in 1..Len(els) : els[z] \in 1..Len(doc) /\ doc[els[z]].kind = Text
  BY <1>1 DEF RunOf
<1>4. \A z \in 1..Len(els) : OfItem(doc[els[z]])
  BY <1>3 DEF DocInv, DoclingDoc
<1>5. PICK i : i = doc[els[j]].item
  OBVIOUS
<1>6. i \in Is(Text) /\ Items[i].page = c.page
  BY <1>2, <1>3, <1>4, <1>5 DEF OfItem, Is
<1>7. ASSUME NEW h \in From(c.text) PROVE h \in {doc[els[z]].item : z \in 1..Len(els)}
  <2>1. PICK p \in Marks(c.text) : h = ItemOf(p)
    BY DEF From
  <2>2. p \in RunMarks(els)
    BY <1>1, <2>1 DEF Window
  <2>3. PICK z \in 1..Len(els) : \E n \in 1..Len(doc[els[z]].text) : p \in Marks(doc[els[z]].text[n])
    BY <2>2, RunMarkIs
  <2>4. PICK n \in 1..Len(doc[els[z]].text) : p \in Marks(doc[els[z]].text[n])
    BY <2>3
  <2>5. PICK f \in 1..Len(Items) : f = doc[els[z]].item /\ \E k \in 1..Len(Lines(f)) : doc[els[z]].text[n] = Lines(f)[k]
    BY <1>3, <1>4, <2>4 DEF OfItem
  <2>6. ItemOf(p) = f
    BY <2>4, <2>5, LineDecodes
  <2> QED
    BY <2>1, <2>5, <2>6
<1>8. PICK is : is = From(c.text) \cup {i}
  OBVIOUS
<1>9. is \subseteq {doc[els[z]].item : z \in 1..Len(els)}
  BY <1>5, <1>7, <1>8
<1>10. Together(is, doc[els[1]].section)
  BY <1>1, <1>9, RunTogether
<1>11. c.section = doc[els[1]].section
  BY <1>1 DEF Window
<1> QED
  BY <1>6, <1>8, <1>10, <1>11

\* chunker.py: a sound chunk is one that SectionsKept allows.
LEMMA SoundIsKept ==
  ASSUME IsFile(source), DocInv, NEW c, Sound(c)
  PROVE  ChunkKept(c)
<1>1. ASSUME Docling, c.kind # Text PROVE c.section = TitleAbove(doc[c.of].item)
  <2>1. c.of \in 1..Len(doc) /\ c.section = doc[c.of].section
    BY <1>1 DEF Sound, Shows
  <2>2. OfItem(doc[c.of])
    BY <1>1, <2>1 DEF DocInv, DoclingDoc
  <2> QED
    BY <2>1, <2>2 DEF OfItem
<1>2. c.hint # 0 => c.hint = c.of - 1 /\ doc[c.hint].kind = Text
  BY DEF Sound
<1> QED
  BY <1>1, <1>2, WindowsUnder, WindowsTogether DEF ChunkKept

-----------------------------------------------------------------------------
(* The order of the windows: the first place of a window is at most all    *)
(* of what follows it.                                                     *)

\* With less to come it still is.
LEMMA PivotLess ==
  ASSUME NEW s, NEW j, NEW M, NEW N, Pivot(s, j, M), N \subseteq M
  PROVE  Pivot(s, j, N)
BY DEF Pivot

\* The first place of a line is at most any of its places.
LEMMA FirstPivot ==
  ASSUME NEW s \in Line, NEW M, Pivot(s, 1, M), NEW p \in Marks(s) \cup M
  PROVE  s[1] <= p
<1>1. CASE p \in M
  BY <1>1 DEF Pivot
<1>2. CASE p \in Marks(s)
  <2>1. PICK k \in 1..Len(s) : s[k] = p /\ p # 0
    BY <1>2, MarksAre
  <2> QED
    BY <2>1 DEF Pivot
<1> QED
  BY <1>1, <1>2

\* A separator is before everything.
LEMMA ZeroPivots ==
  ASSUME NEW s \in Line, NEW j \in 1..Len(s), s[j] = 0, NEW M \in SUBSET Nat
  PROVE  Pivot(s, j, M)
<1>1. Len(s) \in Nat /\ \A i \in 1..Len(s) : s[i] \in Nat
  BY DEF Line
<1>2. \A i \in j..Len(s) : i \in 1..Len(s)
  BY <1>1
<1>3. \A p \in M : 0 <= p
  OBVIOUS
<1> QED
  BY <1>1, <1>2, <1>3 DEF Pivot

\* A place before the gap.
LEMMA GluedPivotsBefore ==
  ASSUME NEW w, NEW a \in Line, NEW b \in Line, NEW gap \in Nat, Glued(w, a, b, gap),
         NEW j \in 1..Len(a), NEW M \in SUBSET Nat, Pivot(a, j, Marks(b) \cup M)
  PROVE  j \in 1..Len(w) /\ Pivot(w, j, M)
<1>1. PICK x \in Nat, y \in Nat : x = Len(a) /\ y = Len(b) /\ Len(w) = x + gap + y /\ w \in Line
  BY DEF Line, Glued
<1>2. j \in 1..(x + gap + y) /\ j \in 1..x
  BY <1>1
<1>3. w[j] = a[j] /\ a[j] \in Nat
  BY <1>1, <1>2 DEF Glued, Line
<1>4. ASSUME NEW i \in j..(x + gap + y), w[i] # 0 PROVE w[j] <= w[i]
  <2>0. i \in 1..Len(w)
    BY <1>1, <1>2
  <2>1. CASE i \in 1..Len(a) /\ w[i] = a[i]
    <3>1. i \in j..Len(a)
      BY <1>4, <1>1, <1>2, <2>1
    <3> QED
      BY <1>3, <1>4, <2>1, <3>1 DEF Pivot
  <2>2. CASE \E k \in 1..Len(b) : i = Len(a) + gap + k /\ w[i] = b[k]
    <3>1. PICK k \in 1..Len(b) : w[i] = b[k]
      BY <2>2
    <3>2. b[k] \in Marks(b)
      BY <1>4, <3>1, MarksAre
    <3> QED
      BY <1>3, <3>1, <3>2 DEF Pivot
  <2> QED
    BY <1>4, <2>0, <2>1, <2>2, GluedPlaces
<1> QED
  BY <1>1, <1>2, <1>3, <1>4 DEF Pivot

\* A place behind the gap.
LEMMA GluedPivotsBehind ==
  ASSUME NEW w, NEW a \in Line, NEW b \in Line, NEW gap \in Nat, Glued(w, a, b, gap),
         NEW j \in 1..Len(b), NEW M \in SUBSET Nat, Pivot(b, j, M)
  PROVE  Len(a) + gap + j \in 1..Len(w) /\ Pivot(w, Len(a) + gap + j, M)
<1>1. PICK x \in Nat, y \in Nat : x = Len(a) /\ y = Len(b) /\ Len(w) = x + gap + y /\ w \in Line
  BY DEF Line, Glued
<1>2. PICK h \in Nat : h = x + gap + j /\ h \in 1..(x + gap + y) /\ j \in 1..y
  BY <1>1
<1>3. w[h] = b[j]
  BY <1>1, <1>2 DEF Glued
<1>4. ASSUME NEW i \in h..(x + gap + y), w[i] # 0 PROVE w[h] <= w[i]
  <2>1. PICK k \in Nat : k = i - (x + gap) /\ k \in j..y /\ k \in 1..y /\ i = x + gap + k
    BY <1>2
  <2>2. w[i] = b[k]
    BY <1>1, <2>1 DEF Glued
  <2> QED
    BY <1>1, <1>3, <1>4, <2>1, <2>2 DEF Pivot
<1> QED
  BY <1>1, <1>2, <1>3, <1>4 DEF Pivot

\* A place of the tail is one of the last places of the text.
LEMMA TailPivots ==
  ASSUME NEW s \in Line, NEW n \in Nat, NEW M, NEW t, t = LastChars(s, n), NEW j \in 1..Len(t),
         Pivot(s, Len(s) - Len(t) + j, M)
  PROVE  Pivot(t, j, M)
<1>1. t \in Line /\ Len(t) = (IF n <= Len(s) THEN n ELSE Len(s)) /\ \A i \in 1..Len(t) : t[i] = s[Len(s) - Len(t) + i]
  BY LastCharsSlice
<1>2. PICK x \in Nat, y \in Nat : x = Len(s) /\ y = Len(t) /\ y <= x
  BY <1>1 DEF Line
<1>3. PICK d \in Nat : d = x - y
  BY <1>2
<1>4. \A i \in 1..y : t[i] = s[d + i]
  BY <1>1, <1>2, <1>3
<1>5. ASSUME NEW i \in j..y, t[i] # 0 PROVE t[j] <= t[i]
  <2>1. d + i \in (d + j)..x /\ i \in 1..y /\ j \in 1..y
    BY <1>2, <1>3
  <2>2. t[i] = s[d + i] /\ t[j] = s[d + j]
    BY <1>4, <2>1
  <2> QED
    BY <1>2, <1>3, <1>5, <2>1, <2>2 DEF Pivot
<1>6. \A p \in M : t[j] <= p
  <2>1. t[j] = s[d + j]
    BY <1>2, <1>4
  <2> QED
    BY <1>2, <1>3, <2>1 DEF Pivot
<1> QED
  BY <1>2, <1>5, <1>6 DEF Pivot

\* What comes behind the n-th is the next line and what comes behind that.
LEMMA AheadIs ==
  ASSUME NEW lines \in Seq(Line), NEW n \in 0..Len(lines)
  PROVE  /\ Ahead(lines, n) \subseteq Nat
         /\ n + 1 <= Len(lines) => Ahead(lines, n) = Marks(lines[n + 1]) \cup Ahead(lines, n + 1)
         /\ Ahead(lines, Len(lines)) = {}
<1>1. PICK N \in Nat : N = Len(lines)
  OBVIOUS
<1>2. \A m \in (n + 1)..N : m \in 1..N /\ lines[m] \in Line
  BY <1>1
<1>3. Ahead(lines, n) \subseteq Nat
  BY <1>1, <1>2, MarksAre DEF Ahead
<1>4. ASSUME n + 1 <= N PROVE Ahead(lines, n) = Marks(lines[n + 1]) \cup Ahead(lines, n + 1)
  <2>1. n + 1 \in (n + 1)..N /\ \A m \in (n + 1)..N : m = n + 1 \/ m \in ((n + 1) + 1)..N
    BY <1>1, <1>4
  <2>2. \A m \in ((n + 1) + 1)..N : m \in (n + 1)..N
    OBVIOUS
  <2> QED
    BY <1>1, <2>1, <2>2 DEF Ahead
<1>5. (N + 1)..N = {}
  BY <1>1
<1> QED
  BY <1>1, <1>3, <1>4, <1>5 DEF Ahead

\* Each window starts a step behind the one before it.
LEMMA StartsGrow ==
  ASSUME NEW ws, NEW start, NEW text, NEW size, NEW step \in Nat, NEW rest, Windowed(ws, start, text, size, step, rest)
  PROVE  \A b \in 1..Len(ws) : \A a \in 1..(b - 1) : start[a] + step <= start[b]
<1>1. PICK M \in Nat \ {0} : M = Len(ws)
  BY DEF Windowed
<1>2. start \in [1..M -> Nat] /\ \A i \in 1..(M - 1) : start[i + 1] = start[i] + step
  BY <1>1 DEF Windowed
<1> DEFINE T == {n \in 0..(M - 1) : \A a \in 1..n : start[a] + step <= start[n + 1]}
<1>3. 0 \in T
  OBVIOUS
<1>4. \A n \in 0..((M - 1) - 1) : n \in T => n + 1 \in T
  <2> SUFFICES ASSUME NEW n \in 0..((M - 1) - 1), n \in T PROVE n + 1 \in T
    OBVIOUS
  <2>1. n + 1 \in 1..(M - 1) /\ n + 1 \in 0..(M - 1) /\ (n + 1) + 1 \in 1..M /\ n + 1 \in 1..M
    OBVIOUS
  <2>2. PICK u \in Nat : u = start[n + 1]
    BY <1>2, <2>1
  <2>3. start[(n + 1) + 1] = u + step
    BY <1>2, <2>1, <2>2
  <2>4. ASSUME NEW a \in 1..(n + 1) PROVE start[a] + step <= start[(n + 1) + 1]
    <3>1. CASE a = n + 1
      BY <2>2, <2>3, <3>1
    <3>2. CASE a # n + 1
      <4>1. a \in 1..n /\ a \in 1..M
        BY <2>1, <3>2
      <4>2. start[a] + step <= u /\ start[a] \in Nat
        BY <1>2, <2>2, <4>1
      <4> QED
        BY <2>3, <4>2
    <3> QED
      BY <3>1, <3>2
  <2> QED
    BY <2>1, <2>4
<1> HIDE DEF T
<1>5. \A n \in 0..(M - 1) : n \in T
  BY <1>3, <1>4, Climb
<1>6. ASSUME NEW b \in 1..M, NEW a \in 1..(b - 1) PROVE start[a] + step <= start[b]
  <2>1. b - 1 \in 0..(M - 1) /\ (b - 1) + 1 = b
    OBVIOUS
  <2> QED
    BY <1>5, <2>1 DEF T
<1> QED
  BY <1>1, <1>6

\* A window is a slice of the text.
LEMMA WindowIsSlice ==
  ASSUME NEW text \in Line, NEW size \in Nat \ {0}, NEW step \in 1..size, NEW rest \in Nat, rest >= size,
         NEW ws, NEW start, Windowed(ws, start, text, size, step, rest), NEW i \in 1..Len(ws)
  PROVE  /\ ws[i] \in Line /\ start[i] \in Nat
         /\ \A k \in 1..Len(ws[i]) : start[i] + k \in 1..Len(text) /\ ws[i][k] = text[start[i] + k]
         /\ i < Len(ws) => Len(ws[i]) = size
         /\ i = Len(ws) => Len(ws[i]) = Len(text) - start[i]
         /\ start[i] # 0 => Len(ws[i]) > rest - step \/ Len(ws[i]) = size
<1>1. PICK M \in Nat \ {0}, N \in Nat : M = Len(ws) /\ N = Len(text)
  BY DEF Windowed, Line
<1>2. ws \in Seq(Line) /\ start \in [1..M -> Nat] /\ start[1] = 0
  BY <1>1 DEF Windowed
<1>3. PICK u \in Nat : u = start[i]
  BY <1>1, <1>2
<1>4. PICK w \in Line : w = ws[i]
  BY <1>2
<1>5. CASE i # M
  <2>1. i \in 1..(M - 1)
    BY <1>1, <1>5
  <2>2. IsSlice(w, text, u + 1, u + size) /\ u + size <= N
    BY <1>1, <1>3, <1>4, <2>1 DEF Windowed
  <2>3. Len(w) = size /\ \A k \in 1..Len(w) : w[k] = text[(u + 1) + k - 1]
    BY <2>2 DEF IsSlice
  <2>4. \A k \in 1..size : (u + 1) + k - 1 = u + k /\ u + k \in 1..N
    BY <2>2
  <2> QED
    BY <1>1, <1>3, <1>4, <1>5, <2>3, <2>4
<1>6. CASE i = M
  <2>1. IsSlice(w, text, u + 1, N) /\ u <= N /\ (M > 1 => N - u > rest - step)
    BY <1>1, <1>3, <1>4, <1>6 DEF Windowed
  <2>2. Len(w) = N - u /\ \A k \in 1..Len(w) : w[k] = text[(u + 1) + k - 1]
    BY <2>1 DEF IsSlice
  <2>3. \A k \in 1..(N - u) : (u + 1) + k - 1 = u + k /\ u + k \in 1..N
    BY <2>1
  <2>4. u # 0 => M > 1
    BY <1>2, <1>3, <1>6
  <2> QED
    BY <1>1, <1>3, <1>4, <1>6, <2>1, <2>2, <2>3, <2>4
<1> QED
  BY <1>5, <1>6

\* In the windows of a text in order, the places up to the start of the next window come before all
\* that follows, and in the last window all do.
LEMMA WindowsPivot ==
  ASSUME NEW text \in Line, NEW size \in Nat \ {0}, NEW step \in 1..size, NEW rest \in Nat, rest >= size,
         NEW ws, NEW start, Windowed(ws, start, text, size, step, rest),
         Ascends(text), NEW M \in SUBSET Nat, \A p \in Marks(text) : \A q \in M : p <= q,
         NEW a \in 1..Len(ws), NEW j \in 1..Len(ws[a]), a = Len(ws) \/ j <= step + 1
  PROVE  Pivot(ws[a], j, Ahead(ws, a) \cup M)
<1>1. PICK L \in Nat \ {0}, N \in Nat : L = Len(ws) /\ N = Len(text) /\ ws \in Seq(Line)
  BY DEF Windowed, Line
<1>2. PICK u \in Nat : u = start[a]
  BY WindowIsSlice
<1>3. PICK w \in Line : w = ws[a]
  BY <1>1
<1>4. \A k \in 1..Len(w) : u + k \in 1..N /\ w[k] = text[u + k]
  BY <1>1, <1>2, <1>3, WindowIsSlice
<1>5. PICK x \in Nat : x = w[j] /\ x = text[u + j] /\ u + j \in 1..N /\ j \in Nat
  <2>1. u + j \in 1..N /\ w[j] = text[u + j] /\ j \in 1..Len(w)
    BY <1>3, <1>4
  <2>2. PICK h \in 1..Len(text) : h = u + j
    BY <1>1, <2>1
  <2>3. text[h] \in Nat
    BY DEF Line
  <2> QED
    BY <2>1, <2>2, <2>3
<1>6. Ascends(w)
  BY <1>1, <1>3, WindowsKeep
<1>7. ASSUME NEW q \in Ahead(ws, a) PROVE x <= q
  <2>1. PICK b \in (a + 1)..L : q \in Marks(ws[b])
    BY <1>1 DEF Ahead
  <2>2. b \in 1..L /\ a \in 1..(b - 1) /\ a # L
    BY <1>1
  <2>3. PICK v \in Nat : v = start[b] /\ u + step <= v
    <3>1. \A c \in 1..Len(ws) : \A d \in 1..(c - 1) : start[d] + step <= start[c]
      <4>1. step \in Nat
        OBVIOUS
      <4> QED
        BY <4>1, StartsGrow
    <3>2. start[b] \in Nat
      BY <1>1, <2>2, WindowIsSlice
    <3> QED
      BY <1>1, <1>2, <2>2, <3>1, <3>2
  <2>4. PICK k \in 1..Len(ws[b]) : ws[b][k] = q /\ q # 0
    <3>1. ws[b] \in Line
      BY <1>1, <2>2
    <3> QED
      BY <2>1, <3>1, MarksAre
  <2>5. v + k \in 1..N /\ text[v + k] = q
    <3>0. b \in 1..Len(ws)
      BY <1>1, <2>2
    <3>1. \A h \in 1..Len(ws[b]) : start[b] + h \in 1..Len(text) /\ ws[b][h] = text[start[b] + h]
      BY <3>0, WindowIsSlice
    <3> QED
      BY <1>1, <2>3, <2>4, <3>1
  <2>6. u + j \in 1..(v + k)
    <3>1. j \in Nat /\ k \in Nat /\ k > 0
      BY <1>5, <2>4
    <3>2. j <= step + 1
      BY <1>1, <2>2
    <3>3. u + step <= v
      BY <2>3
    <3> QED
      BY <3>1, <3>2, <3>3
  <2> QED
    BY <1>1, <1>5, <2>4, <2>5, <2>6 DEF Ascends
<1>8. ASSUME NEW q \in M PROVE x <= q
  <2>1. CASE x = 0
    BY <2>1
  <2>2. CASE x # 0
    <3>1. x \in Marks(text)
      BY <1>1, <1>5, <2>2, MarksAre
    <3> QED
      BY <3>1
  <2> QED
    BY <2>1, <2>2
<1>9. ASSUME NEW i \in j..Len(w), w[i] # 0 PROVE x <= w[i]
  <2>1. i \in 1..Len(w) /\ j \in 1..i
    BY <1>3
  <2> QED
    BY <1>5, <1>6, <1>9, <2>1 DEF Ascends
<1> QED
  BY <1>3, <1>5, <1>7, <1>8, <1>9 DEF Pivot

\* A sequence with one more, and with another last.
LEMMA AppendIs ==
  ASSUME NEW S, NEW s \in Seq(S), NEW e \in S, NEW n \in Nat, n = Len(s)
  PROVE  /\ Append(s, e) \in Seq(S) /\ Len(Append(s, e)) = n + 1 /\ Append(s, e)[n + 1] = e
         /\ \A k \in 1..n : Append(s, e)[k] = s[k]
OBVIOUS

\* A sequence with another last element.
LEMMA ReplaceIs ==
  ASSUME NEW S, NEW s \in Seq(S), NEW e \in S, NEW n \in Nat \ {0}, n = Len(s)
  PROVE  /\ [s EXCEPT ![n] = e] \in Seq(S) /\ Len([s EXCEPT ![n] = e]) = n /\ [s EXCEPT ![n] = e][n] = e
         /\ \A k \in 1..(n - 1) : [s EXCEPT ![n] = e][k] = s[k]
OBVIOUS

\* Nothing comes behind the last.
LEMMA NoneAhead ==
  ASSUME NEW lines, NEW n \in Nat, n = Len(lines)
  PROVE  Ahead(lines, n) = {}
<1>1. (n + 1)..n = {}
  OBVIOUS
<1> QED
  BY <1>1 DEF Ahead

\* With less to come they still do.
LEMMA PrecedesLess ==
  ASSUME NEW lines, NEW M, NEW N, Precedes(lines, M), N \subseteq M
  PROVE  Precedes(lines, N)
BY DEF Precedes, Pivot

\* A line that is not empty has a first place.
LEMMA HasFirst ==
  ASSUME NEW s \in Line
  PROVE  (s # <<>> <=> Len(s) > 0) /\ (s # <<>> => 1 \in 1..Len(s) /\ s[1] \in Nat) /\ Len(s) \in Nat
BY DEF Line

\* The line that was collected goes behind those that are done.
LEMMA PrecedesAppend ==
  ASSUME NEW lines \in Seq(Line), NEW b \in Line, NEW M \in SUBSET Nat, Precedes(lines, Marks(b) \cup M),
         b # <<>>, Pivot(b, 1, M)
  PROVE  Precedes(Append(lines, b), Marks(b) \cup M)
<1>1. PICK n \in Nat : n = Len(lines)
  OBVIOUS
<1>2. PICK new : new = Append(lines, b)
  OBVIOUS
<1>3. Len(new) = n + 1 /\ new[n + 1] = b /\ \A k \in 1..n : new[k] = lines[k]
  BY <1>1, <1>2, AppendIs
<1>4. ASSUME NEW k \in 1..n PROVE Ahead(new, k) \subseteq Ahead(lines, k) \cup Marks(b)
  <2> SUFFICES ASSUME NEW m \in (k + 1)..Len(new) PROVE Marks(new[m]) \subseteq Ahead(lines, k) \cup Marks(b)
    BY DEF Ahead
  <2>1. CASE m = n + 1
    BY <1>3, <2>1
  <2>2. CASE m # n + 1
    <3>1. m \in (k + 1)..n /\ m \in 1..n
      BY <1>3, <2>2
    <3> QED
      BY <1>1, <1>3, <3>1 DEF Ahead
  <2> QED
    BY <2>1, <2>2
<1>5. ASSUME NEW k \in 1..n PROVE new[k] # <<>> /\ Pivot(new[k], 1, Ahead(new, k) \cup Marks(b) \cup M)
  <2>0. k \in 1..Len(lines)
    BY <1>1
  <2>1. lines[k] # <<>> /\ Pivot(lines[k], 1, Ahead(lines, k) \cup (Marks(b) \cup M))
    BY <2>0 DEF Precedes
  <2>2. Ahead(new, k) \cup Marks(b) \cup M \subseteq Ahead(lines, k) \cup Marks(b) \cup M
    BY <1>4
  <2> QED
    BY <1>3, <2>1, <2>2, PivotLess
<1>6. Pivot(b, 1, Ahead(new, n + 1) \cup Marks(b) \cup M)
  <2>1. Ahead(new, n + 1) = {}
    BY <1>3, NoneAhead
  <2>2. \A p \in Marks(b) \cup M : b[1] <= p
    BY FirstPivot
  <2> QED
    BY <2>1, <2>2 DEF Pivot
<1>7. ASSUME NEW k \in 1..(n + 1) PROVE new[k] # <<>> /\ Pivot(new[k], 1, Ahead(new, k) \cup Marks(b) \cup M)
  <2>1. k \in 1..n \/ k = n + 1
    OBVIOUS
  <2> QED
    BY <1>3, <1>5, <1>6, <2>1
<1> QED
  BY <1>2, <1>3, <1>7 DEF Precedes

\* The line that was collected joins the last that is done.
LEMMA PrecedesMerge ==
  ASSUME NEW lines \in Seq(Line), NEW b \in Line, NEW M \in SUBSET Nat, Precedes(lines, Marks(b) \cup M),
         Len(lines) > 0, NEW w, NEW gap \in Nat, Glued(w, lines[Len(lines)], b, gap)
  PROVE  Precedes([lines EXCEPT ![Len(lines)] = w], M)
<1>1. PICK n \in Nat \ {0} : n = Len(lines)
  OBVIOUS
<1>2. PICK a \in Line : a = lines[n]
  BY <1>1
<1>3. w \in Line /\ Marks(w) = Marks(a) \cup Marks(b) /\ Len(w) = Len(a) + gap + Len(b)
  <2>1. Glued(w, a, b, gap)
    BY <1>1, <1>2
  <2>2. Marks(w) = Marks(a) \cup Marks(b)
    BY <2>1, GluedMarks
  <2> QED
    BY <2>1, <2>2 DEF Glued
<1>4. PICK new : new = [lines EXCEPT ![n] = w]
  OBVIOUS
<1>5. Len(new) = n /\ new[n] = w /\ \A k \in 1..(n - 1) : new[k] = lines[k]
  BY <1>1, <1>3, <1>4, ReplaceIs
<1>6. ASSUME NEW k \in 1..(n - 1) PROVE Ahead(new, k) \subseteq Ahead(lines, k) \cup Marks(b)
  <2> SUFFICES ASSUME NEW m \in (k + 1)..n PROVE Marks(new[m]) \subseteq Ahead(lines, k) \cup Marks(b)
    BY <1>5 DEF Ahead
  <2>1. Marks(lines[m]) \subseteq Ahead(lines, k)
    BY <1>1 DEF Ahead
  <2>2. CASE m = n
    BY <1>2, <1>3, <1>5, <2>1, <2>2
  <2>3. CASE m # n
    <3>1. m \in 1..(n - 1)
      BY <2>3
    <3> QED
      BY <1>5, <2>1, <3>1
  <2> QED
    BY <2>2, <2>3
<1>7. ASSUME NEW k \in 1..(n - 1) PROVE new[k] # <<>> /\ Pivot(new[k], 1, Ahead(new, k) \cup M)
  <2>0. k \in 1..Len(lines)
    BY <1>1
  <2>1. lines[k] # <<>> /\ Pivot(lines[k], 1, Ahead(lines, k) \cup (Marks(b) \cup M))
    BY <2>0 DEF Precedes
  <2>2. Ahead(new, k) \cup M \subseteq Ahead(lines, k) \cup (Marks(b) \cup M)
    BY <1>6
  <2> QED
    BY <1>5, <2>1, <2>2, PivotLess
<1>8. w # <<>> /\ Pivot(w, 1, Ahead(new, n) \cup M)
  <2>0. n \in 1..Len(lines)
    BY <1>1
  <2>1. a # <<>> /\ Pivot(a, 1, Ahead(lines, n) \cup (Marks(b) \cup M))
    BY <2>0, <1>2 DEF Precedes
  <2>2. Pivot(a, 1, Marks(b) \cup M)
    BY <2>1, PivotLess
  <2>3. Glued(w, a, b, gap) /\ 1 \in 1..Len(a)
    BY <1>1, <1>2, <2>1, HasFirst
  <2>4. Pivot(w, 1, M)
    BY <2>2, <2>3, GluedPivotsBefore
  <2>5. Ahead(new, n) = {}
    BY <1>5, NoneAhead
  <2>6. Len(w) > 0
    BY <1>3, <2>1, HasFirst
  <2> QED
    BY <1>3, <2>4, <2>5, <2>6, HasFirst
<1>9. ASSUME NEW k \in 1..n PROVE new[k] # <<>> /\ Pivot(new[k], 1, Ahead(new, k) \cup M)
  <2>1. k \in 1..(n - 1) \/ k = n
    OBVIOUS
  <2> QED
    BY <1>5, <1>7, <1>8, <2>1
<1> QED
  BY <1>1, <1>4, <1>5, <1>9 DEF Precedes

\* A new window, joined behind the tail of the one before it, is firm.
LEMMA GluedFirm ==
  ASSUME NEW a \in Line, NEW u \in Line, NEW w, Glued(w, a, u, 2), NEW M \in SUBSET Nat,
         Loose(a, u, Marks(u) \cup M), Pivots(u, M)
  PROVE  Firm(w, M)
<1>1. PICK x \in Nat, y \in Nat, o \in Nat : x = Len(a) /\ y = Len(u) /\ o = WindowOverlap /\ Len(w) = x + 2 + y
  BY WindowSizes DEF Line, Glued
<1>2. w \in Line
  BY DEF Glued
<1>3. ASSUME NEW j \in 1..(x + 2 + y), j > x + 2 + y - o PROVE Pivot(w, j, M)
  <2>1. CASE j <= x
    <3>1. j \in 1..Len(a) /\ j > Len(a) + 2 + Len(u) - WindowOverlap
      BY <1>1, <1>3, <2>1
    <3>2. Pivot(a, j, Marks(u) \cup M)
      BY <3>1 DEF Loose
    <3> QED
      BY <3>1, <3>2, GluedPivotsBefore
  <2>2. CASE j \in (x + 1)..(x + 2)
    <3>1. PICK i \in 1..2 : j = x + i
      <4>1. j - x \in 1..2 /\ j = x + (j - x)
        BY <1>1, <2>2
      <4> QED
        BY <4>1
    <3>2. w[j] = 0 /\ j \in 1..Len(w)
      BY <1>1, <3>1 DEF Glued
    <3> QED
      BY <1>2, <3>2, ZeroPivots
  <2>3. CASE j > x + 2
    <3>1. PICK i \in 1..y : j = x + 2 + i
      <4>1. j - (x + 2) \in 1..y /\ j = x + 2 + (j - (x + 2))
        BY <1>1, <2>3
      <4> QED
        BY <4>1
    <3>2. i \in 1..Len(u) /\ j = Len(a) + 2 + i
      BY <1>1, <3>1
    <3>3. Pivot(u, i, M)
      BY <3>2 DEF Pivots
    <3>4. Pivot(w, Len(a) + 2 + i, M)
      BY <3>2, <3>3, GluedPivotsBehind
    <3> QED
      BY <3>2, <3>4
  <2> QED
    BY <1>1, <2>1, <2>2, <2>3
<1> QED
  BY <1>1, <1>3 DEF Firm

\* The overlap of the joined window begins where that of its last paragraph does.
LEMMA GluedCut ==
  ASSUME NEW a \in Line, NEW u \in Line, NEW w, Glued(w, a, u, 2), NEW units \in Seq(Line), NEW n \in 0..Len(units),
         Cut(u, units, n)
  PROVE  Cut(w, units, n)
<1>1. PICK x \in Nat, y \in Nat, o \in Nat, c \in Nat :
        x = Len(a) /\ y = Len(u) /\ o = WindowOverlap /\ c = MaxChars /\ Len(w) = x + 2 + y /\ o < c /\ y >= c
  BY WindowSizes DEF Line, Glued, Cut
<1>2. CASE o > 0
  <2>1. PICK j \in 1..y : j = y - o + 1
    <3>1. y - o + 1 \in 1..y
      BY <1>1, <1>2
    <3> QED
      BY <3>1
  <2>2. Pivot(u, j, Ahead(units, n)) /\ j \in 1..Len(u)
    BY <1>1, <1>2, <2>1 DEF Cut
  <2>3. Ahead(units, n) \in SUBSET Nat
    BY AheadIs
  <2>4. Pivot(w, Len(a) + 2 + j, Ahead(units, n))
    BY <2>2, <2>3, GluedPivotsBehind
  <2>5. Len(a) + 2 + j = Len(w) - WindowOverlap + 1
    BY <1>1, <2>1
  <2>6. Pivot(w, Len(w) - WindowOverlap + 1, Ahead(units, n))
    BY <2>4, <2>5
  <2>7. Len(w) >= MaxChars
    BY <1>1
  <2> QED
    BY <2>6, <2>7 DEF Cut
<1>3. CASE ~(o > 0)
  <2>1. Len(w) >= MaxChars
    BY <1>1
  <2> QED
    BY <1>1, <1>3, <2>1 DEF Cut
<1> QED
  BY <1>2, <1>3

\* What was collected and the unit behind it.
LEMMA JoinFollows ==
  ASSUME NEW units \in Seq(Line), NEW n \in Nat, n < Len(units), UnitFits(units, n + 1),
         NEW a \in Line, a # <<>>, Pivot(a, 1, Ahead(units, n)), Loose(a, units[n + 1], Ahead(units, n)),
         NEW w, Glued(w, a, units[n + 1], 2)
  PROVE  Follows(w, units, n + 1)
<1>1. n \in 0..Len(units) /\ n + 1 \in 0..Len(units) /\ n + 1 \in 1..Len(units) /\ n + 1 <= Len(units)
  OBVIOUS
<1>2. PICK u \in Line : u = units[n + 1]
  BY <1>1
<1>3. PICK F \in SUBSET Nat : F = Ahead(units, n + 1)
  BY <1>1, AheadIs
<1>4. Ahead(units, n) = Marks(u) \cup F
  BY <1>1, <1>2, <1>3, AheadIs
<1>5. Glued(w, a, u, 2) /\ 1 \in 1..Len(a)
  BY <1>2, HasFirst
<1>6. Pivot(a, 1, Marks(u) \cup F) /\ Loose(a, u, Marks(u) \cup F)
  BY <1>2, <1>4
<1>7. Pivot(w, 1, F)
  BY <1>5, <1>6, GluedPivotsBefore
<1>8. CASE Pivots(u, F)
  BY <1>3, <1>5, <1>6, <1>7, <1>8, GluedFirm DEF Follows
<1>9. CASE Cut(u, units, n + 1)
  BY <1>1, <1>3, <1>5, <1>7, <1>9, GluedCut DEF Follows
<1> QED
  BY <1>2, <1>3, <1>8, <1>9 DEF UnitFits

\* A unit by itself.
LEMMA UnitFollows ==
  ASSUME NEW units, NEW n, UnitFits(units, n)
  PROVE  Follows(units[n], units, n)
BY DEF UnitFits, Follows, Firm, Pivots

\* Joining two lines of which the first is not empty, and of which it is.
LEMMA JoinedApart ==
  ASSUME NEW a \in Line, NEW b \in Line, a # <<>>
  PROVE  Glued(Joined(a, b), a, b, 2)
BY JoinedGlues

\* A text that joins nothing is that text.
LEMMA JoinedAlone ==
  ASSUME NEW a \in Line, NEW b, a = <<>>
  PROVE  Joined(a, b) = b
BY DEF Joined

\* The buffer takes the unit.
LEMMA GrowFollows ==
  ASSUME NEW units \in Seq(Line), NEW n \in Nat, n < Len(units), UnitFits(units, n + 1),
         NEW buf \in Line, Follows(buf, units, n), ~(buf # <<>> /\ Len(Joined(buf, units[n + 1])) > MaxChars)
  PROVE  Follows(Joined(buf, units[n + 1]), units, n + 1)
<1>1. PICK u \in Line : u = units[n + 1]
  OBVIOUS
<1>2. CASE buf = <<>>
  <2>1. Joined(buf, u) = u
    BY <1>2, JoinedAlone
  <2> QED
    BY <1>1, <2>1, UnitFollows
<1>3. CASE buf # <<>>
  <2>1. Glued(Joined(buf, u), buf, u, 2)
    BY <1>3, JoinedApart
  <2>2. PICK x \in Nat, y \in Nat, c \in Nat : x = Len(buf) /\ y = Len(u) /\ c = MaxChars /\ x + 2 + y <= c
    <3>1. PICK x \in Nat, y \in Nat, c \in Nat : x = Len(buf) /\ y = Len(u) /\ c = MaxChars
      BY WindowSizes DEF Line
    <3>2. Len(Joined(buf, u)) = x + 2 + y
      BY <2>1, <3>1 DEF Glued
    <3>3. ~(Len(Joined(buf, u)) > MaxChars)
      BY <1>1, <1>3
    <3>4. x + 2 + y <= c
      BY <3>1, <3>2, <3>3
    <3> QED
      BY <3>1, <3>4
  <2>3. Firm(buf, Ahead(units, n))
    <3>1. ~(Len(buf) >= MaxChars)
      BY <2>2
    <3> QED
      BY <3>1 DEF Follows, Cut
  <2>4. Loose(buf, u, Ahead(units, n))
    <3>1. PICK o \in Nat : o = WindowOverlap
      BY WindowSizes
    <3>2. ASSUME NEW j \in 1..x, j > x + 2 + y - o PROVE Pivot(buf, j, Ahead(units, n))
      <4>1. j > x - o
        BY <3>2, <2>2
      <4> QED
        BY <2>2, <2>3, <3>1, <4>1 DEF Firm
    <3> QED
      BY <2>2, <3>1, <3>2 DEF Loose
  <2>5. Pivot(buf, 1, Ahead(units, n))
    BY <1>3 DEF Follows
  <2> QED
    BY <1>1, <1>3, <2>1, <2>4, <2>5, JoinFollows
<1> QED
  BY <1>2, <1>3

\* The buffer is emitted, and its tail takes the unit.
LEMMA FlushFollows ==
  ASSUME NEW units \in Seq(Line), NEW n \in Nat, n < Len(units), UnitFits(units, n + 1),
         NEW buf \in Line, Follows(buf, units, n), buf # <<>>
  PROVE  Follows(Joined(LastChars(buf, WindowOverlap), units[n + 1]), units, n + 1)
<1>1. PICK u \in Line : u = units[n + 1]
  OBVIOUS
<1>2. PICK o \in Nat, c \in Nat : o = WindowOverlap /\ c = MaxChars /\ o < c
  BY WindowSizes
<1>3. PICK t : t = LastChars(buf, o)
  OBVIOUS
<1>4. t \in Line /\ Len(t) = (IF o <= Len(buf) THEN o ELSE Len(buf))
  BY <1>3, LastCharsSlice
<1>5. PICK x \in Nat, y \in Nat, z \in Nat : x = Len(buf) /\ y = Len(u) /\ z = Len(t) /\ z = (IF o <= x THEN o ELSE x)
  <2>1. Len(buf) \in Nat /\ Len(u) \in Nat /\ Len(t) \in Nat
    BY <1>4 DEF Line
  <2> QED
    BY <1>4, <2>1
<1>6. CASE t = <<>>
  <2>1. Joined(t, u) = u
    BY <1>4, <1>6, JoinedAlone
  <2> QED
    BY <1>1, <1>2, <1>3, <2>1, UnitFollows
<1>7. CASE t # <<>>
  <2>1. Glued(Joined(t, u), t, u, 2)
    BY <1>4, <1>7, JoinedApart
  <2>2. z > 0 /\ o > 0
    BY <1>4, <1>5, <1>7, HasFirst
  <2>3. PICK F : F = Ahead(units, n)
    OBVIOUS
  <2>4. Pivot(t, 1, F) /\ Loose(t, u, F)
    <3>1. CASE Firm(buf, F)
      <4>1. ASSUME NEW j \in 1..z PROVE Pivot(t, j, F)
        <5>1. PICK i \in 1..x : i = x - z + j /\ i > x - o
          <6>1. x - z + j \in 1..x
            BY <1>5
          <6>2. x - z + j > x - o
            <7>1. z <= o
              BY <1>5
            <7>2. j > 0
              OBVIOUS
            <7>3. \A a, b, d, e \in Nat : a <= b /\ d > 0 => e - a + d > e - b
              OBVIOUS
            <7>4. j \in Nat
              OBVIOUS
            <7> QED
              BY <7>1, <7>2, <7>3, <7>4
          <6> QED
            BY <6>1, <6>2
        <5>2. i > x - o
          BY <5>1
        <5>3. Pivot(buf, i, F)
          BY <1>2, <1>5, <3>1, <5>2 DEF Firm
        <5>4. j \in 1..Len(t) /\ Len(buf) - Len(t) + j = i
          BY <1>5, <5>1
        <5> QED
          BY <1>3, <5>3, <5>4, TailPivots
      <4>2. 1 \in 1..z
        BY <2>2
      <4> QED
        BY <1>5, <4>1, <4>2 DEF Loose
    <3>2. CASE Cut(buf, units, n)
      <4>1. x >= c /\ y > o /\ Pivot(buf, x - o + 1, F)
        BY <1>1, <1>2, <1>5, <2>2, <2>3, <3>2 DEF Cut
      <4>2. z = o /\ 1 \in 1..z
        BY <1>2, <1>5, <2>2, <4>1
      <4>3. Pivot(t, 1, F)
        <5>1. 1 \in 1..Len(t) /\ Len(buf) - Len(t) + 1 = x - o + 1
          BY <1>5, <4>2
        <5>2. Pivot(buf, Len(buf) - Len(t) + 1, F)
          BY <4>1, <5>1
        <5> QED
          BY <1>3, <5>1, <5>2, TailPivots
      <4>4. \A j \in 1..z : ~(j > z + 2 + y - o)
        BY <1>2, <1>5, <4>1, <4>2
      <4> QED
        BY <1>2, <1>5, <4>3, <4>4 DEF Loose
    <3> QED
      BY <2>3, <3>1, <3>2 DEF Follows
  <2>5. Follows(Joined(t, u), units, n + 1)
    BY <1>1, <1>4, <1>7, <2>1, <2>3, <2>4, JoinFollows
  <2> QED
    BY <1>1, <1>2, <1>3, <2>5
<1> QED
  BY <1>6, <1>7

\* chunker.py: one more paragraph keeps the windows in order.
LEMMA PackInTurn ==
  ASSUME NEW units \in Seq(Line), NEW n \in Nat, n < Len(units), UnitFits(units, n + 1),
         NEW acc \in Accs, InTurn(acc, units, n)
  PROVE  InTurn(Pack(acc, units[n + 1]), units, n + 1)
<1>1. acc.done \in Seq(Line) /\ acc.buf \in Line
  BY AccsAre
<1>2. PICK done \in Seq(Line), buf \in Line, u \in Line : done = acc.done /\ buf = acc.buf /\ u = units[n + 1]
  BY <1>1
<1>3. PICK new \in Accs : new = Pack(acc, u)
  BY <1>2, PackStep
<1>4. PICK F \in SUBSET Nat, G \in SUBSET Nat : F = Ahead(units, n) /\ G = Ahead(units, n + 1)
  BY AheadIs
<1>5. F = Marks(u) \cup G
  BY <1>2, <1>4, AheadIs
<1>6. Precedes(done, Marks(buf) \cup F) /\ Follows(buf, units, n)
  BY <1>2, <1>4 DEF InTurn
<1>7. CASE buf # <<>> /\ Flushes(new, acc, u, WindowOverlap)
  <2>1. PICK t : t = LastChars(buf, WindowOverlap)
    OBVIOUS
  <2>2. t \in Line /\ Marks(t) \subseteq Marks(buf)
    BY <2>1, WindowSizes, LastCharsSlice
  <2>3. new.done = Append(done, buf) /\ new.buf = Joined(t, u)
    BY <1>2, <1>7, <2>1 DEF Flushes
  <2>4. Follows(new.buf, units, n + 1)
    BY <1>2, <1>6, <1>7, <2>1, <2>3, FlushFollows
  <2>5. Pivot(buf, 1, F)
    BY <1>4, <1>6, <1>7 DEF Follows
  <2>6. Precedes(Append(done, buf), Marks(buf) \cup F)
    BY <1>6, <1>7, <2>5, PrecedesAppend
  <2>7. Marks(Joined(t, u)) = Marks(t) \cup Marks(u)
    <3> DEFINE gap == IF t = <<>> THEN 0 ELSE 2
    <3>1. Glued(Joined(t, u), t, u, gap) /\ gap \in Nat
      BY <2>2, JoinedGlues
    <3> HIDE DEF gap
    <3> QED
      BY <2>2, <3>1, GluedMarks
  <2>8. Marks(new.buf) \cup G \subseteq Marks(buf) \cup F
    BY <1>5, <2>2, <2>3, <2>7
  <2>9. Precedes(new.done, Marks(new.buf) \cup G)
    BY <2>3, <2>6, <2>8, PrecedesLess
  <2> QED
    BY <1>2, <1>3, <1>4, <2>4, <2>9 DEF InTurn
<1>8. CASE ~(buf # <<>> /\ Len(Joined(buf, u)) > MaxChars) /\ Grows(new, acc, u)
  <2>1. new.done = done /\ new.buf = Joined(buf, u)
    BY <1>2, <1>8 DEF Grows
  <2>2. Follows(new.buf, units, n + 1)
    BY <1>2, <1>6, <1>8, <2>1, GrowFollows
  <2>3. Marks(Joined(buf, u)) = Marks(buf) \cup Marks(u)
    <3> DEFINE gap == IF buf = <<>> THEN 0 ELSE 2
    <3>1. Glued(Joined(buf, u), buf, u, gap) /\ gap \in Nat
      BY JoinedGlues
    <3> HIDE DEF gap
    <3> QED
      BY <3>1, GluedMarks
  <2>4. Marks(new.buf) \cup G \subseteq Marks(buf) \cup F
    BY <1>5, <2>1, <2>3
  <2>5. Precedes(new.done, Marks(new.buf) \cup G)
    BY <1>6, <2>1, <2>4, PrecedesLess
  <2> QED
    BY <1>2, <1>3, <1>4, <2>2, <2>5 DEF InTurn
<1> QED
  BY <1>2, <1>3, <1>7, <1>8, PackStep

\* Nothing is in order.
LEMMA EmptyInTurn ==
  ASSUME NEW units
  PROVE  InTurn(EmptyAcc, units, 0)
<1>1. EmptyAcc.done = <<>> /\ EmptyAcc.buf = <<>>
  BY EmptyAccIs
<1>2. WindowOverlap \in Nat
  BY WindowSizes
<1>3. \A M : Precedes(<<>>, M)
  BY DEF Precedes
<1>4. Follows(<<>>, units, 0)
  BY DEF Follows, Firm
<1> QED
  BY <1>1, <1>3, <1>4 DEF InTurn

\* chunker.py: the windows of all the paragraphs are in order.
LEMMA PackAllInTurn ==
  ASSUME NEW units \in Seq(Line), AllFit(units)
  PROVE  PackAll(units) \in Accs /\ InTurn(PackAll(units), units, Len(units))
<1>0. PICK N \in Nat : N = Len(units)
  OBVIOUS
<1>1. PICK f \in [0..N -> Accs] :
           /\ PackAll(units) = f[N]
           /\ f[0] = EmptyAcc
           /\ \A n \in 1..N : f[n] = Pack(f[n - 1], units[n])
  BY <1>0, PackAllUnfolds
<1> DEFINE T == {n \in 0..N : InTurn(f[n], units, n)}
<1>2. 0 \in T
  BY <1>1, EmptyInTurn
<1>3. \A n \in 0..(N - 1) : n \in T => n + 1 \in T
  <2> SUFFICES ASSUME NEW n \in 0..(N - 1), n \in T PROVE n + 1 \in T
    OBVIOUS
  <2>1. n \in Nat /\ n < Len(units) /\ n + 1 \in 1..N /\ n + 1 \in 0..N /\ (n + 1) - 1 = n /\ n \in 0..N
    BY <1>0
  <2>2. PICK acc \in Accs : acc = f[n]
    BY <1>1, <2>1
  <2>3. InTurn(acc, units, n) /\ UnitFits(units, n + 1)
    BY <1>0, <2>1, <2>2 DEF AllFit
  <2>4. InTurn(Pack(acc, units[n + 1]), units, n + 1)
    BY <2>1, <2>3, PackInTurn
  <2>5. f[n + 1] = Pack(acc, units[n + 1])
    BY <1>1, <2>1, <2>2
  <2> QED
    BY <2>1, <2>4, <2>5
<1> HIDE DEF T
<1>4. \A n \in 0..N : n \in T
  BY <1>2, <1>3, Climb
<1>5. N \in T
  BY <1>4
<1> QED
  BY <1>0, <1>1, <1>5 DEF T

\* The windows of a run come in turn.
LEMMA PackParagraphsPrecede ==
  ASSUME NEW paragraphs \in Seq(Line), AllFit(Units(paragraphs))
  PROVE  Precedes(PackParagraphs(paragraphs), {})
<1>1. PICK units \in Seq(Line) : units = Units(paragraphs)
  BY UnitsKeep
<1>2. PICK acc \in Accs : acc = PackAll(Units(paragraphs)) /\ InTurn(acc, units, Len(units))
  BY <1>1, PackAllInTurn
<1>3. acc.done \in Seq(Line) /\ acc.buf \in Line
  BY AccsAre
<1>4. PICK done \in Seq(Line), b \in Line : done = acc.done /\ b = acc.buf
  BY <1>3
<1>5. PICK n \in Nat : n = Len(done)
  OBVIOUS
<1>6. Precedes(done, Marks(b) \cup {}) /\ (b # <<>> => Pivot(b, 1, {}))
  <2>1. Ahead(units, Len(units)) = {}
    BY NoneAhead
  <2> QED
    BY <1>2, <1>4, <2>1 DEF InTurn, Follows
<1> DEFINE short == /\ b # <<>> /\ n > 0 /\ Len(b) < MinChars
                    /\ 10 * (Len(done[n]) + Len(b)) < 12 * MaxChars
<1>7. PackParagraphs(paragraphs) =
         CASE b = <<>> -> done
           [] short -> [done EXCEPT ![n] = Joined(@, b)]
           [] OTHER -> Append(done, b)
  BY <1>2, <1>4, <1>5 DEF PackParagraphs
<1>8. CASE b = <<>>
  <2>1. PackParagraphs(paragraphs) = done
    BY <1>7, <1>8
  <2> HIDE DEF short
  <2>2. Precedes(done, {})
    BY <1>6, PrecedesLess
  <2> QED
    BY <2>1, <2>2
<1>9. CASE b # <<>> /\ short
  <2>1. PackParagraphs(paragraphs) = [done EXCEPT ![n] = Joined(@, b)] /\ n > 0
    BY <1>7, <1>9
  <2> HIDE DEF short
  <2>2. PICK a \in Line : a = done[n]
    BY <1>5, <2>1
  <2>3. a # <<>>
    <3>1. n \in 1..Len(done)
      BY <1>5, <2>1
    <3> QED
      BY <1>6, <2>2, <3>1 DEF Precedes
  <2>4. PICK w : w = Joined(a, b) /\ Glued(w, a, b, 2)
    BY <2>3, JoinedApart
  <2>5. PackParagraphs(paragraphs) = [done EXCEPT ![Len(done)] = w]
    BY <1>5, <2>1, <2>2, <2>4
  <2>6. Len(done) > 0 /\ Glued(w, done[Len(done)], b, 2) /\ {} \in SUBSET Nat
    BY <1>5, <2>1, <2>2, <2>4
  <2>7. Precedes([done EXCEPT ![Len(done)] = w], {})
    BY <1>6, <2>6, PrecedesMerge
  <2> QED
    BY <2>5, <2>7
<1>10. CASE b # <<>> /\ ~short
  <2>1. PackParagraphs(paragraphs) = Append(done, b)
    BY <1>7, <1>10
  <2> HIDE DEF short
  <2>2. Precedes(Append(done, b), Marks(b) \cup {})
    BY <1>6, <1>10, PrecedesAppend
  <2>3. Precedes(Append(done, b), {})
    BY <2>2, PrecedesLess
  <2> QED
    BY <2>1, <2>3
<1> QED
  BY <1>8, <1>9, <1>10

-----------------------------------------------------------------------------
(* Long paragraphs are split, and their windows stay in order.             *)

\* The offsets of sequences that are laid are numbers.
LEMMA LaidNumbers ==
  ASSUME NEW S, NEW seqs \in Seq(S), NEW off, NEW flat, Laid(off, seqs, flat), NEW l \in 1..Len(seqs)
  PROVE  off[l - 1] \in Nat /\ off[l] \in Nat /\ off[l] = off[l - 1] + Len(seqs[l])
<1>1. PICK K \in Nat : K = Len(seqs)
  OBVIOUS
<1>2. l - 1 \in 0..K /\ l \in 0..K
  BY <1>1
<1> QED
  BY <1>1, <1>2 DEF Laid

\* One of the sequences.
LEMMA PieceIs ==
  ASSUME NEW seqs \in Seq(Seq(Line)), NEW l \in 1..Len(seqs)
  PROVE  seqs[l] \in Seq(Line) /\ Len(seqs[l]) \in Nat
OBVIOUS

\* Each piece of the concatenation is one of a line, with nothing but later pieces behind it.
LEMMA FlatPlaces ==
  ASSUME NEW seqs \in Seq(Seq(Line)), NEW lines \in Seq(Line), PiecesOf(seqs, lines),
         NEW n \in 1..Len(FlattenSeq(seqs))
  PROVE  \E k \in 1..Len(lines) : \E a \in 1..Len(seqs[k]) : Placed(FlattenSeq(seqs), n, seqs, lines, k, a)
<1>1. PICK flat \in Seq(Line) : flat = FlattenSeq(seqs)
  BY FlattenLays
<1>2. PICK off : Laid(off, seqs, flat)
  BY <1>1, FlattenLays
<1>3. PICK K \in Nat, N \in Nat : K = Len(seqs) /\ K = Len(lines) /\ N = Len(flat)
  BY <1>1 DEF PiecesOf
<1>4. \A m \in 1..N : \E k \in 1..K : \E a \in 1..Len(seqs[k]) : m = off[k - 1] + a
  BY <1>2, <1>3 DEF Laid
<1>5. PICK k \in 1..K : \E a \in 1..Len(seqs[k]) : n = off[k - 1] + a
  BY <1>1, <1>3, <1>4
<1>6. PICK a \in 1..Len(seqs[k]) : n = off[k - 1] + a
  BY <1>5
<1>7. \A l \in 1..K : off[l - 1] \in Nat /\ off[l] \in Nat /\ off[l] = off[l - 1] + Len(seqs[l]) /\ Len(seqs[l]) \in Nat
  BY <1>2, <1>3, LaidNumbers, PieceIs
<1>8. \A l \in 1..K : \A b \in 1..Len(seqs[l]) : flat[off[l - 1] + b] = seqs[l][b]
  BY <1>2, <1>3 DEF Laid
<1>9. ASSUME NEW m \in (n + 1)..N PROVE Marks(flat[m]) \subseteq Ahead(seqs[k], a) \cup Ahead(lines, k)
  <2>1. m \in 1..N
    BY <1>1, <1>3
  <2>2. PICK l \in 1..K : \E b \in 1..Len(seqs[l]) : m = off[l - 1] + b
    BY <1>4, <2>1
  <2>3. PICK b \in 1..Len(seqs[l]) : m = off[l - 1] + b
    BY <2>2
  <2>4. flat[m] = seqs[l][b]
    BY <1>8, <2>3
  <2>5. CASE l = k
    <3>1. b \in (a + 1)..Len(seqs[k])
      <4>1. PICK x \in Nat, y \in Nat : x = off[k - 1] /\ y = Len(seqs[k])
        BY <1>7
      <4>2. m = x + b /\ n = x + a
        BY <1>6, <2>3, <2>5, <4>1
      <4>3. b \in 1..y /\ a \in 1..y
        BY <2>5, <4>1
      <4>4. m >= n + 1
        OBVIOUS
      <4>5. x + b >= (x + a) + 1
        BY <4>2, <4>4
      <4>6. b \in (a + 1)..y
        BY <4>3, <4>5
      <4> QED
        BY <4>1, <4>6
    <3> QED
      BY <2>4, <2>5, <3>1 DEF Ahead
  <2>6. CASE l > k
    <3>1. Marks(seqs[l][b]) \subseteq MarksOf(seqs[l])
      BY DEF MarksOf
    <3>2. MarksOf(seqs[l]) \subseteq Marks(lines[l])
      BY <1>3 DEF PiecesOf
    <3>3. l \in (k + 1)..Len(lines)
      BY <1>3, <2>6
    <3>4. Marks(lines[l]) \subseteq Ahead(lines, k)
      BY <3>3 DEF Ahead
    <3> QED
      BY <2>4, <3>1, <3>2, <3>4
  <2>7. ASSUME l < k PROVE FALSE
    <3>1. off[l] <= off[k - 1]
      <4>1. k - 1 \in 0..Len(seqs) /\ l \in 0..(k - 1)
        BY <1>3, <2>7
      <4> QED
        BY <1>2, <4>1 DEF Laid
    <3>2. PICK x \in Nat, y \in Nat, z \in Nat : x = off[l - 1] /\ y = Len(seqs[l]) /\ z = off[k - 1] /\ off[l] = x + y
      BY <1>7
    <3>3. x + y <= z /\ m = x + b /\ b \in 1..y /\ n = z + a
      BY <1>6, <2>3, <3>1, <3>2
    <3>4. m >= n + 1 /\ a \in Nat /\ a > 0 /\ n \in Nat
      BY <1>3
    <3> QED
      BY <3>3, <3>4
  <2> QED
    BY <2>5, <2>6, <2>7
<1>10. Ahead(flat, n) \subseteq Ahead(seqs[k], a) \cup Ahead(lines, k)
  BY <1>3, <1>9 DEF Ahead
<1>11. ASSUME a < Len(seqs[k]) PROVE n < N /\ flat[n + 1] = seqs[k][a + 1]
  <2>1. PICK x \in Nat, y \in Nat : x = off[k - 1] /\ y = Len(seqs[k]) /\ off[k] = x + y
    BY <1>7
  <2>2. off[k] <= N
    <3>1. K \in 0..Len(seqs) /\ k \in 0..K
      BY <1>3
    <3>2. off[k] <= off[K] /\ off[K] = N
      BY <1>2, <1>3, <3>1 DEF Laid
    <3> QED
      BY <3>2
  <2>3. a + 1 \in 1..Len(seqs[k]) /\ n + 1 = off[k - 1] + (a + 1)
    <3>1. a \in 1..y /\ a < y /\ n = x + a
      BY <1>6, <1>11, <2>1
    <3>2. a + 1 \in 1..y /\ n + 1 = x + (a + 1)
      BY <3>1
    <3> QED
      BY <2>1, <3>2
  <2>4. flat[off[k - 1] + (a + 1)] = seqs[k][a + 1]
    BY <1>8, <2>3
  <2>5. n < N
    <3>1. PICK o \in Nat : o = off[k] /\ o = x + y /\ o <= N
      BY <2>1, <2>2
    <3>2. n = x + a /\ a < y /\ a \in Nat
      BY <1>6, <1>11, <2>1
    <3> QED
      BY <1>3, <3>1, <3>2
  <2> QED
    BY <2>3, <2>4, <2>5
<1>12. flat[n] = seqs[k][a]
  BY <1>6, <1>8
<1>13. Placed(flat, n, seqs, lines, k, a)
  BY <1>3, <1>10, <1>11, <1>12 DEF Placed
<1> QED
  BY <1>1, <1>3, <1>13

\* The places of a line in place come before those of the lines behind it.
LEMMA AheadIsLater ==
  ASSUME NEW lines \in Seq(Line), InPlace(lines), NEW k \in 1..Len(lines), NEW p \in Marks(lines[k]),
         NEW q \in Ahead(lines, k)
  PROVE  p <= q
<1>1. PICK N \in Nat : N = Len(lines)
  OBVIOUS
<1>2. PICK m \in (k + 1)..N : q \in Marks(lines[m])
  BY <1>1 DEF Ahead
<1>3. m \in 1..N /\ k \in 1..(m - 1)
  BY <1>1
<1> QED
  BY <1>1, <1>2, <1>3 DEF InPlace, Before

\* A window behind the first is longer than what two windows share.
LEMMA LaterWindowIsLong ==
  ASSUME NEW text \in Line, NEW size \in Nat \ {0}, NEW step \in 1..size, NEW rest \in Nat, rest >= size,
         NEW ws, NEW start, Windowed(ws, start, text, size, step, rest), NEW i \in 1..Len(ws), start[i] # 0
  PROVE  Len(ws[i]) > rest - step \/ Len(ws[i]) = size
BY WindowIsSlice

\* A window of a paragraph is a unit that fits.
LEMMA WindowFits ==
  ASSUME NEW text \in Line, NEW ws, NEW start,
         Windowed(ws, start, text, MaxChars, MaxChars - WindowOverlap, MaxChars), Ascends(text),
         NEW M \in SUBSET Nat, \A p \in Marks(text) : \A q \in M : p <= q, NEW a \in 1..Len(ws),
         NEW units, NEW n, units[n] = ws[a], Ahead(units, n) \subseteq Ahead(ws, a) \cup M,
         a < Len(ws) => n < Len(units) /\ units[n + 1] = ws[a + 1]
  PROVE  UnitFits(units, n)
<1>0. PICK c \in Nat \ {0}, o \in Nat : c = MaxChars /\ o = WindowOverlap /\ o < c
  BY WindowSizes
<1>1. PICK step \in 1..c : c = MaxChars /\ o = WindowOverlap /\ o < c /\ step = c - o
  <2>1. c - o \in 1..c
    BY <1>0
  <2> QED
    BY <1>0, <2>1
<1>2. Windowed(ws, start, text, c, step, c) /\ c >= c
  BY <1>1
<1>3. PICK L \in Nat \ {0} : L = Len(ws)
  BY <1>2 DEF Windowed
<1>4. PICK w \in Line : w = ws[a]
  BY <1>2 DEF Windowed
<1>5. ASSUME NEW j \in 1..Len(w), a = L \/ j <= step + 1 PROVE Pivot(w, j, Ahead(units, n))
  <2>1. j \in 1..Len(ws[a]) /\ (a = Len(ws) \/ j <= step + 1)
    BY <1>3, <1>4, <1>5
  <2>2. Pivot(ws[a], j, Ahead(ws, a) \cup M)
    BY <1>2, <2>1, WindowsPivot
  <2> QED
    BY <1>4, <2>2, PivotLess
<1>6. w # <<>> => Pivot(w, 1, Ahead(units, n))
  <2>1. w # <<>> => 1 \in 1..Len(w)
    BY HasFirst
  <2>2. 1 <= step + 1
    OBVIOUS
  <2> QED
    BY <1>5, <2>1, <2>2
<1>7. CASE a = L
  <2>1. Pivots(w, Ahead(units, n))
    BY <1>5, <1>7 DEF Pivots
  <2> QED
    BY <1>4, <1>6, <2>1 DEF UnitFits
<1>8. CASE a # L
  <2>1. a < Len(ws) /\ a \in Nat
    BY <1>3, <1>8
  <2>2. Len(w) = c
    BY <1>1, <1>2, <1>4, <2>1, WindowIsSlice
  <2>3. n < Len(units) /\ Len(units[n + 1]) > WindowOverlap
    <3>1. PICK b \in 1..Len(ws) : b = a + 1 /\ b - 1 = a /\ b > 1
      <4>1. a + 1 \in 1..L /\ (a + 1) - 1 = a /\ a + 1 > 1
        BY <1>3, <2>1
      <4> QED
        BY <1>3, <4>1
    <3>2. start[b] # 0
      <4>1. a \in 1..(Len(ws) - 1)
        BY <1>3, <2>1
      <4>2. start[a + 1] = start[a] + step
        BY <1>2, <4>1 DEF Windowed
      <4>3. start[a] \in Nat
        BY <1>2, WindowIsSlice
      <4> QED
        BY <3>1, <4>2, <4>3
    <3>3. Len(ws[b]) > c - step \/ Len(ws[b]) = c
      <4>1. c >= c /\ c \in Nat
        OBVIOUS
      <4> QED
        BY <1>2, <3>2, <4>1, LaterWindowIsLong
    <3>4. Len(ws[b]) > o
      BY <1>1, <3>3
    <3> QED
      BY <1>1, <2>1, <3>1, <3>4
  <2>4. ASSUME o > 0 PROVE Pivot(w, Len(w) - WindowOverlap + 1, Ahead(units, n))
    <3>1. PICK j \in 1..Len(w) : j = step + 1 /\ j = Len(w) - WindowOverlap + 1
      <4>1. step + 1 \in 1..c /\ step + 1 = c - o + 1
        BY <1>1, <2>4
      <4> QED
        BY <1>1, <2>2, <4>1
    <3>2. j <= step + 1
      BY <3>1
    <3> QED
      BY <1>5, <3>1, <3>2
  <2>5. Cut(w, units, n)
    BY <1>1, <2>2, <2>3, <2>4 DEF Cut
  <2> QED
    BY <1>4, <1>6, <2>5 DEF UnitFits
<1> QED
  BY <1>7, <1>8

\* So are all the units of paragraphs in place.
LEMMA UnitsFit ==
  ASSUME NEW paragraphs \in Seq(Line), InPlace(paragraphs)
  PROVE  AllFit(Units(paragraphs))
<1> DEFINE cut == [k \in 1..Len(paragraphs) |->
                     Windows(paragraphs[k], MaxChars, MaxChars - WindowOverlap, MaxChars)]
<1>0. PICK N \in Nat : N = Len(paragraphs)
  OBVIOUS
<1>1. ASSUME NEW k \in 1..N
      PROVE  /\ cut[k] \in Seq(Line) /\ MarksOf(cut[k]) = Marks(paragraphs[k])
             /\ \E start : Windowed(cut[k], start, paragraphs[k], MaxChars, MaxChars - WindowOverlap, MaxChars)
  <2>1. paragraphs[k] \in Line /\ cut[k] = Windows(paragraphs[k], MaxChars, MaxChars - WindowOverlap, MaxChars)
    BY <1>0
  <2> HIDE DEF cut
  <2>2. PICK start : Windowed(cut[k], start, paragraphs[k], MaxChars, MaxChars - WindowOverlap, MaxChars)
    BY <2>1, WindowSizes, WindowsAreWindowed
  <2>3. cut[k] \in Seq(Line)
    BY <2>2 DEF Windowed
  <2>4. MarksOf(cut[k]) = Marks(paragraphs[k])
    BY <2>1, <2>2, WindowSizes, WindowsKeep
  <2> QED
    BY <2>2, <2>3, <2>4
<1>2. cut \in Seq(Seq(Line)) /\ Len(cut) = N
  <2>1. cut = [k \in 1..N |-> cut[k]] /\ \A k \in 1..N : cut[k] \in Seq(Line)
    BY <1>0, <1>1
  <2> HIDE DEF cut
  <2> QED
    BY <2>1
<1>3. Units(paragraphs) = FlattenSeq(cut)
  BY DEF Units
<1> HIDE DEF cut
<1>4. PiecesOf(cut, paragraphs)
  BY <1>0, <1>1, <1>2 DEF PiecesOf
<1>5. PICK units : units = FlattenSeq(cut)
  OBVIOUS
<1>6. ASSUME NEW n \in 1..Len(units) PROVE UnitFits(units, n)
  <2>1. PICK k \in 1..Len(paragraphs) : \E a \in 1..Len(cut[k]) : Placed(units, n, cut, paragraphs, k, a)
    BY <1>2, <1>4, <1>5, FlatPlaces
  <2>2. PICK a \in 1..Len(cut[k]) : Placed(units, n, cut, paragraphs, k, a)
    BY <2>1
  <2>3. PICK start : Windowed(cut[k], start, paragraphs[k], MaxChars, MaxChars - WindowOverlap, MaxChars)
    BY <1>0, <1>1
  <2>4. paragraphs[k] \in Line /\ Ascends(paragraphs[k])
    BY DEF InPlace
  <2>5. PICK M \in SUBSET Nat : M = Ahead(paragraphs, k)
    <3>1. k \in 0..Len(paragraphs)
      OBVIOUS
    <3> QED
      BY <3>1, AheadIs
  <2>6. \A p \in Marks(paragraphs[k]) : \A q \in M : p <= q
    BY <2>5, AheadIsLater
  <2>7. /\ units[n] = cut[k][a] /\ Ahead(units, n) \subseteq Ahead(cut[k], a) \cup M
        /\ a < Len(cut[k]) => n < Len(units) /\ units[n + 1] = cut[k][a + 1]
    BY <2>2, <2>5 DEF Placed
  <2> QED
    BY <2>3, <2>4, <2>6, <2>7, WindowFits
<1> QED
  BY <1>3, <1>5, <1>6 DEF AllFit

\* The windows of a run in place come in turn.
LEMMA RunPrecedes ==
  ASSUME NEW paragraphs \in Seq(Line), InPlace(paragraphs)
  PROVE  Precedes(PackParagraphs(paragraphs), {})
BY UnitsFit, PackParagraphsPrecede

-----------------------------------------------------------------------------
(* The windows of the other path.                                          *)

\* With less to come a text is still early.
LEMMA EarlyLess ==
  ASSUME NEW s, NEW M, NEW N, Early(s, M), N \subseteq M
  PROVE  Early(s, N)
BY DEF Early

\* With less to come the texts still lead.
LEMMA LeadsLess ==
  ASSUME NEW lines, NEW M, NEW N, Leads(lines, M), N \subseteq M
  PROVE  Leads(lines, N)
<1> SUFFICES ASSUME NEW k \in 1..Len(lines)
             PROVE lines[k] # <<>> /\ Ascends(lines[k]) /\ Early(lines[k], Ahead(lines, k) \cup N)
  BY DEF Leads
<1>1. lines[k] # <<>> /\ Ascends(lines[k]) /\ Early(lines[k], Ahead(lines, k) \cup M)
  BY DEF Leads
<1>2. Ahead(lines, k) \cup N \subseteq Ahead(lines, k) \cup M
  OBVIOUS
<1> QED
  BY <1>1, <1>2, EarlyLess

\* One more text that leads what comes.
LEMMA LeadsAppend ==
  ASSUME NEW lines \in Seq(Line), NEW b \in Line, NEW M, NEW N, Leads(lines, M), Marks(b) \subseteq M, N \subseteq M,
         b # <<>>, Ascends(b), Early(b, N)
  PROVE  Leads(Append(lines, b), N)
<1>1. PICK n \in Nat : n = Len(lines)
  OBVIOUS
<1>2. PICK new : new = Append(lines, b)
  OBVIOUS
<1>3. Len(new) = n + 1 /\ new[n + 1] = b /\ \A k \in 1..n : new[k] = lines[k]
  BY <1>1, <1>2, AppendIs
<1>4. ASSUME NEW k \in 1..n PROVE Ahead(new, k) \subseteq Ahead(lines, k) \cup Marks(b)
  <2> SUFFICES ASSUME NEW m \in (k + 1)..Len(new) PROVE Marks(new[m]) \subseteq Ahead(lines, k) \cup Marks(b)
    BY DEF Ahead
  <2>1. CASE m = n + 1
    BY <1>3, <2>1
  <2>2. CASE m # n + 1
    <3>1. m \in (k + 1)..n /\ m \in 1..n
      BY <1>3, <2>2
    <3> QED
      BY <1>1, <1>3, <3>1 DEF Ahead
  <2> QED
    BY <2>1, <2>2
<1>5. ASSUME NEW k \in 1..n PROVE new[k] # <<>> /\ Ascends(new[k]) /\ Early(new[k], Ahead(new, k) \cup N)
  <2>0. k \in 1..Len(lines)
    BY <1>1
  <2>1. lines[k] # <<>> /\ Ascends(lines[k]) /\ Early(lines[k], Ahead(lines, k) \cup M)
    BY <2>0 DEF Leads
  <2>2. Ahead(new, k) \cup N \subseteq Ahead(lines, k) \cup M
    BY <1>4
  <2> QED
    BY <1>3, <2>1, <2>2, EarlyLess
<1>6. Early(b, Ahead(new, n + 1) \cup N)
  <2>1. Ahead(new, n + 1) = {}
    BY <1>3, NoneAhead
  <2> QED
    BY <2>1, EarlyLess
<1>7. ASSUME NEW k \in 1..(n + 1) PROVE new[k] # <<>> /\ Ascends(new[k]) /\ Early(new[k], Ahead(new, k) \cup N)
  <2>1. k \in 1..n \/ k = n + 1
    OBVIOUS
  <2> QED
    BY <1>3, <1>5, <1>6, <2>1
<1> QED
  BY <1>2, <1>3, <1>7 DEF Leads

\* What is before the overlap is before the tail, and before what follows the text.
LEMMA TailIsEarly ==
  ASSUME NEW b \in Line, Ascends(b), NEW F \in SUBSET Nat, \A p \in Marks(b) : \A q \in F : p <= q
  PROVE  Early(b, Marks(LastChars(b, OverlapChars)) \cup F)
<1>1. PICK o \in Nat, x \in Nat : o = OverlapChars /\ x = Len(b)
  BY WindowSizes DEF Line
<1>2. PICK t : t = LastChars(b, o)
  OBVIOUS
<1>3. t \in Line /\ Len(t) = (IF o <= Len(b) THEN o ELSE Len(b)) /\ \A i \in 1..Len(t) : t[i] = b[Len(b) - Len(t) + i]
  BY <1>2, LastCharsSlice
<1>4. PICK z \in Nat : z = Len(t) /\ z <= o /\ z <= x
  BY <1>1, <1>3
<1>5. PICK d \in Nat : d = x - z
  BY <1>4
<1>6. \A i \in 1..z : t[i] = b[d + i]
  BY <1>1, <1>3, <1>4, <1>5
<1> SUFFICES ASSUME NEW j \in 1..x, j = 1 \/ j <= x - o + 1, NEW p \in Marks(t) \cup F PROVE b[j] <= p
  BY <1>1, <1>2 DEF Early
<1>7. CASE p \in Marks(t)
  <2>1. PICK i \in 1..z : t[i] = p /\ p # 0
    BY <1>3, <1>4, <1>7, MarksAre
  <2>2. PICK h \in 1..x : h = d + i /\ j \in 1..h
    <3>1. d + i \in 1..x
      BY <1>4, <1>5
    <3>2. j <= d + i
      <4>1. CASE j = 1
        BY <1>5, <4>1
      <4>2. CASE j <= x - o + 1
        BY <1>4, <1>5, <4>2
      <4> QED
        BY <4>1, <4>2
    <3> QED
      BY <3>1, <3>2
  <2>3. b[h] = p
    BY <1>6, <2>1, <2>2
  <2> QED
    BY <1>1, <2>1, <2>2, <2>3 DEF Ascends
<1>8. CASE p \in F
  <2>1. CASE b[j] = 0
    BY <1>8, <2>1
  <2>2. CASE b[j] # 0
    <3>1. b[j] \in Marks(b)
      BY <1>1, <2>2, MarksAre
    <3> QED
      BY <1>8, <3>1
  <2> QED
    BY <2>1, <2>2
<1> QED
  BY <1>7, <1>8

\* Text and the paragraph behind it.
LEMMA JoinAscends ==
  ASSUME NEW a \in Line, NEW u \in Line, Ascends(a), Ascends(u), NEW G,
         \A p \in Marks(a) : \A q \in Marks(u) \cup G : p <= q,
         \A p \in Marks(u) : \A q \in G : p <= q
  PROVE  /\ Ascends(Joined(a, u)) /\ Marks(Joined(a, u)) = Marks(a) \cup Marks(u)
         /\ \A p \in Marks(Joined(a, u)) : \A q \in G : p <= q
<1> DEFINE gap == IF a = <<>> THEN 0 ELSE 2
<1>1. Glued(Joined(a, u), a, u, gap) /\ gap \in Nat
  BY JoinedGlues
<1> HIDE DEF gap
<1>2. Before(a, u)
  BY DEF Before
<1>3. Ascends(Joined(a, u)) /\ Marks(Joined(a, u)) = Marks(a) \cup Marks(u)
  BY <1>1, <1>2, GluedAscends, GluedMarks
<1> QED
  BY <1>3

\* chunking.py: one more paragraph keeps the texts in order.
LEMMA SplitKeepsTurn ==
  ASSUME NEW lines \in Seq(Line), InPlace(lines), NEW n \in Nat, n < Len(lines),
         NEW acc \in Accs, SplitInTurn(acc, lines, n)
  PROVE  SplitInTurn(Split(acc, lines[n + 1]), lines, n + 1)
<1>0. n + 1 \in 1..Len(lines) /\ n \in 0..Len(lines) /\ n + 1 \in 0..Len(lines) /\ n + 1 <= Len(lines)
  OBVIOUS
<1>1. acc.done \in Seq(Line) /\ acc.buf \in Line
  BY AccsAre
<1>2. PICK done \in Seq(Line), buf \in Line, u \in Line : done = acc.done /\ buf = acc.buf /\ u = lines[n + 1]
  BY <1>0, <1>1
<1>3. PICK new \in Accs : new = Split(acc, u)
  BY <1>2, SplitStep
<1>4. PICK F \in SUBSET Nat, G \in SUBSET Nat : F = Ahead(lines, n) /\ G = Ahead(lines, n + 1)
  BY <1>0, AheadIs
<1>5. F = Marks(u) \cup G
  BY <1>0, <1>2, <1>4, AheadIs
<1>6. Leads(done, Marks(buf) \cup F) /\ Ascends(buf) /\ \A p \in Marks(buf) : \A q \in F : p <= q
  BY <1>2, <1>4 DEF SplitInTurn
<1>7. Ascends(u) /\ \A p \in Marks(u) : \A q \in G : p <= q
  BY <1>0, <1>2, <1>4, AheadIsLater DEF InPlace
<1>8. CASE buf # <<>> /\ Flushes(new, acc, u, OverlapChars)
  <2>1. PICK t : t = LastChars(buf, OverlapChars)
    OBVIOUS
  <2>2. t \in Line /\ Marks(t) \subseteq Marks(buf) /\ Ascends(t)
    BY <1>6, <2>1, WindowSizes, LastCharsSlice
  <2>3. new.done = Append(done, buf) /\ new.buf = Joined(t, u)
    BY <1>2, <1>8, <2>1 DEF Flushes
  <2>4. \A p \in Marks(t) : \A q \in Marks(u) \cup G : p <= q
    BY <1>5, <1>6, <2>2
  <2>5. Ascends(Joined(t, u)) /\ Marks(Joined(t, u)) = Marks(t) \cup Marks(u)
            /\ \A p \in Marks(Joined(t, u)) : \A q \in G : p <= q
    BY <1>7, <2>2, <2>4, JoinAscends
  <2>6. Early(buf, Marks(t) \cup F)
    BY <1>6, <2>1, TailIsEarly
  <2>7. PICK N : N = Marks(t) \cup Marks(u) \cup G
    OBVIOUS
  <2>8. Early(buf, N) /\ N \subseteq Marks(buf) \cup F
    BY <1>5, <2>2, <2>6, <2>7, EarlyLess
  <2>9. Leads(Append(done, buf), N)
    BY <1>6, <1>8, <2>8, LeadsAppend
  <2> QED
    BY <1>2, <1>3, <1>4, <2>3, <2>5, <2>7, <2>9 DEF SplitInTurn
<1>9. CASE Grows(new, acc, u)
  <2>1. new.done = done /\ new.buf = Joined(buf, u)
    BY <1>2, <1>9 DEF Grows
  <2>2. Ascends(Joined(buf, u)) /\ Marks(Joined(buf, u)) = Marks(buf) \cup Marks(u)
            /\ \A p \in Marks(Joined(buf, u)) : \A q \in G : p <= q
    BY <1>5, <1>6, <1>7, JoinAscends
  <2>3. Leads(done, Marks(Joined(buf, u)) \cup G)
    BY <1>5, <1>6, <2>2, LeadsLess
  <2> QED
    BY <1>2, <1>3, <1>4, <2>1, <2>2, <2>3 DEF SplitInTurn
<1> QED
  BY <1>2, <1>3, <1>8, <1>9, SplitStep

\* chunking.py: the texts made of all the paragraphs are in order.
LEMMA SplitAllInTurn ==
  ASSUME NEW lines \in Seq(Line), InPlace(lines)
  PROVE  SplitAll(lines) \in Accs /\ SplitInTurn(SplitAll(lines), lines, Len(lines))
<1>0. PICK N \in Nat : N = Len(lines)
  OBVIOUS
<1>1. PICK f \in [0..N -> Accs] :
           /\ SplitAll(lines) = f[N]
           /\ f[0] = EmptyAcc
           /\ \A n \in 1..N : f[n] = Split(f[n - 1], lines[n])
  BY <1>0, SplitAllUnfolds
<1> DEFINE T == {n \in 0..N : SplitInTurn(f[n], lines, n)}
<1>2. 0 \in T
  <2>1. f[0].done = <<>> /\ f[0].buf = <<>>
    BY <1>1, EmptyAccIs
  <2>2. Marks(f[0].buf) = {}
    BY <2>1 DEF Marks, ToSet
  <2>3. SplitInTurn(f[0], lines, 0)
    BY <2>1, <2>2 DEF SplitInTurn, Leads, Ascends
  <2> QED
    BY <2>3
<1>3. \A n \in 0..(N - 1) : n \in T => n + 1 \in T
  <2> SUFFICES ASSUME NEW n \in 0..(N - 1), n \in T PROVE n + 1 \in T
    OBVIOUS
  <2>1. n \in Nat /\ n < Len(lines) /\ n + 1 \in 1..N /\ n + 1 \in 0..N /\ (n + 1) - 1 = n /\ n \in 0..N
    BY <1>0
  <2>2. PICK acc \in Accs : acc = f[n]
    BY <1>1, <2>1
  <2>3. SplitInTurn(acc, lines, n)
    BY <2>2
  <2>4. SplitInTurn(Split(acc, lines[n + 1]), lines, n + 1)
    BY <2>1, <2>3, SplitKeepsTurn
  <2>5. f[n + 1] = Split(acc, lines[n + 1])
    BY <1>1, <2>1, <2>2
  <2> QED
    BY <2>1, <2>4, <2>5
<1> HIDE DEF T
<1>4. \A n \in 0..N : n \in T
  BY <1>2, <1>3, Climb
<1>5. N \in T
  BY <1>4
<1> QED
  BY <1>0, <1>1, <1>5 DEF T

\* How long a window is, and where the text goes on behind the start of it.
LEMMA WindowReaches ==
  ASSUME NEW text \in Line, NEW size \in Nat \ {0}, NEW step \in 1..size, NEW rest \in Nat, rest >= size,
         NEW ws, NEW start, Windowed(ws, start, text, size, step, rest), NEW i \in 1..Len(ws), text # <<>>
  PROVE  /\ Len(ws[i]) > 0 /\ start[i] \in Nat /\ ws[i] \in Line
         /\ start[i] = 0 \/ start[i] + (size - step) <= Len(text)
<1>1. PICK L \in Nat, x \in Nat, b \in Nat : L = Len(ws[i]) /\ x = Len(text) /\ b = start[i] /\ ws[i] \in Line
  <2>1. ws[i] \in Line /\ start[i] \in Nat
    BY WindowIsSlice
  <2> QED
    BY <2>1 DEF Line
<1>2. x > 0
  BY <1>1, HasFirst
<1>3. CASE i < Len(ws)
  <2>1. L = size
    BY <1>1, <1>3, WindowIsSlice
  <2>2. b + size <= x
    <3>1. i \in 1..(Len(ws) - 1)
      BY <1>3 DEF Windowed
    <3> QED
      BY <1>1, <3>1 DEF Windowed
  <2> QED
    BY <1>1, <2>1, <2>2
<1>4. CASE i = Len(ws)
  <2>1. L = x - b
    BY <1>1, <1>4, WindowIsSlice
  <2>2. b # 0 => L > rest - step \/ L = size
    BY <1>1, LaterWindowIsLong
  <2>3. L > 0 /\ (b = 0 \/ L >= size - step)
    BY <1>2, <2>1, <2>2
  <2> QED
    BY <1>1, <2>1, <2>3
<1>5. i < Len(ws) \/ i = Len(ws)
  BY DEF Windowed
<1> QED
  BY <1>3, <1>4, <1>5

\* The places of a window are those of the text behind its start.
LEMMA WindowPlaces ==
  ASSUME NEW text \in Line, NEW size \in Nat \ {0}, NEW step \in 1..size, NEW rest \in Nat, rest >= size,
         NEW ws, NEW start, Windowed(ws, start, text, size, step, rest), NEW i \in 1..Len(ws)
  PROVE  PlacesAt(ws[i], text, start[i])
<1>1. \A k \in 1..Len(ws[i]) : start[i] + k \in 1..Len(text) /\ ws[i][k] = text[start[i] + k]
  BY WindowIsSlice
<1> QED
  BY <1>1 DEF PlacesAt

\* A window of a text begins at or before what follows it.
LEMMA WindowLeads ==
  ASSUME NEW text \in Line, text # <<>>, Ascends(text), NEW M \in SUBSET Nat, Early(text, M),
         NEW ws, NEW start, Windowed(ws, start, text, TargetChars, TargetChars - OverlapChars, (3 * TargetChars) \div 2),
         NEW a \in 1..Len(ws)
  PROVE  ws[a] # <<>> /\ Pivot(ws[a], 1, Ahead(ws, a) \cup M)
<1>1. PICK size \in Nat \ {0}, rest \in Nat, o \in Nat :
         size = TargetChars /\ rest = (3 * TargetChars) \div 2 /\ o = OverlapChars /\ o < size /\ rest >= size
  BY WindowSizes
<1>2. PICK step \in 1..size : step = size - o
  <2>1. size - o \in 1..size
    BY <1>1
  <2> QED
    BY <2>1
<1>3. Windowed(ws, start, text, size, step, rest)
  BY <1>1, <1>2
<1>4. PICK w \in Line, b \in Nat, x \in Nat : w = ws[a] /\ b = start[a] /\ x = Len(text) /\ Len(w) > 0
               /\ (b = 0 \/ b + (size - step) <= x)
  <2>1. Len(text) \in Nat
    BY DEF Line
  <2> QED
    BY <1>1, <1>3, <2>1, WindowReaches
<1>5. w # <<>> /\ 1 \in 1..Len(w)
  BY <1>4, HasFirst
<1>6. Pivot(w, 1, Ahead(ws, a))
  <2>1. 1 \in 1..Len(ws[a]) /\ 1 <= step + 1 /\ {} \in SUBSET Nat
    BY <1>4, <1>5
  <2>2. Pivot(ws[a], 1, Ahead(ws, a) \cup {})
    BY <1>1, <1>3, <2>1, WindowsPivot
  <2> QED
    BY <1>4, <2>2, PivotLess
<1>7. PICK j \in 1..x : j = b + 1 /\ w[1] = text[j]
  <2>1. PlacesAt(ws[a], text, start[a])
    BY <1>1, <1>3, WindowPlaces
  <2>2. 1 \in 1..Len(ws[a])
    BY <1>4, <1>5
  <2>3. start[a] + 1 \in 1..Len(text) /\ ws[a][1] = text[start[a] + 1]
    BY <2>1, <2>2 DEF PlacesAt
  <2> QED
    BY <1>4, <2>3
<1>8. j = 1 \/ j <= x - o + 1
  <2>1. CASE b = 0
    BY <1>7, <2>1
  <2>2. CASE b # 0
    <3>1. size - step = o
      BY <1>1, <1>2
    <3>2. b + o <= x
      BY <1>4, <2>2, <3>1
    <3>3. b + 1 <= x - o + 1
      BY <3>2
    <3> QED
      BY <1>7, <3>3
  <2> QED
    BY <2>1, <2>2
<1>9. \A p \in M : w[1] <= p
  BY <1>1, <1>4, <1>7, <1>8 DEF Early
<1> QED
  BY <1>4, <1>5, <1>6, <1>9 DEF Pivot

\* The texts between two overlaps, and the windows of all of them.
LEMMA WholeLeads ==
  ASSUME NEW lines \in Seq(Line), InPlace(lines)
  PROVE  Whole(SplitAll(lines)) \in Seq(Line) /\ Leads(Whole(SplitAll(lines)), {})
<1>1. PICK acc \in Accs : acc = SplitAll(lines) /\ SplitInTurn(acc, lines, Len(lines))
  BY SplitAllInTurn
<1>2. acc.done \in Seq(Line) /\ acc.buf \in Line
  BY AccsAre
<1>3. PICK done \in Seq(Line), b \in Line : done = acc.done /\ b = acc.buf
  BY <1>2
<1>4. Leads(done, Marks(b)) /\ Ascends(b)
  <2>1. Ahead(lines, Len(lines)) = {}
    BY NoneAhead
  <2>2. Leads(done, Marks(b) \cup {})
    BY <1>1, <1>3, <2>1 DEF SplitInTurn
  <2> QED
    BY <1>1, <1>3, <2>2, LeadsLess DEF SplitInTurn
<1>5. CASE b = <<>>
  <2>1. Whole(acc) = done
    BY <1>3, <1>5 DEF Whole
  <2> QED
    BY <1>1, <1>4, <2>1, LeadsLess
<1>6. CASE b # <<>>
  <2>1. Whole(acc) = Append(done, b)
    BY <1>3, <1>6 DEF Whole
  <2>2. Early(b, {})
    BY DEF Early
  <2>3. Leads(Append(done, b), {})
    BY <1>4, <1>6, <2>2, LeadsAppend
  <2> QED
    BY <1>1, <2>1, <2>3, AppendKeeps
<1> QED
  BY <1>5, <1>6

\* chunking.py: the windows of an element are in the order of its text.
LEMMA SplitTextPrecedes ==
  ASSUME NEW e, Paragraphs(e) \in Seq(Line), InPlace(Paragraphs(e))
  PROVE  Precedes(SplitText(e), {})
<1>1. PICK lines \in Seq(Line) : lines = Whole(SplitAll(Paragraphs(e))) /\ Leads(lines, {})
  BY WholeLeads
<1>2. PICK N \in Nat : N = Len(lines)
  OBVIOUS
<1>3. PICK seqs : seqs = [i \in 1..N |-> SplitWindows(lines[i])]
  OBVIOUS
<1>4. SplitText(e) = FlattenSeq(seqs)
  BY <1>1, <1>2, <1>3 DEF SplitText, Whole, SplitWindows
<1>5. \A i \in 1..N : lines[i] \in Line
  BY <1>2
<1>6. \A i \in 1..N : SplitWindows(lines[i]) \in Seq(Line) /\ MarksOf(SplitWindows(lines[i])) = Marks(lines[i])
  BY <1>5, SplitWindowsKeep
<1>7. seqs \in Seq(Seq(Line)) /\ Len(seqs) = N /\ \A i \in 1..N : seqs[i] = SplitWindows(lines[i])
  BY <1>3, <1>6
<1>8. PiecesOf(seqs, lines)
  BY <1>2, <1>6, <1>7 DEF PiecesOf
<1>9. PICK flat : flat = FlattenSeq(seqs)
  OBVIOUS
<1>10. ASSUME NEW n \in 1..Len(flat) PROVE flat[n] # <<>> /\ Pivot(flat[n], 1, Ahead(flat, n) \cup {})
  <2>1. PICK k \in 1..Len(lines) : \E a \in 1..Len(seqs[k]) : Placed(flat, n, seqs, lines, k, a)
    BY <1>7, <1>8, <1>9, FlatPlaces
  <2>2. PICK a \in 1..Len(seqs[k]) : Placed(flat, n, seqs, lines, k, a)
    BY <2>1
  <2>3. lines[k] \in Line /\ lines[k] # <<>> /\ Ascends(lines[k]) /\ Early(lines[k], Ahead(lines, k) \cup {})
    BY <1>1 DEF Leads
  <2>4. PICK M \in SUBSET Nat : M = Ahead(lines, k)
    <3>1. k \in 0..Len(lines)
      OBVIOUS
    <3> QED
      BY <3>1, AheadIs
  <2>5. PICK ws : ws = Windows(lines[k], TargetChars, TargetChars - OverlapChars, (3 * TargetChars) \div 2)
    OBVIOUS
  <2>6. seqs[k] = ws
    BY <1>2, <1>7, <2>5 DEF SplitWindows
  <2>7. PICK start : Windowed(ws, start, lines[k], TargetChars, TargetChars - OverlapChars, (3 * TargetChars) \div 2)
    BY <2>3, <2>5, WindowSizes, WindowsAreWindowed
  <2>8. Early(lines[k], M)
    BY <2>3, <2>4, EarlyLess
  <2>9. ws[a] # <<>> /\ Pivot(ws[a], 1, Ahead(ws, a) \cup M)
    BY <2>3, <2>6, <2>7, <2>8, WindowLeads
  <2>10. flat[n] = ws[a] /\ Ahead(flat, n) \cup {} \subseteq Ahead(ws, a) \cup M
    BY <2>2, <2>4, <2>6 DEF Placed
  <2> QED
    BY <2>9, <2>10, PivotLess
<1> QED
  BY <1>4, <1>9, <1>10 DEF Precedes

-----------------------------------------------------------------------------
(* The parsers give the texts in the order of the file.                    *)

\* No texts, no places.
LEMMA NoTexts ==
  ASSUME NEW els, \A e \in 1..Len(els) : els[e].kind # Text
  PROVE  TextMarks(els) = {}
BY DEF TextMarks

\* No texts are in order.
LEMMA NoTextsAscend ==
  ASSUME NEW els, \A e \in 1..Len(els) : els[e].kind # Text
  PROVE  TextsAscend(els)
BY DEF TextsAscend

\* One text is.
LEMMA OneTextAscends ==
  ASSUME NEW els, Len(els) \in 0..1
  PROVE  TextsAscend(els)
BY DEF TextsAscend

\* Elements behind elements.
LEMMA ConcatTexts ==
  ASSUME NEW S, NEW a \in Seq(S), NEW b \in Seq(S), TextsAscend(a), TextsAscend(b), NoneBehind(TextMarks(a), TextMarks(b))
  PROVE  TextsAscend(a \o b) /\ TextMarks(a \o b) \subseteq TextMarks(a) \cup TextMarks(b)
<1>1. PICK x \in Nat, y \in Nat : x = Len(a) /\ y = Len(b)
  OBVIOUS
<1>2. PICK w : w = a \o b
  OBVIOUS
<1>3. Behind(w, a, b)
  BY <1>2, Concatenates
<1>4. Len(w) = x + y /\ \A i \in 1..(x + y) : w[i] = IF i <= x THEN a[i] ELSE b[i - x]
  BY <1>1, <1>3 DEF Behind
<1>5. \A e \in 1..x : a[e].kind = Text => MarksOf(a[e].text) \subseteq TextMarks(a)
  BY <1>1 DEF TextMarks
<1>6. \A e \in 1..y : b[e].kind = Text => MarksOf(b[e].text) \subseteq TextMarks(b)
  BY <1>1 DEF TextMarks
<1>7. ASSUME NEW i \in 1..(x + y) PROVE (i \in 1..x /\ w[i] = a[i]) \/ (\E k \in 1..y : i = x + k /\ w[i] = b[k])
  <2>1. CASE i <= x
    BY <1>4, <2>1
  <2>2. CASE ~(i <= x)
    <3>1. PICK k \in 1..y : k = i - x
      <4>1. i - x \in 1..y
        BY <2>2
      <4> QED
        BY <4>1
    <3>2. i = x + k
      BY <3>1
    <3> QED
      BY <1>4, <2>2, <3>1, <3>2
  <2> QED
    BY <2>1, <2>2
<1>8. ASSUME NEW f \in 1..(x + y), NEW e \in 1..(f - 1), w[e].kind = Text, w[f].kind = Text
      PROVE  NoneBehind(MarksOf(w[e].text), MarksOf(w[f].text))
  <2>0. e \in 1..(x + y) /\ e < f
    OBVIOUS
  <2>1. CASE f \in 1..x /\ w[f] = a[f]
    <3>1. e \in 1..x /\ w[e] = a[e]
      BY <1>4, <2>0, <2>1
    <3> QED
      BY <1>1, <1>8, <2>1, <3>1 DEF TextsAscend
  <2>2. CASE \E k \in 1..y : f = x + k /\ w[f] = b[k]
    <3>1. PICK k \in 1..y : f = x + k /\ w[f] = b[k]
      BY <2>2
    <3>2. MarksOf(w[f].text) \subseteq TextMarks(b)
      BY <1>6, <1>8, <3>1
    <3>3. CASE e \in 1..x /\ w[e] = a[e]
      <4>1. MarksOf(w[e].text) \subseteq TextMarks(a)
        BY <1>5, <1>8, <3>3
      <4> QED
        BY <3>2, <4>1 DEF NoneBehind
    <3>4. CASE \E h \in 1..y : e = x + h /\ w[e] = b[h]
      <4>1. PICK h \in 1..y : e = x + h /\ w[e] = b[h]
        BY <3>4
      <4>2. h \in 1..(k - 1)
        BY <2>0, <3>1, <4>1
      <4> QED
        BY <1>1, <1>8, <3>1, <4>1, <4>2 DEF TextsAscend
    <3> QED
      BY <1>7, <2>0, <3>3, <3>4
  <2> QED
    BY <1>7, <2>1, <2>2
<1>9. TextsAscend(w)
  BY <1>4, <1>8 DEF TextsAscend
<1>10. ASSUME NEW p \in TextMarks(w) PROVE p \in TextMarks(a) \cup TextMarks(b)
  <2>1. PICK i \in 1..(x + y) : w[i].kind = Text /\ p \in MarksOf(w[i].text)
    BY <1>4 DEF TextMarks
  <2> QED
    BY <1>5, <1>6, <1>7, <2>1
<1> QED
  BY <1>2, <1>9, <1>10

\* Elements without a text behind elements.
LEMMA VisualsBehind ==
  ASSUME NEW S, NEW a \in Seq(S), NEW b \in Seq(S), TextsAscend(a), \A e \in 1..Len(b) : b[e].kind # Text
  PROVE  TextsAscend(a \o b) /\ TextMarks(a \o b) \subseteq TextMarks(a)
<1>1. TextsAscend(b) /\ TextMarks(b) = {}
  BY NoTexts, NoTextsAscend
<1>2. NoneBehind(TextMarks(a), TextMarks(b))
  BY <1>1 DEF NoneBehind
<1> QED
  BY <1>1, <1>2, ConcatTexts

\* Many, one behind the other.
LEMMA FlattenTexts ==
  ASSUME NEW S, NEW seqs \in Seq(Seq(S)), \A n \in 1..Len(seqs) : TextsAscend(seqs[n]),
         \A n \in 1..Len(seqs) : \A m \in 1..(n - 1) : NoneBehind(TextMarks(seqs[m]), TextMarks(seqs[n]))
  PROVE  TextsAscend(FlattenSeq(seqs))
<1>1. PICK N \in Nat : N = Len(seqs)
  OBVIOUS
<1>2. PICK f \in [0..N -> Seq(S)] : FlattenSeq(seqs) = f[N] /\ f[0] = <<>> /\ \A n \in 1..N : f[n] = f[n - 1] \o seqs[n]
  BY <1>1, FlattenUnfolds
<1> DEFINE T == {n \in 0..N : TextsAscend(f[n]) /\ TextMarks(f[n]) \subseteq UNION {TextMarks(seqs[m]) : m \in 1..n}}
<1>3. 0 \in T
  <2>1. \A e \in 1..Len(f[0]) : f[0][e].kind # Text
    BY <1>2
  <2>2. TextsAscend(f[0]) /\ TextMarks(f[0]) = {}
    BY <2>1, NoTexts, NoTextsAscend
  <2> QED
    BY <2>2
<1>4. \A n \in 0..(N - 1) : n \in T => n + 1 \in T
  <2> SUFFICES ASSUME NEW n \in 0..(N - 1), n \in T PROVE n + 1 \in T
    OBVIOUS
  <2>1. n + 1 \in 1..N /\ n + 1 \in 0..N /\ (n + 1) - 1 = n /\ n \in 0..N
    OBVIOUS
  <2>2. PICK a \in Seq(S), b \in Seq(S) : a = f[n] /\ b = seqs[n + 1]
    BY <1>1, <1>2, <2>1
  <2>3. f[n + 1] = a \o b
    BY <1>2, <2>1, <2>2
  <2>4. TextsAscend(a) /\ TextMarks(a) \subseteq UNION {TextMarks(seqs[m]) : m \in 1..n} /\ TextsAscend(b)
    BY <1>1, <2>1, <2>2
  <2>5. NoneBehind(TextMarks(a), TextMarks(b))
    <3>1. \A m \in 1..n : NoneBehind(TextMarks(seqs[m]), TextMarks(b))
      BY <1>1, <2>1, <2>2
    <3> QED
      BY <2>4, <3>1 DEF NoneBehind
  <2>6. TextsAscend(a \o b) /\ TextMarks(a \o b) \subseteq TextMarks(a) \cup TextMarks(b)
    BY <2>4, <2>5, ConcatTexts
  <2>7. TextMarks(a) \cup TextMarks(b) \subseteq UNION {TextMarks(seqs[m]) : m \in 1..(n + 1)}
    <3>1. \A m \in 1..n : m \in 1..(n + 1)
      OBVIOUS
    <3>2. n + 1 \in 1..(n + 1)
      OBVIOUS
    <3> QED
      BY <2>2, <2>4, <3>1, <3>2
  <2> QED
    BY <2>1, <2>3, <2>6, <2>7
<1> HIDE DEF T
<1>5. \A n \in 0..N : n \in T
  BY <1>3, <1>4, Climb
<1>6. N \in T
  BY <1>5
<1> QED
  BY <1>2, <1>6 DEF T

\* The places of items before others are at most theirs.
LEMMA ItemMarksAscend ==
  ASSUME IsFile(source), NEW is \in SUBSET (1..Len(Items)), NEW js \in SUBSET (1..Len(Items)),
         \A i \in is : \A j \in js : i < j
  PROVE  NoneBehind(ItemMarks(is), ItemMarks(js))
<1> SUFFICES ASSUME NEW p \in ItemMarks(is), NEW q \in ItemMarks(js) PROVE p <= q
  BY DEF NoneBehind
<1>1. PICK i \in is : p \in MarksOf(Lines(i))
  BY DEF ItemMarks
<1>2. PICK j \in js : q \in MarksOf(Lines(j))
  BY DEF ItemMarks
<1>3. PICK k \in 1..Len(Lines(i)) : p \in Marks(Lines(i)[k])
  BY <1>1 DEF MarksOf
<1>4. PICK h \in 1..Len(Lines(j)) : q \in Marks(Lines(j)[h])
  BY <1>2 DEF MarksOf
<1>5. Before(Lines(i)[k], Lines(j)[h])
  BY LinesAscend
<1> QED
  BY <1>3, <1>4, <1>5 DEF Before

\* The places of the lines of items.
LEMMA LinesOfMarks ==
  ASSUME IsFile(source), NEW is \in SUBSET (1..Len(Items))
  PROVE  MarksOf(LinesOf(InOrder(is))) \subseteq ItemMarks(is)
<1>1. PICK order \in Seq(is) : order = InOrder(is) /\ order \in Seq(1..Len(Items))
  BY ItemsInOrder
<1>2. \A p \in 1..Len(LinesOf(order)) : \E n \in 1..Len(order) :
          \E k \in 1..Len(Lines(order[n])) : LinesOf(order)[p] = Lines(order[n])[k]
  BY <1>1, LinesOfAre
<1> SUFFICES ASSUME NEW q \in MarksOf(LinesOf(order)) PROVE q \in ItemMarks(is)
  BY <1>1
<1>3. PICK p \in 1..Len(LinesOf(order)) : q \in Marks(LinesOf(order)[p])
  BY DEF MarksOf
<1>4. PICK n \in 1..Len(order) : \E k \in 1..Len(Lines(order[n])) : LinesOf(order)[p] = Lines(order[n])[k]
  BY <1>2
<1>5. q \in MarksOf(Lines(order[n]))
  BY <1>3, <1>4 DEF MarksOf
<1>6. order[n] \in is
  OBVIOUS
<1> QED
  BY <1>5, <1>6 DEF ItemMarks

\* parsers/text.py, office.py: the sections of a file come in its order.
LEMMA SectionsAscend ==
  ASSUME IsFile(source), NEW spaced \in BOOLEAN
  PROVE  TextsAscend(BySection(spaced))
<1>1. PICK N \in Nat : N = Len(Starts)
  BY StartsAre
<1>2. PICK seqs : seqs = SectionTexts(spaced)
  OBVIOUS
<1>3. \A n \in 1..N : /\ Made(seqs[n]) /\ Len(seqs[n]) \in 0..1
                      /\ \A e \in 1..Len(seqs[n]) : seqs[n][e].text = LinesOf(InOrder(BodyOf(n)))
  BY <1>1, <1>2, SectionMakes
<1>4. \A n \in 1..N : seqs[n] \in Seq(Elements)
  BY <1>3 DEF Made
<1>5. seqs = [n \in 1..N |-> seqs[n]]
  BY <1>1, <1>2 DEF SectionTexts
<1>6. seqs \in Seq(Seq(Elements)) /\ Len(seqs) = N
  BY <1>4, <1>5
<1>7. \A n \in 1..N : TextsAscend(seqs[n])
  BY <1>3, OneTextAscends
<1>8. \A n \in 1..N : BodyOf(n) \in SUBSET (1..Len(Items))
  BY DEF BodyOf, Is
<1>9. ASSUME NEW n \in 1..N PROVE TextMarks(seqs[n]) \subseteq ItemMarks(BodyOf(n))
  <2>1. MarksOf(LinesOf(InOrder(BodyOf(n)))) \subseteq ItemMarks(BodyOf(n))
    BY <1>8, LinesOfMarks
  <2> QED
    BY <1>3, <2>1 DEF TextMarks
<1>10. ASSUME NEW n \in 1..N, NEW m \in 1..(n - 1) PROVE NoneBehind(TextMarks(seqs[m]), TextMarks(seqs[n]))
  <2>1. m \in 1..N /\ m < N /\ m + 1 \in 1..N /\ (m + 1 = n \/ m + 1 < n)
    BY <1>1
  <2>2. PICK u \in Nat, v \in Nat : u = Starts[m + 1] /\ v = Starts[n] /\ u <= v
    <3>1. \A k \in 1..N : Starts[k] \in Nat
      BY <1>1, StartsAre
    <3>2. m + 1 = n \/ Starts[m + 1] < Starts[n]
      BY <1>1, <2>1, StartsAre
    <3> QED
      BY <2>1, <3>1, <3>2
  <2>3. \A i \in BodyOf(m) : i < u
    BY <1>1, <2>1, <2>2 DEF BodyOf
  <2>4. \A j \in BodyOf(n) : j > v
    BY <2>2 DEF BodyOf
  <2>5. \A i \in BodyOf(m) : \A j \in BodyOf(n) : i < j
    <3>1. \A k \in 1..N : \A i \in BodyOf(k) : i \in Nat
      BY <1>8
    <3> QED
      BY <2>1, <2>2, <2>3, <2>4, <3>1
  <2>6. NoneBehind(ItemMarks(BodyOf(m)), ItemMarks(BodyOf(n)))
    BY <1>8, <2>1, <2>5, ItemMarksAscend
  <2> QED
    BY <1>9, <2>1, <2>6 DEF NoneBehind
<1>11. TextsAscend(FlattenSeq(seqs))
  BY <1>6, <1>7, <1>10, FlattenTexts
<1> QED
  BY <1>2, <1>11, BySectionIs

\* parsers/pdf.py: so do the pages.
LEMMA PageAscends ==
  ASSUME IsFile(source), source.type = "pdf", NEW p
  PROVE  /\ ParsePage(p) \in Seq(Elements) /\ TextsAscend(ParsePage(p))
         /\ TextMarks(ParsePage(p)) \subseteq ItemMarks(OnPage(Readable, p))
<1>1. PICK a, b, c : a = PageText(p) /\ b = PageShows(p) /\ c = PageTables(p)
  OBVIOUS
<1>2. Made(a) /\ Len(a) \in 0..1 /\ \A e \in 1..Len(a) : a[e].text = LinesOf(InOrder(OnPage(Readable, p)))
  BY <1>1, PageTextMakes
<1>3. Made(b) /\ \A e \in 1..Len(b) : b[e].kind # Text
  BY <1>1, PageShowsMake
<1>4. Made(c) /\ \A e \in 1..Len(c) : c[e].kind # Text
  BY <1>1, PageTablesMake
<1>5. a \in Seq(Elements) /\ b \in Seq(Elements) /\ c \in Seq(Elements)
  BY <1>2, <1>3, <1>4 DEF Made
<1>6. TextsAscend(a)
  BY <1>2, OneTextAscends
<1>7. TextMarks(a) \subseteq ItemMarks(OnPage(Readable, p))
  <2>1. OnPage(Readable, p) \in SUBSET (1..Len(Items))
    BY ReadableAre DEF OnPage
  <2>2. MarksOf(LinesOf(InOrder(OnPage(Readable, p)))) \subseteq ItemMarks(OnPage(Readable, p))
    BY <2>1, LinesOfMarks
  <2> QED
    BY <1>2, <2>2 DEF TextMarks
<1>8. PICK ab : ab = a \o b
  OBVIOUS
<1>9. ab \in Seq(Elements) /\ TextsAscend(ab) /\ TextMarks(ab) \subseteq TextMarks(a)
  BY <1>3, <1>5, <1>6, <1>8, VisualsBehind, Concatenates
<1>10. PICK abc : abc = ab \o c
  OBVIOUS
<1>11. abc \in Seq(Elements) /\ TextsAscend(abc) /\ TextMarks(abc) \subseteq TextMarks(ab)
  BY <1>4, <1>5, <1>9, <1>10, VisualsBehind, Concatenates
<1>12. ParsePage(p) = abc
  BY <1>1, <1>8, <1>10, ParsePageIs
<1> QED
  BY <1>7, <1>9, <1>11, <1>12

\* pdf.py: the texts of the pages come in the order of the pages.
LEMMA PdfAscends ==
  ASSUME IsFile(source), source.type = "pdf"
  PROVE  TextsAscend(ParsePdf)
<1>1. PICK N \in Nat : N = Len(FilePages)
  BY FilePagesAre
<1>2. PICK seqs : seqs = [n \in 1..N |-> ParsePage(FilePages[n])]
  OBVIOUS
<1>3. \A n \in 1..N : /\ seqs[n] \in Seq(Elements) /\ TextsAscend(seqs[n])
                      /\ TextMarks(seqs[n]) \subseteq ItemMarks(OnPage(Readable, FilePages[n]))
  BY <1>2, PageAscends
<1>4. seqs \in Seq(Seq(Elements)) /\ Len(seqs) = N
  <2>1. seqs = [n \in 1..N |-> seqs[n]]
    BY <1>2
  <2> QED
    BY <1>3, <2>1
<1>5. ASSUME NEW n \in 1..N, NEW m \in 1..(n - 1) PROVE NoneBehind(TextMarks(seqs[m]), TextMarks(seqs[n]))
  <2>1. m \in 1..N /\ FilePages[m] < FilePages[n]
    BY <1>1, FilePagesAre
  <2>2. PICK is \in SUBSET (1..Len(Items)), js \in SUBSET (1..Len(Items)) :
          is = OnPage(Readable, FilePages[m]) /\ js = OnPage(Readable, FilePages[n])
    BY ReadableAre DEF OnPage
  <2>3. ASSUME NEW i \in is, NEW j \in js PROVE i < j
    <3>1. Items[i].page = FilePages[m] /\ Items[j].page = FilePages[n]
      BY <2>2 DEF OnPage
    <3>2. i \in Nat /\ j \in Nat /\ i \in 1..Len(Items) /\ j \in 1..Len(Items)
      OBVIOUS
    <3>3. ASSUME j <= i PROVE FALSE
      <4>1. j \in 1..i
        BY <3>2, <3>3
      <4>2. Items[j].page <= Items[i].page /\ Items[j].page \in Nat /\ Items[i].page \in Nat
        BY <3>2, <4>1, ItemsAre
      <4> QED
        BY <2>1, <3>1, <4>2
    <3> QED
      BY <3>2, <3>3
  <2>4. NoneBehind(ItemMarks(is), ItemMarks(js))
    BY <2>3, ItemMarksAscend
  <2> QED
    BY <1>3, <2>1, <2>2, <2>4 DEF NoneBehind
<1>6. TextsAscend(FlattenSeq(seqs))
  BY <1>3, <1>4, <1>5, FlattenTexts
<1> QED
  BY <1>1, <1>2, <1>6 DEF ParsePdf, FilePages

\* A table or a figure has the kind of its item.
LEMMA VisualKind ==
  ASSUME NEW i, NEW section
  PROVE  Visual(i, section).kind = Items[i].kind
BY DEF Visual, Element

\* parsers/: a workbook, a CSV file and an image have no text.
LEMMA SheetsHaveNone ==
  ASSUME IsFile(source), source.type \in {"xlsx", "csv"}
  PROVE  TextsAscend(ParseSheets)
<1>1. \A i \in 1..Len(Items) : Items[i].kind # Text
  <2>1. KindsOf(source.type) = {Table}
    BY DEF KindsOf
  <2>2. \A i \in 1..Len(Items) : Items[i].kind = Table
    BY <2>1, ItemsAre
  <2> QED
    BY <2>2 DEF Table, Text
<1>2. PICK N \in Nat : N = Len(Tables) /\ \A n \in 1..N : Tables[n] \in 1..Len(Items)
  <2>1. PICK is : is = {i \in Is(Table) : Items[i].lengths # <<>>}
    OBVIOUS
  <2>2. is \in SUBSET (1..Len(Items))
    BY <2>1 DEF Is
  <2>3. InOrder(is) \in Seq(1..Len(Items)) /\ Len(InOrder(is)) \in Nat
    BY <2>2, ItemsInOrder
  <2>4. Tables = InOrder(is)
    BY <2>1 DEF Tables
  <2> QED
    BY <2>3, <2>4
<1>3. CASE Tables = <<>>
  <2>1. PICK el : el = Visual(1, "")
    OBVIOUS
  <2>2. ParseSheets = <<el>>
    BY <1>3, <2>1 DEF ParseSheets
  <2>3. Len(ParseSheets) \in 0..1
    BY <2>2
  <2> QED
    BY <2>3, OneTextAscends
<1>4. CASE Tables # <<>>
  <2>1. PICK els : els = [n \in 1..N |-> Visual(Tables[n], Items[Tables[n]].title)]
    OBVIOUS
  <2>2. ParseSheets = els
    BY <1>2, <1>4, <2>1 DEF ParseSheets
  <2>3. Len(els) = N /\ \A n \in 1..N : els[n].kind # Text
    BY <1>1, <1>2, <2>1, VisualKind
  <2> QED
    BY <2>2, <2>3, NoTextsAscend
<1> QED
  BY <1>3, <1>4

\* parsers: an image has no text.
LEMMA ImageHasNone ==
  ASSUME IsFile(source), source.type = "image"
  PROVE  TextsAscend(ParseImage)
<1>1. \A i \in 1..Len(Items) : Items[i].kind # Text
  <2>1. KindsOf(source.type) = {Figure}
    BY DEF KindsOf
  <2>2. \A i \in 1..Len(Items) : Items[i].kind = Figure
    BY <2>1, ItemsAre
  <2> QED
    BY <2>2 DEF Figure, Text
<1>2. PICK N \in Nat : N = Len(Items)
  BY ItemsAre
<1>3. PICK f : f = [n \in 1..N |-> n]
  OBVIOUS
<1>4. PICK els : els = [n \in 1..N |-> Visual(f[n], "")]
  OBVIOUS
<1>5. ParseImage = els
  <2>1. \A n \in 1..N : f[n] = n
    BY <1>3
  <2>2. els = [n \in 1..N |-> Visual(n, "")]
    BY <1>4, <2>1
  <2> QED
    BY <1>2, <2>2 DEF ParseImage
<1>6. \A n \in 1..N : f[n] \in 1..Len(Items)
  BY <1>2, <1>3
<1>7. \A n \in 1..Len(els) : els[n].kind # Text
  <2>1. Len(els) = N
    <3>1. N \in Nat /\ els \in [1..N -> {els[n] : n \in 1..N}]
      BY <1>2, <1>4
    <3> QED
      BY <3>1
  <2>2. ASSUME NEW n \in 1..N PROVE els[n].kind # Text
    <3>1. els[n] = Visual(f[n], "")
      BY <1>4
    <3>2. els[n].kind = Items[f[n]].kind
      BY <3>1, VisualKind
    <3> QED
      BY <1>1, <1>6, <3>2
  <2> QED
    BY <2>1, <2>2
<1> QED
  BY <1>5, <1>7, NoTextsAscend

\* parsers/text.py: one text, and tables behind it.
LEMMA HtmlAscends ==
  ASSUME IsFile(source), source.type = "html"
  PROVE  TextsAscend(ParseHtml)
<1>1. \A i \in Readable : Under(i, "")
  BY DEF Under
<1>2. PICK spaced \in BOOLEAN, is \in SUBSET Readable, section \in Titles : spaced = TRUE /\ is = Readable /\ section = ""
  BY NoTitle
<1>3. PICK els : els = OneText(InOrder(is), section, spaced)
  OBVIOUS
<1>4. Made(els) /\ Len(els) \in 0..1
  BY <1>1, <1>2, <1>3, TextMakes
<1>5. PICK tables : tables = [n \in 1..Len(Tables) |-> Visual(Tables[n], "")]
  OBVIOUS
<1>6. tables = [n \in 1..Len(Tables) |-> tables[n]] /\ \A n \in 1..Len(Tables) : VisualOf(tables[n], Tables[n])
  BY <1>5, NoTitle, VisualIsOf
<1>7. Made(tables) /\ \A n \in 1..Len(tables) : tables[n].kind # Text
  BY <1>6, TablesMake
<1>8. ParseHtml = els \o tables
  BY <1>2, <1>3, <1>5 DEF ParseHtml, Readable
<1>9. els \in Seq(Elements) /\ tables \in Seq(Elements)
  BY <1>4, <1>7 DEF Made
<1>10. TextsAscend(els)
  BY <1>4, OneTextAscends
<1> QED
  BY <1>7, <1>8, <1>9, <1>10, VisualsBehind

\* text.py: one text.
LEMMA TxtAscends ==
  ASSUME IsFile(source), source.type = "txt"
  PROVE  TextsAscend(ParseTxt)
<1>1. \A i \in Is(Text) : Under(i, "")
  BY DEF Under
<1>2. PICK spaced \in BOOLEAN, is \in SUBSET Readable, section \in Titles : spaced = TRUE /\ is = Is(Text) /\ section = ""
  BY NoTitle DEF Readable
<1>3. PICK els : els = OneText(InOrder(is), section, spaced)
  OBVIOUS
<1>4. Len(els) \in 0..1
  BY <1>1, <1>2, <1>3, TextMakes
<1>5. els = ParseTxt
  BY <1>2, <1>3 DEF ParseTxt
<1> QED
  BY <1>4, <1>5, OneTextAscends

\* parsers/office.py: the sections, and tables behind them.
LEMMA DocxAscends ==
  ASSUME IsFile(source), source.type = "docx"
  PROVE  TextsAscend(ParseDocx)
<1>2. PICK spaced \in BOOLEAN : spaced = FALSE
  OBVIOUS
<1>3. PICK els : els = BySection(spaced)
  OBVIOUS
<1>4. Made(els) /\ TextsAscend(els)
  BY <1>3, SectionsMake, SectionsAscend
<1>5. PICK section \in Titles : section = TitleOf(Headings)
  BY TitleOfIs DEF Headings, Is
<1>6. PICK tables : tables = [n \in 1..Len(Tables) |-> Visual(Tables[n], section)]
  OBVIOUS
<1>7. tables = [n \in 1..Len(Tables) |-> tables[n]] /\ \A n \in 1..Len(Tables) : VisualOf(tables[n], Tables[n])
  BY <1>6, VisualIsOf
<1>8. Made(tables) /\ \A n \in 1..Len(tables) : tables[n].kind # Text
  BY <1>7, TablesMake
<1>9. ParseDocx = els \o tables
  BY <1>2, <1>3, <1>5, <1>6 DEF ParseDocx
<1>10. els \in Seq(Elements) /\ tables \in Seq(Elements)
  BY <1>4, <1>8 DEF Made
<1> QED
  BY <1>4, <1>8, <1>9, <1>10, VisualsBehind

\* Whatever the type of the file, the other path.
LEMMA ParseAscends ==
  ASSUME IsFile(source), HasParser, ~Docling
  PROVE  TextsAscend(Parse)
<1>0. source.type \in Types /\ source.type # "pptx"
  BY ItemsAre DEF HasParser
<1>1. CASE source.type = "pdf"
  <2>1. Parse = ParsePdf
    BY <1>1 DEF Parse
  <2> QED
    BY <1>1, <2>1, PdfAscends
<1>2. CASE source.type = "docx"
  <2>1. Parse = ParseDocx
    BY <1>2 DEF Parse
  <2> QED
    BY <1>2, <2>1, DocxAscends
<1>3. CASE source.type \in {"xlsx", "csv"}
  <2>1. Parse = ParseSheets
    BY <1>3 DEF Parse
  <2> QED
    BY <1>3, <2>1, SheetsHaveNone
<1>4. CASE source.type = "md"
  <2>1. PICK spaced \in BOOLEAN : spaced = TRUE
    OBVIOUS
  <2>2. TextsAscend(BySection(spaced))
    BY SectionsAscend
  <2>3. Parse = BySection(spaced)
    BY <1>4, <2>1 DEF Parse, ParseMarkdown
  <2> QED
    BY <2>2, <2>3
<1>5. CASE source.type = "html"
  <2>1. Parse = ParseHtml
    BY <1>5 DEF Parse
  <2> QED
    BY <1>5, <2>1, HtmlAscends
<1>6. CASE source.type = "txt"
  <2>1. Parse = ParseTxt
    BY <1>6 DEF Parse
  <2> QED
    BY <1>6, <2>1, TxtAscends
<1>7. CASE source.type = "image"
  <2>1. Parse = ParseImage
    BY <1>7 DEF Parse
  <2> QED
    BY <1>7, <2>1, ImageHasNone
<1> QED
  BY <1>0, <1>1, <1>2, <1>3, <1>4, <1>5, <1>6, <1>7 DEF Types

\* An element for each item comes in the order of the items.
LEMMA DoclingAscends ==
  ASSUME IsFile(source), NEW els \in Seq(Elements), DoclingDoc(els)
  PROVE  TextsAscend(els)
<1> SUFFICES ASSUME NEW f \in 1..Len(els), NEW e \in 1..(f - 1), els[e].kind = Text, els[f].kind = Text,
                    NEW p \in MarksOf(els[e].text), NEW q \in MarksOf(els[f].text)
             PROVE  p <= q
  BY DEF TextsAscend, NoneBehind
<1>1. e \in 1..Len(els) /\ e < f
  OBVIOUS
<1>2. PICK i \in 1..Len(Items), j \in 1..Len(Items) : i = els[e].item /\ j = els[f].item /\ i < j
  BY <1>1 DEF DoclingDoc, OfItem
<1>3. PICK n \in 1..Len(els[e].text) : p \in Marks(els[e].text[n])
  BY DEF MarksOf
<1>4. PICK m \in 1..Len(els[f].text) : q \in Marks(els[f].text[m])
  BY DEF MarksOf
<1>5. PICK k \in 1..Len(Lines(i)) : els[e].text[n] = Lines(i)[k]
  BY <1>1, <1>2 DEF DoclingDoc, OfItem
<1>6. PICK h \in 1..Len(Lines(j)) : els[f].text[m] = Lines(j)[h]
  BY <1>2 DEF DoclingDoc, OfItem
<1>7. Before(Lines(i)[k], Lines(j)[h])
  BY <1>2, LinesAscend
<1> QED
  BY <1>3, <1>4, <1>5, <1>6, <1>7 DEF Before

\* normalize.py: without the repeated lines they still do.
LEMMA DenoiseAscends ==
  ASSUME NEW els \in Seq(Elements), TextsAscend(els)
  PROVE  TextsAscend(Denoise(els))
<1>1. PICK new \in Seq(Elements) : new = Denoise(els) /\ Len(new) = Len(els)
               /\ \A e \in 1..Len(els) : Denoised(new[e], els[e])
  BY DenoiseKeeps
<1>2. ASSUME NEW e \in 1..Len(els) PROVE new[e].kind = els[e].kind /\ MarksOf(new[e].text) \subseteq MarksOf(els[e].text)
  <2>1. Denoised(new[e], els[e])
    BY <1>1
  <2>2. new[e].kind = els[e].kind
    BY <2>1, DenoisedFields
  <2>3. els[e].text \in Seq(Line) /\ Cleaned(new[e].text, els[e].text)
    BY <2>1, ElementsAre DEF Denoised
  <2>4. Among(new[e].text, els[e].text)
    BY <2>3, CleanedLines
  <2>5. MarksOf(new[e].text) \subseteq MarksOf(els[e].text)
    BY <2>4 DEF Among, MarksOf
  <2> QED
    BY <2>2, <2>5
<1>3. ASSUME NEW f \in 1..Len(els), NEW e \in 1..(f - 1), new[e].kind = Text, new[f].kind = Text
      PROVE  NoneBehind(MarksOf(new[e].text), MarksOf(new[f].text))
  <2>1. e \in 1..Len(els)
    OBVIOUS
  <2>2. NoneBehind(MarksOf(els[e].text), MarksOf(els[f].text))
    BY <1>2, <1>3, <2>1 DEF TextsAscend
  <2> QED
    BY <1>2, <2>1, <2>2 DEF NoneBehind
<1> QED
  BY <1>1, <1>3 DEF TextsAscend

\* What the chunker is given comes in the order of the file.
LEMMA ParsedAscends ==
  ASSUME IsFile(source), HasParser
  PROVE  TextsAscend(Denoise(Parse))
<1>1. Parse \in Seq(Elements)
  BY ParseMakes DEF Made
<1>2. CASE Docling
  <2>1. TextsAscend(Parse)
    <3>1. Parse = ParseDocling
      BY <1>2 DEF Parse
    <3> QED
      BY <1>1, <3>1, ParsedDocling, DoclingAscends
  <2> QED
    BY <1>1, <2>1, DenoiseAscends
<1>3. CASE ~Docling
  BY <1>1, <1>3, ParseAscends, DenoiseAscends
<1> QED
  BY <1>2, <1>3

-----------------------------------------------------------------------------
(* The order of the chunks: the invariant of the loops.                    *)

\* The elements may be more.
LEMMA FromTheseMore ==
  ASSUME NEW c, NEW a \in Int, NEW b \in Int, FromThese(c, a, b), NEW x \in Int, NEW y \in Int, x <= a, b <= y
  PROVE  FromThese(c, x, y)
<1>1. ASSUME NEW e \in a..(b - 1) PROVE e \in x..(y - 1)
  OBVIOUS
<1> QED
  BY <1>1 DEF FromThese

\* The first place of a chunk is before all of a chunk of later elements.
LEMMA EarlierFirst ==
  ASSUME TextsAscend(doc), NEW c \in ChunkRecs, NEW d \in ChunkRecs, c.kind = Text, d.kind = Text,
         NEW a \in Int, NEW b \in Int, NEW z \in Int, FromThese(c, a, b), FromThese(d, b, z), NEW p \in Marks(d.text)
  PROVE  c.text[1] <= p
<1>1. PICK t \in Line : t = c.text
  BY DEF ChunkRecs
<1>2. t # <<>> /\ 1 \in 1..Len(t) /\ t[1] \in Nat
  <2>1. t # <<>>
    BY <1>1 DEF FromThese
  <2> QED
    BY <2>1, HasFirst
<1>3. p \in Nat
  <2>1. d.text \in Line
    BY DEF ChunkRecs
  <2> QED
    BY <2>1 DEF Marks, Line, ToSet
<1>4. CASE t[1] = 0
  BY <1>1, <1>3, <1>4
<1>5. CASE t[1] # 0
  <2>1. t[1] \in Marks(t)
    BY <1>2, <1>5 DEF Marks, ToSet
  <2>2. PICK e \in a..(b - 1) : e \in 1..Len(doc) /\ doc[e].kind = Text /\ t[1] \in MarksOf(doc[e].text)
    BY <1>1, <2>1 DEF FromThese
  <2>3. PICK f \in b..(z - 1) : f \in 1..Len(doc) /\ doc[f].kind = Text /\ p \in MarksOf(doc[f].text)
    BY DEF FromThese
  <2>4. e \in 1..(f - 1)
    BY <2>2, <2>3
  <2>5. NoneBehind(MarksOf(doc[e].text), MarksOf(doc[f].text))
    BY <2>2, <2>3, <2>4 DEF TextsAscend
  <2> QED
    BY <1>1, <2>2, <2>3, <2>5 DEF NoneBehind
<1> QED
  BY <1>4, <1>5

\* Chunks of elements behind chunks of earlier ones.
LEMMA BatchesJoin ==
  ASSUME TextsAscend(doc), NEW cs \in Seq(ChunkRecs), NEW new \in Seq(ChunkRecs), NEW a \in Int, NEW b \in Int,
         NEW z \in Int,
         a <= b, b <= z, Batch(cs, a, b), Batch(new, b, z), NEW w, w = cs \o new
  PROVE  Batch(w, a, z)
<1>1. After(w, cs, new)
  BY ChunksAfter
<1>2. PICK x \in Nat, y \in Nat : x = Len(cs) /\ y = Len(new) /\ Len(w) = x + y
  BY <1>1 DEF After
<1>3. \A n \in 1..x : w[n] = cs[n] /\ cs[n] \in ChunkRecs /\ FromThese(cs[n], a, b)
  BY <1>1, <1>2 DEF After, Batch
<1>4. \A k \in 1..y : w[x + k] = new[k] /\ new[k] \in ChunkRecs /\ FromThese(new[k], b, z)
  <2>1. \A k \in 1..y : FromThese(new[k], b, z)
    BY <1>2 DEF Batch
  <2>2. \A k \in 1..y : w[x + k] = new[k]
    BY <1>1, <1>2 DEF After
  <2>3. \A k \in 1..y : new[k] \in ChunkRecs
    BY <1>2
  <2> QED
    BY <2>1, <2>2, <2>3
<1>5. \A n \in 1..Len(w) : FromThese(w[n], a, z)
  <2>1. ASSUME NEW n \in 1..x PROVE FromThese(w[n], a, z)
    <3>1. FromThese(cs[n], a, z)
      BY <1>3, FromTheseMore
    <3> QED
      BY <1>3, <3>1
  <2>2. ASSUME NEW k \in 1..y PROVE FromThese(w[x + k], a, z)
    <3>1. FromThese(new[k], a, z)
      BY <1>4, FromTheseMore
    <3> QED
      BY <1>4, <3>1
  <2>3. ASSUME NEW n \in 1..Len(w), n \notin 1..x PROVE \E k \in 1..y : n = x + k
    <3>1. n - x \in 1..y /\ n = x + (n - x)
      BY <1>2, <2>3
    <3> QED
      BY <3>1
  <2> QED
    BY <2>1, <2>2, <2>3
<1>6. ASSUME NEW n \in 1..Len(w), n > 1, w[n].kind = Text, w[n - 1].kind = Text, NEW p \in Marks(w[n].text)
      PROVE  w[n - 1].text[1] <= p
  <2>1. CASE n <= x
    <3>1. n \in 1..x /\ n - 1 \in 1..x
      BY <1>6, <2>1
    <3> QED
      BY <1>2, <1>3, <1>6, <3>1 DEF Batch, Chained
  <2>2. CASE n = x + 1
    <3>1. n - 1 \in 1..x /\ 1 \in 1..y /\ n = x + 1 /\ n - 1 = x /\ x \in 1..x
      BY <1>2, <1>6, <2>2
    <3>2. w[n] = new[1] /\ w[n - 1] = cs[x]
      BY <1>3, <1>4, <3>1
    <3>3. cs[x] \in ChunkRecs /\ FromThese(cs[x], a, b) /\ new[1] \in ChunkRecs /\ FromThese(new[1], b, z)
      BY <1>3, <1>4, <3>1
    <3> QED
      BY <1>6, <3>2, <3>3, EarlierFirst
  <2>3. CASE n > x + 1
    <3>1. PICK k \in 1..y : n = x + k /\ k > 1
      <4>1. n - x \in 1..y /\ n = x + (n - x) /\ n - x > 1
        BY <1>2, <2>3
      <4> QED
        BY <4>1
    <3>2. k - 1 \in 1..y /\ n - 1 = x + (k - 1)
      BY <3>1
    <3>3. w[n] = new[k] /\ w[n - 1] = new[k - 1]
      BY <1>4, <3>1, <3>2
    <3> QED
      BY <1>2, <1>6, <3>1, <3>3 DEF Batch, Chained
  <2>4. n \in Nat /\ n > 1
    BY <1>2, <1>6
  <2>5. n <= x \/ n = x + 1 \/ n > x + 1
    BY <1>2, <2>4
  <2> QED
    BY <2>1, <2>2, <2>3, <2>5
<1> QED
  BY <1>5, <1>6 DEF Batch, Chained

\* The chunks of a table or figure have no window of text.
LEMMA ShownBatch ==
  ASSUME NEW made, NEW e, doc[e].kind # Text, NEW hint, ShownBy(made, e, hint), NEW a, NEW b
  PROVE  Batch(made, a, b)
<1>1. \A n \in 1..Len(made) : made[n].kind # Text
  BY DEF ShownBy, Shows
<1> QED
  BY <1>1 DEF Batch, FromThese, Chained

\* The windows of a run, which it has in order.
LEMMA WindowsBatch ==
  ASSUME NEW els, RunOf(els), NEW made, NEW pieces, WindowsOf(made, els, pieces),
         Precedes(pieces, {}), NEW a \in Int, NEW b \in Int, a = els[1], b = a + Len(els)
  PROVE  Batch(made, a, b)
<1>1. PICK N \in Nat : N = Len(els)
  BY DEF RunOf
<1>2. ASSUME NEW n \in 1..Len(made) PROVE FromThese(made[n], a, b)
  <2>1. n \in 1..Len(pieces) /\ Window(made[n], els) /\ made[n].text = pieces[n]
    BY DEF WindowsOf
  <2>2. made[n].text # <<>>
    BY <2>1 DEF Precedes
  <2>3. ASSUME NEW p \in Marks(made[n].text)
        PROVE  \E e \in a..(b - 1) : e \in 1..Len(doc) /\ doc[e].kind = Text /\ p \in MarksOf(doc[e].text)
    <3>1. PICK j \in 1..Len(els) : p \in MarksOf(doc[els[j]].text)
      BY <2>1, <2>3 DEF Window, RunMarks
    <3>2. els[j] = a + j - 1 /\ doc[els[j]].kind = Text
      BY DEF RunOf
    <3>3. els[j] \in 1..Len(doc)
      <4>1. els \in Seq(1..Len(doc))
        BY DEF RunOf
      <4> QED
        BY <4>1
    <3>4. els[j] \in a..(b - 1)
      BY <1>1, <3>2
    <3> QED
      BY <3>1, <3>2, <3>3, <3>4
  <2> QED
    BY <2>2, <2>3 DEF FromThese
<1>3. ASSUME NEW n \in 1..Len(made), n > 1, NEW p \in Marks(made[n].text)
      PROVE  made[n - 1].text[1] <= p
  <2>1. Len(made) = Len(pieces) /\ Len(made) \in Nat /\ \A k \in 1..Len(made) : made[k].text = pieces[k]
    BY DEF WindowsOf
  <2>2. PICK k \in 1..Len(pieces) : k = n - 1 /\ k \in 1..Len(made) /\ n \in (k + 1)..Len(pieces)
    BY <1>3, <2>1
  <2>3. p \in Ahead(pieces, k)
    BY <1>3, <2>1, <2>2 DEF Ahead
  <2>4. Pivot(pieces[k], 1, Ahead(pieces, k) \cup {})
    BY DEF Precedes
  <2>5. pieces[k][1] <= p
    BY <2>3, <2>4 DEF Pivot
  <2> QED
    BY <2>1, <2>2, <2>5
<1> QED
  BY <1>2, <1>3 DEF Batch, Chained

\* chunker.py: the paragraphs of a run are in the order of the file.
LEMMA RunInPlace ==
  ASSUME doc \in Seq(Elements), DocOrdered, NEW els, RunOf(els)
  PROVE  InPlace(RunParagraphs(els))
<1>1. els \in Seq(1..Len(doc))
  BY DEF RunOf
<1>2. PICK order : WrittenBy(order, els)
  BY <1>1, WrittenAre
<1>3. PICK M \in Nat : M = Len(order)
  BY <1>2 DEF WrittenBy
<1>4. PICK ws : ws = Written(els)
  OBVIOUS
<1>5. ws \in Seq(1..Len(doc)) /\ Len(ws) = M
  BY <1>2, <1>3, <1>4 DEF WrittenBy
<1>6. \A n \in 1..M : ws[n] \in 1..Len(doc) /\ doc[ws[n]].kind = Text
  <2>1. \A n \in 1..M : ws[n] = els[order[n]] /\ order[n] \in 1..Len(els)
    BY <1>2, <1>3, <1>4 DEF WrittenBy
  <2>2. \A j \in 1..Len(els) : doc[els[j]].kind = Text
    BY DEF RunOf
  <2>3. ASSUME NEW n \in 1..M PROVE ws[n] \in 1..Len(doc) /\ doc[ws[n]].kind = Text
    <3>1. ws[n] \in 1..Len(doc)
      BY <1>5
    <3>2. ws[n] = els[order[n]] /\ order[n] \in 1..Len(els)
      BY <2>1
    <3>3. doc[els[order[n]]].kind = Text
      BY <2>2, <3>2
    <3> QED
      BY <3>1, <3>2, <3>3
  <2> QED
    BY <2>3
<1>7. ASSUME NEW m \in 1..M, NEW n \in 1..M, m < n PROVE ws[m] < ws[n]
  <2>1. PICK i \in 1..Len(els), j \in 1..Len(els) : i = order[m] /\ j = order[n] /\ i < j
    <3>1. order \in Seq(1..Len(els))
      BY <1>2 DEF WrittenBy
    <3>2. order[m] \in 1..Len(els) /\ order[n] \in 1..Len(els)
      BY <1>3, <3>1
    <3>3. order[m] < order[n]
      BY <1>2, <1>3, <1>7 DEF WrittenBy
    <3> QED
      BY <3>2, <3>3
  <2>2. ws[m] = els[i] /\ ws[n] = els[j]
    BY <1>2, <1>3, <1>4, <2>1 DEF WrittenBy
  <2>3. els[i] = els[1] + i - 1 /\ els[j] = els[1] + j - 1
    BY DEF RunOf
  <2>4. PICK L \in Nat : L = Len(els)
    BY DEF RunOf
  <2>5. PICK x \in Nat : x = els[1]
    <3>1. 1 \in 1..Len(els)
      BY <2>1, <2>4
    <3> QED
      BY <1>1, <3>1
  <2> QED
    BY <2>1, <2>2, <2>3, <2>4, <2>5
<1>8. PICK seqs : seqs = [j \in 1..M |-> Paragraphs(ws[j])]
  OBVIOUS
<1>9. ASSUME NEW n \in 1..M
      PROVE  /\ seqs[n] \in Seq(Line) /\ InPlace(seqs[n]) /\ MarksOf(seqs[n]) = MarksOf(doc[ws[n]].text)
  <2>1. seqs[n] = Paragraphs(ws[n])
    BY <1>8
  <2>2. InPlace(doc[ws[n]].text)
    BY <1>6 DEF DocOrdered
  <2> QED
    BY <1>6, <2>1, <2>2, ParagraphsKeep
<1>10. seqs \in Seq(Seq(Line)) /\ Len(seqs) = M
  BY <1>3, <1>8, <1>9
<1>11. ASSUME NEW m \in 1..M, NEW n \in 1..M, m < n, NEW k \in 1..Len(seqs[m]), NEW h \in 1..Len(seqs[n])
       PROVE  Before(seqs[m][k], seqs[n][h])
  <2>1. PICK e \in 1..Len(doc), f \in 1..Len(doc) : e = ws[m] /\ f = ws[n]
    BY <1>6
  <2>2. e \in 1..(f - 1)
    BY <1>7, <1>11, <2>1
  <2>3. NoneBehind(MarksOf(doc[e].text), MarksOf(doc[f].text))
    BY <1>6, <2>1, <2>2 DEF DocOrdered, TextsAscend
  <2>4. NoneBehind(MarksOf(seqs[m]), MarksOf(seqs[n]))
    BY <1>9, <2>1, <2>3
  <2>5. Marks(seqs[m][k]) \subseteq MarksOf(seqs[m]) /\ Marks(seqs[n][h]) \subseteq MarksOf(seqs[n])
    BY DEF MarksOf
  <2> QED
    BY <2>4, <2>5 DEF NoneBehind, Before
<1>12. InPlace(FlattenSeq(seqs))
  BY <1>9, <1>10, <1>11, FlattenInPlace
<1>13. RunParagraphs(els) = FlattenSeq(seqs)
  BY <1>4, <1>5, <1>8 DEF RunParagraphs
<1> QED
  BY <1>12, <1>13

\* chunker.py: a run is closed in order.
LEMMA RunBatch ==
  ASSUME doc \in Seq(Elements), DocOrdered, NEW els, RunOf(els), NEW a \in Int, NEW b \in Int, a = els[1], b = a + Len(els)
  PROVE  ChunkTextRun(els) \in Seq(ChunkRecs) /\ Batch(ChunkTextRun(els), a, b)
<1>1. els \in Seq(1..Len(doc)) /\ els # <<>>
  <2>1. els \in Seq(1..Len(doc))
    BY DEF RunOf
  <2>2. Len(els) # 0
    BY DEF RunOf
  <2> QED
    BY <2>1, <2>2
<1>2. PICK ps \in Seq(Line) : ps = RunParagraphs(els)
  BY <1>1, RunParagraphsKeep
<1>3. InPlace(ps)
  BY <1>2, RunInPlace
<1>4. PICK pieces : pieces = PackParagraphs(ps)
  OBVIOUS
<1>5. Precedes(pieces, {})
  BY <1>3, <1>4, RunPrecedes
<1>6. PICK made : made = ChunkTextRun(els)
  OBVIOUS
<1>7. WindowsOf(made, els, pieces)
  BY <1>1, <1>2, <1>4, <1>6, ChunkTextRunIs
<1>8. made \in Seq(ChunkRecs)
  BY <1>7 DEF WindowsOf
<1>9. Batch(made, a, b)
  BY <1>5, <1>7, WindowsBatch
<1> QED
  BY <1>6, <1>8, <1>9

\* chunking.py: a text by itself is split in order.
LEMMA SplitBatch ==
  ASSUME doc \in Seq(Elements), DocOrdered, NEW e \in 1..Len(doc), ~Docling
  PROVE  BuildChunks(e) \in Seq(ChunkRecs) /\ Batch(BuildChunks(e), e, e + 1)
<1>1. PICK made : made = BuildChunks(e)
  OBVIOUS
<1>2. CASE doc[e].kind = Text
  <2>1. PICK els : els = <<e>>
    OBVIOUS
  <2>2. RunOf(els)
    <3>1. els \in Seq(1..Len(doc)) /\ Len(els) = 1 /\ els[1] = e
      BY <2>1
    <3>2. 1..Len(els) = {1}
      BY <3>1
    <3>3. \A j \in 1..Len(els) : els[j] = els[1] + j - 1
      BY <3>1, <3>2
    <3>4. \A j \in 1..Len(els) : doc[els[j]].kind = Text /\ doc[els[j]].section = doc[els[1]].section
      BY <1>2, <3>1, <3>2
    <3> QED
      BY <3>1, <3>3, <3>4 DEF RunOf
  <2>3. PICK pieces : pieces = SplitText(e)
    OBVIOUS
  <2>4. WindowsOf(made, els, pieces)
    BY <1>1, <1>2, <2>1, <2>3, BuildChunksIs
  <2>5. Precedes(pieces, {})
    <3>1. Paragraphs(e) \in Seq(Line) /\ InPlace(Paragraphs(e))
      <4>1. InPlace(doc[e].text)
        BY DEF DocOrdered
      <4> QED
        BY <4>1, ParagraphsKeep
    <3> QED
      BY <2>3, <3>1, SplitTextPrecedes
  <2>6. made \in Seq(ChunkRecs)
    BY <2>4 DEF WindowsOf
  <2>7. e \in Int /\ e + 1 \in Int /\ els[1] = e /\ Len(els) = 1
    BY <2>1
  <2>8. Batch(made, e, e + 1)
    BY <2>2, <2>4, <2>5, <2>7, WindowsBatch
  <2> QED
    BY <1>1, <2>6, <2>8
<1>3. CASE doc[e].kind # Text
  <2>1. ShownBy(made, e, 0)
    BY <1>1, <1>3, BuildChunksIs
  <2>2. made \in Seq(ChunkRecs)
    BY <2>1 DEF ShownBy
  <2>3. Batch(made, e, e + 1)
    BY <1>3, <2>1, ShownBatch
  <2> QED
    BY <1>1, <2>2, <2>3
<1> QED
  BY <1>2, <1>3

\* chunker.py: closing the run keeps the order.
LEMMA FlushOrdered ==
  ASSUME doc \in Seq(Elements), DocOrdered, NEW cs, NEW rn, NEW last, NEW nx, Loop(cs, rn, last, nx), Order(cs, rn, nx),
         NEW w, w = IF rn = <<>> THEN cs ELSE cs \o ChunkTextRun(rn)
  PROVE  w \in Seq(ChunkRecs) /\ Batch(w, 1, nx)
<1>1. cs \in Seq(ChunkRecs)
  BY DEF Loop
<1>2. nx \in Nat \ {0}
  BY LoopTypes
<1>3. CASE rn = <<>>
  <2>1. nx - Len(rn) = nx
    BY <1>2, <1>3
  <2> QED
    BY <1>1, <1>3, <2>1 DEF Order
<1>4. CASE rn # <<>>
  <2>1. RunOf(rn) /\ rn[1] + Len(rn) = nx
    BY <1>4 DEF Loop
  <2>2. PICK N \in Nat \ {0} : N = Len(rn)
    BY <2>1 DEF RunOf
  <2>3. PICK a \in Nat \ {0} : a = rn[1]
    <3>1. rn \in Seq(1..Len(doc)) /\ 1 \in 1..Len(rn)
      BY <2>1, <2>2 DEF RunOf
    <3>2. rn[1] \in 1..Len(doc)
      BY <3>1
    <3> QED
      BY <3>2
  <2>4. a + N = nx /\ nx - N = a
    BY <1>2, <2>1, <2>2, <2>3
  <2>5. Batch(cs, 1, a)
    BY <2>2, <2>4 DEF Order
  <2>6. PICK made \in Seq(ChunkRecs) : made = ChunkTextRun(rn) /\ Batch(made, a, nx)
    <3>1. nx = a + Len(rn) /\ a \in Int /\ nx \in Int
      BY <1>2, <2>2, <2>3, <2>4
    <3> QED
      BY <2>1, <2>3, <3>1, RunBatch
  <2>7. w = cs \o made
    BY <1>4, <2>6
  <2>8. TextsAscend(doc)
    BY DEF DocOrdered
  <2>9. 1 \in Int /\ a \in Int /\ nx \in Int /\ 1 <= a /\ a <= nx
    BY <1>2, <2>2, <2>3, <2>4
  <2>10. Batch(w, 1, nx)
    BY <1>1, <2>5, <2>6, <2>7, <2>8, <2>9, BatchesJoin
  <2>11. w \in Seq(ChunkRecs)
    BY <1>1, <2>6, <2>7
  <2> QED
    BY <2>10, <2>11
<1> QED
  BY <1>3, <1>4

\* Chunks of the next element.
LEMMA NextBatch ==
  ASSUME TextsAscend(doc), NEW cs \in Seq(ChunkRecs), NEW nx \in Nat \ {0}, Batch(cs, 1, nx),
         NEW made \in Seq(ChunkRecs), Batch(made, nx, nx + 1), NEW w, w = cs \o made, NEW rn, rn = <<>>
  PROVE  Order(w, rn, nx + 1)
<1>0. 1 \in Int /\ nx \in Int /\ nx + 1 \in Int /\ 1 <= nx /\ nx <= nx + 1
  OBVIOUS
<1>1. Batch(w, 1, nx + 1)
  BY <1>0, BatchesJoin
<1>2. (nx + 1) - Len(rn) = nx + 1
  OBVIOUS
<1> QED
  BY <1>1, <1>2 DEF Order

\* chunker.py: the loop takes a text.
LEMMA TextOrdered ==
  ASSUME doc \in Seq(Elements), DocOrdered, Loop(chunks, run, lastText, next), Order(chunks, run, next), AddText
  PROVE  Order(chunks', run', next')
<1>1. PICK cs, rn, last, nx : cs = chunks /\ rn = run /\ last = lastText /\ nx = next
  OBVIOUS
<1>2. Loop(cs, rn, last, nx) /\ Order(cs, rn, nx)
  BY <1>1
<1>3. rn \in Seq(1..Len(doc)) /\ nx \in Nat \ {0}
  BY <1>2, LoopTypes
<1>4. CASE rn # <<>> /\ doc[nx].section # doc[rn[1]].section
  <2>1. PICK w : w = IF rn = <<>> THEN cs ELSE cs \o ChunkTextRun(rn)
    OBVIOUS
  <2>2. chunks' = w /\ run' = <<nx>> /\ next' = nx + 1
    BY <1>1, <1>4, <2>1 DEF AddText, Flushed
  <2>3. Batch(w, 1, nx)
    BY <1>2, <2>1, FlushOrdered
  <2>4. (nx + 1) - Len(<<nx>>) = nx
    BY <1>3
  <2> QED
    BY <2>2, <2>3, <2>4 DEF Order
<1>5. CASE ~(rn # <<>> /\ doc[nx].section # doc[rn[1]].section)
  <2>1. chunks' = cs /\ run' = Append(rn, nx) /\ next' = nx + 1
    BY <1>1, <1>5 DEF AddText
  <2>2. PICK N \in Nat : N = Len(rn)
    BY <1>3
  <2>3. PICK more : more = Append(rn, nx)
    OBVIOUS
  <2>4. Len(more) = N + 1
    BY <1>3, <2>2, <2>3
  <2>5. (nx + 1) - Len(more) = nx - Len(rn)
    BY <1>3, <2>2, <2>4
  <2> QED
    BY <1>2, <2>1, <2>3, <2>5 DEF Order
<1> QED
  BY <1>4, <1>5

\* chunker.py: the loop takes a table or figure.
LEMMA VisualOrdered ==
  ASSUME doc \in Seq(Elements), DocOrdered, Loop(chunks, run, lastText, next), Order(chunks, run, next), AddVisual
  PROVE  Order(chunks', run', next')
<1>1. PICK cs, rn, last, nx : cs = chunks /\ rn = run /\ last = lastText /\ nx = next
  OBVIOUS
<1>2. Loop(cs, rn, last, nx) /\ Order(cs, rn, nx)
  BY <1>1
<1>3. nx \in 1..Len(doc) /\ nx \in Nat \ {0} /\ doc[nx].kind # Text /\ last \in 0..Len(doc)
  <2>1. Len(doc) \in Nat /\ nx \in Nat \ {0} /\ last \in 0..Len(doc)
    BY <1>2, LoopTypes
  <2>2. nx <= Len(doc) /\ doc[nx].kind # Text
    BY <1>1 DEF AddVisual, AtVisual
  <2> QED
    BY <2>1, <2>2
<1>4. PICK hint : hint = CaptionHint(nx)
  OBVIOUS
<1>5. hint \in 0..Len(doc) /\ (hint # 0 => doc[hint].text # <<>>)
  <2>1. hint = 0 \/ (hint = last /\ doc[last].text # <<>>)
    BY <1>1, <1>4 DEF CaptionHint
  <2>2. 0 \in 0..Len(doc)
    OBVIOUS
  <2> QED
    BY <1>3, <2>1, <2>2
<1>6. PICK flushed : flushed = IF rn = <<>> THEN cs ELSE cs \o ChunkTextRun(rn)
  OBVIOUS
<1>7. PICK made : made = IF doc[nx].kind = Table THEN ChunkTable(nx, hint) ELSE ChunkFigure(nx, hint)
  OBVIOUS
<1>8. PICK w : w = flushed \o made
  OBVIOUS
<1>9. chunks' = w /\ run' = <<>> /\ next' = nx + 1
  BY <1>1, <1>4, <1>6, <1>7, <1>8 DEF AddVisual, Flushed
<1>10. flushed \in Seq(ChunkRecs) /\ Batch(flushed, 1, nx)
  BY <1>2, <1>6, FlushOrdered
<1>11. doc[nx].kind \in {Table, Figure}
  BY <1>3, ElementsAre
<1>12. ShownBy(made, nx, hint)
  <2>1. CASE doc[nx].kind = Table
    <3>1. hint \in Nat
      BY <1>5
    <3>2. ShownBy(ChunkTable(nx, hint), nx, hint)
      BY <1>3, <2>1, <3>1, ChunkTableShows
    <3> QED
      BY <1>7, <2>1, <3>2
  <2>2. CASE doc[nx].kind = Figure
    <3>1. ShownBy(ChunkFigure(nx, hint), nx, hint)
      BY <1>3, <1>5, <2>2, ChunkFigureShows
    <3> QED
      BY <1>7, <2>2, <3>1 DEF Figure, Table
  <2> QED
    BY <1>11, <2>1, <2>2
<1>13. made \in Seq(ChunkRecs)
  BY <1>12 DEF ShownBy
<1>14. Batch(made, nx, nx + 1)
  BY <1>3, <1>12, ShownBatch
<1>15. TextsAscend(doc)
  BY DEF DocOrdered
<1>16. Order(w, <<>>, nx + 1)
  BY <1>3, <1>8, <1>10, <1>13, <1>14, <1>15, NextBatch
<1> QED
  BY <1>9, <1>16

\* chunker.py: the end of the elements closes the run.
LEMMA EndOrdered ==
  ASSUME doc \in Seq(Elements), DocOrdered, Loop(chunks, run, lastText, next), Order(chunks, run, next), LastFlush
  PROVE  Order(chunks', run', next')
<1>1. PICK cs, rn, last, nx : cs = chunks /\ rn = run /\ last = lastText /\ nx = next
  OBVIOUS
<1>2. Loop(cs, rn, last, nx) /\ Order(cs, rn, nx)
  BY <1>1
<1>3. nx \in Nat \ {0}
  BY <1>2, LoopTypes
<1>4. PICK w : w = IF rn = <<>> THEN cs ELSE cs \o ChunkTextRun(rn)
  OBVIOUS
<1>5. chunks' = w /\ run' = <<>> /\ next' = nx + 1
  BY <1>1, <1>4 DEF LastFlush, Flushed
<1>6. w \in Seq(ChunkRecs) /\ Batch(w, 1, nx)
  BY <1>2, <1>4, FlushOrdered
<1>7. Batch(w, 1, nx + 1)
  <2>1. nx \in Int /\ nx + 1 \in Int /\ 1 \in Int /\ nx <= nx + 1 /\ 1 <= 1
    BY <1>3
  <2>2. \A n \in 1..Len(w) : FromThese(w[n], 1, nx + 1)
    BY <1>6, <2>1, FromTheseMore DEF Batch
  <2> QED
    BY <1>6, <2>2 DEF Batch
<1>8. (nx + 1) - Len(<<>>) = nx + 1
  BY <1>3
<1> QED
  BY <1>5, <1>7, <1>8 DEF Order

\* chunking.py: the loop takes an element of another type of file.
LEMMA ElementOrdered ==
  ASSUME doc \in Seq(Elements), DocOrdered, Loop(chunks, run, lastText, next), Order(chunks, run, next), AddElement
  PROVE  Order(chunks', run', next')
<1>1. PICK cs, rn, last, nx : cs = chunks /\ rn = run /\ last = lastText /\ nx = next
  OBVIOUS
<1>2. Loop(cs, rn, last, nx) /\ Order(cs, rn, nx)
  BY <1>1
<1>3. ~Docling
  BY DEF AddElement
<1>4. nx \in 1..Len(doc) /\ nx \in Nat \ {0} /\ rn = <<>>
  <2>1. Len(doc) \in Nat /\ nx \in Nat \ {0} /\ rn = <<>>
    BY <1>2, <1>3, LoopTypes
  <2>2. nx <= Len(doc)
    BY <1>1 DEF AddElement
  <2> QED
    BY <2>1, <2>2
<1>5. PICK made : made = BuildChunks(nx)
  OBVIOUS
<1>6. PICK w : w = cs \o made
  OBVIOUS
<1>7. chunks' = w /\ run' = rn /\ next' = nx + 1
  BY <1>1, <1>5, <1>6 DEF AddElement
<1>8. cs \in Seq(ChunkRecs) /\ Batch(cs, 1, nx)
  <2>1. cs = IF rn = <<>> THEN cs ELSE cs \o ChunkTextRun(rn)
    BY <1>4
  <2> QED
    BY <1>2, <2>1, FlushOrdered
<1>9. made \in Seq(ChunkRecs) /\ Batch(made, nx, nx + 1)
  BY <1>3, <1>4, <1>5, SplitBatch
<1>10. TextsAscend(doc)
  BY DEF DocOrdered
<1>11. Order(w, rn, nx + 1)
  BY <1>4, <1>6, <1>8, <1>9, <1>10, NextBatch
<1> QED
  BY <1>7, <1>11

\* A step that leaves the elements leaves their order.
LEMMA OrderStays ==
  ASSUME doc' = doc
  PROVE  /\ DocOrdered' <=> DocOrdered
         /\ \A cs, rn, nx : Order(cs, rn, nx)' <=> Order(cs, rn, nx)
BY DEF DocOrdered, TextsAscend, Order, Batch, FromThese

\* What the parser gives is in the order of the file.
LEMMA ParsedDocOrdered ==
  ASSUME source \in Sources, HasParser, ParseFile
  PROVE  DocOrdered'
<1>0. IsFile(source)
  BY ChunkerAssumption
<1>1. PICK els : els = Denoise(Parse)
  OBVIOUS
<1>2. TextsAscend(els)
  BY <1>0, <1>1, ParsedAscends
<1>3. \A e \in 1..Len(els) : InPlace(els[e].text)
  <2>1. Read(els)
    BY <1>0, <1>1, ParsedIsRead
  <2> QED
    BY <2>1 DEF Read, Made, FromFile
<1>4. doc' = els
  BY <1>1 DEF ParseFile
<1> QED
  BY <1>2, <1>3, <1>4 DEF DocOrdered, TextsAscend

\* Before the first element nothing is out of order.
LEMMA OrderBegins == Order(<<>>, <<>>, 1)
<1>1. Len(<<>>) = 0 /\ 1..0 = {}
  OBVIOUS
<1> QED
  BY <1>1 DEF Order, Batch, Chained

\* One step of the chunking keeps the order.
LEMMA BuildKeepsOrder ==
  ASSUME DocInv, LoopInv, DocOrdered, Order(chunks, run, next), ChunkNext
  PROVE  DocOrdered' /\ Order(chunks, run, next)'
<1>1. doc' = doc
  BY DEF ChunkNext, AddText, AddVisual, LastFlush, AddElement
<1>2. doc \in Seq(Elements) /\ Loop(chunks, run, lastText, next)
  BY DEF DocInv, Read, Made, LoopInv
<1>3. Order(chunks', run', next')
  BY <1>2, TextOrdered, VisualOrdered, EndOrdered, ElementOrdered DEF ChunkNext
<1>4. DocOrdered'
  BY <1>1, OrderStays
<1>5. Order(chunks, run, next)'
  BY <1>1, <1>3 DEF Order, Batch, FromThese
<1> QED
  BY <1>4, <1>5

\* A step that leaves the elements and the loop leaves their order.
LEMMA OrderingStays ==
  ASSUME UNCHANGED chunkVars
  PROVE  /\ DocOrdered => DocOrdered'
         /\ Order(chunks, run, next) => Order(chunks, run, next)'
<1>1. doc' = doc /\ chunks' = chunks /\ run' = run /\ next' = next
  BY DEF chunkVars
<1>2. DocOrdered => DocOrdered'
  BY <1>1, OrderStays
<1>3. Order(chunks, run, next) => Order(chunks, run, next)'
  BY <1>1 DEF Order, Batch, FromThese
<1> QED
  BY <1>2, <1>3

\* The steps of the stores, one by one.
LEMMA StoresKeepOrder ==
  ASSUME FileInv, OrderInv, StoresNext
  PROVE  OrderInv'
<1>1. CASE Reingest
  BY <1>1 DEF Reingest, OrderInv
<1>2. CASE ClearVectors
  BY <1>2 DEF ClearVectors, OrderInv
<1>3. CASE ClearObjects
  BY <1>3 DEF ClearObjects, OrderInv
<1>4. CASE ParseStored
  <2>1. DocOrdered'
    BY <1>4, ParsedDocOrdered DEF ParseStored, FileInv
  <2> QED
    BY <1>4, <2>1 DEF ParseStored, OrderInv
<1>5. CASE ResolveFigures
  <2>1. chunks = <<>> /\ run = <<>> /\ next = 1
    BY <1>5 DEF ResolveFigures, FileInv
  <2>2. Order(chunks, run, next)
    BY <2>1, OrderBegins
  <2> QED
    BY <1>5, <2>2, OrderingStays DEF ResolveFigures, OrderInv
<1>6. CASE BuildChunk
  <2>1. DocOrdered' /\ Order(chunks, run, next)'
    BY <1>6, BuildKeepsOrder DEF BuildChunk, FileInv, OrderInv
  <2> QED
    BY <2>1 DEF OrderInv
<1>7. CASE UpsertChunks
  BY <1>7 DEF UpsertChunks, OrderInv
<1>8. CASE SkipPages
  BY <1>8, OrderingStays DEF SkipPages, OrderInv
<1>9. CASE IndexPages
  BY <1>9, OrderingStays DEF IndexPages, OrderInv
<1>10. CASE PagePassRaises
  BY <1>10, OrderingStays DEF PagePassRaises, OrderInv
<1>11. CASE IngestFails
  BY <1>11 DEF IngestFails, OrderInv
<1>12. CASE DeleteDocument
  BY <1>12 DEF DeleteDocument, OrderInv
<1> QED
  BY <1>1, <1>2, <1>3, <1>4, <1>5, <1>6, <1>7, <1>8, <1>9, <1>10, <1>11, <1>12 DEF StoresNext

\* parsers/, chunker.py, chunking.py: for every file whatever its type.
THEOREM OrderInvariant == Spec => [](FileInv /\ OrderInv)
<1>1. Init => OrderInv
  BY DEF Init, StoresInit, OrderInv
<1>2. FileInv /\ OrderInv /\ [Next]_vars => OrderInv'
  <2> SUFFICES ASSUME FileInv, OrderInv, [Next]_vars PROVE OrderInv'
    OBVIOUS
  <2>1. CASE StoresNext
    BY <2>1, StoresKeepOrder
  <2>2. CASE UNCHANGED <<chunkVars, storeVars>>
    BY <2>2, OrderingStays DEF OrderInv, storeVars
  <2> QED
    BY <2>1, <2>2 DEF Next, Stores, SearchChunks, SearchPages, PackText, PackPage, vars
<1> QED
  BY <1>1, <1>2, FileInvariant, PTL DEF Spec

\* chunker.py, chunking.py: a text stands under its title and after the text before it, a table or
\* figure under its title and behind the line that names it, for every file whatever its type.
THEOREM SectionsAreKept == Spec => []SectionsKept
<1>1. FileInv /\ OrderInv => SectionsKept
  <2> SUFFICES ASSUME FileInv, OrderInv, row = "chunking", NEW n \in 1..Len(chunks)
               PROVE  LET c == chunks[n]
                          from == {ItemOf(p) : p \in PlacesIn(c)}
                          Alike(is) == \A i, j \in is : \A h \in i..j :
                                              Usable(h) => Items[h].kind = Text /\ TitleAbove(h) = c.section
                      IN /\ source.type \in {"md", "docx"} => \A i \in from : TitleAbove(i) = c.section
                         /\ Docling /\ c.kind = Text =>
                              \E i \in Is(Text) : Items[i].page = c.page /\ Alike(from \cup {i})
                         /\ Docling /\ c.kind # Text => c.section = TitleAbove(doc[c.of].item)
                         /\ c.hint # 0 => c.hint = c.of - 1 /\ doc[c.hint].kind = Text
                         /\ n > 1 /\ c.kind = Text /\ chunks[n - 1].kind = Text =>
                              \A p \in PlacesIn(c) : p >= chunks[n - 1].text[1]
    BY DEF SectionsKept
  <2> DEFINE c == chunks[n]
             from == {ItemOf(p) : p \in PlacesIn(c)}
             Alike(is) == \A i, j \in is : \A h \in i..j :
                                 Usable(h) => Items[h].kind = Text /\ TitleAbove(h) = c.section
  <2>1. IsFile(source) /\ DocInv
    BY ChunkerAssumption DEF FileInv
  <2>2. Sound(c)
    BY DEF FileInv, LoopInv, Loop
  <2>3. ChunkKept(c)
    <3> HIDE DEF c
    <3> QED
      BY <2>1, <2>2, SoundIsKept
  <2>4. from = From(c.text)
    BY DEF From, PlacesIn, Marks
  <2>5. \A is : Alike(is) <=> Together(is, c.section)
    BY DEF Together
  <2>6. n > 1 /\ c.kind = Text /\ chunks[n - 1].kind = Text =>
          \A p \in PlacesIn(c) : p >= chunks[n - 1].text[1]
    <3> SUFFICES ASSUME n > 1, c.kind = Text, chunks[n - 1].kind = Text, NEW p \in PlacesIn(c)
                 PROVE  p >= chunks[n - 1].text[1]
      OBVIOUS
    <3>1. Batch(chunks, 1, next - Len(run))
      BY DEF OrderInv, Order
    <3>2. p \in Marks(chunks[n].text)
      BY DEF PlacesIn, Marks
    <3>3. chunks[n - 1].text[1] <= p
      BY <3>1, <3>2 DEF Batch, Chained
    <3> QED
      BY <3>3
  <2> HIDE DEF c, from, Alike
  <2>7. /\ source.type \in {"md", "docx"} => \A i \in from : TitleAbove(i) = c.section
        /\ Docling /\ c.kind = Text => \E i \in Is(Text) : Items[i].page = c.page /\ Alike(from \cup {i})
        /\ Docling /\ c.kind # Text => c.section = TitleAbove(doc[c.of].item)
        /\ c.hint # 0 => c.hint = c.of - 1 /\ doc[c.hint].kind = Text
    BY <2>3, <2>4, <2>5 DEF ChunkKept
  <2> QED
    BY <2>6, <2>7 DEF c, from, Alike
<1> QED
  BY <1>1, OrderInvariant, PTL

-----------------------------------------------------------------------------
(* The tokens of a sequence of blocks.  TokensOf adds them up by           *)
(* recursion; what is said of every function that satisfies its equation   *)
(* is said of it, and grows with the sequence block by block.              *)

\* chunker.py: every text, the empty one too, costs at least one token.
LEMMA EstimateIsPositive ==
  ASSUME NEW n \in Nat
  PROVE  EstimateTokens(n) \in Nat \ {0}
BY DEF EstimateTokens

\* A longer text does not cost less.
LEMMA EstimateGrows ==
  ASSUME NEW a \in Nat, NEW b \in Nat, a <= b
  PROVE  EstimateTokens(a) <= EstimateTokens(b)
<1>1. (10 * a + 19) \div 38 <= (10 * b + 19) \div 38
  OBVIOUS
<1>2. (10 * a + 19) \div 38 \in Nat /\ (10 * b + 19) \div 38 \in Nat
  OBVIOUS
<1> QED
  BY <1>1, <1>2 DEF EstimateTokens

\* assembler.py, _truncate_to_budget: inverting the estimator never exceeds the budget.
LEMMA CutFitsBudget ==
  ASSUME NEW n \in Nat
  PROVE  /\ Least(n, Chars(TokenBudget)) \in 0..n
         /\ EstimateTokens(Least(n, Chars(TokenBudget))) <= TokenBudget
BY PassagesAssumption DEF EstimateTokens, Chars, Least

\* The sum that TokensOf names.
LEMMA TotalsIsTokensOf ==
  ASSUME NEW blocks, NEW tokens, Totals(blocks, tokens)
  PROVE  TokensOf(blocks) = tokens
<1>1. TokensOf(blocks) = (CHOOSE t : IsTotal(t, blocks))[Len(blocks)]
  BY DEF TokensOf, IsTotal
<1>2. IsTotal(CHOOSE t : IsTotal(t, blocks), blocks)
  BY DEF Totals
<1> QED
  BY <1>1, <1>2 DEF Totals

\* No blocks, no tokens.
LEMMA TotalOfNone == Totals(<<>>, 0)
<1>1. IsTotal([n \in 0..0 |-> 0], <<>>)
  BY DEF IsTotal
<1>2. \A t : IsTotal(t, <<>>) => t[0] = 0
  BY DEF IsTotal
<1> QED
  BY <1>1, <1>2 DEF Totals

\* One more block adds its estimate.
LEMMA TotalOfAppend ==
  ASSUME NEW S, NEW s \in Seq(S), NEW e, NEW tokens, Totals(s, tokens)
  PROVE  Totals(Append(s, e), tokens + EstimateTokens(e.size))
<1> DEFINE a == Append(s, e)
<1>0. /\ Len(s) \in Nat /\ Len(a) = Len(s) + 1 /\ a[Len(s) + 1] = e
      /\ \A n \in 1..Len(s) : a[n] = s[n]
  OBVIOUS
<1> HIDE DEF a
<1>1. \E t : IsTotal(t, a)
  <2>1. PICK t : IsTotal(t, s)
    BY DEF Totals
  <2> DEFINE more == [n \in 0..Len(a) |->
                        IF n = Len(a) THEN t[Len(s)] + EstimateTokens(e.size) ELSE t[n]]
  <2>2. \A n \in 0..Len(a) :
          more[n] = IF n = 0 THEN 0 ELSE more[n - 1] + EstimateTokens(a[n].size)
    <3> SUFFICES ASSUME NEW n \in 0..Len(a)
                 PROVE  more[n] = IF n = 0 THEN 0 ELSE more[n - 1] + EstimateTokens(a[n].size)
      OBVIOUS
    <3>1. CASE n = Len(a)
      BY <1>0, <3>1
    <3>2. CASE n # Len(a)
      <4>1. n \in 0..Len(s) /\ more[n] = t[n]
        BY <1>0, <3>2
      <4>2. t[n] = IF n = 0 THEN 0 ELSE t[n - 1] + EstimateTokens(s[n].size)
        BY <2>1, <4>1 DEF IsTotal
      <4>3. n # 0 => more[n - 1] = t[n - 1] /\ a[n] = s[n]
        BY <1>0, <4>1
      <4> QED
        BY <4>1, <4>2, <4>3
    <3> QED
      BY <3>1, <3>2
  <2>3. IsTotal(more, a)
    <3> DEFINE same == [n \in 0..Len(a) |->
                          IF n = 0 THEN 0 ELSE more[n - 1] + EstimateTokens(a[n].size)]
    <3>1. \A n \in 0..Len(a) : more[n] = same[n]
      BY <2>2
    <3>2. DOMAIN more = 0..Len(a) /\ DOMAIN same = 0..Len(a)
      OBVIOUS
    <3>3. more = same
      BY <3>1, <3>2
    <3> QED
      BY <3>3 DEF IsTotal
  <2> QED
    BY <2>3
<1>2. ASSUME NEW t, IsTotal(t, a)
      PROVE  t[Len(a)] = tokens + EstimateTokens(e.size)
  <2> DEFINE less == [n \in 0..Len(s) |-> t[n]]
  <2>1. \A n \in 0..Len(a) : t[n] = IF n = 0 THEN 0 ELSE t[n - 1] + EstimateTokens(a[n].size)
    BY <1>2 DEF IsTotal
  <2>2. \A n \in 0..Len(s) :
          less[n] = IF n = 0 THEN 0 ELSE less[n - 1] + EstimateTokens(s[n].size)
    BY <1>0, <2>1
  <2>3. less = [n \in 0..Len(s) |->
                  IF n = 0 THEN 0 ELSE less[n - 1] + EstimateTokens(s[n].size)]
    BY <2>2
  <2>4. less[Len(s)] = tokens
    BY <2>3 DEF IsTotal, Totals
  <2>5. t[Len(s)] = tokens
    BY <1>0, <2>4
  <2>6. t[Len(a)] = t[Len(s)] + EstimateTokens(e.size)
    BY <1>0, <2>1
  <2> QED
    BY <2>5, <2>6
<1> QED
  BY <1>1, <1>2 DEF Totals, a

-----------------------------------------------------------------------------
(* The packing loop of assemble.                                           *)

\* One block more.
LEMMA AppendKeepsOrder ==
  ASSUME NEW s, IsSeq(s), NEW e
  PROVE  /\ IsSeq(Append(s, e))
         /\ Append(s, e) # <<>> /\ Len(Append(s, e)) = Len(s) + 1 /\ Len(s) \in Nat
         /\ \A i \in 1..Len(Append(s, e)) :
              Append(s, e)[i] = IF i = Len(s) + 1 THEN e ELSE s[i]
<1>0. PICK S : s \in Seq(S)
  BY DEF IsSeq
<1>1. s \in Seq(S \cup {e}) /\ e \in S \cup {e}
  BY <1>0
<1>2. Append(s, e) \in Seq(S \cup {e})
  BY <1>1
<1> QED
  BY <1>0, <1>2 DEF IsSeq

\* assembler.py 118-133: whatever comes next, the loop stays within the token budget, counts
\* what it packs, cuts no window of text and leaves no answer without a block.
THEOREM PackingFits ==
  ASSUME NEW ctx, Packed(ctx), NEW hit, HitFits(hit)
  PROVE  /\ Packed(PackBlock(ctx, hit))
         /\ PackBlock(ctx, hit).blocks # <<>>
<1> DEFINE cost == EstimateTokens(hit.size)
           cut == Least(hit.size, Chars(TokenBudget))
<1>0. /\ hit.size \in Nat /\ cost \in Nat \ {0} /\ ctx.tokens \in Nat /\ TokenBudget \in Nat \ {0}
      /\ cut \in 0..hit.size /\ EstimateTokens(cut) \in 0..TokenBudget
  <2>1. hit.size \in Nat /\ TokenBudget \in Nat \ {0}
    BY PassagesAssumption DEF HitFits
  <2>2. cost \in Nat \ {0}
    BY <2>1, EstimateIsPositive
  <2>3. ctx.tokens \in Nat
    BY <2>1 DEF Packed
  <2>4. cut \in 0..hit.size /\ EstimateTokens(cut) <= TokenBudget
    BY <2>1, CutFitsBudget
  <2> HIDE DEF cost, cut
  <2>5. cut \in Nat
    BY <2>1, <2>4
  <2>6. EstimateTokens(cut) \in Nat
    BY <2>5, EstimateIsPositive
  <2> QED
    BY <2>1, <2>2, <2>3, <2>4, <2>6
<1> HIDE DEF cost, cut
<1>1. CASE ctx.tokens + cost <= TokenBudget
  <2> DEFINE e == Block(hit, hit.size)
             new == PackBlock(ctx, hit)
             more == Append(ctx.blocks, e)
             sum == ctx.tokens + cost
  <2>1. new = [ctx EXCEPT !.blocks = more, !.tokens = sum]
    BY <1>0, <1>1 DEF PackBlock, cost
  <2>2. e.size = hit.size /\ e.of = hit.size
    BY DEF Block
  <2> HIDE DEF new, e, more, sum
  <2>3. /\ DOMAIN new = {"blocks", "images", "tokens"} /\ new.blocks = more
        /\ new.images = ctx.images /\ new.tokens = sum
    BY <2>1 DEF Packed
  <2>4. IsSeq(ctx.blocks)
    BY DEF Packed
  <2>5. /\ Totals(more, sum) /\ IsSeq(more)
        /\ more # <<>> /\ Len(more) = Len(ctx.blocks) + 1 /\ Len(ctx.blocks) \in Nat
        /\ \A i \in 1..Len(more) :
             more[i] = IF i = Len(ctx.blocks) + 1 THEN e ELSE ctx.blocks[i]
    <3>1. PICK S : ctx.blocks \in Seq(S)
      BY <2>4 DEF IsSeq
    <3>2. Totals(ctx.blocks, ctx.tokens)
      BY DEF Packed
    <3>3. Totals(more, ctx.tokens + EstimateTokens(e.size))
      BY <3>1, <3>2, TotalOfAppend DEF more
    <3>4. Totals(more, sum)
      BY <2>2, <3>3 DEF sum, cost
    <3> QED
      BY <3>4, <2>4, AppendKeepsOrder DEF more
  <2>6. \A i \in 1..Len(new.blocks) :
          new.blocks[i].size < new.blocks[i].of => new.blocks[i].kind # Text
    BY <1>0, <2>2, <2>3, <2>5 DEF Packed
  <2>7. sum \in 0..TokenBudget
    BY <1>0, <1>1 DEF sum
  <2> QED
    BY <2>3, <2>5, <2>6, <2>7 DEF Packed, new
<1>2. CASE ctx.blocks = <<>> /\ hit.size > 0 /\ ctx.tokens + cost > TokenBudget
  <2> DEFINE e == Block(hit, cut)
             new == PackBlock(ctx, hit)
  <2>1. new = [ctx EXCEPT !.blocks = <<e>>, !.tokens = EstimateTokens(cut)]
    BY <1>0, <1>2 DEF PackBlock, cost, cut
  <2>2. e.size = cut /\ e.kind = hit.kind
    BY DEF Block
  <2>3. hit.kind # Text
    BY <1>0, <1>2 DEF HitFits, Packed, cost
  <2> HIDE DEF new, e
  <2>4. /\ DOMAIN new = {"blocks", "images", "tokens"} /\ new.blocks = Append(<<>>, e)
        /\ new.images = ctx.images /\ new.tokens = 0 + EstimateTokens(cut)
    BY <1>0, <2>1 DEF Packed
  <2>5. Totals(new.blocks, new.tokens)
    <3>1. <<>> \in Seq({})
      OBVIOUS
    <3> QED
      BY <2>2, <2>4, <3>1, TotalOfNone, TotalOfAppend
  <2>6. new.blocks \in Seq({e}) /\ new.blocks # <<>> /\ Len(new.blocks) = 1 /\ new.blocks[1] = e
    BY <2>4
  <2>7. IsSeq(new.images)
    BY <2>4 DEF Packed
  <2>8. Len(new.images) <= MaxImages
    BY <2>4 DEF Packed
  <2>9. \A i \in 1..Len(new.blocks) : new.blocks[i].kind # Text
    BY <2>2, <2>3, <2>6
  <2>10. new.tokens \in 0..TokenBudget
    BY <1>0, <2>4
  <2>11. IsSeq(new.blocks)
    BY <2>6 DEF IsSeq
  <2> QED
    BY <2>4, <2>5, <2>6, <2>7, <2>8, <2>9, <2>10, <2>11 DEF Packed, new
<1>3. CASE ~(ctx.tokens + cost <= TokenBudget)
           /\ ~(ctx.blocks = <<>> /\ hit.size > 0 /\ ctx.tokens + cost > TokenBudget)
  <2>1. PackBlock(ctx, hit) = ctx
    BY <1>3 DEF PackBlock, cost
  <2>2. ctx.blocks # <<>>
    <3> SUFFICES ASSUME ctx.blocks = <<>> PROVE FALSE
      OBVIOUS
    <3>1. hit.size = 0 /\ ctx.tokens = 0
      BY <1>0, <1>3 DEF Packed
    <3>2. cost = 1
      BY <3>1 DEF cost, EstimateTokens
    <3> QED
      BY <1>0, <1>3, <3>1, <3>2
  <2> QED
    BY <2>1, <2>2
<1> QED
  BY <1>1, <1>2, <1>3

\* A ranking is a sequence of what it ranks.
LEMMA RankingIsSequence ==
  ASSUME NEW items, NEW limit \in Nat, NEW ranking \in Rankings(items, limit)
  PROVE  ranking \in Seq(items)
<1>1. PICK m \in 0..limit : ranking \in [1..m -> items]
  BY DEF Rankings, BoundedSeq, SeqOf
<1> QED
  BY <1>1

\* The empty context is a packed one.
LEMMA EmptyIsPacked == Packed(Empty)
<1>1. Empty.blocks = <<>> /\ Empty.images = <<>> /\ Empty.tokens = 0 /\ <<>> \in Seq({})
      /\ DOMAIN Empty = {"blocks", "images", "tokens"}
  BY DEF Empty
<1> QED
  BY <1>1, TotalOfNone, PassagesAssumption DEF Packed, IsSeq

\* Each step of the search and of the loop.
LEMMA StepKeepsPacking ==
  ASSUME PackInv, WindowsFit, [Next]_vars
  PROVE  PackInv'
<1>1. CASE SearchChunks
  <2>1. PICK ranking \in Rankings(ToSet(listed), TopN) : found' = [chunks |-> ranking, pages |-> <<>>]
    BY <1>1 DEF SearchChunks
  <2>2. ranking \in Seq(ToSet(listed)) /\ \A i \in 1..Len(ranking) : HitFits(ranking[i])
    BY RankingIsSequence, PassagesAssumption DEF WindowsFit
  <2>3. merged = Unread /\ UNCHANGED <<merged, context>> /\ at' = "searched" /\ context = Empty
    BY <1>1 DEF SearchChunks, PackInv
  <2>4. /\ DOMAIN found' = {"chunks", "pages"} /\ found'.chunks = ranking /\ found'.pages = <<>>
    BY <2>1
  <2>5. found'.pages \in Seq({}) /\ Len(found'.pages) = 0 /\ merged.chunks = 0 /\ merged.pages = 0
    BY <2>3, <2>4 DEF Unread
  <2>6. \A i \in 1..Len(found'.chunks) : HitFits(found'.chunks[i])
    BY <2>2, <2>4
  <2> QED
    BY <2>2, <2>3, <2>4, <2>5, <2>6 DEF PackInv, HitFits, Packed, Totals, IsSeq
<1>2. CASE SearchPages
  <2>1. PICK ranking \in Rankings(points, TopPages) : found' = [found EXCEPT !.pages = ranking]
    BY <1>2 DEF SearchPages
  <2>2. ranking \in Seq(points)
    BY RankingIsSequence, PassagesAssumption
  <2>3. merged = Unread /\ UNCHANGED <<merged, context>> /\ at' = "ranked"
    BY <1>2 DEF SearchPages, PackInv
  <2>4. DOMAIN found' = {"chunks", "pages"} /\ found'.chunks = found.chunks /\ found'.pages = ranking
    BY <2>1 DEF PackInv
  <2>5. merged.pages = 0
    BY <2>3 DEF Unread
  <2> QED
    BY <2>2, <2>3, <2>4, <2>5 DEF PackInv, HitFits, Packed, Totals, IsSeq
<1>3. CASE PackText
  <2> DEFINE hit == found.chunks[merged.chunks + 1]
  <2>1. /\ merged.chunks + 1 \in 1..Len(found.chunks) /\ at = "ranked"
        /\ context' = PackBlock(context, hit) /\ UNCHANGED <<at, found>>
    BY <1>3 DEF PackText, TextIsNext, PackInv
  <2>2. HitFits(hit) /\ Packed(context)
    BY <2>1 DEF PackInv
  <2>3. Packed(PackBlock(context, hit)) /\ PackBlock(context, hit).blocks # <<>>
    BY <2>2, PackingFits
  <2>4. Packed(context') /\ context'.blocks # <<>>
    BY <2>1, <2>3
  <2>5. /\ DOMAIN merged' = {"chunks", "pages"} /\ merged'.chunks = merged.chunks + 1
        /\ merged'.pages = merged.pages
    BY <1>3 DEF PackText, PackInv
  <2>6. /\ at' \in {"asked", "searched", "ranked"} /\ at' = "ranked"
        /\ DOMAIN found' = {"chunks", "pages"}
        /\ IsSeq(found'.chunks) /\ IsSeq(found'.pages)
        /\ \A i \in 1..Len(found'.chunks) : HitFits(found'.chunks[i])
    BY <2>1 DEF PackInv, IsSeq, HitFits
  <2>7. merged'.chunks \in 0..Len(found'.chunks) /\ merged'.pages \in 0..Len(found'.pages)
    BY <2>1, <2>5 DEF PackInv
  <2>8. Packed(context)'
    BY <2>4 DEF Packed, Totals, IsSeq
  <2> QED
    BY <2>4, <2>5, <2>6, <2>7, <2>8 DEF PackInv, HitFits, IsSeq
<1>4. CASE PackPage
  <2>1. /\ merged.pages + 1 \in 1..Len(found.pages) /\ at = "ranked" /\ UNCHANGED <<at, found>>
    BY <1>4 DEF PackPage, PageIsNext, PackInv
  <2>2. /\ DOMAIN merged' = {"chunks", "pages"} /\ merged'.pages = merged.pages + 1
        /\ merged'.chunks = merged.chunks
    BY <1>4 DEF PackPage, PackInv
  <2>3. Packed(context') /\ context'.blocks = context.blocks
    <3>1. CASE UNCHANGED context
      BY <3>1 DEF PackInv
    <3>2. CASE /\ Len(context.images) < MaxImages
               /\ context' = [context EXCEPT !.images = Append(@, found.pages[merged.pages + 1])]
      <4> DEFINE page == found.pages[merged.pages + 1]
      <4>1. /\ DOMAIN context' = {"blocks", "images", "tokens"} /\ context'.blocks = context.blocks
            /\ context'.tokens = context.tokens /\ context'.images = Append(context.images, page)
        BY <3>2 DEF PackInv, Packed
      <4>2. /\ IsSeq(context'.images)
            /\ Len(context'.images) = Len(context.images) + 1 /\ Len(context.images) \in Nat
        <5>1. IsSeq(context.images)
          BY DEF PackInv, Packed
        <5> DEFINE more == Append(context.images, page)
        <5>2. /\ IsSeq(more)
              /\ Len(more) = Len(context.images) + 1 /\ Len(context.images) \in Nat
          BY <5>1, AppendKeepsOrder
        <5> HIDE DEF page
        <5>3. context'.images = more
          BY <4>1
        <5> HIDE DEF more
        <5> QED
          BY <5>2, <5>3
      <4>3. Len(context'.images) <= MaxImages
        BY <3>2, <4>2, PassagesAssumption
      <4> QED
        BY <4>1, <4>2, <4>3 DEF PackInv, Packed
    <3> QED
      BY <1>4, <3>1, <3>2 DEF PackPage
  <2> QED
    BY <2>1, <2>2, <2>3 DEF PackInv, HitFits, Packed, Totals, IsSeq
<1>5. CASE Stores \/ UNCHANGED vars
  BY <1>5 DEF Stores, searchVars, vars, PackInv, HitFits, Packed, Totals, IsSeq
<1> QED
  BY <1>1, <1>2, <1>3, <1>4, <1>5 DEF Next

\* chunker.py: what the index holds are windows no longer than the longest.
LEMMA WindowsAreFit ==
  ASSUME BudgetHoldsWindow, FileInv
  PROVE  WindowsFit
<1> SUFFICES ASSUME NEW c \in ToSet(listed) PROVE HitFits(c)
  BY DEF WindowsFit
<1>1. c.size \in Nat /\ (c.kind = Text => c.size <= LargestWindow)
  BY DEF FileInv, SizeKnown
<1>2. PICK size \in Nat, most \in Nat : size = c.size /\ most = LargestWindow
  BY <1>1, LargestWindowIs
<1>3. size <= most => EstimateTokens(size) <= EstimateTokens(most)
  BY EstimateGrows
<1>4. EstimateTokens(size) \in Nat /\ EstimateTokens(most) \in Nat /\ TokenBudget \in Nat
  BY EstimateIsPositive, PassagesAssumption
<1>5. c.kind = Text => EstimateTokens(size) <= TokenBudget
  BY <1>1, <1>2, <1>3, <1>4 DEF BudgetHoldsWindow
<1> QED
  BY <1>1, <1>2, <1>5 DEF HitFits

\* assembler.py: for every file, every setting whose budget holds one window of text, every
\* ranking and every order in which the two rankings merge, an assembled context is within
\* its token and image budgets, is not empty when the search found something, and has no
\* window of text cut.
THEOREM ContextWithinBudgets ==
  ASSUME BudgetHoldsWindow
  PROVE  Spec => []ContextFits
<1>0. FileInv => WindowsFit
  BY WindowsAreFit
<1>1. Init => PackInv
  <2> SUFFICES ASSUME Init PROVE PackInv
    OBVIOUS
  <2>1. /\ at = "asked" /\ found = Nothing /\ merged = Unread /\ context = Empty
    BY DEF Init
  <2>2. /\ found.chunks = <<>> /\ found.pages = <<>> /\ DOMAIN found = {"chunks", "pages"}
        /\ merged.chunks = 0 /\ merged.pages = 0 /\ DOMAIN merged = {"chunks", "pages"}
    BY <2>1 DEF Nothing, Unread
  <2> QED
    BY <2>1, <2>2, EmptyIsPacked DEF PackInv, IsSeq
<1>2. PackInv /\ WindowsFit /\ [Next]_vars => PackInv'
  BY StepKeepsPacking
<1>3. PackInv => ContextFits
  <2> SUFFICES ASSUME PackInv, Assembled PROVE ContextFits
    BY DEF ContextFits
  <2>1. TokensOf(context.blocks) = context.tokens
    BY TotalsIsTokensOf DEF PackInv, Packed
  <2>2. found.chunks # <<>> => context.blocks # <<>>
    <3> SUFFICES ASSUME context.blocks = <<>> PROVE found.chunks = <<>>
      OBVIOUS
    <3>0. PICK S : found.chunks \in Seq(S)
      BY DEF PackInv, IsSeq
    <3>1. merged.chunks = 0 /\ merged.pages \in Nat /\ Len(found.chunks) \in Nat
      BY <3>0 DEF PackInv
    <3>2. Len(found.chunks) = 0
      BY <3>1 DEF Assembled, TextIsNext
    <3> QED
      BY <3>0, <3>2
  <2> QED
    BY <2>1, <2>2 DEF ContextFits, PackInv, Packed
<1> QED
  BY <1>0, <1>1, <1>2, <1>3, FileInvariant, PTL DEF Spec
=============================================================================

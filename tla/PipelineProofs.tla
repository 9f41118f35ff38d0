----------------------------- MODULE PipelineProofs -----------------------------
(***************************************************************************)
(* Proofs about the evaluation pipeline, for every corpus, configuration   *)
(* and retriever: chunking drops no character and repeats no window; what  *)
(* the phases of a query hand to each other is what they promise; fusion,  *)
(* order and cutoffs lose nothing; and the metrics tell one story.         *)
(***************************************************************************)
EXTENDS EvaluationPipeline, FiniteSetTheorems, FunctionTheorems, SequenceTheorems,
        NaturalsInduction, WellFoundedInduction, TLAPS

\* The ranges of what TypeOK and the assumption on the constants speak of.
LEMMA Ranges ==
    ASSUME TypeOK
    PROVE  /\ Documents \in Nat /\ document \in 1 .. Documents + 1 /\ start \in Nat
           /\ size \in Nat /\ size > 0 /\ overlap \in Nat /\ overlap < size
           /\ \A d \in 1 .. Documents : length[d] \in Nat /\ length[d] > 0
<1>1. Sizes \subseteq Nat \ {0} /\ Lengths \subseteq Nat \ {0} /\ Documents \in Nat
  BY ChunkerAssumption
<1>2. size \in Nat /\ size > 0
  <2>1. size \in Sizes
    BY DEF TypeOK
  <2>2. size \in Nat \ {0}
    BY <1>1, <2>1, Zenon
  <2> QED
    BY <2>2
<1>3. overlap \in Nat /\ overlap < size
  BY <1>2 DEF TypeOK
<1>4. ASSUME NEW d \in 1 .. Documents PROVE length[d] \in Nat /\ length[d] > 0
  <2>1. length[d] \in Lengths
    BY DEF TypeOK
  <2>2. length[d] \in Nat \ {0}
    BY <1>1, <2>1, Zenon
  <2> QED
    BY <2>2
<1> QED
  BY <1>1, <1>2, <1>3, <1>4 DEF TypeOK

\* A window that is cut is not empty, not longer than the size, and ends in
\* the text; if it does not end the text it has the full size.
LEMMA EndBounds ==
    ASSUME TypeOK, Position, document <= Documents
    PROVE  /\ End \in Nat
           /\ start < End /\ End - start <= size
           /\ End <= length[document]
           /\ End # length[document] => End = start + size
           /\ start > 0 => start + overlap < End
<1>1. document \in 1 .. Documents
  BY Ranges
<1> QED
  BY <1>1, Ranges DEF End, Position

\* The invariant of chunking holds at first.
LEMMA InitIInv == ASSUME Init PROVE IInv
<1>1. size \in Nat \ {0} /\ Documents \in Nat /\ \A d \in 1 .. Documents : length[d] \in Nat \ {0}
  BY ChunkerAssumption DEF Init
<1>2. chunks = <<>> /\ Len(chunks) = 0 /\ start = 0 /\ document = 1
  BY DEF Init
<1>3. TypeOK
  BY <1>1, <1>2 DEF Init, Valid, TypeOK
<1> QED
  <2>1. \A d : CountOf(d) = 0
    <3>1. \A d : {k \in 1 .. Len(chunks) : chunks[k].doc = d} = {}
      BY <1>2
    <3> QED
      BY <3>1, FS_EmptySet DEF CountOf
  <2>2. Counted
    BY <1>1, <1>2, <1>3, <2>1 DEF Counted, TypeOK
  <2> QED
    BY <1>1, <1>2, <1>3, <2>2 DEF IInv, Windows, Position, NothingDropped, NoneContained

\* What a cut does to the sequence of chunks, whichever document it ends.
LEMMA CutAppends ==
    ASSUME TypeOK, Position, Cut
    PROVE  LET n == Len(chunks)
               new == [doc |-> document, start |-> start, end |-> End]
           IN  /\ n \in Nat
               /\ Len(chunks') = n + 1
               /\ new \in Chunk
               /\ chunks' \in Seq(Chunk)
               /\ \A k \in 1 .. n : chunks'[k] = chunks[k] /\ chunks[k] \in Chunk
               /\ chunks'[n + 1] = new
<1> DEFINE new == [doc |-> document, start |-> start, end |-> End]
<1>1. chunks \in Seq(Chunk) /\ Len(chunks) \in Nat
  BY DEF TypeOK
<1>2. new \in Chunk
  BY EndBounds, ChunkerAssumption DEF TypeOK, Chunk, Cut
<1>3. chunks' = Append(chunks, new)
  BY DEF Cut
<1> HIDE DEF new
<1> QED
  <2>1. \A k \in 1 .. Len(chunks) : chunks[k] \in Chunk
    BY <1>1
  <2> QED
    BY <1>1, <1>2, <1>3, <2>1 DEF new

\* A cut adds one window to its document and none to the others.
LEMMA CutCounts ==
    ASSUME TypeOK, Position, Cut, NEW d \in 1 .. Documents
    PROVE  /\ CountOf(d) \in Nat
           /\ CountOf(d)' = IF d = document THEN CountOf(d) + 1 ELSE CountOf(d)
<1> DEFINE n == Len(chunks)
           old == {k \in 1 .. n : chunks[k].doc = d}
           new == {k \in 1 .. n + 1 : chunks'[k].doc = d}
<1>1. /\ n \in Nat /\ Len(chunks') = n + 1
      /\ \A k \in 1 .. n : chunks'[k] = chunks[k]
      /\ chunks'[n + 1].doc = document
  BY CutAppends
<1>2. CountOf(d) = Cardinality(old) /\ CountOf(d)' = Cardinality(new)
  BY <1>1 DEF CountOf
<1>3. IsFiniteSet(old) /\ Cardinality(old) \in Nat
  <2>1. IsFiniteSet(1 .. n) /\ old \in SUBSET (1 .. n)
    BY <1>1, FS_Interval
  <2>2. IsFiniteSet(old)
    BY <2>1, FS_Subset
  <2> QED
    BY <2>2, FS_CardinalityType
<1>4. new = IF d = document THEN old \cup {n + 1} ELSE old
  BY <1>1
<1>5. n + 1 \notin old
  BY <1>1
<1> HIDE DEF old, new
<1> QED
  BY <1>2, <1>3, <1>4, <1>5, FS_AddElement

\* The number of windows: `count` of them do not reach the end of a text of
\* `long` characters and one more does.
LEMMA WindowsNeeded ==
    ASSUME NEW long \in Nat, NEW s \in Nat, NEW step \in Nat \ {0}, NEW count \in Nat,
           count > 0 => (count - 1) * step + s < long
    PROVE  LET needed == IF long <= s THEN 1 ELSE 1 + (long - s + step - 1) \div step
           IN  /\ needed \in Nat
               /\ count <= needed
               /\ count * step + s >= long => needed = count + 1
<1> DEFINE needed == IF long <= s THEN 1 ELSE 1 + (long - s + step - 1) \div step
<1>1. CASE long <= s
  <2>1. count = 0
    <3>1. count > 0 => (count - 1) * step \in Nat
      OBVIOUS
    <3> QED
      BY <1>1, <3>1
  <2> QED
    BY <1>1, <2>1
<1>2. CASE long > s
  <2>1. PICK a \in Nat : a = long - s + step - 1
    BY <1>2
  <2> DEFINE q == a \div step
  <2>2. q \in Nat /\ step * q <= a /\ a < step * q + step
    BY <2>1
  <2>3. count > 0 => count * step <= a
    BY <1>2, <2>1
  <2>4. count <= q + 1
    <3>1. CASE count = 0
      BY <2>2, <3>1
    <3>2. CASE count > 0
      <4>1. count * step < (q + 1) * step
        BY <2>2, <2>3, <3>2, (q + 1) * step = step * q + step
      <4> QED
        BY <2>2, <4>1
    <3> QED
      BY <3>1, <3>2
  <2>5. ASSUME count * step + s >= long PROVE q = count
    <3>1. a < count * step + step
      BY <1>2, <2>1, <2>5
    <3>2. count * step <= a
      BY <2>1, <2>3
    <3> QED
      BY <2>1, <3>1, <3>2
  <2> QED
    BY <1>2, <2>1, <2>2, <2>4, <2>5
<1> QED
  BY <1>1, <1>2

\* Every window keeps the invariant.
LEMMA CutIInv == ASSUME IInv, Cut PROVE IInv'
<1> DEFINE n == Len(chunks)
<1> USE DEF IInv
<1>1. /\ Documents \in Nat /\ document \in 1 .. Documents /\ start \in Nat
      /\ size \in Nat /\ size > 0 /\ overlap \in Nat /\ overlap < size
      /\ \A d \in 1 .. Documents : length[d] \in Nat /\ length[d] > 0
  BY Ranges DEF Cut
<1>2. /\ n \in Nat /\ Len(chunks') = n + 1 /\ chunks' \in Seq(Chunk)
      /\ \A k \in 1 .. n : chunks'[k] = chunks[k] /\ chunks[k] \in Chunk
      /\ chunks'[n + 1] = [doc |-> document, start |-> start, end |-> End]
  BY CutAppends
<1>3. /\ End \in Nat /\ start < End /\ End - start <= size /\ End <= length[document]
      /\ End # length[document] => End = start + size
      /\ start > 0 => start + overlap < End
  BY EndBounds DEF Cut
<1>4. UNCHANGED <<size, overlap, length>>
  BY DEF Cut, given
<1>5. \/ End = length[document] /\ document' = document + 1 /\ start' = 0
      \/ End # length[document] /\ document' = document /\ start' = End - overlap
  BY DEF Cut, AtEnd, NextStart
<1>6. \A k \in 1 .. n : chunks[k].doc \in 1 .. Documents /\ chunks[k].start \in Nat /\ chunks[k].end \in Nat
  BY <1>2 DEF Chunk
<1>7. End # length[document] => start' \in Nat /\ start < start' /\ start' + overlap = End
  BY <1>1, <1>3, <1>5
<1> HIDE DEF n
<1>8. TypeOK'
  <2>1. start' \in Nat /\ document' \in 1 .. Documents + 1
    BY <1>1, <1>5, <1>7
  <2> QED
    BY <1>2, <1>4, <2>1 DEF TypeOK, Chunk
<1>9. Windows'
  <2> SUFFICES ASSUME NEW k \in 1 .. n + 1
               PROVE  /\ chunks'[k].start < chunks'[k].end
                      /\ chunks'[k].end - chunks'[k].start <= size
                      /\ chunks'[k].end <= length[chunks'[k].doc]
    BY <1>2, <1>4 DEF Windows
  <2>1. CASE k = n + 1
    BY <1>2, <1>3, <2>1
  <2>2. CASE k \in 1 .. n
    BY <1>2, <2>2 DEF Windows, n
  <2> QED
    BY <1>2, <2>1, <2>2
<1>10. Position'
  <2>1. ASSUME NEW k \in 1 .. n + 1
        PROVE  /\ chunks'[k].doc <= document'
               /\ chunks'[k].doc = document' =>
                     chunks'[k].start < start' /\ chunks'[k].end <= start' + overlap
    <3>1. CASE k = n + 1
      BY <1>1, <1>2, <1>3, <1>5, <1>7, <3>1
    <3>2. CASE k \in 1 .. n
      <4>1. /\ chunks[k].doc <= document
            /\ chunks[k].doc = document =>
                  chunks[k].start < start /\ chunks[k].end <= start + overlap
        BY <3>2 DEF Position, n
      <4>2. chunks[k].doc = document => start > 0
        BY <4>1, <1>1, <1>6, <3>2
      <4>3. chunks'[k] = chunks[k] /\ chunks[k].doc \in Nat
        BY <3>2, <1>2, <1>6
      <4>4. CASE End = length[document]
        BY <4>1, <4>3, <4>4, <1>1, <1>5
      <4>5. CASE End # length[document]
        <5>1. document' = document /\ start < start' /\ start' + overlap = End
          BY <4>5, <1>5, <1>7
        <5>2. chunks[k].start \in Nat /\ chunks[k].end \in Nat /\ start' \in Nat
          BY <4>5, <3>2, <1>6, <1>7
        <5> QED
          BY <5>1, <5>2, <4>1, <4>2, <4>3, <1>1, <1>3
      <4> QED
        BY <4>4, <4>5
    <3> QED
      BY <1>2, <3>1, <3>2
  <2>2. start' > 0 => document' <= Documents /\ start' + overlap < length[document']
    BY <1>1, <1>3, <1>5, <1>7
  <2> QED
    BY <1>2, <1>4, <2>1, <2>2 DEF Position
<1>11. NothingDropped'
  <2> SUFFICES ASSUME NEW d \in 1 .. Documents, NEW offset \in 0 .. length[d] - 1,
                      d < document' \/ (d = document' /\ offset < start')
               PROVE  \E k \in 1 .. n + 1 :
                          /\ chunks'[k].doc = d
                          /\ chunks'[k].start <= offset /\ offset < chunks'[k].end
    BY <1>2, <1>4 DEF NothingDropped, Covers
  <2>1. CASE d < document \/ (d = document /\ offset < start)
    <3>1. PICK k \in 1 .. n :
               chunks[k].doc = d /\ chunks[k].start <= offset /\ offset < chunks[k].end
      BY <2>1 DEF NothingDropped, Covers, n
    <3>2. k \in 1 .. n + 1 /\ chunks'[k] = chunks[k]
      BY <1>2
    <3> QED
      BY <3>1, <3>2
  <2>2. CASE ~(d < document \/ (d = document /\ offset < start))
    <3>1. d = document /\ start <= offset /\ offset < End
      BY <2>2, <1>1, <1>3, <1>5, <1>7
    <3>2. n + 1 \in 1 .. n + 1
      BY <1>2
    <3>3. chunks'[n + 1].doc = document /\ chunks'[n + 1].start = start /\ chunks'[n + 1].end = End
      BY <1>2
    <3> QED
      BY <3>1, <3>2, <3>3
  <2> QED
    BY <2>1, <2>2
<1>12. NoneContained'
  <2> SUFFICES ASSUME NEW j \in 1 .. n + 1, NEW k \in 1 .. n + 1,
                      j < k, chunks'[j].doc = chunks'[k].doc
               PROVE  chunks'[j].start < chunks'[k].start /\ chunks'[j].end < chunks'[k].end
    BY <1>2 DEF NoneContained
  <2>1. j \in 1 .. n
    BY <1>2
  <2>2. CASE k \in 1 .. n
    BY <1>2, <2>1, <2>2 DEF NoneContained, n
  <2>3. CASE k = n + 1
    <3>1. chunks[j].doc = document
      BY <1>2, <2>1, <2>3
    <3>2. chunks[j].start < start /\ chunks[j].end <= start + overlap
      BY <2>1, <3>1 DEF Position, n
    <3>3. start > 0
      BY <3>2, <1>1, <1>6, <2>1
    <3> QED
      BY <1>1, <1>2, <1>3, <1>6, <2>1, <2>3, <3>2, <3>3
  <2> QED
    BY <1>2, <2>2, <2>3
<1>13. Counted'
  <2> SUFFICES ASSUME NEW d \in 1 .. Documents
               PROVE  /\ d < document' => CountOf(d)' = Needed(d)
                      /\ d = document' => start' = CountOf(d)' * (size - overlap)
                      /\ d > document' => CountOf(d)' = 0
    BY <1>4 DEF Counted, Needed
  <2>1. /\ CountOf(d) \in Nat
        /\ CountOf(d)' = IF d = document THEN CountOf(d) + 1 ELSE CountOf(d)
    BY CutCounts DEF Cut
  <2>2. /\ d < document => CountOf(d) = Needed(d)
        /\ d = document => start = CountOf(d) * (size - overlap)
        /\ d > document => CountOf(d) = 0
    BY DEF Counted
  <2> DEFINE count == CountOf(d)
             step == size - overlap
  <2> HIDE DEF count
  <2>3. count \in Nat /\ step \in Nat /\ step > 0
    BY <1>1, <2>1 DEF count
  <2>4. CASE d # document
    <3>1. CountOf(d)' = CountOf(d)
      BY <2>1, <2>4
    <3> QED
      BY <1>1, <1>5, <2>2, <2>4, <3>1
  <2>5. CASE d = document /\ End # length[document]
    <3>1. start' = start + step
      BY <1>1, <1>3, <1>5, <2>5
    <3>2. start' = (count + 1) * step
      BY <1>1, <2>2, <2>3, <2>5, <3>1 DEF count
    <3> QED
      BY <1>1, <1>5, <2>1, <2>5, <3>2 DEF count
  <2>6. CASE d = document /\ End = length[document]
    <3>1. count * step + size >= length[d]
      BY <1>1, <1>3, <2>2, <2>6 DEF count
    <3>2. count > 0 => (count - 1) * step + size < length[d]
      <4>1. count > 0 => count * step > 0 /\ (count - 1) * step + step = count * step
        BY <2>3
      <4>2. count > 0 => start + overlap < length[d]
        BY <1>1, <2>2, <2>6, <4>1 DEF Position, count
      <4> QED
        BY <1>1, <2>2, <2>3, <2>6, <4>1, <4>2 DEF count
    <3>3. Needed(d) = count + 1
      <4> DEFINE long == length[d]
      <4>1. long \in Nat /\ size \in Nat
        BY <1>1
      <4>2. count * step + size >= long /\ (count > 0 => (count - 1) * step + size < long)
        BY <3>1, <3>2
      <4> HIDE DEF long, step
      <4>3. (IF long <= size THEN 1 ELSE 1 + (long - size + step - 1) \div step) = count + 1
        BY ONLY <2>3, <4>1, <4>2, WindowsNeeded
      <4> QED
        BY <4>3 DEF Needed, long, step
    <3> QED
      BY <1>1, <1>5, <2>1, <2>6, <3>3 DEF count
  <2> QED
    BY <2>4, <2>5, <2>6
<1> QED
  BY <1>8, <1>9, <1>10, <1>11, <1>12, <1>13

\* So does a step of another part.
LEMMA StutterIInv == ASSUME IInv, UNCHANGED vars PROVE IInv'
  BY DEF IInv, TypeOK, Windows, Position, NothingDropped, NoneContained, Covers, Counted,
         CountOf, Needed, vars, given

\* The invariant holds while any corpus is chunked with any configuration.
THEOREM Invariance == Spec => []IInv
<1>1. IInv /\ [Next]_vars => IInv'
  BY CutIInv, StutterIInv DEF Next, Done
<1> QED
  BY <1>1, InitIInv, PTL DEF Spec

\* chunk_document drops no character of a text: see NothingDropped.
THEOREM NothingDroppedHolds == Spec => []NothingDropped
<1>1. IInv => NothingDropped
  BY DEF IInv
<1> QED
  BY <1>1, Invariance, PTL

\* No window lies in another, so chunk identifiers differ: see NoneContained.
THEOREM NoneContainedHolds == Spec => []NoneContained
<1>1. IInv => NoneContained
  BY DEF IInv
<1> QED
  BY <1>1, Invariance, PTL

\* The loop ends with the least number of windows that reaches the end of a
\* text: see AsManyAsNeeded.
THEOREM AsManyAsNeededHolds == Spec => []AsManyAsNeeded
<1>1. IInv => AsManyAsNeeded
  <2> SUFFICES ASSUME IInv, NEW d \in 1 .. Documents
               PROVE  CountOf(d) <= Needed(d) /\ (d < document => CountOf(d) = Needed(d))
    BY DEF AsManyAsNeeded
  <2> DEFINE step == size - overlap
             count == CountOf(d)
  <2>1. /\ document \in Nat /\ start \in Nat /\ size \in Nat /\ step \in Nat \ {0}
        /\ length[d] \in Nat /\ length[d] > 0 /\ overlap \in Nat
    BY Ranges DEF IInv
  <2>2. count \in Nat
    <3>1. Len(chunks) \in Nat
      BY DEF IInv, TypeOK
    <3> QED
      <4> DEFINE own == {k \in 1 .. Len(chunks) : chunks[k].doc = d}
      <4>1. \A n \in Nat : IsFiniteSet(1 .. n)
        BY FS_Interval
      <4>2. IsFiniteSet(own)
        BY <3>1, <4>1, FS_Subset
      <4>3. CountOf(d) = Cardinality(own)
        BY DEF CountOf
      <4>4. Cardinality(own) \in Nat
        BY <4>2, FS_CardinalityType
      <4> HIDE DEF own
      <4> QED
        BY <4>3, <4>4
  <2>3. /\ d < document => count = Needed(d)
        /\ d = document => start = count * step
        /\ d > document => count = 0
    BY DEF IInv, Counted
  <2> HIDE DEF count
  <2>4. d < document \/ (count > 0 => (count - 1) * step + size < length[d])
    <3>1. CASE d = document /\ count > 0
      <4>1. count * step > 0 /\ (count - 1) * step + step = count * step
        BY <2>1, <2>2, <3>1
      <4>2. start + overlap < length[d]
        BY <2>1, <2>3, <3>1, <4>1 DEF IInv, Position
      <4> QED
        BY <2>1, <2>2, <2>3, <3>1, <4>1, <4>2
    <3> QED
      BY <2>1, <2>2, <2>3, <3>1
  <2>5. CASE d < document
    <3>1. Needed(d) = count /\ count <= count
      BY <2>2, <2>3, <2>5
    <3> QED
      BY <2>5, <3>1 DEF count
  <2>6. CASE ~ d < document
    <3>1. count <= Needed(d)
      BY <2>1, <2>2, <2>4, <2>6, WindowsNeeded DEF Needed
    <3> QED
      BY <2>6, <3>1 DEF count
  <2> QED
    BY <2>5, <2>6
<1> QED
  BY <1>1, Invariance, PTL

\* A run cuts as the chunker does: what holds of the chunker's specification
\* holds of every run, whatever is indexed and searched afterwards.
THEOREM PipelineCuts == PipelineSpec => Spec
<1>1. PipelineInit => Init
  BY DEF PipelineInit
<1>2. [PipelineNext]_pipelineVars => [Next]_vars
  BY DEF PipelineNext, pipelineVars, CutNext, Index, Query, TooManyChunks, Done, Next
<1> QED
  BY <1>1, <1>2, PTL DEF PipelineSpec, Spec

----------------------------------------------------------------------------
(* Finite sums.  SumFunctionOnSet, which the metrics and fused scores are  *)
(* sums of, is a fold; it is what its recursive definition says for every  *)
(* finite set, as sums of fewer elements exist.                            *)

\* A set of numbers that is not empty has a least one.
LEMMA Least ==
    ASSUME NEW T \in SUBSET Nat, T # {}
    PROVE  \E least \in T : \A n \in T : least <= n
<1>1. PICK least \in T : \A n \in T : ~ <<n, least>> \in OpToRel(<, Nat)
  BY NatLessThanWellFounded, WFMin
<1>2. \A n \in T : ~ n < least
  BY <1>1 DEF OpToRel
<1>. QED BY <1>2

\* SumFunctionOnSet adds one element at a time: total has the sum over each
\* subset of S.
First(s) == CHOOSE x \in s : TRUE
Totals(total, f, S) ==
    total = [s \in SUBSET S |->
                IF s = {} THEN 0 ELSE f[First(s)] + total[s \ {First(s)}]]

\* These sums, of subsets of at most n elements.
TotalsTo(total, f, S, n) ==
    total = [s \in {s \in SUBSET S : Cardinality(s) <= n} |->
                IF s = {} THEN 0 ELSE f[First(s)] + total[s \ {First(s)}]]

\* What is left of a finite set without one of its elements.
LEMMA Smaller ==
    ASSUME NEW S, IsFiniteSet(S), NEW s \in SUBSET S
    PROVE  /\ IsFiniteSet(s) /\ Cardinality(s) \in Nat /\ Cardinality(s) <= Cardinality(S)
           /\ s = {} <=> Cardinality(s) = 0
           /\ s # {} => /\ First(s) \in s
                        /\ s \ {First(s)} \in SUBSET S
                        /\ Cardinality(s \ {First(s)}) = Cardinality(s) - 1
<1>1. IsFiniteSet(s) /\ Cardinality(s) <= Cardinality(S)
  BY FS_Subset
<1>2. Cardinality(s) \in Nat /\ (s = {} <=> Cardinality(s) = 0)
  BY <1>1, FS_CardinalityType, FS_EmptySet
<1>3. s # {} => First(s) \in s
  BY DEF First
<1>4. s # {} => Cardinality(s \ {First(s)}) = Cardinality(s) - 1
  BY <1>1, <1>3, FS_RemoveElement
<1>. QED BY <1>1, <1>2, <1>3, <1>4

\* The sums exist: those of n + 1 elements are made of those of n.
LEMMA TotalsExist ==
    ASSUME NEW f, NEW S, IsFiniteSet(S)
    PROVE  \E total : Totals(total, f, S)
<1>. DEFINE N == {n \in Nat : ~ \E total : TotalsTo(total, f, S, n)}
<1>1. \E total : TotalsTo(total, f, S, 0)
  <2>1. ASSUME NEW s \in SUBSET S, Cardinality(s) <= 0 PROVE s = {}
    <3>1. Cardinality(s) \in Nat /\ (s = {} <=> Cardinality(s) = 0)
      BY Smaller
    <3>. QED BY <2>1, <3>1
  <2>. DEFINE none == [s \in {s \in SUBSET S : Cardinality(s) <= 0} |-> 0]
  <2>2. none = [s \in {s \in SUBSET S : Cardinality(s) <= 0} |->
                   IF s = {} THEN 0 ELSE f[First(s)] + none[s \ {First(s)}]]
    <3>. HIDE DEF none
    <3>1. \A s \in {s \in SUBSET S : Cardinality(s) <= 0} :
              0 = IF s = {} THEN 0 ELSE f[First(s)] + none[s \ {First(s)}]
      BY <2>1
    <3>. QED BY <3>1 DEF none
  <2>3. TotalsTo(none, f, S, 0)
    <3>. HIDE DEF none
    <3>. QED BY <2>2 DEF TotalsTo
  <2>. QED BY <2>3
<1>2. ASSUME NEW n \in Nat, NEW total, TotalsTo(total, f, S, n)
      PROVE  \E next : TotalsTo(next, f, S, n + 1)
  <2>. DEFINE next == [s \in {s \in SUBSET S : Cardinality(s) <= n + 1} |->
                          IF s = {} THEN 0 ELSE f[First(s)] + total[s \ {First(s)}]]
  <2>1. ASSUME NEW s \in SUBSET S, Cardinality(s) <= n PROVE next[s] = total[s]
    <3>1. Cardinality(s) <= n + 1
      <4>1. Cardinality(s) \in Nat
        BY Smaller
      <4>. QED BY <2>1, <4>1
    <3>2. total[s] = IF s = {} THEN 0 ELSE f[First(s)] + total[s \ {First(s)}]
      BY <1>2, <2>1 DEF TotalsTo
    <3>. QED BY <3>1, <3>2
  <2>2. ASSUME NEW s \in SUBSET S, Cardinality(s) <= n + 1, s # {}
        PROVE  next[s \ {First(s)}] = total[s \ {First(s)}]
    <3>1. s \ {First(s)} \in SUBSET S /\ Cardinality(s \ {First(s)}) <= n
      BY <2>2, Smaller
    <3>. QED BY <2>1, <3>1
  <2>3. next = [s \in {s \in SUBSET S : Cardinality(s) <= n + 1} |->
                   IF s = {} THEN 0 ELSE f[First(s)] + next[s \ {First(s)}]]
    BY <2>2
  <2>4. TotalsTo(next, f, S, n + 1)
    BY <2>3 DEF TotalsTo
  <2>. QED BY <2>4
<1>3. N = {}
  <2>. SUFFICES ASSUME N # {} PROVE FALSE
    OBVIOUS
  <2>1. PICK n \in N : \A m \in N : n <= m
    BY Least
  <2>2. n # 0 /\ n \in Nat
    BY <1>1
  <2>3. n - 1 \in Nat /\ n - 1 \notin N
    BY <2>1, <2>2
  <2>4. PICK total : TotalsTo(total, f, S, n - 1)
    BY <2>3
  <2>5. \E next : TotalsTo(next, f, S, (n - 1) + 1)
    BY <1>2, <2>3, <2>4
  <2>6. (n - 1) + 1 = n
    BY <2>2
  <2>. QED BY <2>1, <2>5, <2>6
<1>4. Cardinality(S) \in Nat
  BY FS_CardinalityType
<1>5. PICK total : TotalsTo(total, f, S, Cardinality(S))
  BY <1>3, <1>4
<1>6. {s \in SUBSET S : Cardinality(s) <= Cardinality(S)} = SUBSET S
  BY Smaller
<1>7. Totals(total, f, S)
  BY <1>5, <1>6 DEF TotalsTo, Totals
<1>. QED BY <1>7

\* SumFunctionOnSet is such a sum.
LEMMA SumIsTotal ==
    ASSUME NEW f, NEW S, IsFiniteSet(S)
    PROVE  \E total : Totals(total, f, S) /\ SumFunctionOnSet(f, S) = total[S]
<1>1. SumFunctionOnSet(f, S) = (CHOOSE total : Totals(total, f, S))[S]
  BY DEF SumFunctionOnSet, FoldFunctionOnSet, MapThenFoldSet, Totals, First
<1>2. Totals(CHOOSE total : Totals(total, f, S), f, S)
  BY TotalsExist
<1>. QED BY <1>1, <1>2

\* A sum of a set does not depend on the larger set that it is a part of.
LEMMA TotalsAgree ==
    ASSUME NEW f, NEW S, IsFiniteSet(S), NEW F, Totals(F, f, S),
           NEW T \in SUBSET S, NEW G, Totals(G, f, T)
    PROVE  F[T] = G[T]
<1>. DEFINE N == {n \in Nat : \E s \in SUBSET T : Cardinality(s) = n /\ F[s] # G[s]}
<1>1. IsFiniteSet(T)
  BY FS_Subset
<1>2. N = {}
  <2>. SUFFICES ASSUME N # {} PROVE FALSE
    OBVIOUS
  <2>1. PICK n \in N : \A m \in N : n <= m
    BY Least
  <2>2. PICK s \in SUBSET T : Cardinality(s) = n /\ F[s] # G[s]
    BY <2>1
  <2>3. s # {}
    BY <2>2 DEF Totals
  <2>. DEFINE rest == s \ {First(s)}
  <2>4. rest \in SUBSET T /\ Cardinality(rest) = n - 1 /\ n - 1 \in Nat
    <3>1. /\ Cardinality(s) \in Nat /\ Cardinality(s) # 0 /\ s \ {First(s)} \in SUBSET T
          /\ Cardinality(s \ {First(s)}) = Cardinality(s) - 1
      BY <1>1, <2>3, Smaller
    <3>. QED BY <2>2, <3>1
  <2>5. F[rest] = G[rest]
    BY <2>1, <2>4
  <2>6. F[s] = f[First(s)] + F[rest] /\ G[s] = f[First(s)] + G[rest]
    BY <2>2, <2>3 DEF Totals
  <2>. QED BY <2>2, <2>5, <2>6
<1>3. Cardinality(T) \in Nat /\ T \in SUBSET T
  BY <1>1, FS_CardinalityType
<1>. QED BY <1>2, <1>3

\* The sum over no element is zero.
LEMMA SumOfNone == \A f : SumFunctionOnSet(f, {}) = 0
<1>. SUFFICES ASSUME NEW f PROVE SumFunctionOnSet(f, {}) = 0
  OBVIOUS
<1>1. IsFiniteSet({})
  BY FS_EmptySet
<1>2. PICK total : Totals(total, f, {}) /\ SumFunctionOnSet(f, {}) = total[{}]
  BY <1>1, SumIsTotal
<1>. QED BY <1>2 DEF Totals

\* The sum over a set is that of its first element and of the others.
LEMMA SumOfFirst ==
    ASSUME NEW f, NEW S, IsFiniteSet(S), S # {}
    PROVE  SumFunctionOnSet(f, S) = f[First(S)] + SumFunctionOnSet(f, S \ {First(S)})
<1>. DEFINE T == S \ {First(S)}
<1>1. T \in SUBSET S /\ IsFiniteSet(T)
  BY FS_Subset
<1>2. PICK F : Totals(F, f, S) /\ SumFunctionOnSet(f, S) = F[S]
  BY SumIsTotal
<1>3. PICK G : Totals(G, f, T) /\ SumFunctionOnSet(f, T) = G[T]
  BY <1>1, SumIsTotal
<1>4. F[S] = f[First(S)] + F[T]
  BY <1>2 DEF Totals
<1>. HIDE DEF T
<1>5. F[T] = G[T]
  BY <1>1, <1>2, <1>3, TotalsAgree
<1>. QED BY <1>2, <1>3, <1>4, <1>5 DEF T

\* Sums of whole numbers are whole numbers.
LEMMA SumIsInt ==
    ASSUME NEW S, IsFiniteSet(S), NEW f, \A x \in S : f[x] \in Int
    PROVE  SumFunctionOnSet(f, S) \in Int
<1>. DEFINE N == {n \in Nat : \E s \in SUBSET S : Cardinality(s) = n /\ SumFunctionOnSet(f, s) \notin Int}
<1>1. N = {}
  <2>. SUFFICES ASSUME N # {} PROVE FALSE
    OBVIOUS
  <2>1. PICK n \in N : \A m \in N : n <= m
    BY Least
  <2>2. PICK s \in SUBSET S : Cardinality(s) = n /\ SumFunctionOnSet(f, s) \notin Int
    BY <2>1
  <2>3. s # {}
    BY <2>2, SumOfNone
  <2>. DEFINE rest == s \ {First(s)}
  <2>4. /\ IsFiniteSet(s) /\ First(s) \in S
        /\ rest \in SUBSET S /\ Cardinality(rest) = n - 1 /\ n - 1 \in Nat
    BY <2>2, <2>3, Smaller
  <2>5. SumFunctionOnSet(f, rest) \in Int
    BY <2>1, <2>4
  <2>6. SumFunctionOnSet(f, s) = f[First(s)] + SumFunctionOnSet(f, rest)
    BY <2>3, <2>4, SumOfFirst
  <2>. HIDE DEF rest
  <2>. QED BY <2>2, <2>4, <2>5, <2>6
<1>2. Cardinality(S) \in Nat /\ S \in SUBSET S
  BY FS_CardinalityType
<1>. QED BY <1>1, <1>2

\* Any element may be taken first.
LEMMA SumOfAny ==
    ASSUME NEW S, IsFiniteSet(S), NEW f, \A y \in S : f[y] \in Int, NEW x \in S
    PROVE  SumFunctionOnSet(f, S) = f[x] + SumFunctionOnSet(f, S \ {x})
<1>. DEFINE Sum(s) == SumFunctionOnSet(f, s)
            Splits(s) == \A y \in s : Sum(s) = f[y] + Sum(s \ {y})
            N == {n \in Nat : \E s \in SUBSET S : Cardinality(s) = n /\ ~ Splits(s)}
<1>1. N = {}
  <2>. SUFFICES ASSUME N # {} PROVE FALSE
    OBVIOUS
  <2>1. PICK n \in N : \A m \in N : n <= m
    BY Least
  <2>2. PICK s \in SUBSET S : Cardinality(s) = n /\ ~ Splits(s)
    BY <2>1
  <2>3. PICK y \in s : Sum(s) # f[y] + Sum(s \ {y})
    BY <2>2
  <2>. DEFINE first == First(s)
              rest == s \ {first}
              others == s \ {y}
              less == others \ {first}
  <2>4. /\ IsFiniteSet(s) /\ first \in s
        /\ rest \in SUBSET S /\ Cardinality(rest) = n - 1 /\ n - 1 \in Nat
    <3>1. s # {} /\ Cardinality(s) = n
      BY <2>2, <2>3
    <3>2. /\ IsFiniteSet(s) /\ first \in s
          /\ Cardinality(s) \in Nat /\ Cardinality(s) # 0 /\ rest \in SUBSET S
          /\ Cardinality(rest) = Cardinality(s) - 1
      BY <3>1, Smaller
    <3>. HIDE DEF rest, first
    <3>. QED BY <3>1, <3>2
  <2>5. Sum(s) = f[first] + Sum(rest)
    BY <2>3, <2>4, SumOfFirst
  <2>6. y # first
    BY <2>3, <2>5
  <2>7. others \in SUBSET S /\ IsFiniteSet(others) /\ Cardinality(others) = n - 1
    BY <2>2, <2>3, <2>4, FS_RemoveElement
  <2>8. n - 1 \notin N
    BY <2>1, <2>4
  <2>9. Splits(rest) /\ Splits(others)
    BY <2>4, <2>7, <2>8
  <2>10. Sum(rest) = f[y] + Sum(rest \ {y})
    BY <2>3, <2>6, <2>9
  <2>11. Sum(others) = f[first] + Sum(less)
    BY <2>4, <2>6, <2>9
  <2>12. rest \ {y} = less
    OBVIOUS
  <2>13. IsFiniteSet(less) /\ less \in SUBSET S
    BY <2>7, FS_RemoveElement
  <2>14. Sum(less) \in Int /\ f[y] \in Int /\ f[first] \in Int
    <3>1. Sum(less) \in Int
      <4>. HIDE DEF less
      <4>. QED BY <2>13, SumIsInt
    <3>. QED BY <2>2, <2>3, <2>4, <3>1
  <2>. HIDE DEF Sum, rest, less, others, first
  <2>15. Sum(s) = f[first] + (f[y] + Sum(less))
    BY <2>5, <2>10, <2>12
  <2>16. f[y] + Sum(others) = f[y] + (f[first] + Sum(less))
    BY <2>11
  <2>17. Sum(s) = f[y] + Sum(others)
    BY <2>14, <2>15, <2>16
  <2>. QED BY <2>3, <2>17 DEF others
<1>2. Cardinality(S) \in Nat /\ S \in SUBSET S
  BY FS_CardinalityType
<1>3. Splits(S)
  <2>. HIDE DEF Splits
  <2>. QED BY <1>1, <1>2
<1>. QED BY <1>3

\* Sums grow with what is added, and are equal only if all of it is.
LEMMA SumCompares ==
    ASSUME NEW S, IsFiniteSet(S), NEW f, NEW g,
           \A x \in S : f[x] \in Int /\ g[x] \in Int /\ f[x] <= g[x]
    PROVE  /\ SumFunctionOnSet(f, S) <= SumFunctionOnSet(g, S)
           /\ SumFunctionOnSet(f, S) = SumFunctionOnSet(g, S) => \A x \in S : f[x] = g[x]
<1>. DEFINE F(s) == SumFunctionOnSet(f, s)
            G(s) == SumFunctionOnSet(g, s)
            Less(s) == F(s) <= G(s) /\ (F(s) = G(s) => \A x \in s : f[x] = g[x])
            N == {n \in Nat : \E s \in SUBSET S : Cardinality(s) = n /\ ~ Less(s)}
<1>1. N = {}
  <2>. SUFFICES ASSUME N # {} PROVE FALSE
    OBVIOUS
  <2>1. PICK n \in N : \A m \in N : n <= m
    BY Least
  <2>2. PICK s \in SUBSET S : Cardinality(s) = n /\ ~ Less(s)
    BY <2>1
  <2>3. s # {}
    BY <2>2, SumOfNone
  <2>. DEFINE x == First(s)
              rest == s \ {x}
  <2>4. /\ IsFiniteSet(s) /\ x \in s
        /\ rest \in SUBSET S /\ Cardinality(rest) = n - 1 /\ n - 1 \in Nat
    <3>1. /\ IsFiniteSet(s) /\ x \in s
          /\ Cardinality(s) \in Nat /\ Cardinality(s) # 0 /\ rest \in SUBSET S
          /\ Cardinality(rest) = Cardinality(s) - 1
      BY <2>3, Smaller
    <3>. HIDE DEF rest, x, Less
    <3>. QED BY <2>2, <3>1
  <2>5. Less(rest)
    <3>. HIDE DEF rest, x, Less
    <3>. QED BY <2>1, <2>4
  <2>6. F(s) = f[x] + F(rest) /\ G(s) = g[x] + G(rest)
    BY <2>3, <2>4, SumOfFirst
  <2>7. F(rest) \in Int /\ G(rest) \in Int
    <3>1. IsFiniteSet(rest) /\ \A y \in rest : f[y] \in Int /\ g[y] \in Int
      BY <2>4, FS_Subset
    <3>. HIDE DEF rest
    <3>. QED BY <3>1, SumIsInt
  <2>8. \A y \in s : y = x \/ y \in rest
    OBVIOUS
  <2>9. x \in S /\ f[x] \in Int /\ g[x] \in Int /\ f[x] <= g[x]
    BY <2>4
  <2>. HIDE DEF rest, x, F, G
  <2>10. F(s) <= G(s)
    BY <2>5, <2>6, <2>7, <2>9
  <2>11. F(s) = G(s) => F(rest) = G(rest) /\ f[x] = g[x]
    BY <2>5, <2>6, <2>7, <2>9
  <2>. QED BY <2>2, <2>5, <2>8, <2>10, <2>11
<1>2. Cardinality(S) \in Nat /\ S \in SUBSET S
  BY FS_CardinalityType
<1>3. Less(S)
  <2>. HIDE DEF Less
  <2>. QED BY <1>1, <1>2
<1>. QED BY <1>3

\* Only what is added counts.
LEMMA SumSame ==
    ASSUME NEW S, IsFiniteSet(S), NEW f, NEW g,
           \A x \in S : f[x] \in Int /\ f[x] = g[x]
    PROVE  SumFunctionOnSet(f, S) = SumFunctionOnSet(g, S)
<1>1. /\ SumFunctionOnSet(f, S) <= SumFunctionOnSet(g, S)
      /\ SumFunctionOnSet(g, S) <= SumFunctionOnSet(f, S)
  BY SumCompares
<1>2. SumFunctionOnSet(f, S) \in Int /\ SumFunctionOnSet(g, S) \in Int
  BY SumIsInt
<1>. QED BY <1>1, <1>2

\* The same number added many times.
LEMMA SumOfConstant ==
    ASSUME NEW S, IsFiniteSet(S), NEW c \in Int
    PROVE  SumFunctionOnSet([x \in S |-> c], S) = Cardinality(S) * c
<1>. DEFINE f == [x \in S |-> c]
            Sum(s) == SumFunctionOnSet(f, s)
            N == {n \in Nat : \E s \in SUBSET S : Cardinality(s) = n /\ Sum(s) # n * c}
<1>. \A x \in S : f[x] = c
  OBVIOUS
<1>. HIDE DEF f
<1>1. N = {}
  <2>. SUFFICES ASSUME N # {} PROVE FALSE
    OBVIOUS
  <2>1. PICK n \in N : \A m \in N : n <= m
    BY Least
  <2>2. PICK s \in SUBSET S : Cardinality(s) = n /\ Sum(s) # n * c
    BY <2>1
  <2>3. s # {}
    <3>1. Cardinality({}) = 0
      BY FS_EmptySet
    <3>2. SumFunctionOnSet(f, {}) = 0
      BY SumOfNone
    <3>3. 0 * c = 0
      OBVIOUS
    <3>4. ASSUME s = {} PROVE FALSE
      <4>1. n = 0 /\ Sum(s) = 0
        BY <2>2, <3>1, <3>2, <3>4
      <4>. HIDE DEF Sum
      <4>. QED BY <2>2, <3>3, <4>1
    <3>. QED BY <3>4
  <2>. DEFINE x == First(s)
              rest == s \ {x}
  <2>4. /\ IsFiniteSet(s) /\ x \in s
        /\ rest \in SUBSET S /\ Cardinality(rest) = n - 1 /\ n - 1 \in Nat
    <3>1. /\ IsFiniteSet(s) /\ x \in s
          /\ Cardinality(s) \in Nat /\ Cardinality(s) # 0 /\ rest \in SUBSET S
          /\ Cardinality(rest) = Cardinality(s) - 1
      BY <2>3, Smaller
    <3>. HIDE DEF rest, x, Sum
    <3>. QED BY <2>2, <3>1
  <2>5. Sum(rest) = (n - 1) * c
    <3>. HIDE DEF rest, x, Sum
    <3>. QED BY <2>1, <2>4
  <2>6. Sum(s) = c + Sum(rest)
    BY <2>3, <2>4, SumOfFirst
  <2>. HIDE DEF rest, x, Sum
  <2>7. c + (n - 1) * c = n * c
    OBVIOUS
  <2>. QED BY <2>2, <2>5, <2>6, <2>7
<1>2. Cardinality(S) \in Nat /\ S \in SUBSET S
  BY FS_CardinalityType
<1>3. Sum(S) = Cardinality(S) * c
  <2>. HIDE DEF Sum
  <2>. QED BY <1>1, <1>2
<1>. QED BY <1>3 DEF f

\* What does not count may be added or left out.
LEMMA SumOfPart ==
    ASSUME NEW S, IsFiniteSet(S), NEW f, \A x \in S : f[x] \in Int,
           NEW T \in SUBSET S, \A x \in S \ T : f[x] = 0
    PROVE  SumFunctionOnSet(f, S) = SumFunctionOnSet(f, T)
<1>. DEFINE Sum(s) == SumFunctionOnSet(f, s)
            Same(s) == Sum(s) = Sum(s \cap T)
            N == {n \in Nat : \E s \in SUBSET S : Cardinality(s) = n /\ ~ Same(s)}
<1>1. N = {}
  <2>. SUFFICES ASSUME N # {} PROVE FALSE
    OBVIOUS
  <2>1. PICK n \in N : \A m \in N : n <= m
    BY Least
  <2>2. PICK s \in SUBSET S : Cardinality(s) = n /\ ~ Same(s)
    BY <2>1
  <2>3. s # {}
    BY <2>2
  <2>. DEFINE x == First(s)
              rest == s \ {x}
  <2>4. /\ IsFiniteSet(s) /\ x \in s
        /\ rest \in SUBSET S /\ Cardinality(rest) = n - 1 /\ n - 1 \in Nat
    <3>1. /\ IsFiniteSet(s) /\ x \in s
          /\ Cardinality(s) \in Nat /\ Cardinality(s) # 0 /\ rest \in SUBSET S
          /\ Cardinality(rest) = Cardinality(s) - 1
      BY <2>3, Smaller
    <3>. HIDE DEF rest, x, Sum
    <3>. QED BY <2>2, <3>1
  <2>5. Same(rest)
    <3>. HIDE DEF rest, x, Same
    <3>. QED BY <2>1, <2>4
  <2>6. Sum(s) = f[x] + Sum(rest)
    BY <2>3, <2>4, SumOfFirst
  <2>7. Sum(rest) \in Int /\ f[x] \in Int
    <3>1. IsFiniteSet(rest) /\ \A y \in rest : f[y] \in Int
      BY <2>4, FS_Subset
    <3>2. f[x] \in Int
      BY <2>4
    <3>. HIDE DEF rest, x
    <3>. QED BY <3>1, <3>2, SumIsInt
  <2>8. CASE x \in T
    <3>. DEFINE part == s \cap T
    <3>1. x \in part /\ part \ {x} = rest \cap T /\ \A y \in part : f[y] \in Int
      BY <2>4, <2>8
    <3>2. IsFiniteSet(part)
      BY <2>4, FS_Subset
    <3>3. Sum(part) = f[x] + Sum(part \ {x})
      <4>. HIDE DEF part, x
      <4>. QED BY <3>1, <3>2, SumOfAny
    <3>4. Sum(part) = f[x] + Sum(rest)
      <4>1. Sum(part \ {x}) = Sum(rest \cap T)
        BY <3>1
      <4>. HIDE DEF part, x, rest, Sum
      <4>. QED BY <2>5, <3>3, <4>1
    <3>. QED BY <2>2, <2>6, <3>4
  <2>9. CASE x \notin T
    <3>1. f[x] = 0 /\ s \cap T = rest \cap T
      BY <2>4, <2>9
    <3>2. Sum(s) = Sum(rest)
      <4>. HIDE DEF x, rest, Sum
      <4>. QED BY <2>6, <2>7, <3>1
    <3>. QED BY <2>2, <2>5, <3>1, <3>2
  <2>. QED BY <2>8, <2>9
<1>2. Cardinality(S) \in Nat /\ S \in SUBSET S /\ S \cap T = T
  BY FS_CardinalityType
<1>3. Same(S)
  <2>. HIDE DEF Same
  <2>. QED BY <1>1, <1>2
<1>. QED BY <1>2, <1>3

\* Sums of what is not negative grow with the set.
LEMMA SumOfFewer ==
    ASSUME NEW S, IsFiniteSet(S), NEW f, \A x \in S : f[x] \in Nat, NEW T \in SUBSET S
    PROVE  SumFunctionOnSet(f, T) <= SumFunctionOnSet(f, S)
<1>. DEFINE g == [x \in S |-> IF x \in T THEN f[x] ELSE 0]
<1>1. \A x \in S : g[x] \in Int /\ f[x] \in Int /\ g[x] <= f[x]
  OBVIOUS
<1>2. (\A x \in S \ T : g[x] = 0) /\ \A x \in T : g[x] \in Int /\ g[x] = f[x]
  OBVIOUS
<1>3. IsFiniteSet(T)
  BY FS_Subset
<1>. HIDE DEF g
<1>4. SumFunctionOnSet(g, S) = SumFunctionOnSet(g, T)
  BY <1>1, <1>2, SumOfPart
<1>5. SumFunctionOnSet(g, T) = SumFunctionOnSet(f, T)
  BY <1>2, <1>3, SumSame
<1>6. SumFunctionOnSet(g, S) <= SumFunctionOnSet(f, S)
  BY <1>1, SumCompares
<1>. QED BY <1>4, <1>5, <1>6

\* Sums of natural numbers are natural numbers, and only those of zeros are zero.
LEMMA SumIsNat ==
    ASSUME NEW S, IsFiniteSet(S), NEW f, \A x \in S : f[x] \in Nat
    PROVE  /\ SumFunctionOnSet(f, S) \in Nat
           /\ SumFunctionOnSet(f, S) = 0 <=> \A x \in S : f[x] = 0
<1>. DEFINE zero == [x \in S |-> 0]
            Sum(g) == SumFunctionOnSet(g, S)
<1>1. Sum(zero) = 0
  <2>1. Sum(zero) = Cardinality(S) * 0
    <3>1. 0 \in Int
      OBVIOUS
    <3>. QED BY <3>1, SumOfConstant, Zenon
  <2>2. Cardinality(S) \in Nat
    BY FS_CardinalityType
  <2>. HIDE DEF Sum
  <2>. QED BY <2>1, <2>2
<1>2. \A x \in S : zero[x] = 0 /\ zero[x] \in Int /\ f[x] \in Int /\ zero[x] <= f[x]
  OBVIOUS
<1>. HIDE DEF zero
<1>3. /\ Sum(zero) <= Sum(f) /\ Sum(f) \in Int
      /\ Sum(zero) = Sum(f) => \A x \in S : zero[x] = f[x]
  BY <1>2, SumCompares, SumIsInt
<1>4. (\A x \in S : f[x] = 0) => Sum(f) = Sum(zero)
  BY <1>2, SumSame
<1>. HIDE DEF Sum
<1>5. Sum(f) \in Nat /\ (Sum(f) = 0 <=> \A x \in S : f[x] = 0)
  BY <1>1, <1>2, <1>3, <1>4
<1>. QED BY <1>5 DEF Sum

\* The sum of two sums.
LEMMA SumOfBoth ==
    ASSUME NEW S, IsFiniteSet(S), NEW f, NEW g, NEW h,
           \A x \in S : f[x] \in Int /\ g[x] \in Int /\ h[x] = f[x] + g[x]
    PROVE  SumFunctionOnSet(h, S) = SumFunctionOnSet(f, S) + SumFunctionOnSet(g, S)
<1>. DEFINE F(s) == SumFunctionOnSet(f, s)
            G(s) == SumFunctionOnSet(g, s)
            H(s) == SumFunctionOnSet(h, s)
            Same(s) == H(s) = F(s) + G(s)
            N == {n \in Nat : \E s \in SUBSET S : Cardinality(s) = n /\ ~ Same(s)}
<1>1. N = {}
  <2>. SUFFICES ASSUME N # {} PROVE FALSE
    OBVIOUS
  <2>1. PICK n \in N : \A m \in N : n <= m
    BY Least
  <2>2. PICK s \in SUBSET S : Cardinality(s) = n /\ ~ Same(s)
    BY <2>1
  <2>3. s # {}
    <3>1. F({}) = 0 /\ G({}) = 0 /\ H({}) = 0
      BY SumOfNone
    <3>. HIDE DEF F, G, H
    <3>. QED BY <2>2, <3>1
  <2>. DEFINE x == First(s)
              rest == s \ {x}
  <2>4. /\ IsFiniteSet(s) /\ x \in s
        /\ rest \in SUBSET S /\ Cardinality(rest) = n - 1 /\ n - 1 \in Nat
    <3>1. /\ IsFiniteSet(s) /\ x \in s
          /\ Cardinality(s) \in Nat /\ Cardinality(s) # 0 /\ rest \in SUBSET S
          /\ Cardinality(rest) = Cardinality(s) - 1
      BY <2>3, Smaller
    <3>. HIDE DEF rest, x, Same
    <3>. QED BY <2>2, <3>1
  <2>5. Same(rest)
    <3>. HIDE DEF rest, x, Same
    <3>. QED BY <2>1, <2>4
  <2>6. F(s) = f[x] + F(rest) /\ G(s) = g[x] + G(rest) /\ H(s) = h[x] + H(rest)
    BY <2>3, <2>4, SumOfFirst
  <2>7. F(rest) \in Int /\ G(rest) \in Int
    <3>1. IsFiniteSet(rest) /\ \A y \in rest : f[y] \in Int /\ g[y] \in Int
      BY <2>4, FS_Subset
    <3>. HIDE DEF rest
    <3>. QED BY <3>1, SumIsInt
  <2>8. f[x] \in Int /\ g[x] \in Int /\ h[x] = f[x] + g[x]
    BY <2>4
  <2>. HIDE DEF rest, x, F, G, H
  <2>. QED BY <2>2, <2>5, <2>6, <2>7, <2>8
<1>2. Cardinality(S) \in Nat /\ S \in SUBSET S
  BY FS_CardinalityType
<1>3. Same(S)
  <2>. HIDE DEF Same
  <2>. QED BY <1>1, <1>2
<1>. QED BY <1>3

\* A sum may be taken over other names for the same things.
LEMMA SumRenamed ==
    ASSUME NEW S, IsFiniteSet(S), NEW T, NEW h \in [S -> T],
           \A x, y \in S : h[x] = h[y] => x = y, \A z \in T : \E x \in S : h[x] = z,
           NEW g, \A z \in T : g[z] \in Int, NEW f, \A x \in S : f[x] = g[h[x]]
    PROVE  IsFiniteSet(T) /\ SumFunctionOnSet(f, S) = SumFunctionOnSet(g, T)
<1>. DEFINE F(s) == SumFunctionOnSet(f, s)
            G(s) == SumFunctionOnSet(g, s)
            Image(s) == {h[x] : x \in s}
            Same(s) == F(s) = G(Image(s))
            N == {n \in Nat : \E s \in SUBSET S : Cardinality(s) = n /\ ~ Same(s)}
<1>1. IsFiniteSet(T) /\ Image(S) = T
  <2>1. h \in Surjection(S, T)
    BY Fun_IsSurj
  <2>2. Image(S) = T
    OBVIOUS
  <2>. QED BY <2>1, <2>2, FS_Surjection
<1>2. N = {}
  <2>. SUFFICES ASSUME N # {} PROVE FALSE
    OBVIOUS
  <2>1. PICK n \in N : \A m \in N : n <= m
    BY Least
  <2>2. PICK s \in SUBSET S : Cardinality(s) = n /\ ~ Same(s)
    BY <2>1
  <2>3. s # {}
    <3>1. Image({}) = {} /\ F({}) = 0 /\ G({}) = 0
      BY SumOfNone
    <3>. HIDE DEF F, G, Image
    <3>. QED BY <2>2, <3>1
  <2>. DEFINE x == First(s)
              rest == s \ {x}
  <2>4. /\ IsFiniteSet(s) /\ x \in s
        /\ rest \in SUBSET S /\ Cardinality(rest) = n - 1 /\ n - 1 \in Nat
    <3>1. /\ IsFiniteSet(s) /\ x \in s
          /\ Cardinality(s) \in Nat /\ Cardinality(s) # 0 /\ rest \in SUBSET S
          /\ Cardinality(rest) = Cardinality(s) - 1
      BY <2>3, Smaller
    <3>. HIDE DEF rest, x, Same
    <3>. QED BY <2>2, <3>1
  <2>5. Same(rest)
    <3>. HIDE DEF rest, x, Same
    <3>. QED BY <2>1, <2>4
  <2>6. F(s) = f[x] + F(rest)
    BY <2>3, <2>4, SumOfFirst
  <2>7. /\ h[x] \in Image(s) /\ Image(rest) = Image(s) \ {h[x]}
        /\ \A z \in Image(s) : g[z] \in Int
    BY <2>4
  <2>8. IsFiniteSet(Image(s))
    <3>1. Image(s) \in SUBSET T
      OBVIOUS
    <3>. HIDE DEF Image
    <3>. QED BY <1>1, <3>1, FS_Subset
  <2>9. G(Image(s)) = g[h[x]] + G(Image(rest))
    <3>. HIDE DEF Image, x, rest
    <3>. QED BY <2>7, <2>8, SumOfAny
  <2>10. f[x] = g[h[x]]
    BY <2>4
  <2>. HIDE DEF rest, x, F, G, Image
  <2>. QED BY <2>2, <2>5, <2>6, <2>9, <2>10
<1>3. Cardinality(S) \in Nat /\ S \in SUBSET S
  BY FS_CardinalityType
<1>4. Same(S)
  <2>. HIDE DEF Same
  <2>. QED BY <1>2, <1>3
<1>. QED
  <2>. HIDE DEF Image, F, G
  <2>1. F(S) = G(T)
    BY <1>1, <1>4
  <2>. QED BY <1>1, <2>1 DEF F, G

----------------------------------------------------------------------------
(* Rankings.  A strict order of positions puts each of them at one rank,   *)
(* and the order of results by score and identifier does not depend on how *)
(* they came.                                                              *)

\* R is a strict order of S, in which so many elements are ahead of i.
StrictOrder(R, S) ==
    /\ \A i \in S : <<i, i>> \notin R
    /\ \A i, j \in S : i # j => <<i, j>> \in R \/ <<j, i>> \in R
    /\ \A i, j, k \in S : <<i, j>> \in R /\ <<j, k>> \in R => <<i, k>> \in R
AheadOf(R, S, i) == Cardinality({j \in S : <<j, i>> \in R})

\* In a strict order of a finite set, the number of elements ahead of each tells
\* them apart, grows with the order, and takes every value below the cardinality.
LEMMA Counting ==
    ASSUME NEW S, IsFiniteSet(S), NEW R, StrictOrder(R, S)
    PROVE  /\ Cardinality(S) \in Nat
           /\ \A i \in S : AheadOf(R, S, i) \in 0 .. Cardinality(S) - 1
           /\ \A i, j \in S : <<i, j>> \in R <=> AheadOf(R, S, i) < AheadOf(R, S, j)
           /\ \A n \in 1 .. Cardinality(S) : \E i \in S : AheadOf(R, S, i) = n - 1
<1>. USE DEF StrictOrder
<1>. DEFINE below(i) == {j \in S : <<j, i>> \in R}
            N == 1 .. Cardinality(S)
            place == [i \in S |-> Cardinality(below(i)) + 1]
<1>1. Cardinality(S) \in Nat
  BY FS_CardinalityType
<1>2. ASSUME NEW i \in S
      PROVE  /\ IsFiniteSet(below(i)) /\ Cardinality(below(i)) \in Nat
             /\ Cardinality(below(i)) < Cardinality(S)
  <2>1. below(i) \in SUBSET S /\ below(i) # S
    OBVIOUS
  <2>. HIDE DEF below
  <2>2. IsFiniteSet(below(i)) /\ Cardinality(below(i)) <= Cardinality(S)
        /\ Cardinality(below(i)) # Cardinality(S)
    BY <2>1, FS_Subset
  <2>3. Cardinality(below(i)) \in Nat
    BY <2>2, FS_CardinalityType
  <2>. QED BY <1>1, <2>2, <2>3
<1>3. ASSUME NEW i \in S, NEW j \in S, <<i, j>> \in R
      PROVE  Cardinality(below(i)) < Cardinality(below(j))
  <2>1. below(i) \in SUBSET below(j) /\ below(i) # below(j)
    BY <1>3
  <2>. HIDE DEF below
  <2>2. Cardinality(below(i)) <= Cardinality(below(j)) /\ Cardinality(below(i)) # Cardinality(below(j))
    BY <1>2, <2>1, FS_Subset
  <2>. QED BY <1>2, <2>2
<1>4. \A i, j \in S : <<i, j>> \in R <=> Cardinality(below(i)) < Cardinality(below(j))
  <2>. SUFFICES ASSUME NEW i \in S, NEW j \in S, <<i, j>> \notin R
                PROVE  ~ Cardinality(below(i)) < Cardinality(below(j))
    <3>1. \A i, j \in S : <<i, j>> \in R => Cardinality(below(i)) < Cardinality(below(j))
      BY <1>3
    <3>. HIDE DEF below
    <3>. QED BY <3>1
  <2>1. i = j \/ <<j, i>> \in R
    OBVIOUS
  <2>. HIDE DEF below
  <2>. QED BY <1>2, <1>3, <2>1
<1>5. \A n \in N : \E i \in S : Cardinality(below(i)) = n - 1
  <2>1. \A i \in S : Cardinality(below(i)) + 1 \in N
    <3>. HIDE DEF below
    <3>. QED BY <1>1, <1>2
  <2>2. place \in [S -> N]
    BY <2>1
  <2>3. \A i, j \in S : place[i] = place[j] => i = j
    <3>. SUFFICES ASSUME NEW i \in S, NEW j \in S, i # j PROVE place[i] # place[j]
      OBVIOUS
    <3>1. <<i, j>> \in R \/ <<j, i>> \in R
      OBVIOUS
    <3>2. place[i] = Cardinality(below(i)) + 1 /\ place[j] = Cardinality(below(j)) + 1
      OBVIOUS
    <3>. HIDE DEF below, place
    <3>. QED BY <1>2, <1>3, <3>1, <3>2
  <2>4. place \in Injection(S, N)
    BY <2>2, <2>3, Fun_IsInj
  <2>5. IsFiniteSet(N) /\ Cardinality(N) = Cardinality(S)
    BY <1>1, FS_Interval
  <2>6. place \in Surjection(S, N)
    <3>. HIDE DEF place, N
    <3>. QED BY <2>4, <2>5, FS_Injection
  <2>7. \A n \in N : \E i \in S : place[i] = n
    <3>. HIDE DEF place, N
    <3>. QED BY <2>6, Fun_SurjectionProperties
  <2>8. ASSUME NEW n \in N PROVE \E i \in S : Cardinality(below(i)) = n - 1
    <3>1. PICK i \in S : place[i] = n
      BY <2>7
    <3>2. place[i] = Cardinality(below(i)) + 1
      OBVIOUS
    <3>3. n \in Int /\ Cardinality(below(i)) \in Int
      BY <1>1, <1>2
    <3>4. Cardinality(below(i)) = n - 1
      <4>. HIDE DEF below, place, N
      <4>. QED BY <3>1, <3>2, <3>3
    <3>. QED BY <3>4
  <2>. QED BY <2>8
<1>6. \A i \in S : Cardinality(below(i)) \in 0 .. Cardinality(S) - 1
  <2>. HIDE DEF below
  <2>. QED BY <1>1, <1>2
<1>. QED BY <1>1, <1>4, <1>5, <1>6 DEF AheadOf

\* Positions put into a strict order, each where as many are ahead of it: every
\* position is there once, in that order.
PlacedBy(order, R, S) == order = [m \in S |-> CHOOSE i \in S : AheadOf(R, S, i) = m - 1]

\* Such positions are a permutation, and each is ahead of those after it.
LEMMA Placed ==
    ASSUME NEW n \in Nat, NEW R, StrictOrder(R, 1 .. n), NEW order, PlacedBy(order, R, 1 .. n)
    PROVE  /\ order \in [1 .. n -> 1 .. n]
           /\ \A i \in 1 .. n : \E m \in 1 .. n : order[m] = i
           /\ \A l, m \in 1 .. n : l < m => order[l] # order[m] /\ <<order[l], order[m]>> \in R
<1>. DEFINE S == 1 .. n
            ahead(i) == AheadOf(R, S, i)
<1>1. StrictOrder(R, S) /\ PlacedBy(order, R, S)
  OBVIOUS
<1>2. /\ \A i, j \in S : <<i, j>> \in R <=> ahead(i) < ahead(j)
      /\ \A i \in S : ahead(i) \in 0 .. n - 1
      /\ \A m \in S : \E i \in S : ahead(i) = m - 1
  <2>1. IsFiniteSet(S) /\ Cardinality(S) = n
    BY FS_Interval
  <2>2. \A m \in 1 .. Cardinality(S) : \E i \in S : ahead(i) = m - 1
    <3>. HIDE DEF S
    <3>. QED BY <1>1, <2>1, Counting
  <2>3. /\ \A i, j \in S : <<i, j>> \in R <=> ahead(i) < ahead(j)
        /\ \A i \in S : ahead(i) \in 0 .. Cardinality(S) - 1
    <3>. HIDE DEF S
    <3>. QED BY <1>1, <2>1, Counting
  <2>. QED BY <2>1, <2>2, <2>3
<1>3. order = [m \in S |-> CHOOSE i \in S : ahead(i) = m - 1]
  BY <1>1 DEF PlacedBy
<1>. HIDE DEF ahead
<1>4. \A m \in S : \E i \in S : ahead(i) = m - 1
  BY <1>2
<1>5. \A m \in S : order[m] \in S /\ ahead(order[m]) = m - 1
  BY <1>3, <1>4
<1>6. order \in [S -> S]
  BY <1>3, <1>5
<1>7. ASSUME NEW i \in S PROVE \E m \in S : order[m] = i
  <2>. DEFINE m == ahead(i) + 1
  <2>1. m \in S /\ ahead(i) \in Nat /\ m - 1 = ahead(i)
    BY <1>2
  <2>. HIDE DEF m
  <2>2. ahead(order[m]) = ahead(i) /\ order[m] \in S
    BY <1>5, <2>1
  <2>3. <<order[m], i>> \notin R /\ <<i, order[m]>> \notin R
    <3>1. ~ ahead(order[m]) < ahead(i) /\ ~ ahead(i) < ahead(order[m])
      BY <2>1, <2>2
    <3>. QED BY <1>2, <2>2, <3>1
  <2>4. order[m] = i
    <3>. HIDE DEF S
    <3>. QED BY <1>1, <2>2, <2>3 DEF StrictOrder
  <2>. QED BY <2>1, <2>4
<1>8. ASSUME NEW l \in S, NEW m \in S, l < m
      PROVE  order[l] # order[m] /\ <<order[l], order[m]>> \in R
  <2>1. ahead(order[l]) = l - 1 /\ ahead(order[m]) = m - 1 /\ order[l] \in S /\ order[m] \in S
    BY <1>5
  <2>2. ahead(order[l]) < ahead(order[m]) /\ ahead(order[l]) # ahead(order[m])
    BY <1>8, <2>1
  <2>. QED BY <1>2, <2>1, <2>2
<1>. QED BY <1>6, <1>7, <1>8

\* A result with a score.
Scored == [chunk : Nat, score : Nat]

\* The order in which StableRank puts the results is a permutation of them.
LEMMA RankedOrder ==
    ASSUME NEW n \in Nat, NEW results \in [1 .. n -> Scored]
    PROVE  \E order \in [1 .. n -> 1 .. n] :
               /\ StableRank(results) = [m \in 1 .. n |-> results[order[m]]]
               /\ \A i \in 1 .. n : \E m \in 1 .. n : order[m] = i
               /\ \A l, m \in 1 .. n : l < m =>
                      /\ order[l] # order[m]
                      /\ \/ Before(results[order[l]], results[order[m]])
                         \/ /\ order[l] < order[m]
                            /\ ~ Before(results[order[m]], results[order[l]])
<1>. DEFINE S == 1 .. n
            Ahead(j, i) == \/ Before(results[j], results[i])
                           \/ j < i /\ ~ Before(results[i], results[j])
            R == {p \in S \X S : Ahead(p[1], p[2])}
            order == [m \in S |-> CHOOSE i \in S : AheadOf(R, S, i) = m - 1]
<1>1. DOMAIN results = S /\ IsFiniteSet(S) /\ Cardinality(S) = n
  BY FS_Interval
<1>2. \A i \in S : results[i].chunk \in Nat /\ results[i].score \in Nat
  BY DEF Scored
<1>3. \A i, j \in S : <<j, i>> \in R <=> Ahead(j, i)
  OBVIOUS
<1>4. /\ \A i \in S : ~ Ahead(i, i)
      /\ \A i, j \in S : i # j => Ahead(i, j) \/ Ahead(j, i)
      /\ \A i, j, k \in S : Ahead(i, j) /\ Ahead(j, k) => Ahead(i, k)
  <2>1. \A i \in S : ~ Ahead(i, i)
    BY <1>2 DEF Before
  <2>2. \A i, j \in S : i # j => Ahead(i, j) \/ Ahead(j, i)
    BY <1>2 DEF Before
  <2>3. ASSUME NEW i \in S, NEW j \in S, NEW k \in S, Ahead(i, j), Ahead(j, k)
        PROVE  Ahead(i, k)
    <3>. DEFINE a == results[i]
                b == results[j]
                c == results[k]
    <3>1. /\ a.chunk \in Nat /\ b.chunk \in Nat /\ c.chunk \in Nat
          /\ a.score \in Nat /\ b.score \in Nat /\ c.score \in Nat
          /\ i \in Nat /\ j \in Nat /\ k \in Nat
      <4>1. \A h \in S : results[h].chunk \in Nat /\ results[h].score \in Nat /\ h \in Nat
        BY <1>2
      <4>2. i \in S /\ j \in S /\ k \in S
        OBVIOUS
      <4>. HIDE DEF S, Ahead
      <4>. QED BY ONLY <4>1, <4>2 DEF a, b, c
    <3>2. /\ Before(a, b) \/ (i < j /\ ~ Before(b, a))
          /\ Before(b, c) \/ (j < k /\ ~ Before(c, b))
      BY <2>3
    <3>. HIDE DEF a, b, c
    <3>3. Before(a, c) \/ (i < k /\ ~ Before(c, a))
      BY ONLY <3>1, <3>2 DEF Before
    <3>. QED BY <3>3 DEF a, b, c
  <2>. HIDE DEF Ahead
  <2>. QED BY <2>1, <2>2, <2>3
<1>5. StableRank(results) = [m \in S |-> results[order[m]]]
  <2>. DEFINE places == [m \in S |-> CHOOSE i \in S : Cardinality({j \in S : Ahead(j, i)}) = m - 1]
  <2>1. \A i \in S : AheadOf(R, S, i) = Cardinality({j \in S : Ahead(j, i)})
    <3>1. \A i \in S : {j \in S : <<j, i>> \in R} = {j \in S : Ahead(j, i)}
      BY <1>3
    <3>. QED BY <3>1 DEF AheadOf
  <2>2. places = order
    <3>. DEFINE count(i) == Cardinality({j \in S : Ahead(j, i)})
    <3>1. \A i \in S : AheadOf(R, S, i) = count(i)
      BY <2>1
    <3>. HIDE DEF R, S, count
    <3>2. \A m \in S : (CHOOSE i \in S : AheadOf(R, S, i) = m - 1) = (CHOOSE i \in S : count(i) = m - 1)
      BY <3>1
    <3>3. places = [m \in S |-> CHOOSE i \in S : count(i) = m - 1]
      BY DEF count
    <3>. QED BY <3>2, <3>3
  <2>3. StableRank(results) = [m \in S |-> results[places[m]]]
    BY <1>1 DEF StableRank, Sorted, InOrder
  <2>. HIDE DEF places, order
  <2>. QED BY <2>2, <2>3
<1>6. /\ order \in [S -> S]
      /\ \A i \in S : \E m \in S : order[m] = i
      /\ \A l, m \in S : l < m => order[l] # order[m] /\ <<order[l], order[m]>> \in R
  <2>1. StrictOrder(R, S)
    <3>. HIDE DEF Ahead, R, S
    <3>. QED BY <1>3, <1>4 DEF StrictOrder
  <2>2. PlacedBy(order, R, S)
    BY DEF PlacedBy
  <2>. HIDE DEF R, order
  <2>. QED BY <2>1, <2>2, Placed
<1>7. \A l, m \in S : l < m => order[l] # order[m] /\ Ahead(order[l], order[m])
  <2>. HIDE DEF order, R, Ahead
  <2>. QED BY <1>3, <1>6
<1>. QED
  <2>. HIDE DEF order
  <2>. QED BY <1>5, <1>6, <1>7

\* A sequence of n elements of S in the order R; what is in one of two sequences.
Ascends(seq, n, S, R) ==
    seq \in [1 .. n -> S] /\ \A l, m \in 1 .. n : l < m => <<seq[l], seq[m]>> \in R
Within(one, other, n) == \A l \in 1 .. n : \E m \in 1 .. n : other[m] = one[l]

\* Two sequences of the same things in the same strict order are the same.
LEMMA SortedUnique ==
    ASSUME NEW n \in Nat, NEW S, NEW R, \A x, y \in S : <<x, y>> \in R => <<y, x>> \notin R,
           NEW one, Ascends(one, n, S, R), NEW other, Ascends(other, n, S, R),
           Within(one, other, n), Within(other, one, n)
    PROVE  one = other
<1>. USE DEF Ascends, Within
<1>. DEFINE Differ == {m \in 1 .. n : one[m] # other[m]}
<1>1. Differ = {} => one = other
  <2>. SUFFICES ASSUME Differ = {} PROVE one = other
    OBVIOUS
  <2>1. \A m \in 1 .. n : one[m] = other[m]
    OBVIOUS
  <2>. QED BY <2>1
<1>2. SUFFICES ASSUME Differ # {} PROVE FALSE
  <2>. HIDE DEF Differ
  <2>. QED BY <1>1
<1>3. PICK m \in Differ : \A l \in Differ : m <= l
  <2>1. Differ \in SUBSET Nat
    OBVIOUS
  <2>. HIDE DEF Differ
  <2>. QED BY <1>2, <2>1, Least
<1>4. m \in 1 .. n /\ one[m] # other[m]
  OBVIOUS
<1>5. PICK i \in 1 .. n : other[i] = one[m]
  BY <1>4
<1>6. PICK j \in 1 .. n : one[j] = other[m]
  BY <1>4
<1>7. \A l \in 1 .. n : l < m => one[l] = other[l]
  BY <1>3
<1>8. /\ \A l, k \in 1 .. n : l < k => one[l] # one[k]
      /\ \A l, k \in 1 .. n : l < k => other[l] # other[k]
  OBVIOUS
<1>. HIDE DEF Differ
<1>9. m < i
  <2>1. i # m
    BY <1>4, <1>5
  <2>2. ~ i < m
    BY <1>4, <1>5, <1>7, <1>8
  <2>. QED BY <1>4, <2>1, <2>2
<1>10. m < j
  <2>1. j # m
    BY <1>4, <1>6
  <2>2. ~ j < m
    BY <1>4, <1>6, <1>7, <1>8
  <2>. QED BY <1>4, <2>1, <2>2
<1>11. <<other[m], other[i]>> \in R /\ <<one[m], one[j]>> \in R
  BY <1>4, <1>9, <1>10
<1>. QED BY <1>4, <1>5, <1>6, <1>11

\* Two results are never each before the other, and one is if they are of two chunks.
LEMMA BeforeIsOrder ==
    ASSUME NEW a \in Scored, NEW b \in Scored
    PROVE  /\ Before(a, b) => ~ Before(b, a)
           /\ a.chunk # b.chunk => Before(a, b) \/ Before(b, a)
<1>1. a.chunk \in Nat /\ a.score \in Nat /\ b.chunk \in Nat /\ b.score \in Nat
  BY DEF Scored
<1>. QED BY <1>1 DEF Before

\* An injection of a finite set into itself reaches every element.
LEMMA Shuffles ==
    ASSUME NEW S, IsFiniteSet(S), NEW f \in [S -> S], \A a, b \in S : f[a] = f[b] => a = b
    PROVE  \A t \in S : \E s \in S : f[s] = t
<1>1. f \in Injection(S, S)
  BY Fun_IsInj
<1>2. f \in Surjection(S, S)
  BY <1>1, FS_Injection
<1>. QED BY <1>2, Fun_SurjectionProperties

\* No two of the results are of one chunk.
Distinct(results) == \A i, j \in DOMAIN results : results[i].chunk = results[j].chunk => i = j

\* Ranked results are the results, best first.
LEMMA RankedResults ==
    ASSUME NEW n \in Nat, NEW results \in [1 .. n -> Scored], Distinct(results)
    PROVE  LET sorted == StableRank(results) IN
           /\ sorted \in [1 .. n -> Scored]
           /\ \A l, m \in 1 .. n : l < m => Before(sorted[l], sorted[m])
           /\ \A i \in 1 .. n : \E m \in 1 .. n : sorted[m] = results[i]
           /\ \A m \in 1 .. n : \E i \in 1 .. n : sorted[m] = results[i]
<1>1. PICK order \in [1 .. n -> 1 .. n] :
          /\ StableRank(results) = [m \in 1 .. n |-> results[order[m]]]
          /\ \A i \in 1 .. n : \E m \in 1 .. n : order[m] = i
          /\ \A l, m \in 1 .. n : l < m =>
                 /\ order[l] # order[m]
                 /\ \/ Before(results[order[l]], results[order[m]])
                    \/ /\ order[l] < order[m]
                       /\ ~ Before(results[order[m]], results[order[l]])
  BY RankedOrder
<1>2. ASSUME NEW i \in 1 .. n, NEW j \in 1 .. n, i # j
      PROVE  Before(results[i], results[j]) \/ Before(results[j], results[i])
  <2>1. results[i].chunk # results[j].chunk
    BY <1>2 DEF Distinct
  <2>. QED BY <2>1, BeforeIsOrder
<1>3. \A m \in 1 .. n : order[m] \in 1 .. n /\ StableRank(results)[m] = results[order[m]]
  BY <1>1
<1>4. ASSUME NEW l \in 1 .. n, NEW m \in 1 .. n, l < m
      PROVE  Before(results[order[l]], results[order[m]])
  <2>1. order[l] # order[m] /\ order[l] \in 1 .. n /\ order[m] \in 1 .. n
    BY <1>1, <1>3, <1>4
  <2>2. Before(results[order[l]], results[order[m]]) \/ Before(results[order[m]], results[order[l]])
    BY <1>2, <2>1
  <2>. QED BY <1>1, <1>4, <2>2
<1>. DEFINE sorted == StableRank(results)
<1>5. sorted \in [1 .. n -> Scored]
  <2>1. sorted = [m \in 1 .. n |-> results[order[m]]]
    BY <1>1
  <2>2. \A m \in 1 .. n : results[order[m]] \in Scored
    OBVIOUS
  <2>. HIDE DEF sorted
  <2>. QED BY <2>1, <2>2
<1>6. \A m \in 1 .. n : sorted[m] = results[order[m]]
  BY <1>3
<1>. HIDE DEF sorted
<1>7. ASSUME NEW l \in 1 .. n, NEW m \in 1 .. n, l < m
      PROVE  Before(sorted[l], sorted[m])
  <2>1. sorted[l] = results[order[l]] /\ sorted[m] = results[order[m]]
    BY <1>6
  <2>. QED BY <1>4, <1>7, <2>1
<1>8. ASSUME NEW i \in 1 .. n PROVE \E m \in 1 .. n : sorted[m] = results[i]
  <2>1. PICK m \in 1 .. n : order[m] = i
    BY <1>1
  <2>. QED BY <1>6, <2>1
<1>9. \A m \in 1 .. n : \E i \in 1 .. n : sorted[m] = results[i]
  BY <1>3, <1>6
<1>. QED BY <1>5, <1>7, <1>8, <1>9 DEF sorted

\* In whatever order the results come, they are ranked in the same way.
LEMMA ArrivalIsForgotten ==
    ASSUME NEW n \in Nat, NEW results \in [1 .. n -> Scored], Distinct(results),
           NEW f \in [1 .. n -> 1 .. n], IsInjective(f)
    PROVE  StableRank([i \in 1 .. n |-> results[f[i]]]) = StableRank(results)
<1>. DEFINE shuffled == [i \in 1 .. n |-> results[f[i]]]
            one == StableRank(shuffled)
            other == StableRank(results)
            R == {p \in Scored \X Scored : Before(p[1], p[2])}
<1>1. shuffled \in [1 .. n -> Scored] /\ Distinct(shuffled)
  <2>1. shuffled \in [1 .. n -> Scored]
    OBVIOUS
  <2>2. /\ DOMAIN shuffled = 1 .. n /\ DOMAIN results = 1 .. n /\ DOMAIN f = 1 .. n
        /\ \A i \in 1 .. n : f[i] \in 1 .. n /\ shuffled[i] = results[f[i]]
    OBVIOUS
  <2>3. \A i, j \in 1 .. n : f[i] = f[j] => i = j
    BY <2>2 DEF IsInjective
  <2> HIDE DEF shuffled
  <2>4. Distinct(shuffled)
    <3>1. ASSUME NEW i \in 1 .. n, NEW j \in 1 .. n, shuffled[i].chunk = shuffled[j].chunk
          PROVE  i = j
      <4>1. results[f[i]].chunk = results[f[j]].chunk
        BY <2>2, <3>1
      <4>2. f[i] = f[j]
        BY <2>2, <4>1 DEF Distinct
      <4>. QED BY <2>3, <4>2
    <3>. QED BY <2>2, <3>1 DEF Distinct
  <2>. QED BY <2>1, <2>4
<1>2. \A i \in 1 .. n : \E j \in 1 .. n : f[j] = i
  <2>1. IsFiniteSet(1 .. n)
    BY FS_Interval
  <2>2. \A a, b \in 1 .. n : f[a] = f[b] => a = b
    BY DEF IsInjective
  <2>. QED BY <2>1, <2>2, Shuffles
<1>3. \A x, y \in Scored : <<x, y>> \in R <=> Before(x, y)
  OBVIOUS
<1>4. \A x, y \in Scored : <<x, y>> \in R => <<y, x>> \notin R
  <2>. HIDE DEF R
  <2>. QED BY <1>3, BeforeIsOrder
<1>5. /\ one \in [1 .. n -> Scored]
      /\ \A l, m \in 1 .. n : l < m => Before(one[l], one[m])
      /\ \A i \in 1 .. n : \E m \in 1 .. n : one[m] = shuffled[i]
      /\ \A m \in 1 .. n : \E i \in 1 .. n : one[m] = shuffled[i]
  <2>. HIDE DEF shuffled
  <2>. QED BY <1>1, RankedResults
<1>6. /\ other \in [1 .. n -> Scored]
      /\ \A l, m \in 1 .. n : l < m => Before(other[l], other[m])
      /\ \A i \in 1 .. n : \E m \in 1 .. n : other[m] = results[i]
      /\ \A m \in 1 .. n : \E i \in 1 .. n : other[m] = results[i]
  BY RankedResults
<1>7. \A i \in 1 .. n : \E j \in 1 .. n : results[i] = shuffled[j]
  BY <1>2
<1>8. \A j \in 1 .. n : \E i \in 1 .. n : results[i] = shuffled[j]
  OBVIOUS
<1>. HIDE DEF one, other, shuffled, R
<1>9. ASSUME NEW l \in 1 .. n PROVE \E m \in 1 .. n : other[m] = one[l]
  <2>1. PICK j \in 1 .. n : one[l] = shuffled[j]
    BY <1>5
  <2>2. PICK i \in 1 .. n : results[i] = shuffled[j]
    BY <1>8
  <2>3. PICK m \in 1 .. n : other[m] = results[i]
    BY <1>6
  <2>. QED BY <2>1, <2>2, <2>3
<1>10. ASSUME NEW l \in 1 .. n PROVE \E m \in 1 .. n : one[m] = other[l]
  <2>1. PICK i \in 1 .. n : other[l] = results[i]
    BY <1>6
  <2>2. PICK j \in 1 .. n : results[i] = shuffled[j]
    BY <1>7
  <2>3. PICK m \in 1 .. n : one[m] = shuffled[j]
    BY <1>5
  <2>. QED BY <2>1, <2>2, <2>3
<1>11. Within(one, other, n) /\ Within(other, one, n)
  BY <1>9, <1>10 DEF Within
<1>12. Ascends(one, n, Scored, R) /\ Ascends(other, n, Scored, R)
  BY <1>3, <1>5, <1>6 DEF Ascends
<1>13. one = other
  BY <1>4, <1>11, <1>12, SortedUnique
<1>. QED BY <1>13 DEF one, other, shuffled

\* Results that come best first keep their order.
LEMMA BestFirstKept ==
    ASSUME NEW n \in Nat, NEW results \in [1 .. n -> Scored],
           \A i, j \in 1 .. n : i < j => Before(results[i], results[j]),
           Distinct(results)
    PROVE  StableRank(results) = results
<1>. DEFINE one == StableRank(results)
            R == {p \in Scored \X Scored : Before(p[1], p[2])}
<1>1. \A x, y \in Scored : <<x, y>> \in R <=> Before(x, y)
  OBVIOUS
<1>2. \A x, y \in Scored : <<x, y>> \in R => <<y, x>> \notin R
  <2>. HIDE DEF R
  <2>. QED BY <1>1, BeforeIsOrder
<1>3. /\ one \in [1 .. n -> Scored]
      /\ \A l, m \in 1 .. n : l < m => Before(one[l], one[m])
      /\ \A i \in 1 .. n : \E m \in 1 .. n : one[m] = results[i]
      /\ \A m \in 1 .. n : \E i \in 1 .. n : one[m] = results[i]
  BY RankedResults
<1>. HIDE DEF one, R
<1>4. Within(one, results, n) /\ Within(results, one, n)
  BY <1>3 DEF Within
<1>5. Ascends(one, n, Scored, R) /\ Ascends(results, n, Scored, R)
  BY <1>1, <1>3 DEF Ascends
<1>6. one = results
  BY <1>2, <1>4, <1>5, SortedUnique
<1>. QED BY <1>6 DEF one

----------------------------------------------------------------------------
(* The inductive invariant of a query: what each phase leaves behind.      *)

\* A set of numbers that is finite and not empty has a greatest one.
LEMMA Greatest ==
    ASSUME NEW T \in SUBSET Nat, IsFiniteSet(T), T # {}
    PROVE  Max(T) \in T /\ \A n \in T : n <= Max(T)
<1>. DEFINE Above(n) == {m \in T : m > n}
            Counts == {Cardinality(Above(n)) : n \in T}
<1>1. ASSUME NEW n \in T PROVE IsFiniteSet(Above(n)) /\ Cardinality(Above(n)) \in Nat
  <2>1. IsFiniteSet(Above(n))
    BY FS_Subset
  <2>. HIDE DEF Above
  <2>. QED BY <2>1, FS_CardinalityType
<1>2. PICK n \in T : \A m \in T : Cardinality(Above(n)) <= Cardinality(Above(m))
  <2>. HIDE DEF Above
  <2>1. Counts \in SUBSET Nat /\ Counts # {}
    BY <1>1
  <2>2. PICK c \in Counts : \A d \in Counts : c <= d
    <3>. HIDE DEF Counts
    <3>. QED BY <2>1, Least
  <2>. QED BY <2>2
<1>3. \A m \in T : m <= n
  <2>. SUFFICES ASSUME NEW m \in T, m > n PROVE FALSE
    OBVIOUS
  <2>. m \in Nat /\ n \in Nat /\ \A x \in T : x \in Nat
    OBVIOUS
  <2>1. Above(m) \in SUBSET Above(n) /\ m \in Above(n) /\ m \notin Above(m)
    <3>1. \A x \in T : x > m => x > n
      OBVIOUS
    <3>2. m > n /\ ~ m > m
      OBVIOUS
    <3>. QED BY <3>1, <3>2, Zenon
  <2>. HIDE DEF Above
  <2>2. Cardinality(Above(m)) <= Cardinality(Above(n)) /\ Cardinality(Above(m)) # Cardinality(Above(n))
    BY <1>1, <2>1, FS_Subset, Zenon
  <2>. QED BY <1>1, <1>2, <2>2
<1>4. \E x \in T : \A y \in T : x >= y
  BY <1>3
<1>5. Max(T) \in T /\ \A n_1 \in T : Max(T) >= n_1
  BY <1>4 DEF Max
<1>. QED BY <1>5

\* Every cutoff is between one and the greatest of them.
LEMMA CutoffBounds ==
    /\ MaxK \in Nat \ {0} /\ MaxK \in Cutoffs /\ CandidateK \in Nat /\ CandidateK >= MaxK
    /\ \A k \in Cutoffs : k \in Nat \ {0} /\ k <= MaxK
<1>1. /\ IsFiniteSet(Cutoffs) /\ Cutoffs \subseteq Nat \ {0} /\ Cutoffs # {}
      /\ CandidateK \in Nat /\ CandidateK >= MaxK
  BY RankingAssumption
<1>2. Cutoffs \in SUBSET Nat
  BY <1>1
<1>3. Max(Cutoffs) \in Cutoffs /\ \A n \in Cutoffs : n <= Max(Cutoffs)
  BY <1>1, <1>2, Greatest
<1>. QED BY <1>1, <1>3 DEF MaxK

\* The rankings of at most n elements of a set.
LEMMA UpTo ==
    ASSUME NEW S, NEW n \in Nat, NEW seq
    PROVE  seq \in SeqUpTo(S, n) <=> seq \in Seq(S) /\ Len(seq) <= n
<1>1. seq \in SeqUpTo(S, n) <=> \E i \in 0 .. n : seq \in [1 .. i -> S]
  BY DEF SeqUpTo
<1>2. ASSUME NEW i \in 0 .. n, seq \in [1 .. i -> S] PROVE seq \in Seq(S) /\ Len(seq) <= n
  BY <1>2
<1>3. ASSUME seq \in Seq(S), Len(seq) <= n PROVE \E i \in 0 .. n : seq \in [1 .. i -> S]
  <2>1. Len(seq) \in 0 .. n /\ seq \in [1 .. Len(seq) -> S]
    BY <1>3
  <2>. QED BY <2>1
<1>. QED BY <1>1, <1>2, <1>3

\* The first n elements of a ranking.
LEMMA FirstNIs ==
    ASSUME NEW S, NEW seq \in Seq(S), NEW n \in Nat
    PROVE  LET m == IF n < Len(seq) THEN n ELSE Len(seq) IN
           /\ m \in 0 .. Len(seq) /\ FirstN(seq, n) = [i \in 1 .. m |-> seq[i]]
           /\ FirstN(seq, n) \in Seq(S) /\ Len(FirstN(seq, n)) = m
           /\ FirstN(seq, n) \in [1 .. m -> S]
<1>. DEFINE m == IF n < Len(seq) THEN n ELSE Len(seq)
<1>1. Len(seq) \in Nat /\ m \in 0 .. Len(seq)
  OBVIOUS
<1>2. FirstN(seq, n) = SubSeq(seq, 1, m)
  BY DEF FirstN
<1>. HIDE DEF m
<1>3. SubSeq(seq, 1, m) = [i \in 1 .. m |-> seq[i]]
  BY <1>1, SubSeqRestrict DEF Restrict
<1>4. \A i \in 1 .. m : seq[i] \in S
  BY <1>1
<1>5. [i \in 1 .. m |-> seq[i]] \in [1 .. m -> S]
  BY <1>4
<1>6. \A s \in [1 .. m -> S] : s \in Seq(S) /\ Len(s) = m
  BY <1>1
<1>. QED BY <1>1, <1>2, <1>3, <1>5, <1>6 DEF m

\* What every sequence is.
LEMMA SeqIs ==
    ASSUME NEW S, NEW seq \in Seq(S)
    PROVE  /\ Len(seq) \in Nat /\ DOMAIN seq = 1 .. Len(seq)
           /\ seq \in [1 .. Len(seq) -> S] /\ \A i \in 1 .. Len(seq) : seq[i] \in S
OBVIOUS

\* The order in which results are evaluated keeps each of them once.
LEMMA OrderKeeps ==
    ASSUME NEW C \in SUBSET Nat, NEW results \in Seq([chunk : C, score : Nat]),
           IsInjective(ChunksOf(results))
    PROVE  /\ ChunksOf(Order(results)) \in [1 .. Len(results) -> C]
           /\ IsInjective(ChunksOf(Order(results)))
<1>. DEFINE n == Len(results)
            ordered == Order(results)
<1>1. /\ n \in Nat /\ DOMAIN results = 1 .. n
      /\ \A i \in 1 .. n : results[i] \in [chunk : C, score : Nat]
      /\ results \in [1 .. n -> [chunk : C, score : Nat]]
  BY SeqIs, Zenon
<1>2. [chunk : C, score : Nat] \subseteq Scored
  BY DEF Scored
<1>3. results \in [1 .. n -> Scored]
  BY <1>1, <1>2
<1>4. Distinct(results)
  BY <1>1 DEF Distinct, IsInjective, ChunksOf
<1>5. CASE ~ AllScored(results)
  <2>1. ordered = results
    BY <1>5 DEF Order
  <2>2. ChunksOf(results) \in [1 .. n -> C]
    BY <1>1 DEF ChunksOf
  <2>. QED BY <2>1, <2>2
<1>6. CASE AllScored(results)
  <2>1. ordered = StableRank(results)
    BY <1>6 DEF Order
  <2>. HIDE DEF ordered, n
  <2>2. /\ ordered \in [1 .. n -> Scored]
        /\ \A l, m \in 1 .. n : l < m => Before(ordered[l], ordered[m])
        /\ \A m \in 1 .. n : \E i \in 1 .. n : ordered[m] = results[i]
    BY <1>1, <1>3, <1>4, <2>1, RankedResults
  <2>3. PICK order \in [1 .. n -> 1 .. n] :
            /\ StableRank(results) = [m \in 1 .. n |-> results[order[m]]]
            /\ \A i \in 1 .. n : \E m \in 1 .. n : order[m] = i
            /\ \A l, m \in 1 .. n : l < m =>
                   /\ order[l] # order[m]
                   /\ \/ Before(results[order[l]], results[order[m]])
                      \/ /\ order[l] < order[m]
                         /\ ~ Before(results[order[m]], results[order[l]])
    BY <1>1, <1>3, RankedOrder, Zenon
  <2>4. \A m \in 1 .. n : order[m] \in 1 .. n /\ ordered[m] = results[order[m]]
    BY <2>1, <2>3
  <2>5. \A l, m \in 1 .. n : order[l] = order[m] => l = m
    <3>1. \A l, m \in 1 .. n : l = m \/ l < m \/ m < l
      BY <1>1
    <3>2. \A l, m \in 1 .. n : l < m => order[l] # order[m]
      BY <2>3
    <3>. QED BY <3>1, <3>2
  <2>6. DOMAIN ordered = 1 .. n
    BY <2>2
  <2>7. ChunksOf(ordered) \in [1 .. n -> C]
    BY <1>1, <2>4, <2>6 DEF ChunksOf
  <2>8. IsInjective(ChunksOf(ordered))
    <3>. SUFFICES ASSUME NEW l \in 1 .. n, NEW m \in 1 .. n, ordered[l].chunk = ordered[m].chunk
                  PROVE  l = m
      BY <2>6 DEF IsInjective, ChunksOf
    <3>1. results[order[l]].chunk = results[order[m]].chunk
      BY <2>4
    <3>2. order[l] = order[m]
      BY <1>1, <1>4, <2>4, <3>1 DEF Distinct
    <3>. QED BY <2>5, <3>2
  <2>. QED BY <2>7, <2>8 DEF ordered, n
<1>. QED BY <1>5, <1>6

\* A finite set as a sequence.
LEMMA SeqOfSet ==
    ASSUME NEW S, IsFiniteSet(S)
    PROVE  /\ Cardinality(S) \in Nat /\ SetToSeq(S) \in [1 .. Cardinality(S) -> S]
           /\ \A i, j \in 1 .. Cardinality(S) : SetToSeq(S)[i] = SetToSeq(S)[j] => i = j
           /\ \A x \in S : \E i \in 1 .. Cardinality(S) : SetToSeq(S)[i] = x
<1>. DEFINE n == Cardinality(S)
<1>1. n \in Nat /\ ExistsBijection(1 .. n, S)
  BY FS_CardinalityType
<1>2. PICK f : f \in Bijection(1 .. n, S)
  BY <1>1, Fun_ExistsBij
<1>3. f \in [1 .. n -> S] /\ \A a, b \in 1 .. n : f[a] = f[b] => a = b
  <2>. HIDE DEF n
  <2>. QED BY <1>2, Fun_BijectionProperties
<1>4. f \in [1 .. n -> S] /\ IsInjective(f)
  BY <1>3 DEF IsInjective
<1>5. SetToSeq(S) \in [1 .. n -> S] /\ IsInjective(SetToSeq(S))
  BY <1>4 DEF SetToSeq
<1>. DEFINE g == SetToSeq(S)
<1>. HIDE DEF g, n
<1>6. \A a, b \in 1 .. n : g[a] = g[b] => a = b
  BY <1>5 DEF g, IsInjective
<1>7. g \in Injection(1 .. n, S)
  BY <1>5, <1>6, Fun_IsInj DEF g
<1>8. Cardinality(1 .. n) = Cardinality(S)
  BY <1>1, FS_Interval DEF n
<1>. DEFINE N == 1 .. n
<1>9. g \in Injection(N, S) /\ Cardinality(N) = Cardinality(S)
  BY <1>7, <1>8
<1>10. \A x \in S : \E i \in N : g[i] = x
  <2>. HIDE DEF N
  <2>1. g \in Surjection(N, S)
    BY <1>9, FS_Injection
  <2>. QED BY <2>1, Fun_SurjectionProperties
<1>. QED BY <1>1, <1>5, <1>6, <1>10 DEF g, n

\* Where a number divides another, nothing is lost.
LEMMA DividesEvenly ==
    ASSUME NEW a \in Nat, NEW d \in Nat \ {0}, a % d = 0
    PROVE  (a \div d) \in Nat /\ (a \div d) * d = a
<1>1. a = d * (a \div d) + (a % d) /\ (a \div d) \in Nat
  OBVIOUS
<1>2. \A q \in Nat : d * q + 0 = q * d
  OBVIOUS
<1>. QED BY <1>1, <1>2

\* A source's share of a score: the better the rank, the more of it.
LEMMA Shares ==
    ASSUME NEW S, NEW ranking \in SeqUpTo(S, CandidateK), NEW c
    PROVE  /\ Share(c, ranking) \in Nat
           /\ c \notin ToSet(ranking) => Share(c, ranking) = 0
           /\ c \in ToSet(ranking) =>
                  /\ RankOf(c, ranking) \in 1 .. CandidateK
                  /\ Share(c, ranking) * (RrfK + RankOf(c, ranking)) = ScoreUnit
<1>. DEFINE rank == RankOf(c, ranking)
<1>1. /\ RrfK \in Nat \ {0} /\ CandidateK \in Nat
      /\ ScoreUnit \in Nat /\ \A i \in 1 .. CandidateK : ScoreUnit % (RrfK + i) = 0
  BY RankingAssumption
<1>2. Len(ranking) \in Nat /\ DOMAIN ranking = 1 .. Len(ranking) /\ Len(ranking) <= CandidateK
  BY <1>1, UpTo, SeqIs
<1>3. CASE c \notin ToSet(ranking)
  BY <1>1, <1>3 DEF Share
<1>4. CASE c \in ToSet(ranking)
  <2>1. rank \in DOMAIN ranking
    BY <1>4 DEF RankOf, ToSet
  <2>. HIDE DEF rank
  <2>2. rank \in 1 .. CandidateK /\ RrfK + rank \in Nat \ {0}
    BY <1>1, <1>2, <2>1
  <2>3. ScoreUnit % (RrfK + rank) = 0
    BY <1>1, <2>2
  <2>4. (ScoreUnit \div (RrfK + rank)) \in Nat /\ (ScoreUnit \div (RrfK + rank)) * (RrfK + rank) = ScoreUnit
    BY <1>1, <2>2, <2>3, DividesEvenly
  <2>5. Share(c, ranking) = ScoreUnit \div (RrfK + rank)
    BY <1>4 DEF Share, rank
  <2>. QED BY <1>4, <2>2, <2>4, <2>5 DEF rank
<1>. QED BY <1>3, <1>4

\* The fused ranking holds each chunk that was found once, best first.
LEMMA FusedIs ==
    ASSUME documentOf \in Seq(Nat),
           NEW rankings \in [Sources -> SeqUpTo(Chunks, CandidateK)]
    PROVE  LET fused == Fused(rankings) IN
           /\ fused \in Seq(Result)
           /\ IsInjective(ChunksOf(fused))
           /\ \A i, j \in DOMAIN fused : i < j => Before(fused[i], fused[j])
           /\ \A i \in DOMAIN fused : fused[i].score = FusedScore(fused[i].chunk, rankings)
<1>. DEFINE found == UNION {ToSet(rankings[s]) : s \in Sources}
            scored == [c \in found |-> [chunk |-> c, score |-> FusedScore(c, rankings)]]
            T == {[chunk |-> c, score |-> FusedScore(c, rankings)] : c \in found}
            n == Cardinality(T)
            seq == SetToSeq(T)
            fused == Fused(rankings)
<1>1. IsFiniteSet(Sources)
  BY RankingAssumption
<1>2. IsFiniteSet(Chunks) /\ Chunks \in SUBSET Nat
  <2>1. Len(documentOf) \in Nat /\ Chunks = 1 .. Len(documentOf)
    BY SeqIs DEF Chunks
  <2>. QED BY <2>1, FS_Interval
<1>3. found \in SUBSET Chunks
  <2>. SUFFICES ASSUME NEW s \in Sources, NEW c \in ToSet(rankings[s]) PROVE c \in Chunks
    OBVIOUS
  <2>1. rankings[s] \in Seq(Chunks)
    BY UpTo, RankingAssumption
  <2>2. \A i \in DOMAIN rankings[s] : rankings[s][i] \in Chunks
    BY <2>1, SeqIs
  <2>. QED BY <2>2 DEF ToSet
<1>4. ASSUME NEW c PROVE FusedScore(c, rankings) \in Nat
  <2>. DEFINE f == [s \in Sources |-> Share(c, rankings[s])]
  <2>1. DOMAIN f = Sources /\ \A s \in Sources : f[s] \in Nat
    BY Shares
  <2>2. FusedScore(c, rankings) = SumFunctionOnSet(f, Sources)
    BY <2>1 DEF FusedScore, SumFunction
  <2>. HIDE DEF f
  <2>. QED BY <1>1, <2>1, <2>2, SumIsNat
<1>5. IsFiniteSet(T)
  <2>1. IsFiniteSet(found)
    <3>. HIDE DEF found
    <3>. QED BY <1>2, <1>3, FS_Subset
  <2>2. scored \in [found -> T] /\ \A x \in T : \E c \in found : scored[c] = x
    OBVIOUS
  <2>. HIDE DEF found, scored, T
  <2>3. scored \in Surjection(found, T)
    BY <2>2, Fun_IsSurj
  <2>. QED BY <2>1, <2>3, FS_Surjection
<1>6. /\ T \subseteq Result
      /\ \A x \in T : x.score = FusedScore(x.chunk, rankings)
      /\ \A x, y \in T : x.chunk = y.chunk => x = y
  <2>. HIDE DEF found
  <2>. QED BY <1>3, <1>4 DEF Result
<1>7. Result \subseteq Scored
  BY <1>2 DEF Result, Scored
<1>. HIDE DEF T
<1>8. /\ n \in Nat /\ seq \in [1 .. n -> T]
      /\ \A i, j \in 1 .. n : seq[i] = seq[j] => i = j
  BY <1>5, SeqOfSet
<1>9. fused = StableRank(seq)
  BY DEF Fused, T
<1>. HIDE DEF n, seq, fused
<1>10. seq \in [1 .. n -> Scored] /\ Distinct(seq)
  <2>1. \A i \in 1 .. n : seq[i] \in T /\ seq[i] \in Scored
    BY <1>6, <1>7, <1>8
  <2>2. DOMAIN seq = 1 .. n
    BY <1>8
  <2>. QED BY <1>6, <1>8, <2>1, <2>2 DEF Distinct
<1>11. /\ fused \in [1 .. n -> Scored]
       /\ \A l, m \in 1 .. n : l < m => Before(fused[l], fused[m])
       /\ \A m \in 1 .. n : \E i \in 1 .. n : fused[m] = seq[i]
  BY <1>8, <1>9, <1>10, RankedResults
<1>12. DOMAIN fused = 1 .. n /\ \A m \in 1 .. n : fused[m] \in T
  BY <1>8, <1>11
<1>13. fused \in Seq(Result)
  <2>1. fused \in [1 .. n -> Result]
    BY <1>6, <1>11, <1>12
  <2>2. \A s \in [1 .. n -> Result] : s \in Seq(Result)
    BY <1>8
  <2>. QED BY <2>1, <2>2
<1>14. IsInjective(ChunksOf(fused))
  <2>. SUFFICES ASSUME NEW l \in 1 .. n, NEW m \in 1 .. n, fused[l].chunk = fused[m].chunk, l # m
                PROVE  FALSE
    BY <1>12 DEF IsInjective, ChunksOf
  <2>1. fused[l] = fused[m]
    BY <1>6, <1>12
  <2>2. Before(fused[l], fused[m]) \/ Before(fused[m], fused[l])
    <3>1. l < m \/ m < l
      BY <1>8
    <3>. QED BY <1>11, <3>1
  <2>3. fused[l] \in Scored
    BY <1>11
  <2>. QED BY <2>1, <2>2, <2>3, BeforeIsOrder
<1>. QED BY <1>6, <1>11, <1>12, <1>13, <1>14 DEF fused

\* Every step of the search leaves to the next one what it promises.
LEMMA SearchHybridKeeps ==
    ASSUME QueryIInv, SearchHybrid, UNCHANGED documentOf, Indexed
    PROVE  QueryIInv'
<1>1. CandidateK \in Nat /\ MaxK \in Nat /\ Chunks' = Chunks /\ Result' = Result
  BY CutoffBounds DEF Chunks, Result
<1>2. CASE Fails
  <2>1. phase' = "failed" /\ UNCHANGED <<documentOf, answers, pool, ranked, level, grades, metrics>>
    BY <1>2 DEF Fails
  <2>. QED BY <1>1, <2>1 DEF QueryIInv, QueryTypeOK, HandedOn, Indexed
<1>3. ASSUME NEW rankings \in [Sources -> SeqUpTo(Chunks, CandidateK + 1)],
             \A s \in Sources : ValidResults(rankings[s], CandidateK),
             phase' = "rank", answers' = rankings, pool' = Fused(rankings),
             UNCHANGED <<ranked, level, grades, metrics>>
      PROVE  QueryIInv'
  <2>1. rankings \in [Sources -> SeqUpTo(Chunks, CandidateK)]
    <3>1. \A s \in Sources : rankings[s] \in SeqUpTo(Chunks, CandidateK)
      BY <1>1, <1>3, UpTo DEF ValidResults
    <3>. QED BY <3>1
  <2>2. documentOf \in Seq(Nat)
    BY DEF QueryIInv, QueryTypeOK
  <2>3. Fused(rankings) \in Seq(Result)
    BY <2>1, <2>2, FusedIs
  <2>4. Fused(rankings)' = Fused(rankings)
    OBVIOUS
  <2>5. \A s \in Sources : IsInjective(rankings[s])
    BY <1>3 DEF ValidResults
  <2>6. QueryTypeOK'
    BY <1>1, <1>3, <2>1, <2>3 DEF QueryIInv, QueryTypeOK
  <2>7. phase = "search"
    BY DEF SearchHybrid
  <2>8. HandedOn'
    BY <1>3, <2>4, <2>5, <2>7 DEF QueryIInv, HandedOn, Indexed
  <2>. QED BY <2>6, <2>8 DEF QueryIInv
<1>. QED BY <1>2, <1>3 DEF SearchHybrid

\* So does a search of any other retriever.
LEMMA SearchKeeps ==
    ASSUME QueryIInv, Search, UNCHANGED documentOf, Indexed
    PROVE  QueryIInv'
<1>1. MaxK + 1 \in Nat /\ Chunks' = Chunks /\ Result' = Result
  BY CutoffBounds DEF Chunks, Result
<1>2. pool' \in Seq(Result)
  <2>. DEFINE R == [chunk : Chunks, score : {Unscored} \cup 1 .. MaxScore]
  <2>1. R \subseteq Result
    BY RankingAssumption DEF Result
  <2>2. pool' \in SeqUpTo(R, MaxK + 1)
    BY DEF Search
  <2>. HIDE DEF R
  <2>3. pool' \in Seq(R)
    BY <1>1, <2>2, UpTo
  <2>. QED BY <2>1, <2>3
<1>3. /\ phase = "search" /\ phase' = "rank" /\ UNCHANGED <<answers, ranked, level, grades, metrics>>
  BY DEF Search
<1>4. QueryTypeOK'
  BY <1>1, <1>2, <1>3 DEF QueryIInv, QueryTypeOK
<1>5. HandedOn'
  <2>1. \A s \in Sources : IsInjective(Silent[s])
    BY DEF Silent, IsInjective
  <2>2. answers' = Silent /\ Silent' = Silent
    BY <1>3 DEF QueryIInv, HandedOn, Silent
  <2>. QED BY <1>3, <2>1, <2>2 DEF QueryIInv, HandedOn, Indexed
<1>. QED BY <1>4, <1>5 DEF QueryIInv

\* What is returned is short and names no chunk twice, or is refused.
LEMMA RankKeeps ==
    ASSUME QueryIInv, Rank, UNCHANGED documentOf, Indexed
    PROVE  QueryIInv'
<1>1. MaxK \in Nat /\ Chunks' = Chunks /\ Result' = Result /\ Returned' = Returned
  <2>1. UNCHANGED <<answers, pool>>
    BY DEF Rank, Fails
  <2>. QED BY <2>1, CutoffBounds DEF Chunks, Result, Returned, Silent
<1>2. CASE Fails
  <2>1. phase' = "failed" /\ UNCHANGED <<documentOf, answers, pool, ranked, level, grades, metrics>>
    BY <1>2 DEF Fails
  <2>. QED BY <1>1, <2>1 DEF QueryIInv, QueryTypeOK, HandedOn, Indexed
<1>3. CASE ~ Fails
  <2>1. /\ ValidResults(ChunksOf(Returned), MaxK)
        /\ phase = "rank" /\ phase' = "evaluate" /\ ranked' = ChunksOf(Order(Returned))
        /\ UNCHANGED <<answers, pool, level, grades, metrics>>
    BY <1>3 DEF Rank
  <2>2. Returned \in Seq(Result)
    <3>1. pool \in Seq(Result)
      BY DEF QueryIInv, QueryTypeOK
    <3>2. FirstN(pool, MaxK) \in Seq(Result)
      BY <1>1, <3>1, FirstNIs
    <3>. QED BY <3>1, <3>2 DEF Returned
  <2>3. Chunks \in SUBSET Nat
    <3>1. documentOf \in Seq(Nat)
      BY DEF QueryIInv, QueryTypeOK
    <3>2. Len(documentOf) \in Nat /\ Chunks = 1 .. Len(documentOf)
      BY <3>1, SeqIs DEF Chunks
    <3>. QED BY <3>2
  <2>4. Len(Returned) \in Nat /\ Len(Returned) <= MaxK
    <3>1. Len(Returned) \in Nat /\ DOMAIN Returned = 1 .. Len(Returned)
      BY <2>2, SeqIs
    <3>2. ChunksOf(Returned) = [i \in 1 .. Len(Returned) |-> Returned[i].chunk]
      BY <3>1 DEF ChunksOf
    <3>3. Len(ChunksOf(Returned)) = Len(Returned)
      BY <3>1, <3>2
    <3>. QED BY <2>1, <3>1, <3>3 DEF ValidResults
  <2>5. ranked' \in [1 .. Len(Returned) -> Chunks] /\ IsInjective(ranked')
    <3>1. Returned \in Seq([chunk : Chunks, score : Nat])
      BY <2>2 DEF Result
    <3>. QED BY <2>1, <2>3, <3>1, OrderKeeps DEF ValidResults
  <2>6. ranked' \in SeqUpTo(Chunks, MaxK)
    BY <1>1, <2>4, <2>5 DEF SeqUpTo
  <2>7. QueryTypeOK'
    BY <1>1, <2>1, <2>5, <2>6 DEF QueryIInv, QueryTypeOK
  <2>8. HandedOn'
    <3>1. ranked' = ChunksOf(Order(Returned'))
      BY <1>1, <2>1
    <3>2. ValidResults(ChunksOf(Returned'), MaxK)
      BY <1>1, <2>1
    <3>. QED BY <2>1, <3>1, <3>2 DEF QueryIInv, HandedOn, Indexed
  <2>. QED BY <2>7, <2>8 DEF QueryIInv
<1>. QED BY <1>2, <1>3

\* The evaluation leaves grades and the metrics computed with them.
LEMMA EvaluateKeeps ==
    ASSUME QueryIInv, Evaluate, UNCHANGED documentOf, Indexed
    PROVE  QueryIInv'
<1>1. PICK g \in Relevances :
          grades' = g /\ metrics' = [k \in Cutoffs |-> Metrics(IdsAt(ranked, k), g, k)]
  BY DEF Evaluate
<1>2. phase = "evaluate" /\ phase' = "done" /\ UNCHANGED <<documentOf, answers, pool, ranked, level>>
  BY DEF Evaluate
<1>3. /\ Chunks' = Chunks /\ Result' = Result /\ Returned' = Returned
      /\ Relevances' = Relevances
  BY <1>2 DEF Chunks, Result, Returned, Silent, Relevances, DocumentIds
<1>4. QueryTypeOK'
  BY <1>1, <1>2, <1>3 DEF QueryIInv, QueryTypeOK
<1>5. metrics' = [k \in Cutoffs |-> Metrics(IdsAt(ranked, k)', grades', k)]
  <2>1. \A k \in Cutoffs : IdsAt(ranked, k)' = IdsAt(ranked, k)
    BY <1>2 DEF IdsAt, DocumentsOf
  <2>. QED BY <1>1, <2>1
<1>6. HandedOn'
  BY <1>2, <1>3, <1>5 DEF QueryIInv, HandedOn, Indexed
<1>. QED BY <1>4, <1>6 DEF QueryIInv

\* The empty ranking is a ranking.
LEMMA NothingYet ==
    ASSUME NEW S, NEW n \in Nat
    PROVE  <<>> \in SeqUpTo(S, n) /\ IsInjective(<<>>)
<1>. DEFINE none == <<>>
<1>1. none \in Seq(S) /\ Len(none) <= n /\ DOMAIN none = {}
  OBVIOUS
<1>. HIDE DEF none
<1>2. \A a, b \in DOMAIN none : none[a] = none[b] => a = b
  BY <1>1
<1>3. IsInjective(none)
  BY <1>2 DEF IsInjective
<1>4. none \in SeqUpTo(S, n)
  BY <1>1, UpTo
<1>. QED BY <1>3, <1>4 DEF none

\* While nothing is indexed, the query has no state.
LEMMA SearchingIsFine ==
    ASSUME documentOf \in Seq(Nat), level \in {"document", "chunk"}, phase = "search",
           answers = Silent, pool = <<>>, ranked = <<>>
    PROVE  QueryIInv
<1>1. CandidateK \in Nat /\ MaxK \in Nat
  BY CutoffBounds
<1>2. Silent \in [Sources -> SeqUpTo(Chunks, CandidateK)]
  BY <1>1, NothingYet DEF Silent
<1>3. <<>> \in Seq(Result)
  OBVIOUS
<1>4. QueryTypeOK
  BY <1>1, <1>2, <1>3, NothingYet DEF QueryTypeOK
<1>. QED BY <1>4 DEF QueryIInv, HandedOn

\* Before anything is indexed or searched, nothing was handed on.
LEMMA QueryInitHolds == ASSUME QueryInit PROVE QueryIInv
BY SearchingIsFine DEF QueryInit

\* Indexing names the chunks, and changes nothing of a query that has not begun.
LEMMA IndexKeeps ==
    ASSUME QueryIInv, TypeOK, Index
    PROVE  QueryIInv'
<1>1. /\ phase = "search" /\ answers = Silent /\ pool = <<>> /\ ranked = <<>>
      /\ level \in {"document", "chunk"}
  BY DEF QueryIInv, QueryTypeOK, HandedOn, Index, Indexed
<1>2. UNCHANGED <<phase, answers, pool, ranked, level>> /\ Silent' = Silent
  BY DEF Index, Silent
<1>3. documentOf' \in Seq(Nat)
  <2>1. PICK f \in Numberings : documentOf' = [id \in DOMAIN chunks |-> chunks[f[id]].doc]
    BY DEF Index
  <2>2. /\ Len(chunks) \in Nat /\ DOMAIN chunks = 1 .. Len(chunks)
        /\ \A i \in DOMAIN chunks : chunks[i] \in Chunk
    BY SeqIs DEF TypeOK
  <2>3. \A i \in DOMAIN chunks : f[i] \in DOMAIN chunks
    BY DEF Numberings
  <2>4. \A c \in Chunk : c.doc \in Nat
    BY ChunkerAssumption DEF Chunk
  <2>5. documentOf' \in [1 .. Len(chunks) -> Nat]
    BY <2>1, <2>2, <2>3, <2>4
  <2>. QED BY <2>2, <2>5
<1>. QED
  <2>1. CandidateK \in Nat /\ MaxK \in Nat
    BY CutoffBounds
  <2>2. Silent \in [Sources -> SeqUpTo(Chunks', CandidateK)]
    BY <2>1, NothingYet DEF Silent
  <2>3. <<>> \in Seq(Result')
    OBVIOUS
  <2>4. QueryTypeOK'
    BY <1>1, <1>2, <1>3, <2>1, <2>2, <2>3, NothingYet DEF QueryTypeOK
  <2>. QED BY <1>1, <1>2, <2>4 DEF QueryIInv, HandedOn

\* What is said of a query's state holds as long as nothing of it changes.
LEMMA NothingChanges == ASSUME QueryIInv, UNCHANGED queryVars PROVE QueryIInv'
<1>1. UNCHANGED <<documentOf, phase, answers, pool, ranked, level, grades, metrics>>
  BY DEF queryVars
<1>2. UNCHANGED <<Chunks, Result, Returned, Relevances>>
  BY <1>1 DEF Chunks, Result, Returned, Silent, Relevances, DocumentIds
<1>3. \A k \in Cutoffs : IdsAt(ranked, k)' = IdsAt(ranked, k)
  BY <1>1 DEF IdsAt, DocumentsOf
<1>4. QueryTypeOK'
  BY <1>1, <1>2 DEF QueryIInv, QueryTypeOK
<1>5. HandedOn'
  BY <1>1, <1>2, <1>3 DEF QueryIInv, HandedOn, Silent
<1>. QED BY <1>4, <1>5 DEF QueryIInv

\* The invariant of a query holds over every corpus and every configuration.
THEOREM QueryInvariance == PipelineSpec => []QueryIInv
<1>1. PipelineInit => QueryIInv
  BY QueryInitHolds DEF PipelineInit
<1>2. IInv /\ QueryIInv /\ [PipelineNext]_pipelineVars => QueryIInv'
  <2>. SUFFICES ASSUME IInv, QueryIInv, [PipelineNext]_pipelineVars PROVE QueryIInv'
    OBVIOUS
  <2>1. CASE UNCHANGED queryVars
    BY <2>1, NothingChanges
  <2>2. CASE Index
    BY <2>2, IndexKeeps DEF IInv
  <2>3. CASE Query
    <3>1. UNCHANGED documentOf /\ Indexed /\ QueryNext
      BY <2>3 DEF Query, QueryNext
    <3>2. CASE SearchHybrid
      BY <3>1, <3>2, SearchHybridKeeps
    <3>3. CASE Search
      BY <3>1, <3>3, SearchKeeps
    <3>4. CASE SearchFails
      <4>1. phase' = "failed" /\ UNCHANGED <<documentOf, answers, pool, ranked, level, grades, metrics>>
        BY <3>1, <3>4 DEF SearchFails, Fails
      <4>2. UNCHANGED <<Chunks, Result>>
        BY <4>1 DEF Chunks, Result
      <4>. QED BY <3>1, <4>1, <4>2 DEF QueryIInv, QueryTypeOK, HandedOn, Indexed
    <3>5. CASE Rank
      BY <3>1, <3>5, RankKeeps
    <3>6. CASE Evaluate
      BY <3>1, <3>6, EvaluateKeeps
    <3>7. CASE Answered
      BY <3>1, <3>7, NothingChanges DEF Answered
    <3>. QED BY <3>1, <3>2, <3>3, <3>4, <3>5, <3>6, <3>7 DEF QueryNext
  <2>4. UNCHANGED pipelineVars => UNCHANGED queryVars
    BY DEF pipelineVars
  <2>. QED BY <2>1, <2>2, <2>3, <2>4 DEF PipelineNext, CutNext, TooManyChunks
<1>. QED BY <1>1, <1>2, PipelineCuts, Invariance, PTL DEF PipelineSpec

----------------------------------------------------------------------------
(* What a ranking owes to the retriever's order, to the cutoffs and to the *)
(* sources' agreement.                                                     *)

\* Cutting a ranking that is cut, and what was cut of the results is cut of their chunks.
LEMMA CutsAgree ==
    ASSUME NEW S, NEW seq \in Seq(S), NEW j \in Nat, NEW k \in Nat, j <= k
    PROVE  /\ FirstN(FirstN(seq, k), j) = FirstN(seq, j)
           /\ ChunksOf(FirstN(seq, j)) = FirstN(ChunksOf(seq), j)
           /\ Len(seq) <= j => FirstN(seq, j) = seq
<1>. DEFINE n == Len(seq)
            m == IF j < n THEN j ELSE n
            l == IF k < n THEN k ELSE n
            long == FirstN(seq, k)
<1>1. n \in Nat /\ DOMAIN seq = 1 .. n /\ m \in 0 .. n /\ l \in 0 .. n /\ m <= l
  BY SeqIs
<1>2. /\ FirstN(seq, j) = [i \in 1 .. m |-> seq[i]] /\ Len(FirstN(seq, j)) = m
      /\ long = [i \in 1 .. l |-> seq[i]] /\ Len(long) = l /\ long \in Seq(S)
  BY FirstNIs
<1>3. FirstN(long, j) = [i \in 1 .. (IF j < l THEN j ELSE l) |-> long[i]]
  <2>1. long \in Seq(S) /\ Len(long) = l
    BY <1>2
  <2>2. FirstN(long, j) = [i \in 1 .. (IF j < Len(long) THEN j ELSE Len(long)) |-> long[i]]
    <3>. HIDE DEF long
    <3>. QED BY <2>1, FirstNIs
  <2>. HIDE DEF l, long
  <2>. QED BY <2>1, <2>2
<1>4. (IF j < l THEN j ELSE l) = m
  BY <1>1
<1>5. FirstN(long, j) = FirstN(seq, j)
  <2>. HIDE DEF l, m, n, long
  <2>1. \A i \in 1 .. m : long[i] = seq[i]
    BY <1>1, <1>2
  <2>2. [i \in 1 .. m |-> long[i]] = [i \in 1 .. m |-> seq[i]]
    BY ONLY <2>1
  <2>3. FirstN(long, j) = [i \in 1 .. m |-> long[i]]
    BY ONLY <1>3, <1>4
  <2>. QED BY ONLY <1>2, <2>2, <2>3
<1>6. ChunksOf(FirstN(seq, j)) = FirstN(ChunksOf(seq), j)
  <2>. DEFINE chunk == [i \in 1 .. n |-> seq[i].chunk]
  <2>1. ChunksOf(seq) = chunk
    BY <1>1 DEF ChunksOf
  <2>2. chunk \in Seq({seq[i].chunk : i \in 1 .. n}) /\ Len(chunk) = n
    <3>1. chunk \in [1 .. n -> {seq[i].chunk : i \in 1 .. n}]
      OBVIOUS
    <3>. QED BY <1>1, <3>1
  <2>3. FirstN(chunk, j) = [i \in 1 .. m |-> chunk[i]]
    <3>. HIDE DEF chunk
    <3>. QED BY <2>2, FirstNIs
  <2>4. ChunksOf(FirstN(seq, j)) = [i \in 1 .. m |-> seq[i].chunk]
    <3>. DEFINE short == [i \in 1 .. m |-> seq[i]]
    <3>1. DOMAIN short = 1 .. m /\ \A i \in 1 .. m : short[i] = seq[i]
      OBVIOUS
    <3>2. FirstN(seq, j) = short
      BY <1>2
    <3>. HIDE DEF short
    <3>. QED BY <3>1, <3>2 DEF ChunksOf
  <2>5. \A i \in 1 .. m : chunk[i] = seq[i].chunk
    BY <1>1
  <2>. HIDE DEF chunk
  <2>. QED BY <2>1, <2>3, <2>4, <2>5
<1>7. ASSUME n <= j PROVE FirstN(seq, j) = seq
  <2>1. m = n
    <3>1. n \in Nat /\ n <= j
      BY <1>1, <1>7
    <3>. HIDE DEF n
    <3>. QED BY <3>1
  <2>. HIDE DEF m
  <2>. QED BY <1>1, <1>2, <2>1
<1>. QED BY <1>5, <1>6, <1>7

\* What a retriever returned, once it is accepted, are the first results of its pool.
LEMMA ReturnedIs ==
    ASSUME QueryIInv, phase \in {"evaluate", "done"}
    PROVE  /\ pool \in Seq([chunk : Chunks, score : Nat]) /\ Chunks \in SUBSET Nat /\ MaxK \in Nat \ {0}
           /\ IsInjective(ChunksOf(FirstN(pool, MaxK)))
           /\ ranked = ChunksOf(Order(FirstN(pool, MaxK)))
<1>1. MaxK \in Nat \ {0}
  BY CutoffBounds
<1>2. pool \in Seq([chunk : Chunks, score : Nat])
  BY DEF QueryIInv, QueryTypeOK, Result
<1>3. ValidResults(ChunksOf(Returned), MaxK) /\ ranked = ChunksOf(Order(Returned))
  BY DEF QueryIInv, HandedOn
<1>4. Chunks \in SUBSET Nat
  <2>1. documentOf \in Seq(Nat)
    BY DEF QueryIInv, QueryTypeOK
  <2>2. Len(documentOf) \in Nat /\ Chunks = 1 .. Len(documentOf)
    BY <2>1, SeqIs DEF Chunks
  <2>. QED BY <2>2
<1>5. Returned = FirstN(pool, MaxK)
  <2>1. CASE answers = Silent
    <3>1. Returned = pool
      BY <2>1 DEF Returned
    <3>2. Len(pool) \in Nat /\ DOMAIN pool = 1 .. Len(pool)
      BY <1>2, SeqIs
    <3>3. Len(ChunksOf(pool)) = Len(pool)
      <4>1. ChunksOf(pool) = [i \in 1 .. Len(pool) |-> pool[i].chunk]
        BY <3>2 DEF ChunksOf
      <4>. QED BY <3>2, <4>1
    <3>4. Len(pool) <= MaxK
      BY <1>3, <3>1, <3>3 DEF ValidResults
    <3>. QED BY <1>1, <1>2, <3>1, <3>4, CutsAgree
  <2>2. CASE answers # Silent
    BY <2>2 DEF Returned
  <2>. QED BY <2>1, <2>2
<1>. QED BY <1>1, <1>2, <1>3, <1>4, <1>5 DEF ValidResults

\* Of results that name no chunk twice, nor do the first.
LEMMA FirstAreDistinct ==
    ASSUME NEW C \in SUBSET Nat, NEW results \in Seq([chunk : C, score : Nat]),
           NEW j \in Nat, NEW k \in Nat, j <= k, IsInjective(ChunksOf(FirstN(results, k)))
    PROVE  LET m == IF j < Len(results) THEN j ELSE Len(results) IN
           /\ m \in Nat /\ FirstN(results, j) \in [1 .. m -> Scored] /\ Distinct(FirstN(results, j))
           /\ \A i \in 1 .. m : i \in DOMAIN results /\ FirstN(results, j)[i] = results[i]
<1>. DEFINE n == Len(results)
            m == IF j < n THEN j ELSE n
            l == IF k < n THEN k ELSE n
            first == FirstN(results, j)
            long == FirstN(results, k)
<1>1. n \in Nat /\ DOMAIN results = 1 .. n /\ m \in 0 .. n /\ l \in 0 .. n /\ m <= l
  BY SeqIs, Zenon, SMT
<1>2. /\ first = [i \in 1 .. m |-> results[i]]
      /\ first \in [1 .. m -> [chunk : C, score : Nat]]
      /\ long = [i \in 1 .. l |-> results[i]]
  <2>. DEFINE R == [chunk : C, score : Nat]
  <2>1. results \in Seq(R)
    OBVIOUS
  <2>. HIDE DEF R
  <2>2. /\ first = [i \in 1 .. m |-> results[i]] /\ first \in [1 .. m -> R]
        /\ long = [i \in 1 .. l |-> results[i]]
    BY <2>1, FirstNIs
  <2>. QED BY <2>2 DEF R
<1>3. [chunk : C, score : Nat] \subseteq Scored
  BY DEF Scored
<1>. HIDE DEF m, l, n, first, long
<1>4. first \in [1 .. m -> Scored] /\ DOMAIN first = 1 .. m
  BY <1>2, <1>3
<1>5. \A a, b \in 1 .. l : results[a].chunk = results[b].chunk => a = b
  BY <1>2 DEF IsInjective, ChunksOf, long
<1>6. \A i \in 1 .. m : i \in 1 .. l /\ i \in DOMAIN results /\ first[i] = results[i]
  BY <1>1, <1>2
<1>7. Distinct(first)
  BY <1>4, <1>5, <1>6 DEF Distinct
<1>. QED BY <1>1, <1>4, <1>6, <1>7 DEF m, n, first

\* What is evaluated depends on the results, not on their order: see ArrivalForgotten.
THEOREM ArrivalForgottenHolds == PipelineSpec => []ArrivalForgotten
<1>1. ASSUME QueryIInv PROVE ArrivalForgotten
  <2>. DEFINE results == FirstN(pool, MaxK)
  <2>. SUFFICES ASSUME phase = "evaluate", AllScored(pool),
                       NEW f \in [DOMAIN results -> DOMAIN results], IsInjective(f)
                PROVE  ChunksOf(StableRank([i \in DOMAIN results |-> results[f[i]]])) = ranked
    BY DEF ArrivalForgotten
  <2>1. /\ pool \in Seq([chunk : Chunks, score : Nat]) /\ Chunks \in SUBSET Nat /\ MaxK \in Nat \ {0}
        /\ IsInjective(ChunksOf(results)) /\ ranked = ChunksOf(Order(results))
    BY <1>1, ReturnedIs
  <2>. DEFINE m == IF MaxK < Len(pool) THEN MaxK ELSE Len(pool)
  <2>2. /\ m \in Nat /\ results \in [1 .. m -> Scored] /\ Distinct(results)
        /\ \A i \in 1 .. m : i \in DOMAIN pool /\ results[i] = pool[i]
    <3>1. MaxK \in Nat /\ MaxK <= MaxK
      BY <2>1
    <3>. QED BY <2>1, <3>1, FirstAreDistinct
  <2>. HIDE DEF m
  <2>. HIDE DEF results
  <2>3. DOMAIN results = 1 .. m
    BY <2>2
  <2>4. AllScored(results)
    BY <2>2, <2>3 DEF AllScored
  <2>5. StableRank([i \in 1 .. m |-> results[f[i]]]) = StableRank(results)
    <3>1. f \in [1 .. m -> 1 .. m]
      BY <2>3
    <3>. QED BY <2>2, <3>1, ArrivalIsForgotten
  <2>. QED BY <2>1, <2>3, <2>4, <2>5 DEF Order
<1>. QED BY <1>1, QueryInvariance, PTL

\* Results that come best first, or without scores, stay in their order.
LEMMA OrderIsKept ==
    ASSUME QueryIInv, phase \in {"evaluate", "done"}, BestFirst, NEW k \in Nat \ {0}, k <= MaxK
    PROVE  Order(FirstN(pool, k)) = FirstN(pool, k)
<1>. DEFINE results == FirstN(pool, k)
            m == IF k < Len(pool) THEN k ELSE Len(pool)
<1>1. /\ pool \in Seq([chunk : Chunks, score : Nat]) /\ Chunks \in SUBSET Nat /\ MaxK \in Nat \ {0}
      /\ IsInjective(ChunksOf(FirstN(pool, MaxK)))
  BY ReturnedIs
<1>2. /\ m \in Nat /\ results \in [1 .. m -> Scored] /\ Distinct(results)
      /\ \A i \in 1 .. m : i \in DOMAIN pool /\ results[i] = pool[i]
  BY <1>1, FirstAreDistinct
<1>3. Len(pool) \in Nat /\ DOMAIN pool = 1 .. Len(pool)
  BY <1>1, SeqIs
<1>4. m = 0 => Len(pool) = 0
  BY <1>3
<1>. HIDE DEF results, m
<1>5. DOMAIN results = 1 .. m
  BY <1>2
<1>6. CASE \A i, j \in DOMAIN pool : i < j => Before(pool[i], pool[j])
  <2>1. \A i, j \in 1 .. m : i < j => Before(results[i], results[j])
    BY <1>2, <1>6
  <2>2. StableRank(results) = results
    BY <1>2, <2>1, BestFirstKept
  <2>. QED BY <2>2 DEF Order, results
<1>7. CASE \A i \in DOMAIN pool : pool[i].score = Unscored
  <2>1. CASE m = 0
    <3>1. DOMAIN pool = {}
      BY <1>3, <1>4, <2>1
    <3>. QED BY <1>6, <3>1
  <2>2. CASE m # 0
    <3>1. 1 \in 1 .. m
      BY <1>2, <2>2
    <3>2. ~ AllScored(results)
      BY <1>2, <1>5, <1>7, <3>1 DEF AllScored
    <3>. QED BY <3>2 DEF Order, results
  <2>. QED BY <2>1, <2>2
<1>. QED BY <1>6, <1>7 DEF BestFirst

\* A larger cutoff changes no metric of a smaller one: see CutoffsIndependent.
THEOREM CutoffsIndependentHolds == PipelineSpec => []CutoffsIndependent
<1>1. ASSUME QueryIInv PROVE CutoffsIndependent
  <2>. SUFFICES ASSUME phase = "done", BestFirst, NEW k \in Cutoffs
                PROVE  metrics[k] = Metrics(IdsAt(ChunksOf(Order(FirstN(pool, k))), k), grades, k)
    BY DEF CutoffsIndependent
  <2>1. k \in Nat \ {0} /\ k <= MaxK
    BY CutoffBounds
  <2>2. /\ pool \in Seq([chunk : Chunks, score : Nat]) /\ MaxK \in Nat \ {0}
        /\ ranked = ChunksOf(Order(FirstN(pool, MaxK)))
    BY <1>1, ReturnedIs
  <2>3. Order(FirstN(pool, k)) = FirstN(pool, k) /\ Order(FirstN(pool, MaxK)) = FirstN(pool, MaxK)
    BY <1>1, <2>1, <2>2, OrderIsKept
  <2>. DEFINE long == FirstN(pool, MaxK)
              short == FirstN(pool, k)
  <2>4. long \in Seq([chunk : Chunks, score : Nat]) /\ short \in Seq([chunk : Chunks, score : Nat])
    BY <2>1, <2>2, FirstNIs
  <2>5. FirstN(long, k) = short /\ FirstN(short, k) = short
    BY <2>1, <2>2, CutsAgree
  <2>. HIDE DEF long, short
  <2>6. /\ ChunksOf(FirstN(long, k)) = FirstN(ChunksOf(long), k)
        /\ ChunksOf(FirstN(short, k)) = FirstN(ChunksOf(short), k)
    BY <2>1, <2>4, CutsAgree
  <2>7. FirstN(ranked, k) = FirstN(ChunksOf(short), k)
    BY <2>2, <2>3, <2>5, <2>6 DEF long
  <2>8. IdsAt(ranked, k) = IdsAt(ChunksOf(short), k)
    BY <2>7 DEF IdsAt
  <2>9. metrics[k] = Metrics(IdsAt(ranked, k), grades, k)
    BY <1>1 DEF QueryIInv, HandedOn
  <2>. QED BY <2>3, <2>8, <2>9 DEF short
<1>. QED BY <1>1, QueryInvariance, PTL

\* Of two factors of a number, the smaller goes with the larger.
LEMMA SmallerFactor ==
    ASSUME NEW p \in Nat, NEW q \in Nat, NEW a \in Nat, NEW b \in Nat, a < b,
           p * a = q * b, q # 0
    PROVE  q < p
<1>. SUFFICES ASSUME p <= q PROVE FALSE
  OBVIOUS
<1>1. p * a <= q * a
  <2>1. \A x, y, z \in Nat : x <= y => x * z <= y * z
    OBVIOUS
  <2>. QED BY <2>1
<1>2. PICK c \in Nat : b = a + c /\ c # 0
  <2>1. b - a \in Nat /\ b = a + (b - a) /\ b - a # 0
    OBVIOUS
  <2>. QED BY <2>1
<1>3. q * b = q * a + q * c
  BY <1>2
<1>4. q * c # 0 /\ q * c \in Nat
  BY <1>2
<1>5. q * a \in Nat /\ p * a \in Nat
  OBVIOUS
<1>. QED BY <1>1, <1>3, <1>4, <1>5

\* Fusion keeps what the sources agree on: see FusionKeepsAgreement.
THEOREM FusionKeepsAgreementHolds == PipelineSpec => []FusionKeepsAgreement
<1>1. ASSUME QueryIInv PROVE FusionKeepsAgreement
  <2>. SUFFICES ASSUME phase = "rank", NEW i \in DOMAIN pool, NEW j \in DOMAIN pool,
                       NEW t \in Sources, pool[j].chunk \in ToSet(answers[t]),
                       \A s \in Sources : pool[j].chunk \in ToSet(answers[s]) =>
                           /\ pool[i].chunk \in ToSet(answers[s])
                           /\ RankOf(pool[i].chunk, answers[s]) < RankOf(pool[j].chunk, answers[s])
                PROVE  i < j
    BY DEF FusionKeepsAgreement
  <2>. DEFINE c == pool[i].chunk
              d == pool[j].chunk
              f == [s \in Sources |-> Share(c, answers[s])]
              g == [s \in Sources |-> Share(d, answers[s])]
  <2>1. documentOf \in Seq(Nat) /\ answers \in [Sources -> SeqUpTo(Chunks, CandidateK)]
    BY <1>1 DEF QueryIInv, QueryTypeOK
  <2>2. pool = Fused(answers)
    <3>1. answers # Silent
      <4>. SUFFICES ASSUME answers = Silent PROVE FALSE
        OBVIOUS
      <4>1. ToSet(answers[t]) = {}
        BY DEF Silent, ToSet
      <4>. QED BY <4>1
    <3>. QED BY <1>1, <3>1 DEF QueryIInv, HandedOn
  <2>3. /\ pool \in Seq(Result)
        /\ \A a, b \in DOMAIN pool : a < b => Before(pool[a], pool[b])
        /\ \A a \in DOMAIN pool : pool[a].score = FusedScore(pool[a].chunk, answers)
    BY <2>1, <2>2, FusedIs
  <2>4. IsFiniteSet(Sources) /\ RrfK \in Nat \ {0} /\ ScoreUnit \in Nat \ {0}
    BY RankingAssumption
  <2>5. \A s \in Sources : answers[s] \in SeqUpTo(Chunks, CandidateK)
    BY <2>1
  <2>6. ASSUME NEW s \in Sources, d \in ToSet(answers[s])
        PROVE  Share(d, answers[s]) < Share(c, answers[s])
    <3>1. c \in ToSet(answers[s]) /\ RankOf(c, answers[s]) < RankOf(d, answers[s])
      BY <2>6
    <3>. HIDE DEF c, d
    <3>2. /\ Share(c, answers[s]) \in Nat /\ RankOf(c, answers[s]) \in Nat
          /\ Share(c, answers[s]) * (RrfK + RankOf(c, answers[s])) = ScoreUnit
      BY <2>5, <3>1, Shares
    <3>3. /\ Share(d, answers[s]) \in Nat /\ RankOf(d, answers[s]) \in Nat
          /\ Share(d, answers[s]) * (RrfK + RankOf(d, answers[s])) = ScoreUnit
      BY <2>5, <2>6, Shares
    <3>. DEFINE p == Share(c, answers[s])
                q == Share(d, answers[s])
                a == RrfK + RankOf(c, answers[s])
                b == RrfK + RankOf(d, answers[s])
    <3>4. p \in Nat /\ q \in Nat /\ a \in Nat /\ b \in Nat /\ a < b
      BY <2>4, <3>1, <3>2, <3>3
    <3>5. p * a = q * b /\ q * b = ScoreUnit
      BY <3>2, <3>3
    <3>. HIDE DEF p, q, a, b
    <3>6. q # 0
      <4>1. \A x \in Nat : 0 * x = 0
        OBVIOUS
      <4>. QED BY <2>4, <3>4, <3>5, <4>1
    <3>7. q < p
      BY <3>4, <3>5, <3>6, SmallerFactor
    <3>. QED BY <3>7 DEF p, q
  <2>7. ASSUME NEW s \in Sources
        PROVE  f[s] \in Nat /\ g[s] \in Nat /\ g[s] <= f[s]
    <3>1. f[s] = Share(c, answers[s]) /\ g[s] = Share(d, answers[s])
      OBVIOUS
    <3>2. CASE d \in ToSet(answers[s])
      <4>. HIDE DEF c, d, f, g
      <4>. QED BY <2>5, <2>6, <3>1, <3>2, Shares
    <3>3. CASE d \notin ToSet(answers[s])
      <4>. HIDE DEF c, d, f, g
      <4>. QED BY <2>5, <3>1, <3>3, Shares
    <3>. QED BY <3>2, <3>3
  <2>8. DOMAIN f = Sources /\ DOMAIN g = Sources /\ g[t] < f[t]
    <3>1. f[t] = Share(c, answers[t]) /\ g[t] = Share(d, answers[t])
      OBVIOUS
    <3>2. Share(d, answers[t]) < Share(c, answers[t])
      BY <2>6
    <3>. QED BY <3>1, <3>2
  <2>9. /\ FusedScore(c, answers) = SumFunctionOnSet(f, Sources)
        /\ FusedScore(d, answers) = SumFunctionOnSet(g, Sources)
    BY <2>8 DEF FusedScore, SumFunction
  <2>10. FusedScore(d, answers) \in Nat /\ FusedScore(c, answers) \in Nat
         /\ FusedScore(d, answers) < FusedScore(c, answers)
    <3>. HIDE DEF f, g, c, d
    <3>1. SumFunctionOnSet(f, Sources) \in Nat /\ SumFunctionOnSet(g, Sources) \in Nat
      BY <2>4, <2>7, SumIsNat
    <3>2. \A s \in Sources : g[s] \in Int /\ f[s] \in Int /\ g[s] <= f[s]
      BY <2>7
    <3>3. /\ SumFunctionOnSet(g, Sources) <= SumFunctionOnSet(f, Sources)
          /\ SumFunctionOnSet(g, Sources) # SumFunctionOnSet(f, Sources)
      <4>1. g[t] # f[t]
        BY <2>7, <2>8
      <4>. QED BY <2>4, <3>2, <4>1, SumCompares
    <3>. QED BY <2>9, <3>1, <3>3
  <2>11. pool[i].score = FusedScore(c, answers) /\ pool[j].score = FusedScore(d, answers)
    BY <2>3
  <2>12. ~ Before(pool[j], pool[i]) /\ i # j
    <3>1. pool[j].score # pool[i].score /\ ~ pool[j].score > pool[i].score
      <4>. HIDE DEF c, d
      <4>. QED BY <2>10, <2>11
    <3>. QED BY <3>1 DEF Before
  <2>13. i \in Nat /\ j \in Nat
    BY <2>3, SeqIs
  <2>. QED BY <2>3, <2>12, <2>13
<1>. QED BY <1>1, QueryInvariance, PTL

----------------------------------------------------------------------------
(* The collapse of chunks to documents.                                    *)

\* The elements of a set of positions, one after the other.
LEMMA Ascending ==
    ASSUME NEW n \in Nat, NEW P \in SUBSET (1 .. n)
    PROVE  LET below(i) == Cardinality({j \in P : j < i})
               f == [m \in 1 .. Cardinality(P) |-> CHOOSE i \in P : below(i) = m - 1]
           IN  /\ Cardinality(P) \in Nat /\ Cardinality(P) <= n
               /\ f \in [1 .. Cardinality(P) -> P]
               /\ \A m \in 1 .. Cardinality(P) : below(f[m]) = m - 1
               /\ \A i, j \in P : below(i) = below(j) => i = j
               /\ \A i \in P : \E m \in 1 .. Cardinality(P) : f[m] = i
<1>. DEFINE R == {p \in P \X P : p[1] < p[2]}
            below(i) == Cardinality({j \in P : j < i})
            c == Cardinality(P)
            f == [m \in 1 .. c |-> CHOOSE i \in P : below(i) = m - 1]
<1>1. /\ IsFiniteSet(1 .. n) /\ Cardinality(1 .. n) = n
      /\ IsFiniteSet(P) /\ Cardinality(P) <= n /\ Cardinality(P) \in Nat
  <2>1. IsFiniteSet(1 .. n) /\ Cardinality(1 .. n) = n
    BY FS_Interval
  <2>2. IsFiniteSet(P) /\ Cardinality(P) <= Cardinality(1 .. n)
    BY <2>1, FS_Subset
  <2>. QED BY <2>1, <2>2, FS_CardinalityType
<1>2. \A i \in P : i \in Nat
  OBVIOUS
<1>3. \A i, j \in P : <<i, j>> \in R <=> i < j
  OBVIOUS
<1>. DEFINE before(i) == AheadOf(R, P, i)
<1>4. ASSUME NEW i \in P PROVE before(i) = below(i)
  <2>1. {j \in P : <<j, i>> \in R} = {j \in P : j < i}
    BY <1>3
  <2>. QED BY <2>1 DEF AheadOf
<1>. HIDE DEF R
<1>5. /\ \A i \in P : before(i) \in 0 .. c - 1
      /\ \A i, j \in P : <<i, j>> \in R <=> before(i) < before(j)
      /\ \A m \in 1 .. c : \E i \in P : before(i) = m - 1
  <2>1. StrictOrder(R, P)
    BY <1>2, <1>3 DEF StrictOrder
  <2>. QED BY <1>1, <2>1, Counting
<1>6. /\ \A i \in P : below(i) \in 0 .. c - 1
      /\ \A i, j \in P : i < j <=> below(i) < below(j)
      /\ \A m \in 1 .. c : \E i \in P : below(i) = m - 1
  <2>. HIDE DEF below, before, c
  <2>1. \A i, j \in P : i < j <=> below(i) < below(j)
    <3>. SUFFICES ASSUME NEW i \in P, NEW j \in P PROVE i < j <=> below(i) < below(j)
      OBVIOUS
    <3>1. before(i) = below(i) /\ before(j) = below(j)
      BY <1>4
    <3>2. i < j <=> <<i, j>> \in R
      BY <1>3
    <3>3. <<i, j>> \in R <=> before(i) < before(j)
      BY <1>5
    <3>. QED BY <3>1, <3>2, <3>3
  <2>. QED BY <1>4, <1>5, <2>1
<1>7. f = [m \in 1 .. c |-> CHOOSE i \in P : below(i) = m - 1]
  OBVIOUS
<1>. HIDE DEF f, below, c
<1>8. \A m \in 1 .. c : f[m] \in P /\ below(f[m]) = m - 1
  BY <1>6, <1>7
<1>9. f \in [1 .. c -> P]
  BY <1>7, <1>8
<1>10. \A i, j \in P : below(i) = below(j) => i = j
  <2>. SUFFICES ASSUME NEW i \in P, NEW j \in P, below(i) = below(j) PROVE i = j
    OBVIOUS
  <2>1. below(i) \in Int /\ below(j) \in Int
    BY <1>1, <1>6 DEF c
  <2>2. ~ i < j /\ ~ j < i
    BY <1>6, <2>1
  <2>. QED BY <1>2, <2>2
<1>11. ASSUME NEW i \in P PROVE \E m \in 1 .. c : f[m] = i
  <2>. DEFINE m == below(i) + 1
  <2>1. m \in 1 .. c /\ m - 1 = below(i)
    BY <1>1, <1>6 DEF c
  <2>. HIDE DEF m
  <2>2. f[m] = i
    BY <1>8, <1>10, <2>1
  <2>. QED BY <2>1, <2>2
<1>. QED BY <1>1, <1>8, <1>9, <1>10, <1>11 DEF f, below, c

\* The first positions of a sequence's elements, and the elements before one of them.
Firsts(ids, n) == {i \in 1 .. n : \A j \in 1 .. i - 1 : ids[j] # ids[i]}
Below(P, i) == Cardinality({j \in P : j < i})

\* The ranking ids of n elements of S collapses to those at the c positions P,
\* which first names in their order.
Collapses(S, ids, n, P, first, c) ==
    /\ n \in Nat /\ c \in Nat /\ c <= n /\ P \in SUBSET (1 .. n)
    /\ first \in [1 .. c -> 1 .. n]
    /\ \A m \in 1 .. c : first[m] \in P /\ Below(P, first[m]) = m - 1
    /\ \A i, j \in P : Below(P, i) = Below(P, j) => i = j
    /\ \A i \in P : \E m \in 1 .. c : first[m] = i
    /\ \A l, m \in 1 .. c : ids[first[l]] = ids[first[m]] => l = m
    /\ Collapse(ids) = [m \in 1 .. c |-> ids[first[m]]]
    /\ Collapse(ids) \in Seq(S) /\ Len(Collapse(ids)) = c
    /\ IsInjective(Collapse(ids))

\* collapse_to_documents keeps the first chunk of each document, in their order.
LEMMA FirstsAre ==
    ASSUME NEW S, NEW ids \in Seq(S)
    PROVE  Collapses(S, ids, Len(ids), Firsts(ids, Len(ids)), FirstOfEach(ids),
                     Cardinality(Firsts(ids, Len(ids))))
<1>. DEFINE n == Len(ids)
            P == Firsts(ids, n)
            first == FirstOfEach(ids)
            c == Cardinality(P)
<1>1. n \in Nat /\ DOMAIN ids = 1 .. n /\ \A i \in 1 .. n : ids[i] \in S
  BY SeqIs
<1>. HIDE DEF n
<1>2. P \in SUBSET (1 .. n)
  BY DEF Firsts
<1>3. first = [m \in 1 .. c |-> CHOOSE i \in P : Below(P, i) = m - 1]
  BY <1>1 DEF FirstOfEach, InOrder, Firsts, Below
<1>. HIDE DEF P, first
<1>4. LET below(i) == Cardinality({j \in P : j < i})
          f == [m \in 1 .. Cardinality(P) |-> CHOOSE i \in P : below(i) = m - 1]
      IN  /\ Cardinality(P) \in Nat /\ Cardinality(P) <= n
          /\ f \in [1 .. Cardinality(P) -> P]
          /\ \A m \in 1 .. Cardinality(P) : below(f[m]) = m - 1
          /\ \A i, j \in P : below(i) = below(j) => i = j
          /\ \A i \in P : \E m \in 1 .. Cardinality(P) : f[m] = i
  BY <1>1, <1>2, Ascending
<1>5. /\ c \in Nat /\ c <= n
      /\ first \in [1 .. c -> P]
      /\ \A m \in 1 .. c : Below(P, first[m]) = m - 1
      /\ \A i, j \in P : Below(P, i) = Below(P, j) => i = j
      /\ \A i \in P : \E m \in 1 .. c : first[m] = i
  BY <1>3, <1>4 DEF Below
<1>. HIDE DEF c
<1>6. /\ \A m \in 1 .. c : first[m] \in P /\ first[m] \in 1 .. n
      /\ first \in [1 .. c -> 1 .. n] /\ DOMAIN first = 1 .. c
  BY <1>2, <1>5
<1>7. ASSUME NEW l \in 1 .. c, NEW m \in 1 .. c, ids[first[l]] = ids[first[m]]
      PROVE  l = m
  <2>1. \A i \in P : \A j \in 1 .. i - 1 : ids[j] # ids[i]
    BY DEF P, Firsts
  <2>2. first[l] \in P /\ first[m] \in P /\ first[l] \in 1 .. n /\ first[m] \in 1 .. n
    BY <1>6
  <2>3. first[l] = first[m]
    <3>1. ~ first[l] < first[m]
      BY <1>1, <1>7, <2>1, <2>2
    <3>2. ~ first[m] < first[l]
      BY <1>1, <1>7, <2>1, <2>2
    <3>. QED BY <1>1, <2>2, <3>1, <3>2
  <2>4. l - 1 = m - 1
    BY <1>5, <2>3
  <2>. QED BY <1>5, <2>4
<1>8. Collapse(ids) = [m \in 1 .. c |-> ids[first[m]]]
  BY <1>6 DEF Collapse, first
<1>. DEFINE collapsed == Collapse(ids)
<1>. HIDE DEF collapsed
<1>9. collapsed \in [1 .. c -> S] /\ \A m \in 1 .. c : collapsed[m] = ids[first[m]]
  BY <1>1, <1>6, <1>8 DEF collapsed
<1>10. collapsed \in Seq(S) /\ Len(collapsed) = c
  BY <1>5, <1>9
<1>11. IsInjective(collapsed)
  BY <1>7, <1>9 DEF IsInjective
<1>. QED BY <1>1, <1>2, <1>5, <1>6, <1>7, <1>8, <1>10, <1>11 DEF Collapses, P, first, c, n, collapsed

\* One ranking begins like another, and is not longer.
Begins(one, other) ==
    Len(one) <= Len(other) /\ \A i \in 1 .. Len(one) : one[i] = other[i]

\* A ranking without repetitions collapses to itself.
LEMMA CollapseDistinct ==
    ASSUME NEW S, NEW ids \in Seq(S), IsInjective(ids)
    PROVE  Collapse(ids) = ids
<1>. DEFINE n == Len(ids)
            P == Firsts(ids, n)
            first == FirstOfEach(ids)
<1>1. n \in Nat /\ DOMAIN ids = 1 .. n /\ ids = [i \in 1 .. n |-> ids[i]]
  BY SeqIs
<1>. HIDE DEF n
<1>2. P = 1 .. n
  BY <1>1 DEF Firsts, IsInjective
<1>. HIDE DEF P, first
<1>3. Cardinality(P) = n
  BY <1>1, <1>2, FS_Interval
<1>4. /\ \A m \in 1 .. Cardinality(P) : first[m] \in P /\ Below(P, first[m]) = m - 1
      /\ Collapse(ids) = [m \in 1 .. Cardinality(P) |-> ids[first[m]]]
  <2>1. Collapses(S, ids, n, P, first, Cardinality(P))
    BY FirstsAre DEF first, P, n
  <2>. QED BY <2>1 DEF Collapses
<1>5. ASSUME NEW m \in 1 .. n PROVE first[m] = m
  <2>1. first[m] \in 1 .. n /\ Below(P, first[m]) = m - 1
    BY <1>2, <1>3, <1>4
  <2>2. {j \in P : j < first[m]} = 1 .. (first[m] - 1)
    BY <1>1, <1>2, <2>1
  <2>3. Below(P, first[m]) = first[m] - 1
    <3>1. first[m] - 1 \in Nat
      BY <1>1, <2>1
    <3>2. Cardinality(1 .. (first[m] - 1)) = first[m] - 1
      <4>. HIDE DEF first
      <4>1. \A x \in Nat : Cardinality(1 .. x) = x
        BY FS_Interval
      <4>. QED BY <3>1, <4>1
    <3>. QED BY <2>2, <3>2 DEF Below
  <2>. QED BY <1>1, <2>1, <2>3
<1>6. Collapse(ids) = [m \in 1 .. n |-> ids[m]]
  BY <1>3, <1>4, <1>5
<1>. QED BY <1>1, <1>6

\* What is collapsed of the beginning of a ranking is the beginning of what is
\* collapsed of it.
LEMMA CollapseBegins ==
    ASSUME NEW S, NEW ids \in Seq(S), NEW k \in Nat
    PROVE  /\ Begins(Collapse(FirstN(ids, k)), Collapse(ids))
           /\ Len(Collapse(FirstN(ids, k))) <= k
<1>. DEFINE n == Len(ids)
            l == IF k < n THEN k ELSE n
            short == FirstN(ids, k)
            P == Firsts(ids, n)
            Q == Firsts(short, l)
            f == FirstOfEach(ids)
            g == FirstOfEach(short)
            c == Cardinality(P)
            d == Cardinality(Q)
<1>1. /\ n \in Nat /\ l \in Nat /\ l <= n /\ l <= k
      /\ short \in Seq(S) /\ Len(short) = l /\ short = [i \in 1 .. l |-> ids[i]]
  BY SeqIs, FirstNIs
<1>. HIDE DEF n, l, short
<1>2. \A i \in 1 .. l : short[i] = ids[i]
  BY <1>1
<1>. HIDE DEF f, g
<1>3. Q = {i \in P : i <= l}
  <2>1. ASSUME NEW i \in 1 .. l
        PROVE  (\A j \in 1 .. i - 1 : short[j] # short[i]) <=> (\A j \in 1 .. i - 1 : ids[j] # ids[i])
    <3>1. \A j \in 1 .. i - 1 : short[j] = ids[j]
      BY <1>1, <1>2
    <3>. QED BY <1>2, <3>1
  <2>2. 1 .. l = {i \in 1 .. n : i <= l}
    BY <1>1
  <2>. QED BY <2>1, <2>2 DEF Firsts
<1>. HIDE DEF P, Q
<1>4. Collapses(S, ids, n, P, f, c)
  BY FirstsAre DEF n, P, f
<1>5. /\ c \in Nat /\ \A m \in 1 .. c : f[m] \in P /\ Below(P, f[m]) = m - 1
      /\ \A i, j \in P : Below(P, i) = Below(P, j) => i = j
      /\ Collapse(ids) = [m \in 1 .. c |-> ids[f[m]]]
      /\ Len(Collapse(ids)) = c /\ P \in SUBSET (1 .. n)
  BY <1>4 DEF Collapses
<1>6. /\ d \in Nat /\ d <= l /\ \A m \in 1 .. d : g[m] \in Q /\ Below(Q, g[m]) = m - 1
      /\ Collapse(short) = [m \in 1 .. d |-> short[g[m]]]
      /\ Len(Collapse(short)) = d
  <2>1. Collapses(S, short, l, Q, g, d)
    BY <1>1, FirstsAre DEF Q, g
  <2>. QED BY <2>1 DEF Collapses
<1>7. d <= c
  <2>1. Q \in SUBSET P
    BY <1>3
  <2>2. IsFiniteSet(P)
    <3>1. IsFiniteSet(1 .. n)
      BY <1>1, FS_Interval
    <3>. QED BY <1>5, <3>1, FS_Subset
  <2>. QED BY <2>1, <2>2, FS_Subset
<1>. HIDE DEF c, d
<1>8. ASSUME NEW m \in 1 .. d PROVE f[m] = g[m] /\ g[m] \in 1 .. l
  <2>1. \A j \in P : j \in Nat
    BY <1>5
  <2>2. g[m] \in P /\ g[m] <= l /\ Below(Q, g[m]) = m - 1 /\ g[m] \in Nat
    <3>1. g[m] \in Q /\ Below(Q, g[m]) = m - 1
      BY <1>6
    <3>2. g[m] \in P /\ g[m] <= l
      BY <1>3, <3>1
    <3>. QED BY <2>1, <3>1, <3>2
  <2>3. {j \in Q : j < g[m]} = {j \in P : j < g[m]}
    BY <1>1, <1>3, <2>2, <2>1
  <2>4. Below(P, g[m]) = m - 1
    BY <2>2, <2>3 DEF Below
  <2>5. m \in 1 .. c
    BY <1>5, <1>6, <1>7
  <2>6. f[m] = g[m]
    BY <1>5, <2>2, <2>4, <2>5
  <2>7. g[m] \in 1 .. n
    BY <1>5, <2>2
  <2>. QED BY <1>1, <2>2, <2>6, <2>7
<1>9. ASSUME NEW m \in 1 .. d PROVE Collapse(short)[m] = Collapse(ids)[m]
  <2>1. m \in 1 .. c
    BY <1>5, <1>6, <1>7
  <2>. QED BY <1>2, <1>5, <1>6, <1>8, <2>1
<1>10. d <= k
  BY <1>1, <1>6
<1>. HIDE DEF short
<1>11. Begins(Collapse(short), Collapse(ids)) /\ Len(Collapse(short)) <= k
  BY <1>5, <1>6, <1>7, <1>9, <1>10 DEF Begins
<1>. QED BY <1>11 DEF short

----------------------------------------------------------------------------
(* The metrics of one ranking, and of one that goes on.                    *)

\* A ranking of at most k identifiers, none of them twice, and relevance grades.
Answer(ids, g, k) ==
    /\ k \in Nat \ {0} /\ k <= MaxK
    /\ ids \in Seq(Nat) /\ Len(ids) <= k /\ IsInjective(ids)
    /\ IsFiniteSet(DOMAIN g) /\ DOMAIN g # {} /\ g \in [DOMAIN g -> 1 .. MaxGrade]

\* The ranks of relevant identifiers, and what is added for each rank.
Hits(ids, g, n) == {i \in 1 .. n : ids[i] \in DOMAIN g}
Precise(ids, g, i) == HitsTo(ids, g, i) * (PrecisionUnit \div i)
Gained(ids, g, i) == Gain[IF ids[i] \in DOMAIN g THEN g[ids[i]] ELSE 0] * Discount[i]

\* The hits of a ranking are some of its ranks.
LEMMA HitsAre ==
    ASSUME NEW ids, NEW g, NEW n \in Nat
    PROVE  /\ Hits(ids, g, n) \in SUBSET (1 .. n) /\ IsFiniteSet(Hits(ids, g, n))
           /\ HitsTo(ids, g, n) = Cardinality(Hits(ids, g, n))
           /\ HitsTo(ids, g, n) \in Nat /\ HitsTo(ids, g, n) <= n
           /\ HitsTo(ids, g, n) = 0 <=> Hits(ids, g, n) = {}
           /\ HitsTo(ids, g, n) = n => Hits(ids, g, n) = 1 .. n
<1>. DEFINE H == Hits(ids, g, n)
<1>1. H \in SUBSET (1 .. n) /\ HitsTo(ids, g, n) = Cardinality(H)
  BY DEF Hits, HitsTo
<1>. HIDE DEF H
<1>2. IsFiniteSet(1 .. n) /\ Cardinality(1 .. n) = n
  BY FS_Interval
<1>3. IsFiniteSet(H) /\ Cardinality(H) <= n /\ (Cardinality(H) = n => H = 1 .. n)
  BY <1>1, <1>2, FS_Subset
<1>4. Cardinality(H) \in Nat /\ (Cardinality(H) = 0 <=> H = {})
  BY <1>3, FS_CardinalityType, FS_EmptySet
<1>. QED BY <1>1, <1>3, <1>4 DEF H

\* Where a ranking begins like another, it has the same hits.
LEMMA SameHits ==
    ASSUME NEW one, NEW other, NEW g, NEW n \in Nat, \A i \in 1 .. n : one[i] = other[i]
    PROVE  Hits(one, g, n) = Hits(other, g, n) /\ HitsTo(one, g, n) = HitsTo(other, g, n)
<1>1. Hits(one, g, n) = Hits(other, g, n)
  BY DEF Hits
<1>. QED BY <1>1, HitsAre

\* What the metrics are computed from.
LEMMA MetricParts ==
    ASSUME NEW ids, NEW g, NEW k, Answer(ids, g, k)
    PROVE  LET n == Len(ids)
               H == Hits(ids, g, n)
           IN  /\ n \in Nat /\ n <= k /\ n <= MaxK /\ DOMAIN ids = 1 .. n
               /\ H \in SUBSET (1 .. n) /\ IsFiniteSet(H)
               /\ H = {} => FirstHit(ids, g) = 0
               /\ H # {} => FirstHit(ids, g) \in H /\ \A h \in H : FirstHit(ids, g) <= h
               /\ PrecisionSum(ids, g) = SumFunctionOnSet([i \in H |-> Precise(ids, g, i)], H)
               /\ \A i \in 1 .. n : /\ Precise(ids, g, i) \in Nat
                                    /\ HitsTo(ids, g, i) > 0 => Precise(ids, g, i) > 0
                                    /\ Precise(ids, g, i) <= PrecisionUnit
                                    /\ HitsTo(ids, g, i) < i => Precise(ids, g, i) < PrecisionUnit
                                    /\ HitsTo(ids, g, i) = i => Precise(ids, g, i) = PrecisionUnit
               /\ Discounted(GradesAt(ids, g)) =
                      SumFunctionOnSet([i \in 1 .. n |-> Gained(ids, g, i)], 1 .. n)
               /\ \A i \in 1 .. n : /\ Gained(ids, g, i) \in Nat
                                    /\ Gained(ids, g, i) > 0 <=> i \in H
<1>. DEFINE n == Len(ids)
            H == Hits(ids, g, n)
<1>1. n \in Nat /\ n <= k /\ n <= MaxK /\ DOMAIN ids = 1 .. n
  BY CutoffBounds DEF Answer
<1>2. H \in SUBSET (1 .. n) /\ IsFiniteSet(H)
  BY <1>1, HitsAre
<1>3. H = {i \in DOMAIN ids : ids[i] \in DOMAIN g}
  BY <1>1 DEF Hits
<1>. HIDE DEF n, H
<1>4. H = {} => FirstHit(ids, g) = 0
  BY <1>3 DEF FirstHit
<1>5. ASSUME H # {} PROVE FirstHit(ids, g) \in H /\ \A h \in H : FirstHit(ids, g) <= h
  <2>1. H \in SUBSET Nat
    BY <1>1, <1>2
  <2>2. \E x \in H : \A h \in H : x <= h
    BY <1>5, <2>1, Least
  <2>3. FirstHit(ids, g) = Min(H)
    BY <1>3, <1>5 DEF FirstHit
  <2>. QED BY <2>2, <2>3 DEF Min
<1>6. PrecisionSum(ids, g) = SumFunctionOnSet([i \in H |-> Precise(ids, g, i)], H)
  BY <1>3 DEF PrecisionSum, SumFunction, Precise
<1>7. ASSUME NEW i \in 1 .. n
      PROVE  /\ Precise(ids, g, i) \in Nat
             /\ HitsTo(ids, g, i) > 0 => Precise(ids, g, i) > 0
             /\ Precise(ids, g, i) <= PrecisionUnit
             /\ HitsTo(ids, g, i) < i => Precise(ids, g, i) < PrecisionUnit
             /\ HitsTo(ids, g, i) = i => Precise(ids, g, i) = PrecisionUnit
  <2>. DEFINE q == PrecisionUnit \div i
              h == HitsTo(ids, g, i)
  <2>1. i \in Nat \ {0} /\ i \in 1 .. MaxK
    BY <1>1, CutoffBounds
  <2>2. PrecisionUnit \in Nat \ {0} /\ PrecisionUnit % i = 0
    BY <2>1, RankingAssumption
  <2>3. q \in Nat /\ q * i = PrecisionUnit
    BY <2>1, <2>2, DividesEvenly
  <2>4. h \in Nat /\ h <= i
    BY <2>1, HitsAre
  <2>. HIDE DEF q, h
  <2>5. q # 0
    <3>1. \A x \in Nat : 0 * x = 0
      OBVIOUS
    <3>. QED BY <2>1, <2>2, <2>3, <3>1
  <2>6. h * q \in Nat /\ (h > 0 => h * q > 0)
    BY <2>3, <2>4, <2>5
  <2>7. ASSUME h < i PROVE h * q < q * i
    <3>1. PICK d \in Nat : i = h + d /\ d # 0
      <4>1. i - h \in Nat /\ i = h + (i - h) /\ i - h # 0
        BY <2>1, <2>4, <2>7
      <4>. QED BY <4>1
    <3>2. q * i = h * q + q * d
      BY <2>3, <2>4, <3>1
    <3>3. q * d \in Nat /\ q * d # 0
      BY <2>3, <2>5, <3>1
    <3>. QED BY <2>6, <3>2, <3>3
  <2>8. h = i => h * q = q * i
    BY <2>1, <2>3
  <2>9. Precise(ids, g, i) = h * q
    BY DEF Precise, h, q
  <2>10. h * q <= q * i
    <3>1. h < i \/ h = i
      BY <2>1, <2>4
    <3>. QED BY <2>2, <2>3, <2>6, <2>7, <2>8, <3>1
  <2>. HIDE DEF Precise
  <2>. QED BY <2>3, <2>6, <2>7, <2>8, <2>9, <2>10 DEF h
<1>8. Discounted(GradesAt(ids, g)) = SumFunctionOnSet([i \in 1 .. n |-> Gained(ids, g, i)], 1 .. n)
  <2>. DEFINE gradeAt == [i \in 1 .. n |-> IF ids[i] \in DOMAIN g THEN g[ids[i]] ELSE 0]
  <2>1. GradesAt(ids, g) = gradeAt
    BY <1>1 DEF GradesAt
  <2>2. DOMAIN gradeAt = 1 .. n /\ \A i \in 1 .. n : Gain[gradeAt[i]] * Discount[i] = Gained(ids, g, i)
    BY DEF Gained
  <2>. HIDE DEF gradeAt
  <2>3. [i \in DOMAIN gradeAt |-> Gain[gradeAt[i]] * Discount[i]] = [i \in 1 .. n |-> Gained(ids, g, i)]
    BY <2>2
  <2>. QED BY <2>1, <2>3 DEF Discounted, SumFunction
<1>9. ASSUME NEW i \in 1 .. n
      PROVE  Gained(ids, g, i) \in Nat /\ (Gained(ids, g, i) > 0 <=> i \in H)
  <2>. DEFINE a == IF ids[i] \in DOMAIN g THEN g[ids[i]] ELSE 0
  <2>1. Discount[i] \in Nat \ {0}
    <3>1. i \in 1 .. MaxK
      BY <1>1, CutoffBounds
    <3>. QED BY <3>1, RankingAssumption
  <2>2. MaxGrade \in Nat /\ a \in 0 .. MaxGrade /\ (a = 0 <=> i \notin H)
    BY RankingAssumption DEF Answer, H, Hits
  <2>. HIDE DEF a
  <2>3. Gain[a] \in Nat /\ (a = 0 => Gain[a] = 0) /\ (a # 0 => Gain[a] > 0)
    <3>1. /\ Gain \in [0 .. MaxGrade -> Nat] /\ Gain[0] = 0
          /\ \A x, y \in 0 .. MaxGrade : x < y => Gain[x] < Gain[y]
      BY RankingAssumption
    <3>2. 0 \in 0 .. MaxGrade /\ (a # 0 => 0 < a)
      BY <2>2
    <3>. QED BY <2>2, <3>1, <3>2
  <2>4. Gained(ids, g, i) = Gain[a] * Discount[i]
    BY DEF Gained, a
  <2>5. \A x \in Nat, y \in Nat \ {0} : x * y \in Nat /\ (x = 0 => x * y = 0) /\ (x > 0 => x * y > 0)
    OBVIOUS
  <2>. QED BY <2>1, <2>2, <2>3, <2>4, <2>5
<1>. QED BY <1>1, <1>2, <1>4, <1>5, <1>6, <1>7, <1>8, <1>9 DEF n, H

\* No metric falls when a ranking goes on.
LEMMA LongerIsNoWorse ==
    ASSUME NEW one, NEW other, NEW g, NEW j, NEW k,
           Answer(one, g, j), Answer(other, g, k), Begins(one, other)
    PROVE  /\ HitsTo(one, g, Len(one)) <= HitsTo(other, g, Len(other))
           /\ FirstHit(one, g) \in Nat
           /\ FirstHit(one, g) > 0 => FirstHit(other, g) = FirstHit(one, g)
           /\ PrecisionSum(one, g) <= PrecisionSum(other, g)
           /\ Discounted(GradesAt(one, g)) <= Discounted(GradesAt(other, g))
<1>. DEFINE p == Len(one)
            n == Len(other)
            G == Hits(one, g, p)
            H == Hits(other, g, n)
<1>1. /\ p \in Nat /\ G \in SUBSET (1 .. p) /\ IsFiniteSet(G)
      /\ G = {} => FirstHit(one, g) = 0
      /\ G # {} => FirstHit(one, g) \in G /\ \A h \in G : FirstHit(one, g) <= h
      /\ PrecisionSum(one, g) = SumFunctionOnSet([i \in G |-> Precise(one, g, i)], G)
      /\ \A i \in 1 .. p : Precise(one, g, i) \in Nat
      /\ Discounted(GradesAt(one, g)) = SumFunctionOnSet([i \in 1 .. p |-> Gained(one, g, i)], 1 .. p)
      /\ \A i \in 1 .. p : Gained(one, g, i) \in Nat
  BY MetricParts
<1>2. /\ n \in Nat /\ H \in SUBSET (1 .. n) /\ IsFiniteSet(H)
      /\ H # {} => FirstHit(other, g) \in H /\ \A h \in H : FirstHit(other, g) <= h
      /\ PrecisionSum(other, g) = SumFunctionOnSet([i \in H |-> Precise(other, g, i)], H)
      /\ \A i \in 1 .. n : Precise(other, g, i) \in Nat
      /\ Discounted(GradesAt(other, g)) = SumFunctionOnSet([i \in 1 .. n |-> Gained(other, g, i)], 1 .. n)
      /\ \A i \in 1 .. n : Gained(other, g, i) \in Nat
  BY MetricParts
<1>3. p <= n /\ \A i \in 1 .. p : one[i] = other[i]
  BY DEF Begins
<1>4. G = {i \in H : i <= p}
  <2>1. p \in Nat /\ n \in Nat
    BY <1>1, <1>2
  <2>. HIDE DEF p, n
  <2>2. 1 .. p = {i \in 1 .. n : i <= p}
    BY <1>3, <2>1
  <2>. QED BY <1>3, <2>2 DEF Hits
<1>5. HitsTo(one, g, p) = Cardinality(G) /\ HitsTo(other, g, n) = Cardinality(H)
  BY <1>1, <1>2, HitsAre
<1>. HIDE DEF p, n, G, H
<1>6. HitsTo(one, g, p) <= HitsTo(other, g, n)
  <2>1. G \in SUBSET H
    BY <1>4
  <2>. QED BY <1>2, <1>5, <2>1, FS_Subset
<1>7. FirstHit(one, g) \in Nat /\ (FirstHit(one, g) > 0 => FirstHit(other, g) = FirstHit(one, g))
  <2>. DEFINE a == FirstHit(one, g)
              b == FirstHit(other, g)
  <2>1. CASE G = {}
    BY <1>1, <2>1
  <2>2. CASE G # {}
    <3>. HIDE DEF a, b
    <3>1. a \in G /\ a \in H /\ a <= p /\ a \in Nat /\ \A h \in G : a <= h
      BY <1>1, <1>4, <2>2 DEF a
    <3>2. b \in H /\ b <= a /\ b \in Nat
      <4>1. \A h \in H : h \in Nat
        BY <1>2
      <4>2. b \in H /\ \A h \in H : b <= h
        BY <1>2, <3>1 DEF b
      <4>. QED BY <3>1, <4>1, <4>2
    <3>3. b \in G
      BY <1>1, <1>4, <3>1, <3>2
    <3>4. a = b
      BY <3>1, <3>2, <3>3
    <3>. QED BY <3>1, <3>4 DEF a, b
  <2>. QED BY <2>1, <2>2
<1>8. PrecisionSum(one, g) <= PrecisionSum(other, g)
  <2>. DEFINE e == [i \in G |-> Precise(one, g, i)]
              f == [i \in H |-> Precise(other, g, i)]
  <2>1. G \in SUBSET H
    BY <1>4
  <2>2. \A x \in H : f[x] \in Nat
    BY <1>2
  <2>3. \A x \in G : e[x] \in Int /\ e[x] = f[x]
    <3>. SUFFICES ASSUME NEW x \in G PROVE e[x] \in Int /\ e[x] = f[x]
      OBVIOUS
    <3>1. x \in 1 .. p /\ x \in H /\ x \in Nat
      BY <1>1, <1>4
    <3>2. \A i \in 1 .. x : one[i] = other[i]
      BY <1>1, <1>3, <3>1
    <3>3. HitsTo(one, g, x) = HitsTo(other, g, x)
      BY <3>1, <3>2, SameHits
    <3>. QED BY <1>1, <3>1, <3>3 DEF Precise
  <2>. HIDE DEF e, f
  <2>4. SumFunctionOnSet(e, G) = SumFunctionOnSet(f, G)
    BY <1>1, <2>3, SumSame
  <2>5. SumFunctionOnSet(f, G) <= SumFunctionOnSet(f, H)
    BY <1>2, <2>1, <2>2, SumOfFewer
  <2>. QED BY <1>1, <1>2, <2>4, <2>5 DEF e, f
<1>9. Discounted(GradesAt(one, g)) <= Discounted(GradesAt(other, g))
  <2>. DEFINE e == [i \in 1 .. p |-> Gained(one, g, i)]
              f == [i \in 1 .. n |-> Gained(other, g, i)]
              P == 1 .. p
              N == 1 .. n
  <2>1. P \in SUBSET N /\ IsFiniteSet(N) /\ IsFiniteSet(P)
    BY <1>1, <1>2, <1>3, FS_Interval
  <2>2. \A x \in N : f[x] \in Nat
    BY <1>2
  <2>3. \A x \in P : e[x] \in Int /\ e[x] = f[x]
    BY <1>1, <1>2, <1>3 DEF Gained
  <2>4. /\ Discounted(GradesAt(one, g)) = SumFunctionOnSet(e, P)
        /\ Discounted(GradesAt(other, g)) = SumFunctionOnSet(f, N)
    BY <1>1, <1>2
  <2>. HIDE DEF e, f, P, N
  <2>5. SumFunctionOnSet(e, P) = SumFunctionOnSet(f, P)
    BY <2>1, <2>3, SumSame
  <2>6. SumFunctionOnSet(f, P) <= SumFunctionOnSet(f, N)
    BY <2>1, <2>2, SumOfFewer
  <2>. QED BY <2>4, <2>5, <2>6
<1>. QED BY <1>6, <1>7, <1>8, <1>9 DEF p, n

\* The documents of the first chunks are the first of the documents.
LEMMA DocumentsCut ==
    ASSUME documentOf \in Seq(Nat), NEW chosen \in Seq(Chunks), NEW k \in Nat
    PROVE  /\ DocumentsOf(chosen) \in Seq(Nat) /\ Len(DocumentsOf(chosen)) = Len(chosen)
           /\ DocumentsOf(FirstN(chosen, k)) = FirstN(DocumentsOf(chosen), k)
<1>. DEFINE n == Len(chosen)
            m == IF k < n THEN k ELSE n
            documents == [i \in 1 .. n |-> documentOf[chosen[i]]]
            short == [i \in 1 .. m |-> chosen[i]]
<1>1. n \in Nat /\ m \in 0 .. n /\ DOMAIN chosen = 1 .. n /\ \A i \in 1 .. n : chosen[i] \in Chunks
  BY SeqIs
<1>2. \A c \in Chunks : documentOf[c] \in Nat
  BY SeqIs DEF Chunks
<1>3. DocumentsOf(chosen) = documents
  BY <1>1 DEF DocumentsOf
<1>4. FirstN(chosen, k) = short
  BY FirstNIs
<1>. HIDE DEF n
<1>5. documents \in Seq(Nat) /\ Len(documents) = n
  <2>1. documents \in [1 .. n -> Nat]
    BY <1>1, <1>2
  <2>. HIDE DEF documents
  <2>. QED BY <1>1, <2>1
<1>6. FirstN(documents, k) = [i \in 1 .. m |-> documents[i]]
  <2>. HIDE DEF documents
  <2>. QED BY <1>5, FirstNIs
<1>7. DocumentsOf(short) = [i \in 1 .. m |-> documents[i]]
  <2>. HIDE DEF m
  <2>1. DOMAIN short = 1 .. m /\ \A i \in 1 .. m : short[i] = chosen[i] /\ i \in 1 .. n
    BY <1>1
  <2>2. \A i \in 1 .. m : documents[i] = documentOf[short[i]]
    BY <2>1
  <2>. HIDE DEF short, documents
  <2>. QED BY <2>1, <2>2 DEF DocumentsOf
<1>. QED BY <1>3, <1>4, <1>5, <1>6, <1>7 DEF n

\* The state of an evaluated query.
LEMMA Evaluated ==
    ASSUME QueryIInv, phase = "done"
    PROVE  /\ documentOf \in Seq(Nat) /\ level \in {"document", "chunk"}
           /\ ranked \in Seq(Chunks) /\ ranked \in Seq(Nat) /\ IsInjective(ranked)
           /\ IsFiniteSet(DOMAIN grades) /\ DOMAIN grades # {}
           /\ grades \in [DOMAIN grades -> 1 .. MaxGrade]
           /\ metrics = [k \in Cutoffs |-> Metrics(IdsAt(ranked, k), grades, k)]
<1>1. /\ documentOf \in Seq(Nat) /\ level \in {"document", "chunk"} /\ IsInjective(ranked)
      /\ ranked \in SeqUpTo(Chunks, MaxK) /\ grades \in Relevances
  BY DEF QueryIInv, QueryTypeOK
<1>2. Len(documentOf) \in Nat /\ Chunks = 1 .. Len(documentOf)
  BY <1>1, SeqIs DEF Chunks
<1>3. ranked \in Seq(Chunks)
  BY <1>1, CutoffBounds, UpTo
<1>4. ranked \in Seq(Nat)
  BY <1>2, <1>3
<1>5. IsFiniteSet(Chunks) /\ IsFiniteSet(DocumentIds)
  <2>1. IsFiniteSet(Chunks)
    BY <1>2, FS_Interval
  <2>. DEFINE h == [c \in Chunks |-> documentOf[c]]
  <2>2. h \in [Chunks -> DocumentIds] /\ \A d \in DocumentIds : \E c \in Chunks : h[c] = d
    BY DEF DocumentIds
  <2>. HIDE DEF h
  <2>3. h \in Surjection(Chunks, DocumentIds)
    BY <2>2, Fun_IsSurj
  <2>. QED BY <2>1, <2>3, FS_Surjection
<1>6. /\ IsFiniteSet(DOMAIN grades) /\ DOMAIN grades # {}
      /\ grades \in [DOMAIN grades -> 1 .. MaxGrade]
  <2>. DEFINE ids == IF level = "document" THEN DocumentIds ELSE Chunks
  <2>1. PICK relevant \in (SUBSET ids) \ {{}} : grades \in [relevant -> 1 .. MaxGrade]
    BY <1>1 DEF Relevances
  <2>2. IsFiniteSet(ids)
    BY <1>5
  <2>. HIDE DEF ids
  <2>3. IsFiniteSet(relevant)
    BY <2>1, <2>2, FS_Subset
  <2>. QED BY <2>1, <2>3
<1>7. metrics = [k \in Cutoffs |-> Metrics(IdsAt(ranked, k), grades, k)]
  BY DEF QueryIInv, HandedOn
<1>. QED BY <1>1, <1>3, <1>4, <1>6, <1>7

\* What is left of a ranking of chunks at a cutoff is a ranking of identifiers, of
\* which a smaller cutoff leaves the beginning.
LEMMA CutAnswers ==
    ASSUME QueryIInv, phase = "done", NEW chosen \in Seq(Chunks), IsInjective(chosen),
           NEW j \in Cutoffs, NEW k \in Cutoffs, j <= k
    PROVE  /\ Answer(IdsAt(chosen, k), grades, k)
           /\ Begins(IdsAt(chosen, j), IdsAt(chosen, k))
<1>1. /\ documentOf \in Seq(Nat)
      /\ IsFiniteSet(DOMAIN grades) /\ DOMAIN grades # {}
      /\ grades \in [DOMAIN grades -> 1 .. MaxGrade]
  BY Evaluated
<1>2. /\ k \in Nat \ {0} /\ k <= MaxK /\ j \in Nat \ {0} /\ MaxK \in Nat
      /\ k \in Nat /\ j \in Nat
  BY CutoffBounds
<1>. DEFINE first == FirstN(chosen, k)
            m == IF k < Len(chosen) THEN k ELSE Len(chosen)
<1>3. /\ first \in Seq(Chunks) /\ m \in 0 .. Len(chosen) /\ Len(first) = m /\ m <= k
      /\ first = [i \in 1 .. m |-> chosen[i]]
      /\ FirstN(first, j) = FirstN(chosen, j)
  <2>1. Len(chosen) \in Nat
    BY SeqIs
  <2>2. m <= k
    BY <1>2, <2>1
  <2>3. FirstN(first, j) = FirstN(chosen, j)
    BY <1>2, CutsAgree
  <2>4. /\ first \in Seq(Chunks) /\ m \in 0 .. Len(chosen) /\ Len(first) = m
        /\ first = [i \in 1 .. m |-> chosen[i]]
    BY <1>2, FirstNIs
  <2>. HIDE DEF first, m
  <2>. QED BY <2>2, <2>3, <2>4 DEF first
<1>4. Len(chosen) \in Nat /\ DOMAIN chosen = 1 .. Len(chosen) /\ \A c \in Chunks : c \in Nat
  <2>1. Len(documentOf) \in Nat /\ Chunks = 1 .. Len(documentOf)
    BY <1>1, SeqIs DEF Chunks
  <2>. QED BY <2>1, SeqIs
<1>. HIDE DEF first, m
<1>5. CASE level # "document"
  <2>1. IdsAt(chosen, k) = first /\ IdsAt(chosen, j) = FirstN(first, j)
    BY <1>3, <1>5 DEF IdsAt, first
  <2>2. first \in Seq(Nat) /\ Len(first) <= k
    BY <1>3, <1>4
  <2>3. IsInjective(first)
    <3>1. DOMAIN first = 1 .. m /\ \A i \in 1 .. m : i \in 1 .. Len(chosen) /\ first[i] = chosen[i]
      BY <1>3, <1>4
    <3>. QED BY <1>4, <3>1 DEF IsInjective
  <2>4. Begins(FirstN(first, j), first)
    <3>. DEFINE l == IF j < Len(first) THEN j ELSE Len(first)
    <3>1. l \in 0 .. Len(first) /\ Len(FirstN(first, j)) = l /\ FirstN(first, j) = [i \in 1 .. l |-> first[i]]
      BY <1>2, <1>3, FirstNIs
    <3>2. l <= Len(first)
      BY <1>2, <2>2, SeqIs
    <3>. HIDE DEF l
    <3>. QED BY <3>1, <3>2 DEF Begins
  <2>. QED BY <1>1, <1>2, <2>1, <2>2, <2>3, <2>4 DEF Answer
<1>6. CASE level = "document"
  <2>. DEFINE documents == DocumentsOf(first)
  <2>1. documents \in Seq(Nat) /\ Len(documents) = m /\ DocumentsOf(FirstN(first, j)) = FirstN(documents, j)
    BY <1>1, <1>2, <1>3, DocumentsCut
  <2>2. IdsAt(chosen, k) = Collapse(documents) /\ IdsAt(chosen, j) = Collapse(FirstN(documents, j))
    BY <1>3, <1>6, <2>1 DEF IdsAt, first
  <2>. HIDE DEF documents
  <2>3. Collapse(documents) \in Seq(Nat) /\ IsInjective(Collapse(documents)) /\ Len(Collapse(documents)) <= k
    <3>1. Collapses(Nat, documents, Len(documents), Firsts(documents, Len(documents)),
                    FirstOfEach(documents), Cardinality(Firsts(documents, Len(documents))))
      BY <2>1, FirstsAre
    <3>2. /\ Collapse(documents) \in Seq(Nat) /\ IsInjective(Collapse(documents))
          /\ Len(Collapse(documents)) <= Len(documents) /\ Len(Collapse(documents)) \in Nat
      BY <3>1 DEF Collapses
    <3>. QED BY <1>2, <1>3, <1>4, <2>1, <3>2
  <2>4. Begins(Collapse(FirstN(documents, j)), Collapse(documents))
    BY <1>2, <2>1, CollapseBegins
  <2>. QED BY <1>1, <1>2, <2>2, <2>3, <2>4 DEF Answer
<1>. QED BY <1>5, <1>6

\* Several chunks of one document are no better than its first: see NoCreditForRepeats.
THEOREM NoCreditForRepeatsHolds == PipelineSpec => []NoCreditForRepeats
<1>1. ASSUME QueryIInv PROVE NoCreditForRepeats
  <2>. DEFINE documents == DocumentsOf(ranked)
              first == FirstOfEach(documents)
              Once == [m \in DOMAIN first |-> ranked[first[m]]]
              n == Len(documents)
              c == Cardinality(Firsts(documents, n))
  <2>. SUFFICES ASSUME phase = "done", level = "document", NEW k \in Cutoffs
                PROVE  LET once == Metrics(IdsAt(Once, k), grades, k) IN
                       /\ metrics[k].hits <= once.hits
                       /\ metrics[k].first > 0 => once.first \in 1 .. metrics[k].first
                       /\ metrics[k].ap[1] <= once.ap[1]
                       /\ metrics[k].ndcg[1] <= once.ndcg[1]
    BY DEF NoCreditForRepeats
  <2>1. /\ documentOf \in Seq(Nat) /\ ranked \in Seq(Chunks) /\ IsInjective(ranked)
        /\ metrics[k] = Metrics(IdsAt(ranked, k), grades, k)
    BY <1>1, Evaluated
  <2>2. k \in Nat /\ k <= k
    BY CutoffBounds
  <2>3. /\ documents \in Seq(Nat) /\ n = Len(ranked) /\ n \in Nat
        /\ DocumentsOf(FirstN(ranked, k)) = FirstN(documents, k)
    BY <2>1, <2>2, DocumentsCut, SeqIs
  <2>4. Collapses(Nat, documents, n, Firsts(documents, n), first, c)
    BY <2>3, FirstsAre
  <2>5. DOMAIN ranked = 1 .. n /\ \A i \in 1 .. n : ranked[i] \in Chunks /\ documents[i] = documentOf[ranked[i]]
    BY <2>1, <2>3, SeqIs DEF DocumentsOf
  <2>. HIDE DEF documents, first, n, c
  <2>6. /\ c \in Nat /\ first \in [1 .. c -> 1 .. n] /\ DOMAIN first = 1 .. c
        /\ \A l, m \in 1 .. c : documents[first[l]] = documents[first[m]] => l = m
        /\ Collapse(documents) = [m \in 1 .. c |-> documents[first[m]]]
        /\ Collapse(documents) \in Seq(Nat) /\ IsInjective(Collapse(documents))
    BY <2>4 DEF Collapses
  <2>7. Once \in Seq(Chunks)
    <3>1. Once \in [1 .. c -> Chunks]
      BY <2>5, <2>6
    <3>. HIDE DEF Once
    <3>. QED BY <2>6, <3>1
  <2>8. DOMAIN Once = 1 .. c /\ \A m \in 1 .. c : Once[m] = ranked[first[m]] /\ first[m] \in 1 .. n
    BY <2>6
  <2>. HIDE DEF Once
  <2>9. IsInjective(Once)
    <3>. SUFFICES ASSUME NEW l \in 1 .. c, NEW m \in 1 .. c, Once[l] = Once[m] PROVE l = m
      BY <2>8 DEF IsInjective
    <3>1. first[l] = first[m]
      BY <2>1, <2>5, <2>8 DEF IsInjective
    <3>. QED BY <2>6, <3>1
  <2>10. DocumentsOf(Once) = Collapse(documents)
    BY <2>5, <2>6, <2>8 DEF DocumentsOf
  <2>. DEFINE all == Collapse(documents)
              long == FirstN(all, k)
              short == Collapse(FirstN(documents, k))
              l == IF k < Len(all) THEN k ELSE Len(all)
  <2>11. IdsAt(ranked, k) = short
    BY <2>3 DEF IdsAt
  <2>12. IdsAt(Once, k) = Collapse(long)
    <3>1. DocumentsOf(FirstN(Once, k)) = FirstN(DocumentsOf(Once), k)
      BY <2>1, <2>2, <2>7, DocumentsCut
    <3>. QED BY <2>10, <3>1 DEF IdsAt
  <2>. HIDE DEF all, short
  <2>13. /\ all \in Seq(Nat) /\ IsInjective(all) /\ Len(all) \in Nat /\ DOMAIN all = 1 .. Len(all)
    BY <2>6, SeqIs DEF all
  <2>14. long \in Seq(Nat) /\ Len(long) = l /\ long = [i \in 1 .. l |-> all[i]] /\ l \in 0 .. Len(all)
    BY <2>2, <2>13, FirstNIs
  <2>15. Collapse(long) = long
    <3>1. DOMAIN long = 1 .. l /\ \A i \in 1 .. l : i \in 1 .. Len(all) /\ long[i] = all[i]
      BY <2>13, <2>14
    <3>2. IsInjective(long)
      <4>. HIDE DEF long, l
      <4>. QED BY <2>13, <3>1 DEF IsInjective
    <3>. HIDE DEF long
    <3>. QED BY <2>14, <3>2, CollapseDistinct
  <2>16. Begins(short, long)
    <3>1. Begins(short, all) /\ Len(short) <= k
      BY <2>2, <2>3, CollapseBegins DEF short, all
    <3>2. Len(short) \in Nat
      <4>1. FirstN(documents, k) \in Seq(Nat)
        BY <2>2, <2>3, FirstNIs
      <4>. DEFINE cut == FirstN(documents, k)
      <4>. HIDE DEF cut
      <4>2. Collapses(Nat, cut, Len(cut), Firsts(cut, Len(cut)),
                      FirstOfEach(cut), Cardinality(Firsts(cut, Len(cut))))
        BY <4>1, FirstsAre DEF cut
      <4>3. Collapse(cut) \in Seq(Nat)
        BY <4>2 DEF Collapses
      <4>. QED BY <4>3, SeqIs DEF cut, short
    <3>3. Len(short) <= l
      BY <2>2, <2>13, <3>1, <3>2 DEF Begins
    <3>4. \A i \in 1 .. Len(short) : i \in 1 .. l /\ short[i] = all[i]
      <4>1. l \in Nat
        BY <2>2, <2>13
      <4>. HIDE DEF l
      <4>. QED BY <3>1, <3>2, <3>3, <4>1 DEF Begins
    <3>. HIDE DEF long, l
    <3>. QED BY <2>14, <3>3, <3>4 DEF Begins
  <2>. HIDE DEF long
  <2>17. Answer(short, grades, k) /\ Answer(long, grades, k)
    <3>1. Answer(IdsAt(ranked, k), grades, k)
      BY <1>1, <2>1, <2>2, CutAnswers
    <3>2. Answer(IdsAt(Once, k), grades, k)
      BY <1>1, <2>2, <2>7, <2>9, CutAnswers
    <3>. QED BY <2>11, <2>12, <2>15, <3>1, <3>2
  <2>18. /\ HitsTo(short, grades, Len(short)) <= HitsTo(long, grades, Len(long))
         /\ FirstHit(short, grades) \in Nat
         /\ FirstHit(short, grades) > 0 => FirstHit(long, grades) = FirstHit(short, grades)
         /\ PrecisionSum(short, grades) <= PrecisionSum(long, grades)
         /\ Discounted(GradesAt(short, grades)) <= Discounted(GradesAt(long, grades))
    BY <2>16, <2>17, LongerIsNoWorse
  <2>19. metrics[k] = Metrics(short, grades, k) /\ Metrics(IdsAt(Once, k), grades, k) = Metrics(long, grades, k)
    BY <2>1, <2>11, <2>12, <2>15
  <2>. QED BY <2>18, <2>19 DEF Metrics
<1>. QED BY <1>1, QueryInvariance, PTL

----------------------------------------------------------------------------
(* The greatest values that metrics reach, and which rankings reach them.  *)

\* As many relevant identifiers as fit into k ranks: no ranking has more hits.
LEMMA MostHits ==
    ASSUME NEW ids, NEW g, NEW k, Answer(ids, g, k)
    PROVE  LET most == Min({k, Cardinality(DOMAIN g)}) IN
           /\ Cardinality(DOMAIN g) \in Nat \ {0}
           /\ most \in Nat \ {0} /\ most <= k /\ most <= Cardinality(DOMAIN g)
           /\ most = k \/ most = Cardinality(DOMAIN g)
           /\ BestHits(g, k) = most
           /\ HitsTo(ids, g, Len(ids)) <= most
<1>. DEFINE c == Cardinality(DOMAIN g)
            most == Min({k, c})
            n == Len(ids)
            H == Hits(ids, g, n)
<1>1. k \in Nat \ {0} /\ IsFiniteSet(DOMAIN g) /\ DOMAIN g # {} /\ IsInjective(ids)
  BY DEF Answer
<1>2. c \in Nat \ {0}
  BY <1>1, FS_CardinalityType, FS_EmptySet
<1>3. n \in Nat /\ n <= k /\ H \in SUBSET (1 .. n) /\ IsFiniteSet(H) /\ DOMAIN ids = 1 .. n
  BY MetricParts
<1>. HIDE DEF c, n, H
<1>4. /\ most \in {k, c} /\ most <= k /\ most <= c
  <2>1. \E x \in {k, c} : \A y \in {k, c} : x <= y
    <3>1. k <= c \/ c <= k
      BY <1>1, <1>2
    <3>. QED BY <1>1, <1>2, <3>1
  <2>. QED BY <2>1 DEF Min
<1>5. BestHits(g, k) = most
  <2>. HIDE DEF most
  <2>. QED BY <1>1, <1>2, <1>4 DEF BestHits, c
<1>6. HitsTo(ids, g, n) = Cardinality(H) /\ HitsTo(ids, g, n) \in Nat /\ HitsTo(ids, g, n) <= n
  BY <1>3, HitsAre DEF H
<1>7. Cardinality(H) <= c
  <2>. DEFINE h == [i \in H |-> ids[i]]
  <2>1. h \in [H -> DOMAIN g] /\ \A i, j \in H : h[i] = h[j] => i = j
    BY <1>1, <1>3 DEF H, Hits, IsInjective
  <2>. HIDE DEF h
  <2>2. h \in Injection(H, DOMAIN g)
    BY <2>1, Fun_IsInj
  <2>. QED BY <1>1, <2>2, FS_Injection DEF c
<1>. HIDE DEF most
<1>8. HitsTo(ids, g, n) <= most
  BY <1>1, <1>2, <1>3, <1>4, <1>6, <1>7
<1>. QED BY <1>1, <1>2, <1>4, <1>5, <1>8 DEF c, most, n

\* A ranking starts with as many relevant identifiers as fit.
StartsRelevant(ids, g, most) == Len(ids) >= most /\ \A i \in 1 .. most : ids[i] \in DOMAIN g

\* The metrics are zero together, and average precision is at most one, which it
\* is if all relevant identifiers that fit come first.
LEMMA PrecisionAgrees ==
    ASSUME NEW ids, NEW g, NEW k, Answer(ids, g, k), NEW most, most = Min({k, Cardinality(DOMAIN g)})
    PROVE  LET hits == HitsTo(ids, g, Len(ids)) IN
           /\ hits = 0 <=> FirstHit(ids, g) = 0
           /\ hits = 0 <=> PrecisionSum(ids, g) = 0
           /\ hits = 0 <=> Discounted(GradesAt(ids, g)) = 0
           /\ PrecisionSum(ids, g) <= most * PrecisionUnit
           /\ PrecisionSum(ids, g) = most * PrecisionUnit <=> StartsRelevant(ids, g, most)
<1>. DEFINE n == Len(ids)
            H == Hits(ids, g, n)
            hits == HitsTo(ids, g, n)
            f == [i \in H |-> Precise(ids, g, i)]
            u == [i \in H |-> PrecisionUnit]
            d == [i \in 1 .. n |-> Gained(ids, g, i)]
            PS == PrecisionSum(ids, g)
<1>1. /\ n \in Nat /\ n <= k /\ n <= MaxK /\ DOMAIN ids = 1 .. n
      /\ H \in SUBSET (1 .. n) /\ IsFiniteSet(H)
      /\ H = {} => FirstHit(ids, g) = 0
      /\ H # {} => FirstHit(ids, g) \in H /\ \A h \in H : FirstHit(ids, g) <= h
      /\ PS = SumFunctionOnSet(f, H)
      /\ \A i \in 1 .. n : /\ Precise(ids, g, i) \in Nat
                           /\ HitsTo(ids, g, i) > 0 => Precise(ids, g, i) > 0
                           /\ Precise(ids, g, i) <= PrecisionUnit
                           /\ HitsTo(ids, g, i) < i => Precise(ids, g, i) < PrecisionUnit
                           /\ HitsTo(ids, g, i) = i => Precise(ids, g, i) = PrecisionUnit
      /\ Discounted(GradesAt(ids, g)) = SumFunctionOnSet(d, 1 .. n)
      /\ \A i \in 1 .. n : /\ Gained(ids, g, i) \in Nat
                           /\ Gained(ids, g, i) > 0 <=> i \in H
  BY MetricParts
<1>2. /\ most \in Nat \ {0} /\ hits <= most
  BY MostHits
<1>3. n \in Nat /\ H \in SUBSET (1 .. n) /\ IsFiniteSet(H)
  BY <1>1
<1>4. hits \in Nat /\ hits = Cardinality(H) /\ (hits = 0 <=> H = {})
  BY <1>1, HitsAre
<1>5. PrecisionUnit \in Nat \ {0}
  BY RankingAssumption
<1>6. /\ IsFiniteSet(1 .. n) /\ \A i \in 1 .. n : d[i] \in Nat /\ (d[i] > 0 <=> i \in H)
      /\ \A i \in H : f[i] = Precise(ids, g, i) /\ u[i] = PrecisionUnit
  BY <1>1, FS_Interval
<1>7. \A i \in 1 .. n : (i \in H <=> ids[i] \in DOMAIN g)
  BY DEF Hits
<1>8. ASSUME NEW i \in H PROVE HitsTo(ids, g, i) > 0 /\ HitsTo(ids, g, i) <= i /\ i \in Nat
  <2>1. i \in 1 .. n /\ i \in Nat
    BY <1>1
  <2>2. i \in Hits(ids, g, i)
    <3>1. i \in 1 .. i /\ ids[i] \in DOMAIN g
      BY <1>7, <2>1
    <3>. QED BY <3>1 DEF Hits
  <2>3. HitsTo(ids, g, i) \in Nat /\ HitsTo(ids, g, i) <= i /\ HitsTo(ids, g, i) # 0
    BY <2>1, <2>2, HitsAre
  <2>. QED BY <2>1, <2>3
<1>. HIDE DEF n, H, hits, f, u, d, PS
<1>9. hits = 0 <=> FirstHit(ids, g) = 0
  <2>1. \A h \in H : h # 0
    BY <1>1
  <2>. QED BY <1>1, <1>4, <2>1
<1>10. PS \in Nat /\ (PS = 0 <=> hits = 0)
  <2>1. \A i \in H : f[i] \in Nat /\ f[i] # 0
    <3>. SUFFICES ASSUME NEW i \in H PROVE f[i] \in Nat /\ f[i] # 0
      OBVIOUS
    <3>1. i \in 1 .. n
      BY <1>1
    <3>. QED BY <1>1, <1>6, <1>8, <3>1
  <2>2. SumFunctionOnSet(f, H) \in Nat /\ (SumFunctionOnSet(f, H) = 0 <=> \A i \in H : f[i] = 0)
    BY <1>1, <2>1, SumIsNat
  <2>. QED BY <1>1, <1>4, <2>1, <2>2
<1>11. hits = 0 <=> Discounted(GradesAt(ids, g)) = 0
  <2>. DEFINE N == 1 .. n
  <2>1. \A i \in N : d[i] \in Nat /\ (d[i] > 0 <=> i \in H)
    BY <1>6
  <2>2. IsFiniteSet(N) /\ H \in SUBSET N
    BY <1>1, <1>6
  <2>. HIDE DEF N
  <2>3. SumFunctionOnSet(d, N) = 0 <=> \A i \in N : d[i] = 0
    BY <2>1, <2>2, SumIsNat
  <2>4. (\A i \in N : d[i] = 0) <=> H = {}
    <3>1. \A i \in N : (d[i] = 0 <=> i \notin H)
      BY <2>1
    <3>. QED BY <2>2, <3>1
  <2>. QED BY <1>1, <1>4, <2>3, <2>4 DEF N
<1>12. SumFunctionOnSet(u, H) = hits * PrecisionUnit
  <2>1. SumFunctionOnSet([x \in H |-> PrecisionUnit], H) = Cardinality(H) * PrecisionUnit
    <3>1. PrecisionUnit \in Int
      BY <1>5
    <3>. QED BY <1>1, <3>1, SumOfConstant
  <2>. QED BY <1>4, <2>1 DEF u
<1>13. /\ PS <= hits * PrecisionUnit
       /\ PS = hits * PrecisionUnit => \A i \in H : HitsTo(ids, g, i) = i
       /\ (\A i \in H : HitsTo(ids, g, i) = i) => PS = hits * PrecisionUnit
  <2>1. \A i \in H : i \in 1 .. n
    BY <1>1
  <2>2. \A i \in H : f[i] \in Int /\ u[i] \in Int /\ f[i] <= u[i]
    BY <1>1, <1>5, <1>6, <2>1
  <2>3. /\ SumFunctionOnSet(f, H) <= SumFunctionOnSet(u, H)
        /\ SumFunctionOnSet(f, H) = SumFunctionOnSet(u, H) => \A i \in H : f[i] = u[i]
    <3>1. IsFiniteSet(H)
      BY <1>3
    <3>. QED BY ONLY <3>1, <2>2, SumCompares
  <2>4. ASSUME NEW i \in H, f[i] = u[i] PROVE HitsTo(ids, g, i) = i
    <3>1. i \in 1 .. n /\ ~ Precise(ids, g, i) < PrecisionUnit
      BY <1>5, <1>6, <2>1, <2>4
    <3>2. HitsTo(ids, g, i) \in Nat
      BY <1>8, HitsAre
    <3>. QED BY <1>1, <1>8, <3>1, <3>2
  <2>5. ASSUME \A i \in H : HitsTo(ids, g, i) = i
        PROVE  SumFunctionOnSet(f, H) = SumFunctionOnSet(u, H)
    <3>1. \A i \in H : f[i] \in Int /\ f[i] = u[i]
      BY <1>1, <1>6, <2>1, <2>2, <2>5
    <3>. QED BY <1>1, <3>1, SumSame
  <2>. QED BY <1>1, <1>12, <2>3, <2>4, <2>5
<1>14. hits * PrecisionUnit <= most * PrecisionUnit /\ (hits # most => hits * PrecisionUnit # most * PrecisionUnit)
  <2>1. PICK e \in Nat : most = hits + e
    <3>1. most - hits \in Nat /\ most = hits + (most - hits)
      BY <1>2, <1>4
    <3>. QED BY <3>1
  <2>2. most * PrecisionUnit = hits * PrecisionUnit + e * PrecisionUnit
    BY <1>4, <1>5, <2>1
  <2>3. e * PrecisionUnit \in Nat /\ (e # 0 => e * PrecisionUnit # 0) /\ hits * PrecisionUnit \in Nat
    BY <1>4, <1>5, <2>1
  <2>4. hits # most => e # 0
    BY <1>4, <2>1
  <2>. QED BY <2>2, <2>3, <2>4
<1>15. hits * PrecisionUnit \in Nat /\ most * PrecisionUnit \in Nat
  BY <1>2, <1>4, <1>5
<1>16. PS <= most * PrecisionUnit
  BY <1>10, <1>13, <1>14, <1>15
<1>17. ASSUME PS = most * PrecisionUnit PROVE StartsRelevant(ids, g, most)
  <2>1. hits = most
    BY <1>10, <1>13, <1>14, <1>15, <1>17
  <2>2. \A i \in H : HitsTo(ids, g, i) = i
    BY <1>13, <1>17, <2>1
  <2>3. H \in SUBSET Nat /\ H # {}
    BY <1>1, <1>2, <1>4, <2>1
  <2>. DEFINE last == Max(H)
  <2>4. last \in H /\ \A i \in H : i <= last
    BY <1>1, <2>3, Greatest
  <2>. HIDE DEF last
  <2>5. last \in 1 .. n /\ last \in Nat
    BY <1>1, <2>4
  <2>6. Hits(ids, g, last) = 1 .. last
    BY <2>2, <2>4, <2>5, HitsAre
  <2>7. H = 1 .. last
    <3>1. \A i \in 1 .. last : i \in 1 .. n /\ ids[i] \in DOMAIN g
      BY <1>1, <2>5, <2>6 DEF Hits
    <3>2. \A i \in H : i \in 1 .. last
      BY <1>1, <2>4, <2>5
    <3>. QED BY <1>7, <3>1, <3>2
  <2>8. Cardinality(H) = last
    BY <2>5, <2>7, FS_Interval
  <2>9. last = most
    BY <1>4, <2>1, <2>8
  <2>10. n >= most /\ \A i \in 1 .. most : ids[i] \in DOMAIN g
    <3>1. \A i \in H : ids[i] \in DOMAIN g
      BY <1>7, <1>3
    <3>2. n >= last
      BY <1>3, <2>5
    <3>. QED BY <2>7, <2>9, <3>1, <3>2
  <2>. QED BY <2>10 DEF StartsRelevant, n
<1>18. ASSUME StartsRelevant(ids, g, most) PROVE PS = most * PrecisionUnit
  <2>1. most <= n /\ \A i \in 1 .. most : ids[i] \in DOMAIN g
    BY <1>1, <1>2, <1>18 DEF StartsRelevant, n
  <2>2. \A i \in 1 .. most : i \in H
    <3>1. \A i \in 1 .. most : i \in 1 .. n
      BY <1>2, <1>3, <2>1
    <3>. QED BY <1>7, <2>1, <3>1
  <2>. DEFINE T == 1 .. most
  <2>3. T \in SUBSET H /\ Cardinality(T) = most
    <3>1. \A x \in Nat : Cardinality(1 .. x) = x
      BY FS_Interval
    <3>2. most \in Nat
      BY <1>2
    <3>. QED BY <2>2, <3>1, <3>2
  <2>4. H = T /\ hits = most
    <3>. HIDE DEF T
    <3>1. Cardinality(T) <= Cardinality(H) /\ (Cardinality(H) = Cardinality(T) => H = T)
      BY <1>1, <2>3, FS_Subset
    <3>. QED BY <1>2, <1>4, <2>3, <3>1
  <2>5. ASSUME NEW i \in H PROVE HitsTo(ids, g, i) = i
    <3>1. i \in Nat /\ i <= most
      BY <1>2, <2>4
    <3>2. Hits(ids, g, i) = 1 .. i
      <4>1. \A j \in 1 .. i : j \in 1 .. most
        BY <1>2, <3>1
      <4>. QED BY <2>1, <4>1 DEF Hits
    <3>3. Cardinality(1 .. i) = i
      BY <3>1, FS_Interval
    <3>. QED BY <3>1, <3>2, <3>3, HitsAre
  <2>. QED BY <1>13, <2>4, <2>5
<1>. QED BY <1>9, <1>10, <1>11, <1>16, <1>17, <1>18 DEF hits, n, PS

\* The sum of the first elements of a sequence of numbers.
SumTo(f, m) == SumFunctionOnSet(f, 1 .. m)

\* Such a sum grows by the next element.
LEMMA SumToAdds ==
    ASSUME NEW n \in Nat, NEW f, \A i \in 1 .. n : f[i] \in Int
    PROVE  /\ SumTo(f, 0) = 0
           /\ \A m \in 0 .. n : SumTo(f, m) \in Int
           /\ \A m \in 0 .. n - 1 : SumTo(f, m + 1) = SumTo(f, m) + f[m + 1]
<1>1. SumTo(f, 0) = 0
  <2>1. 1 .. 0 = {}
    OBVIOUS
  <2>. QED BY <2>1, SumOfNone DEF SumTo
<1>2. ASSUME NEW m \in 0 .. n PROVE IsFiniteSet(1 .. m) /\ SumTo(f, m) \in Int
  <2>. DEFINE M == 1 .. m
  <2>1. IsFiniteSet(M) /\ \A i \in M : f[i] \in Int
    BY FS_Interval
  <2>. HIDE DEF M
  <2>2. SumFunctionOnSet(f, M) \in Int
    BY <2>1, SumIsInt
  <2>. QED BY <2>1, <2>2 DEF SumTo, M
<1>3. ASSUME NEW m \in 0 .. n - 1 PROVE SumTo(f, m + 1) = SumTo(f, m) + f[m + 1]
  <2>. DEFINE M == 1 .. m + 1
  <2>1. m + 1 \in M /\ M \ {m + 1} = 1 .. m /\ m + 1 \in 0 .. n
    OBVIOUS
  <2>2. IsFiniteSet(M) /\ \A i \in M : f[i] \in Int
    BY <1>2, <2>1
  <2>3. SumTo(f, m) \in Int /\ f[m + 1] \in Int
    BY <1>2, <2>1, <2>2
  <2>. HIDE DEF M
  <2>4. SumFunctionOnSet(f, M) = f[m + 1] + SumFunctionOnSet(f, M \ {m + 1})
    BY <2>1, <2>2, SumOfAny
  <2>5. SumTo(f, m + 1) = f[m + 1] + SumTo(f, m)
    BY <2>1, <2>4 DEF SumTo, M
  <2>. QED BY <2>3, <2>5
<1>. QED BY <1>1, <1>2, <1>3

\* What is behind at every rank, and catches up, is not ahead once ranks are discounted:
\* if no sum of the first differences is negative, nor is that of the discounted ones,
\* which is zero only if there is no difference.
LEMMA DiscountsKeepOrder ==
    ASSUME NEW n \in Nat, NEW D, \A i \in 1 .. n : D[i] \in Nat \ {0},
           \A i, j \in 1 .. n : i < j => D[i] > D[j],
           NEW e, \A i \in 1 .. n : e[i] \in Int, \A m \in 0 .. n : SumTo(e, m) >= 0,
           NEW f, \A i \in 1 .. n : f[i] = e[i] * D[i]
    PROVE  /\ SumTo(f, n) >= 0
           /\ SumTo(f, n) = 0 => \A i \in 1 .. n : e[i] = 0
<1>. DEFINE E(m) == SumTo(e, m)
            F(m) == SumTo(f, m)
            Behind(m) == \E l \in 1 .. m - 1 : E(l) # 0
            Good(m) == F(m) >= E(m) * D[m] /\ (Behind(m) => F(m) > E(m) * D[m])
<1>1. \A i \in 1 .. n : f[i] \in Int
  <2>1. \A x, y \in Int : x * y \in Int
    OBVIOUS
  <2>. QED BY <2>1
<1>2. /\ E(0) = 0 /\ \A m \in 0 .. n : E(m) \in Nat
      /\ \A m \in 0 .. n - 1 : E(m + 1) = E(m) + e[m + 1]
  <2>1. /\ E(0) = 0 /\ \A m \in 0 .. n : E(m) \in Int
        /\ \A m \in 0 .. n - 1 : E(m + 1) = E(m) + e[m + 1]
    BY SumToAdds
  <2>. QED BY <2>1
<1>3. /\ F(0) = 0 /\ \A m \in 0 .. n : F(m) \in Int
      /\ \A m \in 0 .. n - 1 : F(m + 1) = F(m) + f[m + 1]
  BY <1>1, SumToAdds
<1>. HIDE DEF E, F
<1>4. \A m \in 1 .. n : Good(m)
  <2>. DEFINE Bad == {m \in 1 .. n : ~ Good(m)}
  <2>. SUFFICES ASSUME Bad # {} PROVE FALSE
    OBVIOUS
  <2>1. PICK m \in Bad : \A x \in Bad : m <= x
    <3>1. Bad \in SUBSET Nat
      OBVIOUS
    <3>. HIDE DEF Bad
    <3>. QED BY <3>1, Least
  <2>2. m \in 1 .. n /\ ~ Good(m) /\ m \in Nat
    BY <2>1
  <2>3. \A x \in 1 .. n : x < m => Good(x)
    BY <2>1
  <2>. HIDE DEF Bad, Good
  <2>4. CASE m = 1
    <3>1. E(1) = e[1] /\ F(1) = f[1]
      <4>1. 0 \in 0 .. n - 1 /\ 0 + 1 = 1
        BY <2>2, <2>4
      <4>2. e[1] \in Int /\ f[1] \in Int
        BY <1>1, <2>2, <2>4
      <4>3. E(0 + 1) = E(0) + e[0 + 1] /\ F(0 + 1) = F(0) + f[0 + 1]
        BY <1>2, <1>3, <4>1
      <4>. QED BY <1>2, <1>3, <4>1, <4>2, <4>3
    <3>2. F(1) = E(1) * D[1] /\ F(1) \in Int
      BY <1>1, <2>2, <2>4, <3>1
    <3>3. ~ Behind(1)
      OBVIOUS
    <3>. HIDE DEF Behind
    <3>4. Good(1)
      BY <3>2, <3>3 DEF Good
    <3>. QED BY <2>2, <2>4, <3>4
  <2>5. CASE m # 1
    <3>. DEFINE l == m - 1
                x == E(l)
                d == D[l]
                c == D[m]
                y == e[m]
    <3>1. l \in 1 .. n /\ l \in 0 .. n - 1 /\ l + 1 = m /\ l < m /\ m - 1 = l /\ l \in Nat
      BY <2>2, <2>5
    <3>2. Good(l) /\ d > c /\ d \in Nat /\ c \in Nat /\ x \in Nat /\ y \in Int
      BY <1>2, <2>2, <2>3, <3>1
    <3>3. E(l + 1) = E(l) + e[l + 1] /\ F(l + 1) = F(l) + f[l + 1]
      BY <1>2, <1>3, <3>1
    <3>4. E(m) = x + y /\ F(m) = F(l) + y * c /\ F(l) \in Int /\ E(m) \in Nat
      <4>1. f[m] = y * c
        BY <2>2
      <4>2. F(l) \in Int /\ E(m) \in Nat
        BY <1>2, <1>3, <2>2, <3>1
      <4>. QED BY <3>1, <3>3, <4>1, <4>2
    <3>5. F(l) >= x * d /\ (Behind(l) => F(l) > x * d)
      BY <3>2 DEF Good
    <3>6. Behind(m) => Behind(l) \/ x # 0
      <4>. SUFFICES ASSUME NEW i \in 1 .. m - 1, E(i) # 0 PROVE Behind(l) \/ x # 0
        OBVIOUS
      <4>1. i = l \/ i \in 1 .. l - 1
        BY <3>1
      <4>. QED BY <4>1
    <3>. HIDE DEF l, x, c, d, y, Behind
    <3>7. PICK a \in Nat : d = c + a /\ a # 0
      <4>1. d - c \in Nat /\ d = c + (d - c) /\ d - c # 0
        BY <3>2
      <4>. QED BY <4>1
    <3>8. x * d = x * c + x * a
      BY <3>2, <3>7
    <3>9. x * a \in Nat /\ (x # 0 => x * a # 0) /\ x * c \in Int /\ y * c \in Int
      BY <3>2, <3>7
    <3>10. E(m) * c = x * c + y * c
      <4>1. (x + y) * c = x * c + y * c
        BY <3>2
      <4>. QED BY <3>4, <4>1
    <3>11. F(m) >= E(m) * c /\ (Behind(m) => F(m) > E(m) * c)
      BY <3>4, <3>5, <3>6, <3>8, <3>9, <3>10
    <3>12. Good(m)
      BY <3>11 DEF Good, c
    <3>. QED BY <2>2, <3>12
  <2>. QED BY <2>4, <2>5
<1>5. CASE n = 0
  BY <1>3, <1>5 DEF F
<1>6. CASE n # 0
  <2>1. n \in 1 .. n /\ n \in 0 .. n
    BY <1>6
  <2>2. Good(n) /\ D[n] \in Nat \ {0} /\ E(n) \in Nat /\ F(n) \in Int
    BY <1>2, <1>3, <1>4, <2>1
  <2>3. E(n) * D[n] \in Nat /\ (E(n) # 0 => E(n) * D[n] # 0)
    <3>1. \A x \in Nat, y \in Nat \ {0} : x * y \in Nat /\ (x # 0 => x * y # 0)
      OBVIOUS
    <3>. QED BY <2>2, <3>1
  <2>4. F(n) >= E(n) * D[n] /\ (Behind(n) => F(n) > E(n) * D[n])
    BY <2>2
  <2>5. F(n) >= 0
    BY <2>2, <2>3, <2>4
  <2>6. ASSUME F(n) = 0, NEW i \in 1 .. n PROVE e[i] = 0
    <3>1. E(n) = 0 /\ ~ Behind(n)
      <4>. HIDE DEF Behind
      <4>. QED BY <2>2, <2>3, <2>4, <2>6
    <3>2. \A l \in 0 .. n : E(l) = 0
      <4>. SUFFICES ASSUME NEW l \in 0 .. n PROVE E(l) = 0
        OBVIOUS
      <4>1. l = 0 \/ l = n \/ l \in 1 .. n - 1
        OBVIOUS
      <4>. QED BY <1>2, <3>1, <4>1
    <3>3. i - 1 \in 0 .. n - 1 /\ (i - 1) + 1 = i /\ i - 1 \in 0 .. n /\ i \in 0 .. n
      OBVIOUS
    <3>4. E((i - 1) + 1) = E(i - 1) + e[(i - 1) + 1]
      BY <1>2, <3>3
    <3>5. E(i) = 0 /\ E(i - 1) = 0 /\ e[i] \in Int
      BY <3>2, <3>3
    <3>. QED BY <3>3, <3>4, <3>5
  <2>. QED BY <2>5, <2>6 DEF F
<1>. QED BY <1>5, <1>6

\* A sum is at most that of a set which its terms are found in.
LEMMA SumEmbedded ==
    ASSUME NEW M, IsFiniteSet(M), NEW f, \A i \in M : f[i] \in Nat,
           NEW X, IsFiniteSet(X), NEW q, \A x \in X : q[x] \in Nat,
           NEW G \in SUBSET M, \A i \in M \ G : f[i] = 0,
           NEW r, \A i \in G : r[i] \in X /\ f[i] = q[r[i]],
           \A i, j \in G : r[i] = r[j] => i = j
    PROVE  SumFunctionOnSet(f, M) <= SumFunctionOnSet(q, X)
<1>. DEFINE Y == {r[i] : i \in G}
            p == [i \in G |-> r[i]]
<1>1. SumFunctionOnSet(f, M) = SumFunctionOnSet(f, G)
  <2>1. \A i \in M : f[i] \in Int
    OBVIOUS
  <2>. QED BY <2>1, SumOfPart
<1>2. p \in [G -> Y]
  OBVIOUS
<1>3. \A i, j \in G : p[i] = p[j] => i = j
  OBVIOUS
<1>4. \A y \in Y : \E i \in G : p[i] = y
  OBVIOUS
<1>5. Y \in SUBSET X /\ \A y \in Y : q[y] \in Int
  OBVIOUS
<1>6. \A i \in G : f[i] = q[p[i]]
  OBVIOUS
<1>7. IsFiniteSet(G)
  BY FS_Subset
<1>. HIDE DEF p, Y
<1>8. SumFunctionOnSet(f, G) = SumFunctionOnSet(q, Y)
  BY <1>2, <1>3, <1>4, <1>5, <1>6, <1>7, SumRenamed
<1>9. SumFunctionOnSet(q, Y) <= SumFunctionOnSet(q, X)
  BY <1>5, SumOfFewer
<1>. QED BY <1>1, <1>8, <1>9

\* A sum is at least that of a set which its terms are all that counts of.
LEMMA SumCovers ==
    ASSUME NEW M, IsFiniteSet(M), NEW C, IsFiniteSet(C),
           NEW f, \A i \in M \cup C : f[i] \in Nat, \A i \in C \ M : f[i] = 0,
           NEW X, NEW q, \A x \in X : q[x] \in Nat,
           NEW h \in [C -> X], \A i \in C : f[i] = q[h[i]],
           \A i, j \in C : h[i] = h[j] => i = j, \A x \in X : \E i \in C : h[i] = x
    PROVE  SumFunctionOnSet(q, X) <= SumFunctionOnSet(f, M)
<1>. DEFINE U == M \cup C
<1>1. IsFiniteSet(U) /\ M \in SUBSET U /\ C \in SUBSET U
  BY FS_Union
<1>2. \A i \in U : f[i] \in Nat /\ f[i] \in Int
  OBVIOUS
<1>3. \A i \in U \ M : f[i] = 0
  OBVIOUS
<1>4. SumFunctionOnSet(f, C) = SumFunctionOnSet(q, X)
  <2>1. \A x \in X : q[x] \in Int
    OBVIOUS
  <2>. HIDE DEF U
  <2>. QED BY <2>1, SumRenamed
<1>. HIDE DEF U
<1>5. SumFunctionOnSet(f, C) <= SumFunctionOnSet(f, U)
  BY <1>1, <1>2, SumOfFewer
<1>6. SumFunctionOnSet(f, U) = SumFunctionOnSet(f, M)
  BY <1>1, <1>2, <1>3, SumOfPart
<1>. QED BY <1>4, <1>5, <1>6

\* What is above a common threshold decides.
LEMMA SumAbove ==
    ASSUME NEW M, IsFiniteSet(M), NEW t \in Nat,
           NEW a, NEW b, \A i \in M : a[i] \in Int /\ b[i] \in Int /\ a[i] <= t + b[i],
           NEW w, NEW v, \A i \in M : w[i] \in Int /\ v[i] \in Int /\ w[i] = t + v[i],
           SumFunctionOnSet(b, M) <= SumFunctionOnSet(v, M)
    PROVE  SumFunctionOnSet(a, M) <= SumFunctionOnSet(w, M)
<1>. DEFINE base == [i \in M |-> t]
            both == [i \in M |-> t + b[i]]
            A == SumFunctionOnSet(a, M)
            B == SumFunctionOnSet(b, M)
            V == SumFunctionOnSet(v, M)
            W == SumFunctionOnSet(w, M)
            L == SumFunctionOnSet(base, M)
            T == SumFunctionOnSet(both, M)
<1>1. \A i \in M : base[i] = t /\ base[i] \in Int /\ both[i] = base[i] + b[i] /\ both[i] \in Int
  OBVIOUS
<1>2. \A i \in M : a[i] <= both[i]
  OBVIOUS
<1>. HIDE DEF base, both
<1>3. A <= T
  BY <1>1, <1>2, SumCompares
<1>4. T = L + B
  BY <1>1, SumOfBoth
<1>5. W = L + V
  <2>1. \A i \in M : base[i] \in Int /\ v[i] \in Int /\ w[i] = base[i] + v[i]
    BY <1>1
  <2>. QED BY <2>1, SumOfBoth
<1>6. A \in Int /\ B \in Int
  <2>1. \A i \in M : a[i] \in Int
    OBVIOUS
  <2>2. \A i \in M : b[i] \in Int
    OBVIOUS
  <2>. QED BY <2>1, <2>2, SumIsInt
<1>7. V \in Int /\ L \in Int
  <2>1. \A i \in M : v[i] \in Int
    OBVIOUS
  <2>2. \A i \in M : base[i] \in Int
    BY <1>1
  <2>. QED BY <2>1, <2>2, SumIsInt
<1>8. B <= V
  OBVIOUS
<1>. HIDE DEF A, B, V, W, L, T
<1>9. A <= W
  BY <1>3, <1>4, <1>5, <1>6, <1>7, <1>8
<1>. QED BY <1>9 DEF A, W

\* What x is above t, if it is.
Excess(x, t) == IF x > t THEN x - t ELSE 0

\* h names the c elements of X, those with the greatest gain q first; r puts
\* distinct elements of X at the ranks H.
Descends(h, c, X, q) ==
    /\ h \in [1 .. c -> X]
    /\ \A i, j \in 1 .. c : h[i] = h[j] => i = j
    /\ \A x \in X : \E i \in 1 .. c : h[i] = x
    /\ \A i, j \in 1 .. c : i < j => q[h[i]] >= q[h[j]]
Distributes(r, H, X) ==
    /\ H \in SUBSET (Nat \ {0})
    /\ \A i \in H : r[i] \in X
    /\ \A i, j \in H : r[i] = r[j] => i = j

\* What is gained at each rank.
GainsBy(a, r, H, q) == \A i \in Nat \ {0} : a[i] = IF i \in H THEN q[r[i]] ELSE 0

\* At each rank m, no distribution has gained more than that of the greatest first.
LEMMA GreatestFirst ==
    ASSUME NEW X, IsFiniteSet(X), NEW q, \A x \in X : q[x] \in Nat,
           NEW c \in Nat, NEW h, Descends(h, c, X, q),
           NEW H, NEW r, Distributes(r, H, X),
           NEW a, GainsBy(a, r, H, q), NEW w, GainsBy(w, h, 1 .. c, q), NEW m \in Nat
    PROVE  SumTo(a, m) <= SumTo(w, m)
<1>1. CASE m = 0
  <2>1. SumTo(a, 0) = 0 /\ SumTo(w, 0) = 0
    <3>1. 1 .. 0 = {}
      OBVIOUS
    <3>. QED BY <3>1, SumOfNone DEF SumTo
  <2>. QED BY <1>1, <2>1
<1>2. CASE m # 0
  <2>. DEFINE M == 1 .. m
              C == 1 .. c
              Ranks == Nat \ {0}
              t == w[m]
              b == [i \in Ranks |-> Excess(a[i], t)]
              v == [i \in Ranks |-> Excess(w[i], t)]
              u == [x \in X |-> Excess(q[x], t)]
              G == M \cap H
  <2>1. /\ h \in [C -> X]
        /\ \A i, j \in C : h[i] = h[j] => i = j
        /\ \A x \in X : \E i \in C : h[i] = x
        /\ \A i, j \in C : i < j => q[h[i]] >= q[h[j]]
    BY DEF Descends
  <2>2. H \in SUBSET Ranks /\ (\A i \in H : r[i] \in X) /\ \A i, j \in H : r[i] = r[j] => i = j
    BY DEF Distributes
  <2>3. M \in SUBSET Ranks /\ C \in SUBSET Ranks /\ m \in M /\ m \in Nat
    BY <1>2
  <2>4. \A i \in Ranks : (i \in M <=> i <= m) /\ (i \in C <=> i <= c)
    OBVIOUS
  <2>5. IsFiniteSet(M) /\ IsFiniteSet(C)
    BY FS_Interval
  <2>6. \A i \in Ranks : (i \in H => a[i] = q[r[i]]) /\ (i \notin H => a[i] = 0)
    BY DEF GainsBy
  <2>7. \A i \in Ranks : (i \in C => w[i] = q[h[i]]) /\ (i \notin C => w[i] = 0)
    BY DEF GainsBy
  <2>8. \A i \in Ranks : b[i] = Excess(a[i], t) /\ v[i] = Excess(w[i], t)
    OBVIOUS
  <2>9. \A x \in X : u[x] = Excess(q[x], t)
    OBVIOUS
  <2>10. \A i \in Ranks : i \in Nat
    OBVIOUS
  <2>11. t = w[m]
    OBVIOUS
  <2>. HIDE DEF M, C, Ranks, t, b, v, u
  <2>12. \A i \in Ranks : a[i] \in Nat
    BY <2>2, <2>6
  <2>13. \A i \in Ranks : w[i] \in Nat
    BY <2>1, <2>7
  <2>14. t \in Nat
    BY <2>3, <2>11, <2>13
  <2>15. \A x \in Nat : /\ Excess(x, t) \in Nat
                        /\ x <= t + Excess(x, t)
                        /\ x >= t => x = t + Excess(x, t)
                        /\ x <= t => Excess(x, t) = 0
    BY <2>14 DEF Excess
  <2>16. \A i, j \in Ranks : i <= j => w[i] >= w[j]
    <3>. SUFFICES ASSUME NEW i \in Ranks, NEW j \in Ranks, i <= j PROVE w[i] >= w[j]
      OBVIOUS
    <3>1. CASE j \in C
      <4>1. i \in Nat /\ j \in Nat /\ (i = j \/ i < j)
        BY <2>10
      <4>2. i \in C
        <5>1. j <= c
          BY <2>4, <3>1
        <5>2. i <= c
          BY <4>1, <5>1
        <5>. QED BY <2>4, <5>2
      <4>3. w[i] = q[h[i]] /\ w[j] = q[h[j]]
        BY <2>7, <3>1, <4>2
      <4>4. i < j => q[h[i]] >= q[h[j]]
        BY <2>1, <3>1, <4>2
      <4>5. w[i] \in Nat /\ w[j] \in Nat
        BY <2>13
      <4>. QED BY <4>1, <4>3, <4>4, <4>5
    <3>2. CASE j \notin C
      BY <2>7, <2>13, <3>2
    <3>. QED BY <3>1, <3>2
  <2>17. \A i \in Ranks : b[i] \in Nat /\ v[i] \in Nat /\ b[i] \in Int /\ v[i] \in Int
    <3>1. \A x \in Nat : Excess(x, t) \in Nat
      BY <2>15
    <3>2. \A i \in Ranks : Excess(a[i], t) \in Nat /\ Excess(w[i], t) \in Nat
      BY <2>12, <2>13, <3>1
    <3>3. \A i \in Ranks : b[i] \in Nat /\ v[i] \in Nat
      BY <2>8, <3>2
    <3>. QED BY <3>3
  <2>18. \A x \in X : u[x] \in Nat
    BY <2>9, <2>15
  <2>19. SumFunctionOnSet(b, M) <= SumFunctionOnSet(u, X)
    <3>1. \A i \in M : b[i] \in Nat
      BY <2>3, <2>17
    <3>2. G \in SUBSET M /\ \A i, j \in G : r[i] = r[j] => i = j
      BY <2>2
    <3>3. \A i \in M \ G : b[i] = 0
      <4>. SUFFICES ASSUME NEW i \in M, i \notin H PROVE b[i] = 0
        OBVIOUS
      <4>1. a[i] = 0 /\ b[i] = Excess(a[i], t)
        BY <2>3, <2>6, <2>8
      <4>. QED BY <2>14, <2>15, <4>1
    <3>4. \A i \in G : r[i] \in X /\ b[i] = u[r[i]]
      <4>. SUFFICES ASSUME NEW i \in M, i \in H PROVE r[i] \in X /\ b[i] = u[r[i]]
        OBVIOUS
      <4>1. r[i] \in X /\ a[i] = q[r[i]] /\ b[i] = Excess(a[i], t)
        BY <2>2, <2>3, <2>6, <2>8
      <4>. QED BY <2>9, <4>1
    <3>. HIDE DEF G
    <3>. QED BY <2>5, <2>18, <3>1, <3>2, <3>3, <3>4, SumEmbedded
  <2>20. SumFunctionOnSet(u, X) <= SumFunctionOnSet(v, M)
    <3>1. \A i \in M \cup C : v[i] \in Nat
      BY <2>3, <2>17
    <3>2. \A i \in C \ M : v[i] = 0
      <4>. SUFFICES ASSUME NEW i \in C, i \notin M PROVE v[i] = 0
        OBVIOUS
      <4>1. i \in Ranks /\ m \in Ranks /\ m <= i
        BY <2>3, <2>4, <2>10
      <4>2. w[i] <= t /\ v[i] = Excess(w[i], t)
        BY <2>8, <2>11, <2>13, <2>16, <4>1
      <4>. QED BY <2>13, <2>15, <4>1, <4>2
    <3>3. \A i \in C : v[i] = u[h[i]]
      <4>. SUFFICES ASSUME NEW i \in C PROVE v[i] = u[h[i]]
        OBVIOUS
      <4>1. h[i] \in X /\ w[i] = q[h[i]] /\ v[i] = Excess(w[i], t)
        BY <2>1, <2>3, <2>7, <2>8
      <4>. QED BY <2>9, <4>1
    <3>4. h \in [C -> X]
      BY <2>1
    <3>5. \A i, j \in C : h[i] = h[j] => i = j
      BY <2>1
    <3>6. \A x \in X : \E i \in C : h[i] = x
      BY <2>1
    <3>. QED BY ONLY <2>5, <2>18, <3>1, <3>2, <3>3, <3>4, <3>5, <3>6, SumCovers
  <2>21. SumFunctionOnSet(b, M) <= SumFunctionOnSet(v, M)
    <3>1. SumFunctionOnSet(b, M) \in Int
      <4>1. \A i \in M : b[i] \in Int
        BY <2>3, <2>17
      <4>. QED BY <2>5, <4>1, SumIsInt
    <3>2. SumFunctionOnSet(v, M) \in Int
      <4>1. \A i \in M : v[i] \in Int
        BY <2>3, <2>17
      <4>. QED BY <2>5, <4>1, SumIsInt
    <3>3. SumFunctionOnSet(u, X) \in Int
      <4>1. \A x \in X : u[x] \in Int
        BY <2>18
      <4>. QED BY <4>1, SumIsInt
    <3>. QED BY <2>19, <2>20, <3>1, <3>2, <3>3
  <2>22. \A i \in M : a[i] \in Int /\ b[i] \in Int /\ a[i] <= t + b[i]
    <3>. SUFFICES ASSUME NEW i \in M PROVE a[i] \in Int /\ b[i] \in Int /\ a[i] <= t + b[i]
      OBVIOUS
    <3>1. i \in Ranks /\ a[i] \in Nat /\ b[i] = Excess(a[i], t) /\ b[i] \in Int
      BY <2>3, <2>8, <2>12, <2>17
    <3>2. a[i] <= t + Excess(a[i], t)
      BY ONLY <2>15, <3>1
    <3>. QED BY ONLY <3>1, <3>2
  <2>23. \A i \in M : w[i] \in Int /\ v[i] \in Int /\ w[i] = t + v[i]
    <3>. SUFFICES ASSUME NEW i \in M PROVE w[i] \in Int /\ v[i] \in Int /\ w[i] = t + v[i]
      OBVIOUS
    <3>1. i \in Ranks /\ w[i] \in Nat /\ v[i] = Excess(w[i], t) /\ v[i] \in Int
      BY <2>3, <2>8, <2>13, <2>17
    <3>2. w[i] >= t
      BY ONLY <2>3, <2>4, <2>11, <2>16, <3>1
    <3>3. w[i] = t + Excess(w[i], t)
      BY ONLY <2>15, <3>1, <3>2
    <3>. QED BY ONLY <3>1, <3>3
  <2>24. SumFunctionOnSet(a, M) <= SumFunctionOnSet(w, M)
    BY ONLY <2>5, <2>14, <2>21, <2>22, <2>23, SumAbove
  <2>. QED BY <2>24 DEF SumTo, M
<1>. QED BY <1>1, <1>2

\* The ideal ranking has the greatest grades first.
LEMMA IdealIs ==
    ASSUME NEW g, IsFiniteSet(DOMAIN g), \A x \in DOMAIN g : g[x] \in Nat, NEW k \in Nat
    PROVE  \E h : /\ Descends(h, Cardinality(DOMAIN g), DOMAIN g, g)
                  /\ Ideal(g, k) = FirstN([m \in 1 .. Cardinality(DOMAIN g) |-> g[h[m]]], k)
<1>. DEFINE X == DOMAIN g
            c == Cardinality(X)
            S == 1 .. c
            items == SetToSeq(X)
            v == [i \in DOMAIN items |-> g[items[i]]]
            Ahead(j, i) == \/ v[j] > v[i]
                           \/ j < i /\ ~ v[i] > v[j]
            count(i) == Cardinality({j \in S : Ahead(j, i)})
            R == {p \in S \X S : Ahead(p[1], p[2])}
            places == [m \in S |-> CHOOSE i \in S : count(i) = m - 1]
            h == [m \in S |-> items[places[m]]]
<1>1. /\ c \in Nat /\ items \in [S -> X]
      /\ \A i, j \in S : items[i] = items[j] => i = j
      /\ \A x \in X : \E i \in S : items[i] = x
  BY SeqOfSet
<1>2. DOMAIN items = S
  BY <1>1
<1>3. DOMAIN v = S /\ \A i \in S : v[i] = g[items[i]]
  BY <1>2
<1>4. Cardinality(S) = c /\ IsFiniteSet(S)
  BY <1>1, FS_Interval
<1>5. Ideal(g, k) = FirstN([m \in S |-> v[places[m]]], k)
  <2>. DEFINE order == [m \in 1 .. Cardinality(DOMAIN v) |->
                          CHOOSE i \in DOMAIN v :
                              Cardinality({j \in DOMAIN v : \/ v[j] > v[i]
                                                            \/ j < i /\ ~ v[i] > v[j]}) = m - 1]
  <2>1. Ideal(g, k) = FirstN([m \in DOMAIN order |-> v[order[m]]], k)
    BY DEF Ideal, Sorted, InOrder
  <2>. HIDE DEF v
  <2>2. order = places
    BY <1>3, <1>4
  <2>3. DOMAIN places = S
    OBVIOUS
  <2>. HIDE DEF order, places
  <2>. QED BY <2>1, <2>2, <2>3
<1>6. \A i \in S : v[i] \in Nat
  BY <1>1, <1>3
<1>. HIDE DEF v, items
<1>7. \A i, j \in S : <<j, i>> \in R <=> Ahead(j, i)
  OBVIOUS
<1>8. StrictOrder(R, S)
  <2>1. /\ \A i \in S : ~ Ahead(i, i)
        /\ \A i, j \in S : i # j => Ahead(i, j) \/ Ahead(j, i)
        /\ \A i, j, l \in S : Ahead(i, j) /\ Ahead(j, l) => Ahead(i, l)
    <3>1. \A i \in S : i \in Nat
      OBVIOUS
    <3>. HIDE DEF S
    <3>. QED BY <1>6, <3>1
  <2>. HIDE DEF Ahead, R, S
  <2>. QED BY <1>7, <2>1 DEF StrictOrder
<1>9. PlacedBy(places, R, S)
  <2>1. \A i \in S : AheadOf(R, S, i) = count(i)
    <3>1. \A i \in S : {j \in S : <<j, i>> \in R} = {j \in S : Ahead(j, i)}
      BY <1>7
    <3>. QED BY <3>1 DEF AheadOf
  <2>. HIDE DEF R, S, count
  <2>2. \A m \in S : (CHOOSE i \in S : AheadOf(R, S, i) = m - 1) = (CHOOSE i \in S : count(i) = m - 1)
    BY <2>1
  <2>3. [m \in S |-> CHOOSE i \in S : AheadOf(R, S, i) = m - 1] = places
    BY <2>2
  <2>. HIDE DEF places
  <2>. QED BY <2>3 DEF PlacedBy
<1>10. /\ places \in [S -> S]
       /\ \A i \in S : \E m \in S : places[m] = i
       /\ \A l, m \in S : l < m => places[l] # places[m] /\ <<places[l], places[m]>> \in R
  <2>. HIDE DEF R, places
  <2>. QED BY <1>1, <1>8, <1>9, Placed
<1>. HIDE DEF places, R, X
<1>11. \A m \in S : h[m] = items[places[m]] /\ h[m] \in X /\ g[h[m]] = v[places[m]]
  BY <1>1, <1>3, <1>10
<1>12. h \in [S -> X]
  <2>1. \A m \in S : items[places[m]] \in X
    BY <1>11
  <2>. QED BY <2>1
<1>. HIDE DEF h
<1>13. Descends(h, c, X, g)
  <2>1. \A l, m \in S : h[l] = h[m] => l = m
    <3>. SUFFICES ASSUME NEW l \in S, NEW m \in S, h[l] = h[m] PROVE l = m
      OBVIOUS
    <3>1. places[l] = places[m]
      <4>1. places[l] \in S /\ places[m] \in S
        BY <1>10
      <4>2. items[places[l]] = items[places[m]]
        BY <1>11
      <4>3. \A i, j \in S : items[i] = items[j] => i = j
        BY <1>1
      <4>. HIDE DEF S
      <4>. QED BY <4>1, <4>2, <4>3
    <3>2. l \in Nat /\ m \in Nat
      OBVIOUS
    <3>3. ~ l < m /\ ~ m < l
      BY <1>10, <3>1
    <3>. QED BY <3>2, <3>3
  <2>2. \A x \in X : \E m \in S : h[m] = x
    <3>. SUFFICES ASSUME NEW x \in X PROVE \E m \in S : h[m] = x
      OBVIOUS
    <3>1. PICK i \in S : items[i] = x
      BY <1>1
    <3>2. PICK m \in S : places[m] = i
      BY <1>10
    <3>. QED BY <1>11, <3>1, <3>2
  <2>3. \A l, m \in S : l < m => g[h[l]] >= g[h[m]]
    <3>. SUFFICES ASSUME NEW l \in S, NEW m \in S, l < m PROVE g[h[l]] >= g[h[m]]
      OBVIOUS
    <3>1. places[l] \in S /\ places[m] \in S /\ Ahead(places[l], places[m])
      <4>. HIDE DEF Ahead
      <4>. QED BY <1>7, <1>10
    <3>2. v[places[l]] \in Nat /\ v[places[m]] \in Nat
      BY <1>6, <3>1
    <3>. QED BY <1>11, <3>1, <3>2
  <2>. QED BY <1>12, <2>1, <2>2, <2>3 DEF Descends
<1>14. Ideal(g, k) = FirstN([m \in S |-> g[h[m]]], k)
  <2>1. [m \in S |-> v[places[m]]] = [m \in S |-> g[h[m]]]
    BY <1>11
  <2>. QED BY <1>5, <2>1
<1>. QED BY <1>13, <1>14 DEF X

\* No ranking gains more than the ideal one, and as much only if it starts with as
\* many relevant identifiers as fit.
LEMMA IdealIsBest ==
    ASSUME NEW ids, NEW g, NEW k, Answer(ids, g, k), NEW most, most = Min({k, Cardinality(DOMAIN g)})
    PROVE  /\ Discounted(GradesAt(ids, g)) <= Discounted(Ideal(g, k))
           /\ Discounted(GradesAt(ids, g)) = Discounted(Ideal(g, k)) => StartsRelevant(ids, g, most)
<1>. DEFINE n == Len(ids)
            X == DOMAIN g
            c == Cardinality(X)
            q == [x \in X |-> Gain[g[x]]]
            H == Hits(ids, g, n)
            Ranks == Nat \ {0}
            C == 1 .. c
            K == 1 .. k
            a == [i \in Ranks |-> IF i \in H THEN q[ids[i]] ELSE 0]
            A == Discounted(GradesAt(ids, g))
            I == Discounted(Ideal(g, k))
            d == [i \in 1 .. n |-> Gained(ids, g, i)]
<1>1. /\ k \in Nat \ {0} /\ k <= MaxK /\ k \in Nat /\ n <= k /\ IsInjective(ids)
      /\ IsFiniteSet(X) /\ g \in [X -> 1 .. MaxGrade]
  BY DEF Answer
<1>2. /\ n \in Nat /\ DOMAIN ids = 1 .. n /\ H \in SUBSET (1 .. n)
      /\ A = SumFunctionOnSet(d, 1 .. n)
  BY MetricParts
<1>3. c \in Nat /\ most \in Nat \ {0} /\ most <= k /\ most <= c /\ (most = k \/ most = c)
  BY MostHits
<1>4. /\ Gain[0] = 0 /\ MaxGrade \in Nat
      /\ \A x \in 1 .. MaxGrade : Gain[x] \in Nat /\ Gain[x] > 0
      /\ \A x, y \in 1 .. MaxGrade : x >= y => Gain[x] >= Gain[y]
  <2>1. /\ Gain \in [0 .. MaxGrade -> Nat] /\ Gain[0] = 0 /\ MaxGrade \in Nat
        /\ \A x, y \in 0 .. MaxGrade : x < y => Gain[x] < Gain[y]
    BY RankingAssumption
  <2>2. \A x \in 1 .. MaxGrade : x \in 0 .. MaxGrade /\ 0 \in 0 .. MaxGrade /\ 0 < x
    BY <2>1
  <2>3. \A x \in 1 .. MaxGrade : Gain[x] \in Nat /\ Gain[x] > 0
    BY <2>1, <2>2
  <2>4. ASSUME NEW x \in 1 .. MaxGrade, NEW y \in 1 .. MaxGrade, x >= y
        PROVE  Gain[x] >= Gain[y]
    <3>1. x = y \/ y < x
      BY <2>1, <2>4
    <3>2. y < x => Gain[y] < Gain[x]
      BY <2>1, <2>2
    <3>. QED BY <2>3, <3>1, <3>2
  <2>. QED BY <2>1, <2>3, <2>4
<1>5. \A x \in X : g[x] \in 1 .. MaxGrade /\ g[x] \in Nat /\ q[x] = Gain[g[x]] /\ q[x] \in Nat /\ q[x] > 0
  BY <1>1, <1>4
<1>6. PICK h : Descends(h, c, X, g) /\ Ideal(g, k) = FirstN([m \in 1 .. c |-> g[h[m]]], k)
  <2>1. \A x \in DOMAIN g : g[x] \in Nat
    BY <1>5
  <2>. HIDE DEF q, H, a, A, I, d, n
  <2>. QED BY <1>1, <2>1, IdealIs
<1>. DEFINE w == [i \in Ranks |-> IF i \in C THEN q[h[i]] ELSE 0]
<1>7. h \in [C -> X] /\ \A i \in C : h[i] \in X /\ i \in Ranks
  BY <1>6 DEF Descends
<1>8. Descends(h, c, X, q)
  <2>. HIDE DEF q
  <2>1. \A i, j \in 1 .. c : i < j => q[h[i]] >= q[h[j]]
    BY <1>4, <1>5, <1>6 DEF Descends
  <2>. QED BY <1>6, <2>1 DEF Descends
<1>9. H \in SUBSET Ranks /\ \A i \in H : i \in 1 .. n /\ ids[i] \in X
  BY <1>2 DEF Hits
<1>10. Distributes(ids, H, X)
  <2>1. \A i, j \in H : ids[i] = ids[j] => i = j
    BY <1>1, <1>2 DEF IsInjective
  <2>. QED BY <1>9, <2>1 DEF Distributes
<1>11. GainsBy(a, ids, H, q) /\ GainsBy(w, h, 1 .. c, q)
  BY DEF GainsBy
<1>12. \A i \in Ranks : /\ i \in H => a[i] = q[ids[i]]
                        /\ i \notin H => a[i] = 0
                        /\ i \in C => w[i] = q[h[i]]
                        /\ i \notin C => w[i] = 0
  OBVIOUS
<1>13. \A i \in K : i \in Ranks
  OBVIOUS
<1>14. \A i \in 1 .. n : (i \in H <=> ids[i] \in X) /\ d[i] = Gained(ids, g, i) /\ i \in Ranks
  BY DEF Hits
<1>15. 1 .. n \in SUBSET K /\ 1 .. most \in SUBSET K /\ 1 .. most \in SUBSET C
       /\ \A i \in K : i \in C <=> i \in 1 .. most
  <2>. HIDE DEF n, c
  <2>1. 1 .. n \in SUBSET K
    BY <1>1, <1>2
  <2>2. 1 .. most \in SUBSET K
    BY <1>1, <1>3
  <2>3. 1 .. most \in SUBSET C
    BY <1>3
  <2>4. \A i \in K : i \in C <=> i \in 1 .. most
    BY <1>1, <1>3
  <2>. QED BY <2>1, <2>2, <2>3, <2>4
<1>16. IsFiniteSet(K)
  BY <1>1, FS_Interval
<1>17. \A i \in K : Discount[i] \in Nat \ {0}
  <2>1. \A i \in K : i \in 1 .. MaxK
    BY <1>1, CutoffBounds
  <2>. QED BY <2>1, RankingAssumption
<1>18. \A i, j \in K : i < j => Discount[i] > Discount[j]
  <2>1. \A i \in K : i \in 1 .. MaxK
    BY <1>1, CutoffBounds
  <2>. QED BY <2>1, RankingAssumption
<1>19. Ideal(g, k) = [i \in 1 .. most |-> g[h[i]]]
  <2>. DEFINE grade == [m \in 1 .. c |-> g[h[m]]]
  <2>1. grade \in [1 .. c -> Nat]
    BY <1>5, <1>7
  <2>2. grade \in Seq(Nat) /\ Len(grade) = c /\ \A m \in 1 .. c : grade[m] = g[h[m]]
    <3>1. \A m \in 1 .. c : grade[m] = g[h[m]]
      OBVIOUS
    <3>. HIDE DEF grade
    <3>. QED BY <1>3, <2>1, <3>1
  <2>. HIDE DEF grade
  <2>3. FirstN(grade, k) = [i \in 1 .. (IF k < Len(grade) THEN k ELSE Len(grade)) |-> grade[i]]
    <3>1. k \in Nat /\ grade \in Seq(Nat)
      BY <1>1, <2>2
    <3>. QED BY ONLY <3>1, FirstNIs
  <2>4. (IF k < Len(grade) THEN k ELSE Len(grade)) = most
    <3>. HIDE DEF c
    <3>. QED BY <1>1, <1>3, <2>2
  <2>5. [i \in 1 .. most |-> grade[i]] = [i \in 1 .. most |-> g[h[i]]]
    BY <1>3, <2>2
  <2>. QED BY <1>6, <2>3, <2>4, <2>5 DEF grade
<1>20. ASSUME NEW i \in Ranks PROVE a[i] \in Nat /\ w[i] \in Nat
  BY <1>5, <1>7, <1>9, <1>12
<1>. DEFINE e == [i \in K |-> w[i] - a[i]]
            fa == [i \in K |-> a[i] * Discount[i]]
            fw == [i \in K |-> w[i] * Discount[i]]
            f == [i \in K |-> e[i] * Discount[i]]
<1>21. \A m \in Nat : SumTo(a, m) <= SumTo(w, m)
  <2>. HIDE DEF a, w, q, X, c, H
  <2>. QED BY <1>1, <1>3, <1>5, <1>8, <1>10, <1>11, GreatestFirst
<1>22. \A i \in K : /\ e[i] = w[i] - a[i] /\ fa[i] = a[i] * Discount[i]
                    /\ fw[i] = w[i] * Discount[i] /\ f[i] = e[i] * Discount[i]
  OBVIOUS
<1>. HIDE DEF n, X, c, q, H, Ranks, C, a, w, A, I, d, e, fa, fw, f
<1>23. ASSUME NEW i \in K
       PROVE  /\ a[i] \in Int /\ w[i] \in Int /\ e[i] \in Int /\ w[i] = a[i] + e[i]
              /\ fa[i] \in Int /\ fw[i] \in Int /\ f[i] \in Int /\ fw[i] = fa[i] + f[i]
  <2>1. a[i] \in Int /\ w[i] \in Int /\ Discount[i] \in Int
    BY <1>13, <1>17, <1>20
  <2>2. e[i] \in Int /\ w[i] = a[i] + e[i]
    BY <1>22, <2>1
  <2>3. \A x, y, z \in Int : x * z \in Int /\ (x + y) * z = x * z + y * z
    OBVIOUS
  <2>. QED BY <1>22, <2>1, <2>2, <2>3
<1>24. \A m \in 0 .. k : SumTo(e, m) >= 0
  <2>. SUFFICES ASSUME NEW m \in 0 .. k PROVE SumTo(e, m) >= 0
    OBVIOUS
  <2>. DEFINE M == 1 .. m
  <2>1. M \in SUBSET K /\ m \in Nat
    BY <1>1
  <2>2. IsFiniteSet(M)
    BY <2>1, FS_Interval
  <2>3. \A i \in M : a[i] \in Int /\ e[i] \in Int /\ w[i] = a[i] + e[i]
    BY <1>23, <2>1
  <2>4. SumTo(a, m) = SumFunctionOnSet(a, M) /\ SumTo(w, m) = SumFunctionOnSet(w, M)
        /\ SumTo(e, m) = SumFunctionOnSet(e, M)
    BY DEF SumTo
  <2>. HIDE DEF M, K
  <2>5. SumFunctionOnSet(w, M) = SumFunctionOnSet(a, M) + SumFunctionOnSet(e, M)
    BY <2>2, <2>3, SumOfBoth
  <2>6. SumFunctionOnSet(a, M) \in Int
    <3>1. \A i \in M : a[i] \in Int
      BY <2>3
    <3>. QED BY <2>2, <3>1, SumIsInt
  <2>7. SumFunctionOnSet(e, M) \in Int
    <3>1. \A i \in M : e[i] \in Int
      BY <2>3
    <3>. QED BY <2>2, <3>1, SumIsInt
  <2>. QED BY <1>21, <2>1, <2>4, <2>5, <2>6, <2>7
<1>25. SumTo(f, k) >= 0 /\ (SumTo(f, k) = 0 => \A i \in 1 .. k : e[i] = 0)
  <2>1. \A i \in 1 .. k : e[i] \in Int
    BY <1>23
  <2>2. \A i \in 1 .. k : f[i] = e[i] * Discount[i]
    BY <1>22
  <2>3. \A i \in 1 .. k : Discount[i] \in Nat \ {0}
    BY <1>17
  <2>4. \A i, j \in 1 .. k : i < j => Discount[i] > Discount[j]
    BY <1>18
  <2>. QED BY ONLY <1>1, <1>24, <2>1, <2>2, <2>3, <2>4, DiscountsKeepOrder
<1>26. A = SumFunctionOnSet(fa, K)
  <2>. DEFINE N == 1 .. n
  <2>1. N \in SUBSET K
    BY <1>15
  <2>2. \A i \in K \ N : fa[i] = 0
    <3>. SUFFICES ASSUME NEW i \in K, i \notin N PROVE fa[i] = 0
      OBVIOUS
    <3>1. i \in Ranks /\ i \notin H
      BY <1>2, <1>13
    <3>2. a[i] = 0 /\ Discount[i] \in Nat
      BY <1>12, <1>17, <3>1
    <3>. QED BY <1>22, <3>2
  <2>3. \A i \in N : d[i] \in Int /\ d[i] = fa[i]
    <3>. SUFFICES ASSUME NEW i \in N PROVE d[i] \in Int /\ d[i] = fa[i]
      OBVIOUS
    <3>1. i \in K /\ i \in Ranks /\ (i \in H <=> ids[i] \in X)
      BY <1>14, <2>1
    <3>2. a[i] = Gain[IF ids[i] \in DOMAIN g THEN g[ids[i]] ELSE 0]
      <4>1. CASE i \in H
        BY <1>5, <1>12, <3>1, <4>1 DEF X
      <4>2. CASE i \notin H
        BY <1>4, <1>12, <3>1, <4>2 DEF X
      <4>. QED BY <4>1, <4>2
    <3>3. d[i] = a[i] * Discount[i]
      BY <1>14, <3>2 DEF Gained
    <3>. QED BY <1>22, <1>23, <3>1, <3>3
  <2>4. A = SumFunctionOnSet(d, N) /\ IsFiniteSet(N)
    BY <1>2, FS_Interval
  <2>5. \A i \in K : fa[i] \in Int
    BY <1>23
  <2>. HIDE DEF N, K
  <2>6. SumFunctionOnSet(d, N) = SumFunctionOnSet(fa, N)
    BY <2>3, <2>4, SumSame
  <2>7. SumFunctionOnSet(fa, K) = SumFunctionOnSet(fa, N)
    BY <1>16, <2>1, <2>2, <2>5, SumOfPart
  <2>. QED BY <2>4, <2>6, <2>7
<1>27. I = SumFunctionOnSet(fw, K)
  <2>. DEFINE N == 1 .. most
              grade == [i \in N |-> g[h[i]]]
              p == [i \in N |-> Gain[grade[i]] * Discount[i]]
  <2>1. N \in SUBSET K /\ N \in SUBSET C /\ \A i \in K \ N : i \notin C
    BY <1>15
  <2>2. \A i \in K \ N : fw[i] = 0
    <3>. SUFFICES ASSUME NEW i \in K, i \notin N PROVE fw[i] = 0
      OBVIOUS
    <3>1. i \in Ranks /\ i \notin C
      BY <1>13, <2>1
    <3>2. w[i] = 0 /\ Discount[i] \in Nat
      BY <1>12, <1>17, <3>1
    <3>. QED BY <1>22, <3>2
  <2>3. \A i \in N : p[i] = w[i] * Discount[i]
    <3>. SUFFICES ASSUME NEW i \in N PROVE p[i] = w[i] * Discount[i]
      OBVIOUS
    <3>1. i \in C /\ i \in Ranks
      BY <1>7, <2>1
    <3>2. w[i] = Gain[g[h[i]]]
      BY <1>5, <1>7, <1>12, <3>1
    <3>. QED BY <3>2
  <2>4. I = SumFunctionOnSet(p, N)
    <3>1. Ideal(g, k) = grade /\ DOMAIN grade = N
      BY <1>19
    <3>. HIDE DEF grade, N
    <3>2. [i \in DOMAIN grade |-> Gain[grade[i]] * Discount[i]] = p /\ DOMAIN p = N
      BY <3>1
    <3>. HIDE DEF p
    <3>. QED BY <3>1, <3>2 DEF I, Discounted, SumFunction
  <2>5. IsFiniteSet(N)
    BY <1>3, FS_Interval
  <2>6. \A i \in K : fw[i] \in Int
    BY <1>23
  <2>. HIDE DEF N, K, p
  <2>7. \A i \in N : p[i] \in Int /\ p[i] = fw[i]
    BY <1>22, <2>1, <2>3, <2>6
  <2>8. SumFunctionOnSet(p, N) = SumFunctionOnSet(fw, N)
    BY <2>5, <2>7, SumSame
  <2>9. SumFunctionOnSet(fw, K) = SumFunctionOnSet(fw, N)
    BY <1>16, <2>1, <2>2, <2>6, SumOfPart
  <2>. QED BY <2>4, <2>8, <2>9
<1>28. SumFunctionOnSet(fw, K) = SumFunctionOnSet(fa, K) + SumTo(f, k) /\ SumFunctionOnSet(fa, K) \in Int
       /\ SumTo(f, k) \in Int
  <2>1. SumTo(f, k) = SumFunctionOnSet(f, K)
    BY DEF SumTo
  <2>2. \A i \in K : fa[i] \in Int /\ f[i] \in Int /\ fw[i] = fa[i] + f[i]
    BY <1>23
  <2>. HIDE DEF K
  <2>3. SumFunctionOnSet(fw, K) = SumFunctionOnSet(fa, K) + SumFunctionOnSet(f, K)
    BY <1>16, <2>2, SumOfBoth
  <2>4. SumFunctionOnSet(fa, K) \in Int /\ SumFunctionOnSet(f, K) \in Int
    <3>1. \A i \in K : fa[i] \in Int
      BY <2>2
    <3>2. \A i \in K : f[i] \in Int
      BY <2>2
    <3>. QED BY <1>16, <3>1, <3>2, SumIsInt
  <2>. QED BY <2>1, <2>3, <2>4
<1>29. A <= I
  BY <1>25, <1>26, <1>27, <1>28
<1>30. ASSUME A = I PROVE StartsRelevant(ids, g, most)
  <2>1. SumTo(f, k) = 0
    BY <1>26, <1>27, <1>28, <1>30
  <2>2. \A i \in K : e[i] = 0
    BY <1>25, <2>1
  <2>3. ASSUME NEW i \in 1 .. most PROVE i \in H
    <3>1. i \in K /\ i \in C /\ i \in Ranks
      BY <1>13, <1>15
    <3>2. w[i] = q[h[i]] /\ h[i] \in X
      BY <1>7, <1>12, <3>1
    <3>3. w[i] > 0
      BY <1>5, <3>2
    <3>4. a[i] = w[i]
      BY <1>23, <2>2, <3>1
    <3>5. a[i] # 0
      BY <3>3, <3>4
    <3>. QED BY <1>12, <3>1, <3>5
  <2>4. most \in H
    BY <1>3, <2>3
  <2>5. most <= n
    BY <1>2, <1>9, <2>4
  <2>6. \A i \in 1 .. most : ids[i] \in DOMAIN g
    BY <1>9, <2>3 DEF X
  <2>. QED BY <1>2, <1>3, <2>5, <2>6 DEF StartsRelevant, n
<1>. QED BY <1>29, <1>30 DEF A, I

\* The metrics of every state that the invariant allows tell one story.
LEMMA StoryHolds ==
    ASSUME QueryIInv
    PROVE  StoryAgrees
<1>. SUFFICES ASSUME phase = "done", NEW k \in Cutoffs
     PROVE  LET at == metrics[k]
                ids == IdsAt(ranked, k)
                most == Min({k, Cardinality(DOMAIN grades)})
                begins == Len(ids) >= most /\ \A i \in 1 .. most : ids[i] \in DOMAIN grades
            IN  /\ (at.hits = 0) = (at.first = 0) /\ (at.hits = 0) = (at.ap[1] = 0)
                /\ (at.hits = 0) = (at.ndcg[1] = 0)
                /\ at.hits <= most
                /\ at.ap[1] <= at.ap[2] /\ at.ndcg[1] <= at.ndcg[2]
                /\ (at.ap[1] = at.ap[2]) = begins
                /\ at.ndcg[1] = at.ndcg[2] => begins
                /\ \A j \in Cutoffs : j < k =>
                      /\ metrics[j].hits <= at.hits
                      /\ metrics[j].first > 0 => at.first = metrics[j].first
  BY DEF StoryAgrees
<1>. DEFINE at == metrics[k]
            ids == IdsAt(ranked, k)
            most == Min({k, Cardinality(DOMAIN grades)})
            hits == HitsTo(ids, grades, Len(ids))
            PS == PrecisionSum(ids, grades)
            A == Discounted(GradesAt(ids, grades))
            I == Discounted(Ideal(grades, k))
<1>1. /\ ranked \in Seq(Chunks) /\ IsInjective(ranked)
      /\ metrics = [l \in Cutoffs |-> Metrics(IdsAt(ranked, l), grades, l)]
  BY Evaluated
<1>2. ASSUME NEW l \in Cutoffs
      PROVE  /\ metrics[l].hits = HitsTo(IdsAt(ranked, l), grades, Len(IdsAt(ranked, l)))
             /\ metrics[l].first = FirstHit(IdsAt(ranked, l), grades)
             /\ metrics[l].ap[1] = PrecisionSum(IdsAt(ranked, l), grades)
             /\ metrics[l].ap[2] = BestHits(grades, l) * PrecisionUnit
             /\ metrics[l].ndcg[1] = Discounted(GradesAt(IdsAt(ranked, l), grades))
             /\ metrics[l].ndcg[2] = Discounted(Ideal(grades, l))
  <2>1. metrics[l] = Metrics(IdsAt(ranked, l), grades, l)
    BY <1>1
  <2>. QED BY <2>1 DEF Metrics
<1>3. Answer(ids, grades, k)
  <2>1. k <= k
    BY CutoffBounds
  <2>. QED BY <1>1, <2>1, CutAnswers
<1>4. BestHits(grades, k) = most /\ hits <= most
  BY <1>3, MostHits
<1>5. /\ hits = 0 <=> FirstHit(ids, grades) = 0
      /\ hits = 0 <=> PS = 0
      /\ hits = 0 <=> A = 0
      /\ PS <= most * PrecisionUnit
      /\ PS = most * PrecisionUnit <=> StartsRelevant(ids, grades, most)
  BY <1>3, PrecisionAgrees
<1>6. A <= I /\ (A = I => StartsRelevant(ids, grades, most))
  BY <1>3, IdealIsBest
<1>7. at.hits = hits /\ at.first = FirstHit(ids, grades)
      /\ at.ap[1] = PS /\ at.ap[2] = most * PrecisionUnit
      /\ at.ndcg[1] = A /\ at.ndcg[2] = I
  BY <1>2, <1>4
<1>8. ASSUME NEW j \in Cutoffs, j < k
      PROVE  metrics[j].hits <= hits /\ (metrics[j].first > 0 => FirstHit(ids, grades) = metrics[j].first)
  <2>. DEFINE short == IdsAt(ranked, j)
  <2>1. j <= k /\ j <= j
    BY <1>8, CutoffBounds
  <2>2. Answer(short, grades, j) /\ Begins(short, ids)
    BY <1>1, <2>1, CutAnswers
  <2>3. /\ HitsTo(short, grades, Len(short)) <= hits
        /\ FirstHit(short, grades) > 0 => FirstHit(ids, grades) = FirstHit(short, grades)
    BY <1>3, <2>2, LongerIsNoWorse
  <2>. QED BY <1>2, <2>3
<1>. DEFINE begins == Len(ids) >= most /\ \A i \in 1 .. most : ids[i] \in DOMAIN grades
<1>9. StartsRelevant(ids, grades, most) <=> begins
  BY DEF StartsRelevant
<1>. HIDE DEF at, hits, PS, A, I, begins
<1>10. /\ (at.hits = 0) = (at.first = 0) /\ (at.hits = 0) = (at.ap[1] = 0)
       /\ (at.hits = 0) = (at.ndcg[1] = 0)
       /\ at.hits <= most
  BY <1>4, <1>5, <1>7
<1>11. at.ap[1] <= at.ap[2] /\ at.ndcg[1] <= at.ndcg[2]
  BY <1>5, <1>6, <1>7
<1>12. (at.ap[1] = at.ap[2]) = begins
  <2>1. (at.ap[1] = at.ap[2]) <=> begins
    BY <1>5, <1>7, <1>9
  <2>2. begins \in BOOLEAN
    BY DEF begins
  <2>. QED BY <2>1, <2>2
<1>13. at.ndcg[1] = at.ndcg[2] => begins
  BY <1>6, <1>7, <1>9
<1>14. \A j \in Cutoffs : j < k =>
          /\ metrics[j].hits <= at.hits
          /\ metrics[j].first > 0 => at.first = metrics[j].first
  BY <1>7, <1>8
<1>. QED BY <1>10, <1>11, <1>12, <1>13, <1>14 DEF at, begins

\* What each phase hands on is what the next one promises to take, and the metrics
\* of every evaluated query tell one story: zero together, none above one, AP one
\* exactly for a ranking that starts with as many relevant items as fit, nDCG one
\* only then, and no hit lost at a larger cutoff (evaluation/engine.py).
THEOREM QueryOKHolds == PipelineSpec => []QueryOK
<1>1. QueryIInv => QueryOK
  BY StoryHolds DEF QueryOK
<1>. QED BY <1>1, QueryInvariance, PTL
=============================================================================

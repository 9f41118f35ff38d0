--------------------------- MODULE FixedSizeChunker ---------------------------
(***************************************************************************)
(* FixedSizeChunker.chunk (chunkers/fixed.py): the documents are cut, one  *)
(* after the other, into windows of `size` characters of which each starts *)
(* `overlap` characters before the end of its predecessor; the window that *)
(* reaches the end of the text is the last one.  A chunk is its document   *)
(* and its offsets, from which stable_chunk_id derives its identifier.     *)
(***************************************************************************)
EXTENDS Integers, Sequences, FiniteSets

CONSTANTS
    Documents,      \* how many documents there are
    Lengths,        \* lengths that a text may have; Document rejects an empty one
    Sizes           \* settings of the chunker

ASSUME ChunkerAssumption ==
    /\ Documents \in Nat
    /\ Lengths \subseteq Nat \ {0}
    /\ Sizes \subseteq Nat \ {0}

VARIABLES
    size, overlap,  \* the chunker's configuration
    length,         \* [1 .. Documents -> length of the text]
    document,       \* the one being cut
    start,          \* where its next window starts
    chunks          \* the windows so far

given == <<size, overlap, length>>
vars == <<given, document, start, chunks>>

\* __init__: 0 <= overlap < size.
Valid(s, o) == o \in 0 .. s - 1

Init ==
    /\ size \in Sizes /\ overlap \in 0 .. size /\ Valid(size, overlap)
    /\ length \in [1 .. Documents -> Lengths]
    /\ document = 1 /\ start = 0 /\ chunks = <<>>

End == IF start + size <= length[document] THEN start + size ELSE length[document]

\* Mutant: the offset after a window leaves a character out.
NextStartBeyond(end) == end - overlap + 1

NextStart(end) == end - overlap

\* Mutant: a window that ends with the text is followed by its own tail.
AtEndOnlyBeyond(end) == end - overlap >= length[document]

\* The break at the end of the text.
AtEnd(end) == end = length[document]

Cut ==
    /\ document <= Documents /\ start < length[document]
    /\ chunks' = Append(chunks, [doc |-> document, start |-> start, end |-> End])
    /\ \/ /\ AtEnd(End)
          /\ document' = document + 1 /\ start' = 0
       \/ /\ ~AtEnd(End)
          /\ start' = NextStart(End) /\ UNCHANGED document
    /\ UNCHANGED given

Done == document > Documents /\ UNCHANGED vars

Next == Cut \/ Done

Spec == Init /\ [][Next]_vars

----------------------------------------------------------------------------
(* Properties.                                                             *)

Chunk == [doc : 1 .. Documents, start : Nat, end : Nat]

TypeOK ==
    /\ size \in Sizes /\ overlap \in 0 .. size - 1
    /\ length \in [1 .. Documents -> Lengths]
    /\ document \in 1 .. Documents + 1
    /\ start \in Nat
    /\ chunks \in Seq(Chunk)

Covers(k, d, offset) ==
    chunks[k].doc = d /\ chunks[k].start <= offset /\ offset < chunks[k].end

\* chunk_document, "without dropping any characters from its text": what lies
\* before the next window, in this document or an earlier one, is in a chunk.
NothingDropped ==
    \A d \in 1 .. Documents : \A offset \in 0 .. length[d] - 1 :
        d < document \/ (d = document /\ offset < start) =>
            \E k \in 1 .. Len(chunks) : Covers(k, d, offset)

\* No chunk is part of another, so that no two have the same identifier and
\* each adds text: the tail of a document is not repeated as a chunk.
NoneContained ==
    \A j, k \in 1 .. Len(chunks) :
        j < k /\ chunks[j].doc = chunks[k].doc =>
            chunks[j].start < chunks[k].start /\ chunks[j].end < chunks[k].end

\* The least number of such windows that reaches the end of a text; as it is
\* never exceeded, the loop ends.
Needed(d) ==
    IF length[d] <= size THEN 1
    ELSE 1 + (length[d] - size + (size - overlap) - 1) \div (size - overlap)
CountOf(d) == Cardinality({k \in 1 .. Len(chunks) : chunks[k].doc = d})
AsManyAsNeeded ==
    \A d \in 1 .. Documents :
        CountOf(d) <= Needed(d) /\ (d < document => CountOf(d) = Needed(d))

----------------------------------------------------------------------------
(* The inductive invariant behind the properties.                          *)

\* Every chunk has text, of at most `size` characters, inside its document.
Windows ==
    \A k \in 1 .. Len(chunks) :
        /\ chunks[k].start < chunks[k].end
        /\ chunks[k].end - chunks[k].start <= size
        /\ chunks[k].end <= length[chunks[k].doc]

\* Between two windows of a document the next one starts after the start of
\* those before it, and `overlap` before the greatest of their ends.
Position ==
    /\ \A k \in 1 .. Len(chunks) :
          /\ chunks[k].doc <= document
          /\ chunks[k].doc = document =>
                chunks[k].start < start /\ chunks[k].end <= start + overlap
    /\ start > 0 => document <= Documents /\ start + overlap < length[document]

\* A document that is cut has the windows it needs; the one being cut has as
\* many as its position says, and no other has any.
Counted ==
    \A d \in 1 .. Documents :
        /\ d < document => CountOf(d) = Needed(d)
        /\ d = document => start = CountOf(d) * (size - overlap)
        /\ d > document => CountOf(d) = 0

IInv == TypeOK /\ Windows /\ Position /\ NothingDropped /\ NoneContained /\ Counted
=============================================================================

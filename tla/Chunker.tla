------------------------------ MODULE Chunker ------------------------------
(***************************************************************************)
(* SemanticChunker.split (backend/ingest-api/chunker.py), one sentence or  *)
(* one turn of its while loop at a time.                                   *)
(*                                                                         *)
(* The words of a document are numbered through.  Everything the code      *)
(* keeps is a run of consecutive words, so a piece of text is the pair of  *)
(* its first and last word and is empty when last < first.  A document is  *)
(* a sequence of sections, a section the sequence of the lengths of its    *)
(* sentences; a section whose text is blank has none.                      *)
(***************************************************************************)
EXTENDS Integers, Sequences

CONSTANTS
    ChunkSize, Overlap,     \* CHUNK_SIZE and CHUNK_OVERLAP
    Documents               \* the documents considered

\* The deployed values are 512 and 50 (.env:17-18); the code does not check
\* that the overlap is the smaller one, and would not terminate if it were not.
ASSUME ChunkerAssumption ==
    /\ ChunkSize \in Nat
    /\ Overlap \in Nat
    /\ Overlap < ChunkSize
    /\ Documents \subseteq Seq(Seq(Nat \ {0}))

VARIABLES
    doc,
    section, sentence,  \* the next sentence to read
    read,               \* words read so far
    first, last,        \* the text called current
    chunks,             \* the chunks made, in order: first and last word, section
    pc

vars == <<doc, section, sentence, read, first, last, chunks, pc>>

Chunk == [first : Nat, last : Nat, section : Nat]

TypeOK ==
    /\ doc \in Documents
    /\ section \in Nat \ {0}
    /\ sentence \in Nat \ {0}
    /\ read \in Nat
    /\ first \in Nat \ {0}
    /\ last \in Nat
    /\ chunks \in Seq(Chunk)
    /\ pc \in {"read", "flush", "done"}

Init ==
    /\ doc \in Documents
    /\ section = 1
    /\ sentence = 1
    /\ read = 0
    /\ first = 1
    /\ last = 0
    /\ chunks = <<>>
    /\ pc = "read"

TokenCount == last - first + 1
Record(from, to) == [first |-> from, last |-> to, section |-> section]

\* Mutant: the slice is not clamped to the beginning of current.
TailStart_Unclamped == last - Overlap + 1

\* Line 49: where the last Overlap words of current start; nothing is kept
\* without overlap, and all of current when it is shorter than that.
TailStart == IF last - Overlap + 1 > first THEN last - Overlap + 1 ELSE first

\* Mutant: the length is looked at before the sentence is added.
ReadSentence_Late ==
    /\ pc = "read"
    /\ section <= Len(doc)
    /\ sentence <= Len(doc[section])
    /\ LET words == doc[section][sentence]
           cut == TokenCount > ChunkSize
       IN /\ chunks' = IF cut THEN Append(chunks, Record(first, last)) ELSE chunks
          /\ first' = IF cut THEN TailStart ELSE first
          /\ last' = last + words
          /\ read' = read + words
    /\ sentence' = sentence + 1
    /\ UNCHANGED <<doc, section, pc>>

\* Lines 43-50: the next sentence of the section goes to current, which is cut
\* off before if the two together are too long.
ReadSentence ==
    /\ pc = "read"
    /\ section <= Len(doc)
    /\ sentence <= Len(doc[section])
    /\ LET words == doc[section][sentence]
           cut == TokenCount + words > ChunkSize /\ TokenCount > 0
       IN /\ chunks' = IF cut THEN Append(chunks, Record(first, last)) ELSE chunks
          /\ first' = IF cut THEN TailStart ELSE first
          /\ last' = last + words
          /\ read' = read + words
    /\ sentence' = sentence + 1
    /\ UNCHANGED <<doc, section, pc>>

\* Line 51: the section's sentences are read.
EndSection ==
    /\ pc = "read"
    /\ section <= Len(doc)
    /\ sentence > Len(doc[section])
    /\ pc' = "flush"
    /\ UNCHANGED <<doc, section, sentence, read, first, last, chunks>>

\* Line 57: how far the window moves.
Advance == ChunkSize - Overlap

\* Mutant: an over-long text is passed over without being cut.
SplitLong_Continue ==
    /\ pc = "flush"
    /\ TokenCount > ChunkSize
    /\ UNCHANGED vars

\* Lines 52-57: current is longer than a chunk, its beginning is one.
SplitLong ==
    /\ pc = "flush"
    /\ TokenCount > ChunkSize
    /\ chunks' = Append(chunks, Record(first, first + ChunkSize - 1))
    /\ first' = first + Advance
    /\ UNCHANGED <<doc, section, sentence, read, last, pc>>

\* Mutant: current is not emptied between two sections.
FlushRest_KeepsTail ==
    /\ pc = "flush"
    /\ TokenCount <= ChunkSize
    /\ chunks' = IF TokenCount > 0 THEN Append(chunks, Record(first, last)) ELSE chunks
    /\ section' = section + 1
    /\ sentence' = 1
    /\ first' = IF TokenCount > 0 THEN TailStart ELSE first
    /\ pc' = "read"
    /\ UNCHANGED <<doc, read, last>>

\* Lines 58-60 and 42: the rest is the section's last chunk; the next section
\* starts with an empty current.
FlushRest ==
    /\ pc = "flush"
    /\ TokenCount <= ChunkSize
    /\ chunks' = IF TokenCount > 0 THEN Append(chunks, Record(first, last)) ELSE chunks
    /\ section' = section + 1
    /\ sentence' = 1
    /\ first' = last + 1
    /\ pc' = "read"
    /\ UNCHANGED <<doc, read, last>>

\* Line 61.
Finish ==
    /\ pc = "read"
    /\ section > Len(doc)
    /\ pc' = "done"
    /\ UNCHANGED <<doc, section, sentence, read, first, last, chunks>>

Next == ReadSentence \/ EndSection \/ SplitLong \/ FlushRest \/ Finish

Spec == Init /\ [][Next]_vars

FairSpec == Spec /\ WF_vars(Next)

-----------------------------------------------------------------------------
\* No text is lost: when the document is done, every word of it is in a chunk.
Covered == \A w \in 1..read : \E i \in DOMAIN chunks :
                chunks[i].first <= w /\ w <= chunks[i].last

NothingLost == pc = "done" => Covered

\* Chunks come in reading order, each brings words the one before had not, no
\* gap is left between them, and at most Overlap words are repeated.
InOrder ==
    \A i \in 1..(Len(chunks) - 1) :
        /\ chunks[i].last < chunks[i + 1].last
        /\ chunks[i + 1].first <= chunks[i].last + 1
        /\ chunks[i].last - chunks[i + 1].first + 1 <= Overlap

\* No chunk mixes two sections: what it repeats of the chunk before it is of
\* its own section, and an overlap never crosses a heading.
SectionsApart ==
    \A i \in 1..(Len(chunks) - 1) :
        chunks[i].section # chunks[i + 1].section
            => chunks[i + 1].first = chunks[i].last + 1

\* The chunks are the text: every word once read is in one, they come in reading
\* order without gaps and with no more than the overlap twice, and none mixes two
\* sections (lines 43-60).
ChunksTile == NothingLost /\ InOrder /\ SectionsApart

\* A chunk is longer than ChunkSize only if it is the overlap and one sentence
\* longer than what the overlap leaves free.
SizeBounded ==
    \A i \in DOMAIN chunks :
        LET size == chunks[i].last - chunks[i].first + 1 IN
        \/ size \in 1..ChunkSize
        \/ \E k \in DOMAIN doc[chunks[i].section] :
              size <= Overlap + doc[chunks[i].section][k]

\* split returns for every document.
Terminates == <>(pc = "done")
=============================================================================

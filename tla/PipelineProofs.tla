--------------------------- MODULE PipelineProofs ---------------------------
(***************************************************************************)
(* What the chunker promises for every chunk size, overlap and document,   *)
(* and that the text of every file arrives in chunks.                      *)
(*                                                                         *)
(* The chunker's properties speak of the chunks already made; to be        *)
(* inductive they need the text the code still holds in `current': it is   *)
(* what has been read since the word `first', it joins the latest chunk    *)
(* without a gap and with at most Overlap words in common, and it is empty *)
(* between two sections.                                                   *)
(*                                                                         *)
(* A file's text is followed from its pieces to the chunks: every          *)
(* converter makes lines of the pieces of its roles (Keeps), every line is *)
(* in a section (SectionsHold), every sentence of a section begins after   *)
(* as many words as the chunker has read before it (PlaceInv), and its     *)
(* words are in chunks of the section or in `current' (KeptInv).  The      *)
(* texts are joined with FlattenSeq; where each part of them begins is     *)
(* Placed.                                                                 *)
(***************************************************************************)
EXTENDS Pipeline, SequenceTheorems, WellFoundedInduction, NaturalsInduction, TLAPS

(* The chunker.                                                            *)

Latest == chunks[Len(chunks)]
Holds(i, w) == chunks[i].first <= w /\ w <= chunks[i].last

\* current ends with the last word read, and nothing is held at the end.
CurrentInv ==
    /\ last = read
    /\ first <= last + 1
    /\ pc = "done" => section > Len(doc)
    /\ section > Len(doc) => first = last + 1 /\ pc # "flush"

\* Every word read is in current or in a chunk.
CoverInv ==
    \A w \in 1..read : first <= w \/ \E i \in DOMAIN chunks : Holds(i, w)

\* current continues the latest chunk.
JoinInv ==
    chunks # <<>> =>
        /\ Latest.last <= last
        /\ first <= last => Latest.last < last
        /\ first <= Latest.last + 1
        /\ Latest.last - first + 1 <= Overlap
        /\ Latest.section # section => first = Latest.last + 1

\* current is short, or the overlap and one long sentence.
SizeInv ==
    \/ TokenCount <= ChunkSize
    \/ \E k \in DOMAIN doc[section] : TokenCount <= Overlap + doc[section][k]

Inv ==
    /\ TypeOK
    /\ CurrentInv
    /\ CoverInv
    /\ JoinInv
    /\ SizeInv
    /\ InOrder
    /\ SectionsApart
    /\ SizeBounded

-----------------------------------------------------------------------------
\* A chunk that continues the latest one, of admissible size, keeps what is
\* promised of the chunks.
LEMMA AppendKeeps ==
    ASSUME TypeOK, InOrder, SectionsApart, SizeBounded,
           NEW r \in Chunk,
           chunks' = Append(chunks, r), doc' = doc,
           chunks # <<>> =>
               /\ Latest.last < r.last
               /\ r.first <= Latest.last + 1
               /\ Latest.last - r.first + 1 <= Overlap
               /\ Latest.section # r.section => r.first = Latest.last + 1,
           \/ r.last - r.first + 1 \in 1..ChunkSize
           \/ \E k \in DOMAIN doc[r.section] :
                 r.last - r.first + 1 <= Overlap + doc[r.section][k]
    PROVE  InOrder' /\ SectionsApart' /\ SizeBounded'
<1>1. chunks \in Seq(Chunk) BY DEF TypeOK
<1>2. /\ Len(chunks') = Len(chunks) + 1
      /\ DOMAIN chunks' = 1..(Len(chunks) + 1)
      /\ \A i \in 1..Len(chunks) : chunks'[i] = chunks[i]
      /\ chunks'[Len(chunks) + 1] = r
  BY <1>1
<1>3. InOrder'
  <2>1. SUFFICES ASSUME NEW i \in 1..Len(chunks)
                 PROVE  /\ chunks'[i].last < chunks'[i + 1].last
                        /\ chunks'[i + 1].first <= chunks'[i].last + 1
                        /\ chunks'[i].last - chunks'[i + 1].first + 1 <= Overlap
    BY <1>2 DEF InOrder
  <2>2. CASE i = Len(chunks) BY <1>1, <1>2, <2>2 DEF Latest
  <2>3. CASE i # Len(chunks) BY <1>1, <1>2, <2>3 DEF InOrder
  <2> QED BY <2>2, <2>3
<1>4. SectionsApart'
  <2>1. SUFFICES ASSUME NEW i \in 1..Len(chunks),
                        chunks'[i].section # chunks'[i + 1].section
                 PROVE  chunks'[i + 1].first = chunks'[i].last + 1
    BY <1>2 DEF SectionsApart
  <2>2. CASE i = Len(chunks) BY <1>1, <1>2, <2>1, <2>2 DEF Latest
  <2>3. CASE i # Len(chunks) BY <1>1, <1>2, <2>1, <2>3 DEF SectionsApart
  <2> QED BY <2>2, <2>3
<1>5. SizeBounded'
  <2>1. SUFFICES ASSUME NEW i \in 1..(Len(chunks) + 1)
                 PROVE  LET size == chunks'[i].last - chunks'[i].first + 1 IN
                        \/ size \in 1..ChunkSize
                        \/ \E k \in DOMAIN doc[chunks'[i].section] :
                              size <= Overlap + doc[chunks'[i].section][k]
    BY <1>2 DEF SizeBounded
  <2>2. CASE i = Len(chunks) + 1 BY <1>2, <2>2
  <2>3. CASE i # Len(chunks) + 1
    <3>1. i \in 1..Len(chunks) BY <1>1, <2>3
    <3>2. i \in DOMAIN chunks BY <1>1, <3>1
    <3> QED BY <1>2, <3>1, <3>2 DEF SizeBounded
  <2> QED BY <2>2, <2>3
<1> QED BY <1>3, <1>4, <1>5

\* Nothing is read and nothing made yet.
LEMMA InitInv == Init => Inv
<1> SUFFICES ASSUME Init PROVE Inv OBVIOUS
<1> USE ChunkerAssumption DEF Init
<1>1. TypeOK BY DEF TypeOK, Chunk
<1>2. CurrentInv
  <2>1. doc \in Seq(Seq(Nat \ {0})) OBVIOUS
  <2> QED BY <2>1 DEF CurrentInv
<1>3. CoverInv BY DEF CoverInv
<1>4. JoinInv BY DEF JoinInv
<1>5. SizeInv BY DEF SizeInv, TokenCount
<1>6. InOrder /\ SectionsApart /\ SizeBounded
  BY DEF InOrder, SectionsApart, SizeBounded
<1> QED BY <1>1, <1>2, <1>3, <1>4, <1>5, <1>6 DEF Inv

-----------------------------------------------------------------------------
\* A sentence is read, with or without a cut.
LEMMA ReadSentenceStep == ASSUME Inv, ReadSentence PROVE Inv'
<1> USE ChunkerAssumption
<1> DEFINE words == doc[section][sentence]
           cut == TokenCount + words > ChunkSize /\ TokenCount > 0
<1>0. /\ TypeOK /\ CurrentInv /\ CoverInv /\ JoinInv /\ SizeInv
      /\ InOrder /\ SectionsApart /\ SizeBounded
  BY DEF Inv
<1>1. /\ pc = "read" /\ section <= Len(doc) /\ sentence <= Len(doc[section])
      /\ chunks' = IF cut THEN Append(chunks, Record(first, last)) ELSE chunks
      /\ first' = IF cut THEN TailStart ELSE first
      /\ last' = last + words
      /\ read' = read + words
      /\ sentence' = sentence + 1
      /\ UNCHANGED <<doc, section, pc>>
  BY DEF ReadSentence
<1>2. /\ doc \in Seq(Seq(Nat \ {0}))
      /\ section \in 1..Len(doc)
      /\ doc[section] \in Seq(Nat \ {0})
      /\ sentence \in DOMAIN doc[section]
      /\ words \in Nat \ {0}
  BY <1>0, <1>1 DEF TypeOK
<1>3. /\ first \in Nat \ {0} /\ last \in Nat /\ read \in Nat /\ chunks \in Seq(Chunk)
      /\ last = read /\ first <= last + 1
  BY <1>0 DEF TypeOK, CurrentInv
<1> HIDE DEF words
<1>3a. last' = last + words /\ read' = read + words BY <1>1
<1>4. /\ TailStart \in Nat \ {0}
      /\ first <= TailStart
      /\ first <= last => TailStart <= last + 1
      /\ last - TailStart + 1 <= Overlap
  <2>1. CASE last - Overlap + 1 > first BY <1>3, <2>1 DEF TailStart
  <2>2. CASE ~(last - Overlap + 1 > first) BY <1>3, <2>2 DEF TailStart
  <2> QED BY <2>1, <2>2
<1>5. CASE cut
  <2>1. /\ chunks' = Append(chunks, Record(first, last))
        /\ first' = TailStart
        /\ first <= last
    BY <1>1, <1>3, <1>5 DEF TokenCount
  <2>2. Record(first, last) \in Chunk
    BY <1>0, <1>3 DEF Record, Chunk, TypeOK
  <2>3. /\ Len(chunks') = Len(chunks) + 1
        /\ DOMAIN chunks' = 1..(Len(chunks) + 1)
        /\ \A i \in DOMAIN chunks : i \in DOMAIN chunks' /\ chunks'[i] = chunks[i]
        /\ chunks'[Len(chunks) + 1] = Record(first, last)
        /\ chunks' \in Seq(Chunk)
    BY <1>3, <2>1, <2>2
  <2>4. TypeOK'
    <3>1. last' \in Nat /\ read' \in Nat BY <1>2, <1>3, <1>3a
    <3>2. first' \in Nat \ {0} BY <1>4, <2>1
    <3>3. sentence' \in Nat \ {0} BY <1>0, <1>1 DEF TypeOK
    <3> QED BY <1>0, <1>1, <2>3, <3>1, <3>2, <3>3 DEF TypeOK
  <2>5. CurrentInv'
    <3>1. last' = read' /\ first' <= last' + 1
      BY <1>2, <1>3, <1>3a, <1>4, <2>1
    <3>2. section' <= Len(doc') /\ pc' = "read" BY <1>1
    <3>3. ~(section' > Len(doc')) BY <1>1, <1>2, <3>2
    <3> QED BY <3>1, <3>2, <3>3 DEF CurrentInv
  <2>6. CoverInv'
    <3>1. SUFFICES ASSUME NEW w \in 1..(read + words), ~(TailStart <= w)
                   PROVE  \E i \in DOMAIN chunks' :
                              chunks'[i].first <= w /\ w <= chunks'[i].last
      BY <1>3a, <2>1 DEF CoverInv, Holds
    <3>2. w <= last BY <1>2, <1>3, <1>4, <2>1, <3>1
    <3>3. CASE first <= w
      <4> DEFINE n == Len(chunks) + 1
      <4>1. chunks'[n].first <= w /\ w <= chunks'[n].last
        BY <2>3, <3>2, <3>3 DEF Record
      <4>2. n \in DOMAIN chunks' BY <1>3, <2>3
      <4> QED BY <4>1, <4>2
    <3>4. CASE ~(first <= w)
      <4>1. PICK i \in DOMAIN chunks : Holds(i, w)
        BY <1>0, <1>3, <3>1, <3>2, <3>4 DEF CoverInv
      <4> QED BY <4>1, <2>3 DEF Holds
    <3> QED BY <3>3, <3>4
  <2>7. JoinInv'
    <3>1. Latest' = Record(first, last) BY <1>3, <2>3 DEF Latest
    <3>2. /\ Latest'.last = last /\ Latest'.section = section BY <3>1 DEF Record
    <3>3. last < last' BY <1>2, <1>3, <1>3a
    <3>4. section' = section BY <1>1
    <3>5. TailStart <= last + 1 /\ last - TailStart + 1 <= Overlap BY <1>4, <2>1
    <3>6. last \in Int /\ last' \in Int BY <1>2, <1>3, <1>3a
    <3> QED BY <2>1, <3>2, <3>3, <3>4, <3>5, <3>6 DEF JoinInv
  <2>8. SizeInv'
    <3>1. TokenCount' <= Overlap + words BY <1>2, <1>3, <1>3a, <1>4, <2>1 DEF TokenCount
    <3> QED BY <1>1, <1>2, <3>1 DEF SizeInv, words
  <2>9. InOrder' /\ SectionsApart' /\ SizeBounded'
    <3> DEFINE r == Record(first, last)
    <3>1. r.first = first /\ r.last = last /\ r.section = section BY DEF Record
    <3>2. chunks # <<>> =>
               /\ Latest.last < r.last
               /\ r.first <= Latest.last + 1
               /\ Latest.last - r.first + 1 <= Overlap
               /\ Latest.section # r.section => r.first = Latest.last + 1
      BY <1>0, <2>1, <3>1 DEF JoinInv
    <3>3. \/ r.last - r.first + 1 \in 1..ChunkSize
          \/ \E k \in DOMAIN doc[r.section] :
                 r.last - r.first + 1 <= Overlap + doc[r.section][k]
      BY <1>0, <1>3, <2>1, <3>1 DEF SizeInv, TokenCount
    <3> QED BY <1>0, <1>1, <2>1, <2>2, <3>2, <3>3, AppendKeeps
  <2> QED BY <2>4, <2>5, <2>6, <2>7, <2>8, <2>9 DEF Inv
<1>6. CASE ~cut
  <2>1. chunks' = chunks /\ first' = first BY <1>1, <1>6
  <2>2. TypeOK' BY <1>0, <1>1, <1>2, <1>3, <2>1 DEF TypeOK
  <2>3. CurrentInv'
    <3>1. last' = read' /\ first' <= last' + 1 BY <1>2, <1>3, <1>3a, <2>1
    <3>2. section' <= Len(doc') /\ pc' = "read" BY <1>1
    <3>3. ~(section' > Len(doc')) BY <1>1, <1>2, <3>2
    <3> QED BY <3>1, <3>2, <3>3 DEF CurrentInv
  <2>4. CoverInv'
    <3>1. SUFFICES ASSUME NEW w \in 1..(read + words), ~(first <= w)
                   PROVE  \E i \in DOMAIN chunks : Holds(i, w)
      BY <1>3a, <2>1 DEF CoverInv, Holds
    <3>2. w \in 1..read BY <1>2, <1>3, <3>1
    <3> QED BY <1>0, <3>1, <3>2 DEF CoverInv
  <2>5. JoinInv'
    <3>1. CASE chunks = <<>> BY <2>1, <3>1 DEF JoinInv
    <3>2. CASE chunks # <<>>
      <4>1. Latest \in Chunk BY <1>3, <3>2 DEF Latest
      <4>2. Latest' = Latest BY <2>1 DEF Latest
      <4>3. last < last' /\ section' = section BY <1>1, <1>2, <1>3, <1>3a
      <4>4. Latest.last \in Int /\ last' \in Int BY <1>2, <1>3, <1>3a, <4>1 DEF Chunk
      <4>5. Latest.last <= last BY <1>0, <3>2 DEF JoinInv
      <4>6. Latest.last < last' BY <1>3, <4>3, <4>4, <4>5
      <4> QED BY <1>0, <2>1, <3>2, <4>2, <4>3, <4>4, <4>6 DEF JoinInv
    <3> QED BY <3>1, <3>2
  <2>6. SizeInv'
    <3>1. TokenCount' = TokenCount + words BY <1>2, <1>3, <1>3a, <2>1 DEF TokenCount
    <3>2. TokenCount \in Nat BY <1>3 DEF TokenCount
    <3>3. CASE TokenCount + words <= ChunkSize BY <3>1, <3>3 DEF SizeInv
    <3>4. CASE ~(TokenCount + words <= ChunkSize)
      <4>1. TokenCount = 0 BY <1>2, <1>6, <3>2, <3>4
      <4>2. TokenCount' <= Overlap + words BY <1>2, <3>1, <4>1
      <4> QED BY <1>1, <1>2, <4>2 DEF SizeInv, words
    <3> QED BY <3>3, <3>4
  <2>7. InOrder' /\ SectionsApart' /\ SizeBounded'
    BY <1>0, <1>1, <2>1 DEF InOrder, SectionsApart, SizeBounded
  <2> QED BY <2>2, <2>3, <2>4, <2>5, <2>6, <2>7 DEF Inv
<1> QED BY <1>5, <1>6

-----------------------------------------------------------------------------
\* The window moves over a text that is too long.
LEMMA SplitLongStep == ASSUME Inv, SplitLong PROVE Inv'
<1> USE ChunkerAssumption
<1> DEFINE r == Record(first, first + ChunkSize - 1)
           n == Len(chunks) + 1
<1>0. /\ TypeOK /\ CurrentInv /\ CoverInv /\ JoinInv /\ SizeInv
      /\ InOrder /\ SectionsApart /\ SizeBounded
  BY DEF Inv
<1>1. /\ pc = "flush" /\ TokenCount > ChunkSize
      /\ chunks' = Append(chunks, r)
      /\ first' = first + ChunkSize - Overlap
      /\ UNCHANGED <<doc, section, sentence, read, last, pc>>
  BY DEF SplitLong, Advance, TypeOK, Inv
<1>2. /\ first \in Nat \ {0} /\ last \in Nat /\ read \in Nat /\ chunks \in Seq(Chunk)
      /\ last = read /\ section \in Nat \ {0}
      /\ first + ChunkSize - 1 < last
  BY <1>0, <1>1 DEF TypeOK, CurrentInv, TokenCount
<1>3. /\ r.first = first /\ r.last = first + ChunkSize - 1 /\ r.section = section
      /\ r \in Chunk
  BY <1>2 DEF Record, Chunk
<1> HIDE DEF r
<1>4. /\ DOMAIN chunks' = 1..n
      /\ \A i \in DOMAIN chunks : i \in DOMAIN chunks' /\ chunks'[i] = chunks[i]
      /\ chunks'[n] = r
      /\ n \in DOMAIN chunks'
      /\ Len(chunks') = n
      /\ chunks' \in Seq(Chunk)
  BY <1>1, <1>2, <1>3
<1>5. TypeOK' BY <1>0, <1>1, <1>2, <1>4 DEF TypeOK
<1>6. CurrentInv' BY <1>0, <1>1, <1>2 DEF CurrentInv
<1>7. CoverInv'
  <2>1. SUFFICES ASSUME NEW w \in 1..read, ~(first' <= w)
                 PROVE  \E i \in DOMAIN chunks' :
                            chunks'[i].first <= w /\ w <= chunks'[i].last
    BY <1>1 DEF CoverInv, Holds
  <2>2. CASE ~(first <= w)
    <3>1. PICK i \in DOMAIN chunks : Holds(i, w) BY <1>0, <2>2 DEF CoverInv
    <3> QED BY <1>4, <3>1 DEF Holds
  <2>3. CASE first <= w
    <3>1. chunks'[n].first <= w /\ w <= chunks'[n].last
      BY <1>1, <1>2, <1>3, <1>4, <2>1, <2>3
    <3> QED BY <1>4, <3>1
  <2> QED BY <2>2, <2>3
<1>8. JoinInv'
  <2>1. Latest' = r BY <1>4 DEF Latest
  <2>2. /\ Latest'.last = first + ChunkSize - 1
        /\ Latest'.section = section
    BY <1>3, <2>1
  <2> QED BY <1>1, <1>2, <2>2 DEF JoinInv
<1>9. SizeInv'
  <2>1. TokenCount' <= TokenCount /\ TokenCount' \in Int /\ TokenCount \in Int
    BY <1>1, <1>2 DEF TokenCount
  <2>2. CASE TokenCount <= ChunkSize BY <1>1, <1>2, <2>1, <2>2 DEF SizeInv
  <2>3. CASE ~(TokenCount <= ChunkSize)
    <3>1. PICK k \in DOMAIN doc[section] : TokenCount <= Overlap + doc[section][k]
      BY <1>0, <2>3 DEF SizeInv
    <3>2. section <= Len(doc) BY <1>0, <1>1, <1>2 DEF CurrentInv, TypeOK
    <3>3. doc[section] \in Seq(Nat \ {0}) BY <1>0, <1>2, <3>2 DEF TypeOK
    <3>4. doc[section][k] \in Nat BY <3>3
    <3>5. TokenCount' <= Overlap + doc[section][k] BY <2>1, <3>1, <3>4
    <3> QED BY <1>1, <3>5 DEF SizeInv
  <2> QED BY <2>2, <2>3
<1>10. InOrder' /\ SectionsApart' /\ SizeBounded'
  <2>1. chunks # <<>> =>
             /\ Latest.last < r.last
             /\ r.first <= Latest.last + 1
             /\ Latest.last - r.first + 1 <= Overlap
             /\ Latest.section # r.section => r.first = Latest.last + 1
    <3>1. SUFFICES ASSUME chunks # <<>>
                   PROVE  /\ Latest.last < r.last
                          /\ r.first <= Latest.last + 1
                          /\ Latest.last - r.first + 1 <= Overlap
                          /\ Latest.section # r.section => r.first = Latest.last + 1
      OBVIOUS
    <3>2. Latest \in Chunk BY <1>2, <3>1 DEF Latest
    <3>3. Latest.last \in Nat BY <3>2 DEF Chunk
    <3>4. /\ first <= Latest.last + 1
          /\ Latest.last - first + 1 <= Overlap
          /\ Latest.section # section => first = Latest.last + 1
      BY <1>0, <3>1 DEF JoinInv
    <3> QED BY <1>2, <1>3, <3>3, <3>4
  <2>2. r.last - r.first + 1 \in 1..ChunkSize BY <1>2, <1>3
  <2> QED BY <1>0, <1>1, <1>3, <2>1, <2>2, AppendKeeps
<1> QED BY <1>5, <1>6, <1>7, <1>8, <1>9, <1>10 DEF Inv

-----------------------------------------------------------------------------
\* The rest of a section becomes its last chunk.
LEMMA FlushRestStep == ASSUME Inv, FlushRest PROVE Inv'
<1> USE ChunkerAssumption
<1> DEFINE r == Record(first, last)
           n == Len(chunks) + 1
<1>0. /\ TypeOK /\ CurrentInv /\ CoverInv /\ JoinInv /\ SizeInv
      /\ InOrder /\ SectionsApart /\ SizeBounded
  BY DEF Inv
<1>1. /\ pc = "flush" /\ TokenCount <= ChunkSize
      /\ chunks' = IF TokenCount > 0 THEN Append(chunks, r) ELSE chunks
      /\ section' = section + 1 /\ sentence' = 1
      /\ first' = last + 1 /\ pc' = "read"
      /\ UNCHANGED <<doc, read, last>>
  BY DEF FlushRest
<1>2. /\ first \in Nat \ {0} /\ last \in Nat /\ read \in Nat /\ chunks \in Seq(Chunk)
      /\ last = read /\ first <= last + 1 /\ section \in Nat \ {0}
  BY <1>0 DEF TypeOK, CurrentInv
<1>3. /\ r.first = first /\ r.last = last /\ r.section = section /\ r \in Chunk
  BY <1>2 DEF Record, Chunk
<1> HIDE DEF r
<1>4. CurrentInv' BY <1>1, <1>2 DEF CurrentInv
<1>5. SizeInv' BY <1>1, <1>2 DEF SizeInv, TokenCount
<1>6. CASE TokenCount > 0
  <2>1. /\ DOMAIN chunks' = 1..n
        /\ \A i \in DOMAIN chunks : i \in DOMAIN chunks' /\ chunks'[i] = chunks[i]
        /\ chunks'[n] = r
        /\ n \in DOMAIN chunks'
        /\ Len(chunks') = n
        /\ chunks' \in Seq(Chunk)
        /\ chunks' = Append(chunks, r)
    BY <1>1, <1>2, <1>3, <1>6
  <2>2. TypeOK' BY <1>0, <1>1, <1>2, <2>1 DEF TypeOK
  <2>3. CoverInv'
    <3>1. SUFFICES ASSUME NEW w \in 1..read
                   PROVE  \E i \in DOMAIN chunks' :
                              chunks'[i].first <= w /\ w <= chunks'[i].last
      BY <1>1 DEF CoverInv, Holds
    <3>2. CASE ~(first <= w)
      <4>1. PICK i \in DOMAIN chunks : Holds(i, w) BY <1>0, <3>2 DEF CoverInv
      <4> QED BY <2>1, <4>1 DEF Holds
    <3>3. CASE first <= w
      <4>1. chunks'[n].first <= w /\ w <= chunks'[n].last
        BY <1>2, <1>3, <2>1, <3>3
      <4> QED BY <2>1, <4>1
    <3> QED BY <3>2, <3>3
  <2>4. JoinInv'
    <3>1. Latest' = r BY <2>1 DEF Latest
    <3>2. Latest'.last = last BY <1>3, <3>1
    <3> QED BY <1>1, <1>2, <3>2 DEF JoinInv
  <2>5. InOrder' /\ SectionsApart' /\ SizeBounded'
    <3>1. first <= last BY <1>2, <1>6 DEF TokenCount
    <3>2. chunks # <<>> =>
               /\ Latest.last < r.last
               /\ r.first <= Latest.last + 1
               /\ Latest.last - r.first + 1 <= Overlap
               /\ Latest.section # r.section => r.first = Latest.last + 1
      BY <1>0, <1>3, <3>1 DEF JoinInv
    <3>3. r.last - r.first + 1 \in 1..ChunkSize BY <1>1, <1>2, <1>3, <3>1 DEF TokenCount
    <3> QED BY <1>0, <1>1, <1>3, <2>1, <3>2, <3>3, AppendKeeps
  <2> QED BY <1>4, <1>5, <2>2, <2>3, <2>4, <2>5 DEF Inv
<1>7. CASE ~(TokenCount > 0)
  <2>1. chunks' = chunks /\ first = last + 1
    BY <1>1, <1>2, <1>7 DEF TokenCount
  <2>2. TypeOK' BY <1>0, <1>1, <1>2, <2>1 DEF TypeOK
  <2>3. CoverInv' BY <1>0, <1>1, <2>1 DEF CoverInv, Holds
  <2>4. JoinInv'
    <3>1. SUFFICES ASSUME chunks # <<>> PROVE JoinInv' BY <2>1 DEF JoinInv
    <3>2. Latest' = Latest BY <2>1 DEF Latest
    <3>3. Latest \in Chunk BY <1>2, <3>1 DEF Latest
    <3>4. Latest.last \in Nat BY <3>3 DEF Chunk
    <3>5. Latest.last = last BY <1>0, <1>2, <2>1, <3>1, <3>4 DEF JoinInv
    <3> QED BY <1>0, <1>1, <1>2, <2>1, <3>1, <3>2, <3>5 DEF JoinInv
  <2>5. InOrder' /\ SectionsApart' /\ SizeBounded'
    BY <1>0, <1>1, <2>1 DEF InOrder, SectionsApart, SizeBounded
  <2> QED BY <1>4, <1>5, <2>2, <2>3, <2>4, <2>5 DEF Inv
<1> QED BY <1>6, <1>7

-----------------------------------------------------------------------------
\* The steps that leave the text alone.
LEMMA OtherStep ==
    ASSUME Inv, \/ EndSection \/ Finish \/ UNCHANGED vars
    PROVE  Inv'
<1> USE ChunkerAssumption
<1>0. /\ TypeOK /\ CurrentInv /\ CoverInv /\ JoinInv /\ SizeInv
      /\ InOrder /\ SectionsApart /\ SizeBounded
  BY DEF Inv
<1>1. /\ UNCHANGED <<doc, section, sentence, read, first, last, chunks>>
      /\ \/ pc' = pc
         \/ pc' = "flush" /\ section <= Len(doc)
         \/ pc' = "done" /\ section > Len(doc)
  BY DEF EndSection, Finish, vars
<1>2. TypeOK' BY <1>0, <1>1 DEF TypeOK
<1>3. CurrentInv'
  <2>1. section \in Nat /\ Len(doc) \in Nat BY <1>0 DEF TypeOK
  <2> QED BY <1>0, <1>1, <2>1 DEF CurrentInv
<1>4. CoverInv' BY <1>0, <1>1 DEF CoverInv, Holds
<1>5. JoinInv' BY <1>0, <1>1 DEF JoinInv, Latest
<1>6. SizeInv' BY <1>0, <1>1 DEF SizeInv, TokenCount
<1>7. InOrder' /\ SectionsApart' /\ SizeBounded'
  BY <1>0, <1>1 DEF InOrder, SectionsApart, SizeBounded
<1> QED BY <1>2, <1>3, <1>4, <1>5, <1>6, <1>7 DEF Inv

\* No step disturbs the invariant,
LEMMA NextInv == Inv /\ [Next]_vars => Inv'
BY ReadSentenceStep, SplitLongStep, FlushRestStep, OtherStep DEF Next

\* so it holds throughout.
LEMMA Invariance == Spec => []Inv
BY InitInv, NextInv, PTL DEF Spec

-----------------------------------------------------------------------------
\* split never builds anything but chunks of words read so far, whatever the
\* document and the sizes.
THEOREM TypeCorrect == Spec => []TypeOK
<1>1. Inv => TypeOK BY DEF Inv
<1> QED BY <1>1, Invariance, PTL

\* When split returns (chunker.py:61) every word of the document is in a chunk.
THEOREM EveryWordKept == Spec => []NothingLost
<1>1. Inv => NothingLost
  <2>1. SUFFICES ASSUME Inv, pc = "done" PROVE Covered BY DEF NothingLost
  <2>2. first = read + 1 BY <2>1 DEF Inv, CurrentInv
  <2>3. read \in Nat BY <2>1 DEF Inv, TypeOK
  <2>4. \A w \in 1..read : ~(first <= w) BY <2>2, <2>3
  <2> QED BY <2>1, <2>4 DEF Inv, CoverInv, Covered, Holds
<1> QED BY <1>1, Invariance, PTL

\* The cut and the window of lines 45-57 neither leave a gap nor repeat more
\* than the overlap.
THEOREM ChunksInOrder == Spec => []InOrder
<1>1. Inv => InOrder BY DEF Inv
<1> QED BY <1>1, Invariance, PTL

\* current is emptied between two sections (line 42): no chunk repeats words
\* of another heading.
THEOREM NoSectionMixed == Spec => []SectionsApart
<1>1. Inv => SectionsApart BY DEF Inv
<1> QED BY <1>1, Invariance, PTL

\* Together: the chunks are the text, in order, section by section.
THEOREM ChunksAreTheText == Spec => []ChunksTile
BY EveryWordKept, ChunksInOrder, NoSectionMixed, PTL DEF ChunksTile

\* A chunk exceeds the chunk size only by one sentence that does not fit
\* beside the overlap.
THEOREM ChunkSizes == Spec => []SizeBounded
<1>1. Inv => SizeBounded BY DEF Inv
<1> QED BY <1>1, Invariance, PTL

-----------------------------------------------------------------------------
(* Sequences joined.                                                       *)

\* A set of numbers has a least one.
LEMMA Least ==
    ASSUME NEW S, S \subseteq Nat, S # {}
    PROVE  \E n \in S : \A m \in S : n <= m
  <1>1. IsWellFoundedOn(OpToRel(<, Nat), Nat)
    BY NatLessThanWellFounded
  <1>2. PICK n \in S : \A m \in S : ~(<<m, n>> \in OpToRel(<, Nat))
    BY <1>1, WFMin
  <1>3. \A m \in S : ~(m < n)
    BY <1>2 DEF OpToRel
  <1> QED BY <1>3

\* A function on 1..k is a sequence.
LEMMA Indexed ==
    ASSUME NEW S
    PROVE  \A k \in Nat : \A g \in [1..k -> S] : g \in Seq(S) /\ Len(g) = k
  OBVIOUS

\* The texts joined so far, and that FlattenSeq is the last of them.
Joining(seqs, n, joined) ==
    joined = [i \in 1..n |-> IF i = 1 THEN seqs[i] ELSE joined[i - 1] \o seqs[i]]

\* FlattenSeq names its recursive function by what it satisfies,
LEMMA FlattenIsJoining ==
    ASSUME NEW seqs, Len(seqs) # 0
    PROVE  FlattenSeq(seqs) = (CHOOSE joined : Joining(seqs, Len(seqs), joined))[Len(seqs)]
  BY Zenon DEF FlattenSeq, Joining

\* and there is one: of the lengths without one the least cannot be.
LEMMA JoiningExists ==
    ASSUME NEW seqs, NEW n \in Nat
    PROVE  \E joined : Joining(seqs, n, joined)
  <1> DEFINE Bad == {m \in Nat : ~\E joined : Joining(seqs, m, joined)}
  <1>1. SUFFICES ASSUME Bad # {} PROVE FALSE
    OBVIOUS
  <1>2. PICK m \in Bad : \A k \in Bad : m <= k
    <2>1. Bad \subseteq Nat
      OBVIOUS
    <2> HIDE DEF Bad
    <2> QED BY <1>1, <2>1, Least
  <1>3. CASE m = 0
    <2> DEFINE none == [i \in 1..0 |-> 0]
    <2>1. Joining(seqs, 0, none)
      BY DEF Joining
    <2> QED BY <1>3, <2>1
  <1>4. CASE m # 0
    <2>1. m - 1 \in Nat /\ m - 1 \notin Bad
      BY <1>2, <1>4
    <2>2. PICK before : Joining(seqs, m - 1, before)
      BY <2>1
    <2> DEFINE next == [i \in 1..m |-> IF i = 1 THEN seqs[i] ELSE before[i - 1] \o seqs[i]]
    <2>3. \A i \in 1..(m - 1) :
             before[i] = IF i = 1 THEN seqs[i] ELSE before[i - 1] \o seqs[i]
      BY <2>2 DEF Joining
    <2>4. \A i \in 1..(m - 1) : next[i] = before[i]
      BY <2>1, <2>3
    <2>5. \A i \in 1..m : i # 1 => i - 1 \in 1..(m - 1)
      BY <2>1
    <2>6. \A i \in 1..m :
             next[i] = IF i = 1 THEN seqs[i] ELSE next[i - 1] \o seqs[i]
      BY <2>4, <2>5
    <2>7. Joining(seqs, m, next)
      BY <2>6 DEF Joining
    <2> QED BY <2>7
  <1> QED BY <1>3, <1>4

\* Where the i-th of the joined sequences begins.
Placed(seqs, flat, at) ==
    /\ at \in [1..(Len(seqs) + 1) -> Nat]
    /\ at[1] = 0
    /\ \A i \in DOMAIN seqs : at[i + 1] = at[i] + Len(seqs[i])
    /\ Len(flat) = at[Len(seqs) + 1]
    /\ \A i \in DOMAIN seqs : \A j \in DOMAIN seqs[i] :
          at[i] + j \in DOMAIN flat /\ flat[at[i] + j] = seqs[i][j]
    /\ \A k \in DOMAIN flat : \E i \in DOMAIN seqs : \E j \in DOMAIN seqs[i] : k = at[i] + j

\* What FlattenSeq returns: every element of every part, each at its place.
LEMMA Flattened ==
    ASSUME NEW T, NEW seqs \in Seq(Seq(T))
    PROVE  /\ FlattenSeq(seqs) \in Seq(T)
           /\ \E at : Placed(seqs, FlattenSeq(seqs), at)
  <1>1. CASE Len(seqs) = 0
    <2>1. seqs = <<>>
      BY <1>1
    <2>2. FlattenSeq(seqs) = <<>>
      BY <1>1, <2>1 DEF FlattenSeq
    <2> DEFINE at == [i \in 1..1 |-> 0]
    <2>3. Placed(seqs, <<>>, at)
      BY <2>1 DEF Placed
    <2>4. <<>> \in Seq(T)
      OBVIOUS
    <2> QED BY <2>2, <2>3, <2>4
  <1>2. CASE Len(seqs) # 0
    <2> DEFINE n == Len(seqs)
               J == CHOOSE joined : Joining(seqs, n, joined)
               at == [i \in 1..(n + 1) |-> IF i = 1 THEN 0 ELSE Len(J[i - 1])]
               Good(m) == /\ J[m] \in Seq(T)
                          /\ at[m + 1] = at[m] + Len(seqs[m])
                          /\ \A i \in 1..m : \A j \in DOMAIN seqs[i] :
                                at[i] + j \in DOMAIN J[m] /\ J[m][at[i] + j] = seqs[i][j]
                          /\ \A k \in DOMAIN J[m] : \E i \in 1..m :
                                \E j \in DOMAIN seqs[i] : k = at[i] + j
               Bad == {m \in 1..n : ~Good(m)}
    <2>1. n \in Nat /\ DOMAIN seqs = 1..n /\ \A i \in 1..n : seqs[i] \in Seq(T)
      OBVIOUS
    <2>2. Joining(seqs, n, J)
      BY <2>1, JoiningExists
    <2> HIDE DEF J
    <2>3. \A i \in 1..n : J[i] = IF i = 1 THEN seqs[i] ELSE J[i - 1] \o seqs[i]
      BY <2>2 DEF Joining
    <2>4. at[1] = 0 /\ \A i \in 1..n : at[i + 1] = Len(J[i])
      BY <2>1
    <2> HIDE DEF at
    <2>5. Good(1)
      <3>1. J[1] = seqs[1] /\ 1 \in 1..n /\ seqs[1] \in Seq(T)
        BY <1>2, <2>1, <2>3
      <3>2. at[2] = Len(seqs[1])
        BY <2>4, <3>1
      <3> QED BY <2>4, <3>1, <3>2
    <2>6. ASSUME NEW m \in 1..n, m # 1, Good(m - 1)
          PROVE  Good(m)
      <3> DEFINE p == m - 1
                 a == J[p]
                 b == seqs[m]
      <3>0. p \in 1..n /\ m = p + 1
        BY <2>1, <2>6
      <3>1. J[m] = a \o b /\ a \in Seq(T) /\ b \in Seq(T)
        <4>1. J[m] = a \o b
          BY <2>3, <2>6
        <4>2. a \in Seq(T)
          BY <2>6
        <4> QED BY <2>1, <4>1, <4>2
      <3> HIDE DEF a, b
      <3>2. /\ J[m] \in Seq(T)
            /\ Len(J[m]) = Len(a) + Len(b)
            /\ DOMAIN J[m] = 1..(Len(a) + Len(b))
            /\ DOMAIN a = 1..Len(a) /\ DOMAIN b = 1..Len(b)
            /\ Len(a) \in Nat /\ Len(b) \in Nat
            /\ \A k \in 1..Len(a) : J[m][k] = a[k]
            /\ \A k \in 1..Len(b) : J[m][Len(a) + k] = b[k]
        BY <3>1
      <3>3. at[m + 1] = Len(J[m]) /\ at[m] = Len(a)
        BY <2>4, <3>0 DEF a
      <3>3a. /\ \A i \in 1..p : \A j \in DOMAIN seqs[i] :
                    at[i] + j \in DOMAIN a /\ a[at[i] + j] = seqs[i][j]
             /\ \A k \in DOMAIN a : \E i \in 1..p : \E j \in DOMAIN seqs[i] : k = at[i] + j
        BY <2>6 DEF a
      <3>4. ASSUME NEW i \in 1..m, NEW j \in DOMAIN seqs[i]
            PROVE  at[i] + j \in DOMAIN J[m] /\ J[m][at[i] + j] = seqs[i][j]
        <4>1. CASE i = m
          <5>1. j \in 1..Len(b) /\ seqs[i] = b
            BY <3>2, <4>1 DEF b
          <5>2. at[i] + j = Len(a) + j /\ Len(a) + j \in 1..(Len(a) + Len(b))
            <6>1. at[i] = Len(a)
              BY <3>3, <4>1
            <6>2. \A x, y \in Nat : \A z \in 1..y : x + z \in 1..(x + y)
              OBVIOUS
            <6>3. Len(a) \in Nat /\ Len(b) \in Nat
              BY <3>2
            <6> QED BY ONLY <5>1, <6>1, <6>2, <6>3
          <5> QED BY <3>2, <5>1, <5>2
        <4>2. CASE i # m
          <5>1. i \in 1..p
            BY <3>0, <4>2
          <5>2. at[i] + j \in 1..Len(a) /\ a[at[i] + j] = seqs[i][j]
            BY <3>2, <3>3a, <5>1
          <5>3. at[i] + j \in 1..(Len(a) + Len(b))
            BY <3>2, <5>2
          <5> QED BY <3>2, <5>2, <5>3
        <4> QED BY <4>1, <4>2
      <3>5. ASSUME NEW k \in DOMAIN J[m]
            PROVE  \E i \in 1..m : \E j \in DOMAIN seqs[i] : k = at[i] + j
        <4>0. k \in 1..(Len(a) + Len(b))
          BY <3>2
        <4>1. CASE k <= Len(a)
          <5>1. k \in DOMAIN a
            BY <3>2, <4>0, <4>1
          <5>2. PICK i \in 1..p : \E j \in DOMAIN seqs[i] : k = at[i] + j
            BY <3>3a, <5>1
          <5>3. i \in 1..m
            BY <3>0
          <5> QED BY <5>2, <5>3
        <4>2. CASE ~(k <= Len(a))
          <5> DEFINE j == k - Len(a)
          <5>1. j \in 1..Len(b) /\ k = Len(a) + j
            BY <3>2, <4>0, <4>2
          <5>2. j \in DOMAIN seqs[m] /\ k = at[m] + j
            BY <3>2, <3>3, <5>1 DEF b
          <5>3. m \in 1..m
            OBVIOUS
          <5> QED BY <5>2, <5>3
        <4> QED BY <4>1, <4>2
      <3>6. at[m + 1] = at[m] + Len(seqs[m])
        BY <3>2, <3>3 DEF b
      <3> QED BY <3>2, <3>4, <3>5, <3>6
    <2>7. \A m \in 1..n : Good(m)
      <3> HIDE DEF Good, n
      <3>1. SUFFICES ASSUME Bad # {} PROVE FALSE
        OBVIOUS
      <3>2. PICK m \in Bad : \A k \in Bad : m <= k
        <4>1. Bad \subseteq Nat
          OBVIOUS
        <4> HIDE DEF Bad
        <4> QED BY <3>1, <4>1, Least
      <3>3. m \in 1..n /\ ~Good(m)
        OBVIOUS
      <3>4. m # 1
        BY <2>5, <3>3
      <3>5. m - 1 \in 1..n /\ m - 1 \notin Bad
        BY <2>1, <3>2, <3>3, <3>4
      <3>6. Good(m - 1)
        BY <3>5
      <3> QED BY <2>6, <3>3, <3>4, <3>6
    <2>8. FlattenSeq(seqs) = J[n]
      BY <1>2, FlattenIsJoining DEF J
    <2>9. n \in 1..n
      BY <1>2, <2>1
    <2>10. at \in [1..(n + 1) -> Nat]
      <3>1. \A i \in 1..n : Len(J[i]) \in Nat
        BY <2>7
      <3> QED BY <2>1, <3>1 DEF at
    <2>11. Placed(seqs, J[n], at)
      <3>1. Len(J[n]) = at[n + 1]
        BY <2>4, <2>9
      <3>2. \A i \in DOMAIN seqs : at[i + 1] = at[i] + Len(seqs[i])
        BY <2>1, <2>7
      <3>3. /\ \A i \in 1..n : \A j \in DOMAIN seqs[i] :
                  at[i] + j \in DOMAIN J[n] /\ J[n][at[i] + j] = seqs[i][j]
            /\ \A k \in DOMAIN J[n] : \E i \in 1..n : \E j \in DOMAIN seqs[i] : k = at[i] + j
        BY <2>7, <2>9
      <3>4. \A i \in DOMAIN seqs : \A j \in DOMAIN seqs[i] :
                  at[i] + j \in DOMAIN J[n] /\ J[n][at[i] + j] = seqs[i][j]
        BY <2>1, <3>3
      <3>5. \A k \in DOMAIN J[n] : \E i \in DOMAIN seqs : \E j \in DOMAIN seqs[i] : k = at[i] + j
        <4>1. ASSUME NEW k \in DOMAIN J[n]
              PROVE  \E i \in DOMAIN seqs : \E j \in DOMAIN seqs[i] : k = at[i] + j
          <5>1. PICK i \in 1..n : \E j \in DOMAIN seqs[i] : k = at[i] + j
            BY <3>3
          <5>2. i \in DOMAIN seqs
            BY <2>1
          <5> QED BY <5>1, <5>2
        <4> QED BY <4>1
      <3>6. at \in [1..(Len(seqs) + 1) -> Nat] /\ Len(J[n]) = at[Len(seqs) + 1] /\ at[1] = 0
        BY <2>4, <2>10, <3>1
      <3> HIDE DEF n, Good
      <3> QED BY ONLY <3>2, <3>4, <3>5, <3>6 DEF Placed
    <2> QED BY <2>7, <2>8, <2>9, <2>11
  <1> QED BY <1>1, <1>2

-----------------------------------------------------------------------------
(* The lines of a unit.                                                    *)

\* The lines converters make; none is the front matter.
Lined == [piece : (Nat \X Nat) \ {FrontMatter}, words : Nat, heading : BOOLEAN]

\* Piece p can be found again in these lines: as text, or as a heading with text under it.
Appears(lines, p) ==
    \E k \in DOMAIN lines :
        /\ lines[k].piece = p
        /\ lines[k].heading => k + 1 \in DOMAIN lines /\ ~lines[k + 1].heading

\* Between two sequences that are not empty, empty ones take no place.
NoGap(seqs, at) ==
    \A i, j \in DOMAIN seqs :
        i < j /\ (\A m \in (i + 1)..(j - 1) : Len(seqs[m]) = 0) => at[j] = at[i + 1]

\* By the least place that is off.
LEMMA Adjacent ==
    ASSUME NEW seqs, NEW flat, NEW at, Placed(seqs, flat, at), Len(seqs) \in Nat,
           DOMAIN seqs = 1..Len(seqs)
    PROVE  NoGap(seqs, at)
  <1> SUFFICES ASSUME NEW i \in DOMAIN seqs, NEW j \in DOMAIN seqs, i < j,
                       \A m \in (i + 1)..(j - 1) : Len(seqs[m]) = 0
                PROVE  at[j] = at[i + 1]
    BY DEF NoGap
  <1> DEFINE Bad == {m \in (i + 1)..j : at[m] # at[i + 1]}
  <1>1. SUFFICES ASSUME Bad # {} PROVE FALSE
    <2>1. j \in (i + 1)..j
      BY DEF Placed
    <2> QED BY <2>1
  <1>2. PICK m \in Bad : \A k \in Bad : m <= k
    <2>1. Bad \subseteq Nat
      OBVIOUS
    <2> HIDE DEF Bad
    <2> QED BY <1>1, <2>1, Least
  <1>3. m \in (i + 1)..j /\ at[m] # at[i + 1]
    OBVIOUS
  <1>4. m # i + 1 /\ m - 1 \in (i + 1)..(j - 1)
    BY <1>3
  <1>5. m - 1 \in DOMAIN seqs /\ m - 1 \in (i + 1)..j
    BY <1>4
  <1>6. at[m - 1] = at[i + 1]
    BY <1>2, <1>3, <1>5
  <1>7. at[(m - 1) + 1] = at[m - 1] + Len(seqs[m - 1])
    BY <1>5 DEF Placed
  <1>8. (m - 1) + 1 = m /\ Len(seqs[m - 1]) = 0
    BY <1>3, <1>4
  <1>9. at[i + 1] \in Nat
    BY DEF Placed
  <1> QED BY <1>3, <1>6, <1>7, <1>8, <1>9

\* What appears in a part appears in the whole.
LEMMA AppearsInWhole ==
    ASSUME NEW seqs \in Seq(Seq(Lined))
    PROVE  /\ FlattenSeq(seqs) \in Seq(Lined)
           /\ \A i \in DOMAIN seqs : \A p : Appears(seqs[i], p) => Appears(FlattenSeq(seqs), p)
  <1> DEFINE flat == FlattenSeq(seqs)
  <1>1. flat \in Seq(Lined)
    BY Flattened
  <1>2. PICK at : Placed(seqs, flat, at)
    BY Flattened
  <1> HIDE DEF flat
  <1>3. ASSUME NEW i \in DOMAIN seqs, NEW p, Appears(seqs[i], p)
        PROVE  Appears(flat, p)
    <2>1. PICK k \in DOMAIN seqs[i] :
             /\ seqs[i][k].piece = p
             /\ seqs[i][k].heading => k + 1 \in DOMAIN seqs[i] /\ ~seqs[i][k + 1].heading
      BY <1>3 DEF Appears
    <2>2. at[i] + k \in DOMAIN flat /\ flat[at[i] + k] = seqs[i][k]
      BY <1>2 DEF Placed
    <2>3. k + 1 \in DOMAIN seqs[i] =>
             at[i] + (k + 1) \in DOMAIN flat /\ flat[at[i] + (k + 1)] = seqs[i][k + 1]
      BY <1>2 DEF Placed
    <2>4. at[i] \in Nat /\ k \in Nat
      <3>1. seqs[i] \in Seq(Lined)
        OBVIOUS
      <3>2. i \in 1..(Len(seqs) + 1)
        OBVIOUS
      <3>3. at[i] \in Nat
        BY <1>2, <3>2 DEF Placed
      <3>4. k \in Nat
        BY ONLY <3>1, k \in DOMAIN seqs[i]
      <3> QED BY <3>3, <3>4
    <2>5. at[i] + (k + 1) = (at[i] + k) + 1
      <3>1. \A x, y \in Nat : x + (y + 1) = (x + y) + 1
        OBVIOUS
      <3> QED BY <2>4, <3>1
    <2> QED BY <2>1, <2>2, <2>3, <2>5 DEF Appears
  <1> QED BY <1>1, <1>3 DEF flat

\* The same of two sequences.
LEMMA AppearsInJoin ==
    ASSUME NEW a \in Seq(Lined), NEW b \in Seq(Lined)
    PROVE  /\ a \o b \in Seq(Lined)
           /\ \A p : Appears(a, p) \/ Appears(b, p) => Appears(a \o b, p)
  <1> DEFINE c == a \o b
  <1>1. /\ c \in Seq(Lined)
        /\ DOMAIN c = 1..(Len(a) + Len(b))
        /\ DOMAIN a = 1..Len(a) /\ DOMAIN b = 1..Len(b)
        /\ Len(a) \in Nat /\ Len(b) \in Nat
        /\ \A k \in 1..Len(a) : c[k] = a[k]
        /\ \A k \in 1..Len(b) : c[Len(a) + k] = b[k]
    OBVIOUS
  <1> HIDE DEF c
  <1>2. ASSUME NEW p, Appears(a, p) PROVE Appears(c, p)
    <2>1. PICK k \in DOMAIN a :
             /\ a[k].piece = p
             /\ a[k].heading => k + 1 \in DOMAIN a /\ ~a[k + 1].heading
      BY <1>2 DEF Appears
    <2>2. k \in DOMAIN c /\ c[k] = a[k]
      BY <1>1
    <2>3. k + 1 \in DOMAIN a => k + 1 \in DOMAIN c /\ c[k + 1] = a[k + 1]
      BY <1>1
    <2> QED BY <2>1, <2>2, <2>3 DEF Appears
  <1>3. ASSUME NEW p, Appears(b, p) PROVE Appears(c, p)
    <2>1. PICK k \in DOMAIN b :
             /\ b[k].piece = p
             /\ b[k].heading => k + 1 \in DOMAIN b /\ ~b[k + 1].heading
      BY <1>3 DEF Appears
    <2>2. Len(a) + k \in DOMAIN c /\ c[Len(a) + k] = b[k]
      <3>1. k \in 1..Len(b)
        BY <1>1
      <3> QED BY <1>1, <3>1
    <2>3. k + 1 \in DOMAIN b => (Len(a) + k) + 1 \in DOMAIN c /\ c[(Len(a) + k) + 1] = b[k + 1]
      <3>0. k \in Nat /\ Len(a) \in Nat
        BY <1>1
      <3>1. (Len(a) + k) + 1 = Len(a) + (k + 1)
        BY <3>0
      <3> QED BY <1>1, <3>1
    <2> QED BY <2>1, <2>2, <2>3 DEF Appears
  <1> QED BY <1>1, <1>2, <1>3 DEF c

-----------------------------------------------------------------------------
\* Piece j of unit i as a line, and the pieces of some roles as sequences of one
\* line or none.
LineOf(units, i, j) == Line(<<i, j>>, units[i][j].words, units[i][j].role = "h2")
Chosen(units, i, roles) ==
    [j \in DOMAIN units[i] |-> IF units[i][j].role \in roles THEN <<LineOf(units, i, j)>> ELSE <<>>]

\* The lines of a unit are its chosen pieces joined.
LEMMA LinesAreChosen ==
    ASSUME NEW R, NEW units \in Seq(Seq([role : R, words : Nat])), NEW i \in DOMAIN units, NEW roles
    PROVE  /\ Lines(units, i, roles) = FlattenSeq(Chosen(units, i, roles))
           /\ Chosen(units, i, roles) \in Seq(Seq(Lined))
           /\ DOMAIN units[i] = 1..Len(units[i]) /\ Len(units[i]) \in Nat
           /\ Len(Chosen(units, i, roles)) = Len(units[i])
           /\ \A j \in DOMAIN units[i] : LineOf(units, i, j) \in Lined
  <1>1. units[i] \in Seq([role : R, words : Nat])
    OBVIOUS
  <1>2. ASSUME NEW j \in DOMAIN units[i]
        PROVE  LineOf(units, i, j) \in Lined
    <2>1. units[i][j].words \in Nat
      <3>1. units[i][j] \in [role : R, words : Nat]
        <4>1. DOMAIN units[i] = 1..Len(units[i])
          BY <1>1
        <4> QED BY <1>1, <4>1, ElementOfSeq
      <3> QED BY <3>1
    <2>2. i \in Nat \ {0} /\ j \in Nat
      BY <1>1
    <2>3. <<i, j>> # FrontMatter
      BY <2>2 DEF FrontMatter
    <2> QED BY <2>1, <2>2, <2>3 DEF LineOf, Line, Lined
  <1>3. ASSUME NEW j \in DOMAIN units[i]
        PROVE  Chosen(units, i, roles)[j] \in Seq(Lined)
    BY <1>2 DEF Chosen
  <1>4. DOMAIN units[i] = 1..Len(units[i]) /\ Len(units[i]) \in Nat
    BY <1>1
  <1>5. Chosen(units, i, roles) \in [1..Len(units[i]) -> Seq(Lined)]
    BY <1>3, <1>4 DEF Chosen
  <1>6. \A k \in Nat : \A g \in [1..k -> Seq(Lined)] : g \in Seq(Seq(Lined)) /\ Len(g) = k
    BY Indexed
  <1>7. Lines(units, i, roles) = FlattenSeq(Chosen(units, i, roles))
    BY DEF Lines, Chosen, LineOf
  <1> QED BY <1>2, <1>4, <1>5, <1>6, <1>7

\* Every piece that is taken appears; a heading, if text that is taken follows it.
LEMMA TakenAppears ==
    ASSUME NEW R, NEW units \in Seq(Seq([role : R, words : Nat])), NEW i \in DOMAIN units, NEW roles
    PROVE  /\ Lines(units, i, roles) \in Seq(Lined)
           /\ \A j \in DOMAIN units[i] :
                 \/ units[i][j].role \in roles \ {"h2"}
                 \/ /\ units[i][j].role \in roles
                    /\ \E k \in (j + 1)..Len(units[i]) :
                          /\ units[i][k].role \in roles
                          /\ \A m \in (j + 1)..k : units[i][m].role # "h2"
                 => Appears(Lines(units, i, roles), <<i, j>>)
  <1> DEFINE seqs == Chosen(units, i, roles)
             lines == Lines(units, i, roles)
             n == Len(units[i])
  <1>1. /\ lines = FlattenSeq(seqs) /\ seqs \in Seq(Seq(Lined))
        /\ DOMAIN units[i] = 1..n /\ n \in Nat /\ Len(seqs) = n
        /\ \A j \in DOMAIN units[i] : LineOf(units, i, j) \in Lined
    BY LinesAreChosen
  <1>2. /\ DOMAIN seqs = 1..n
        /\ \A j \in 1..n : units[i][j].role \in roles => seqs[j] = <<LineOf(units, i, j)>>
        /\ \A j \in 1..n : units[i][j].role \notin roles => seqs[j] = <<>>
    BY <1>1 DEF Chosen
  <1> HIDE DEF seqs, lines
  <1>3. lines \in Seq(Lined)
    BY <1>1, Flattened
  <1>4. \E at : Placed(seqs, lines, at)
    BY <1>1, Flattened
  <1>5. PICK at : Placed(seqs, lines, at)
    BY <1>4
  <1> HIDE DEF n
  <1>6. /\ \A j \in 1..n : at[j] \in Nat /\ at[j + 1] = at[j] + Len(seqs[j])
        /\ \A j \in 1..n : \A k \in DOMAIN seqs[j] :
              at[j] + k \in DOMAIN lines /\ lines[at[j] + k] = seqs[j][k]
    <2>1. /\ at \in [1..(n + 1) -> Nat]
          /\ \A j \in DOMAIN seqs : at[j + 1] = at[j] + Len(seqs[j])
          /\ \A j \in DOMAIN seqs : \A k \in DOMAIN seqs[j] :
                at[j] + k \in DOMAIN lines /\ lines[at[j] + k] = seqs[j][k]
      BY <1>1, <1>5 DEF Placed
    <2>2. \A j \in 1..n : j \in 1..(n + 1)
      BY <1>1
    <2> QED BY <1>2, <2>1, <2>2
  <1>7. ASSUME NEW j \in 1..n, units[i][j].role \in roles
        PROVE  /\ at[j] + 1 \in DOMAIN lines /\ lines[at[j] + 1] = LineOf(units, i, j)
               /\ at[j + 1] = at[j] + 1 /\ at[j] \in Nat
    <2>1. seqs[j] = <<LineOf(units, i, j)>>
      BY <1>2, <1>7
    <2>2. 1 \in DOMAIN seqs[j] /\ Len(seqs[j]) = 1 /\ seqs[j][1] = LineOf(units, i, j)
      BY <2>1
    <2>3. at[j] + 1 \in DOMAIN lines /\ lines[at[j] + 1] = seqs[j][1]
      BY <1>6, <2>2
    <2> QED BY <1>6, <2>2, <2>3
  <1>8. ASSUME NEW j \in 1..n, units[i][j].role \in roles \ {"h2"}
        PROVE  Appears(lines, <<i, j>>)
    <2>1. LineOf(units, i, j).piece = <<i, j>> /\ ~LineOf(units, i, j).heading
      BY <1>8 DEF LineOf, Line
    <2> QED BY <1>7, <1>8, <2>1 DEF Appears
  <1>9. ASSUME NEW j \in 1..n, units[i][j].role \in roles,
               NEW k0 \in (j + 1)..n, units[i][k0].role \in roles,
               \A m \in (j + 1)..k0 : units[i][m].role # "h2"
        PROVE  Appears(lines, <<i, j>>)
    <2> DEFINE Later == {m \in (j + 1)..k0 : units[i][m].role \in roles}
    <2>0. j \in Nat /\ k0 \in Nat /\ k0 \in (j + 1)..k0
      BY <1>1
    <2>1. Later \subseteq Nat /\ k0 \in Later
      <3>1. (j + 1)..k0 \subseteq Nat
        BY <2>0
      <3> QED BY <1>9, <2>0, <3>1
    <2>2. PICK k \in Later : \A m \in Later : k <= m
      <3> HIDE DEF Later
      <3> QED BY <2>1, Least
    <2>3. k \in 1..n /\ j < k /\ k \in (j + 1)..k0 /\ units[i][k].role \in roles
      BY <1>1
    <2>4. \A m \in (j + 1)..(k - 1) : Len(seqs[m]) = 0
      <3>1. ASSUME NEW m \in (j + 1)..(k - 1) PROVE Len(seqs[m]) = 0
        <4>1. m \in (j + 1)..k0 /\ m \in 1..n /\ ~(k <= m)
          BY <1>1, <2>3
        <4>2. units[i][m].role \notin roles
          BY <2>2, <4>1
        <4> QED BY <1>2, <4>1, <4>2
      <3> QED BY <3>1
    <2>5. at[k] = at[j + 1]
      <3>1. DOMAIN seqs = 1..Len(seqs) /\ Len(seqs) \in Nat
        BY <1>1, <1>2
      <3>2. j \in DOMAIN seqs /\ k \in DOMAIN seqs
        BY <1>2, <2>3
      <3>3. j < k
        BY <2>3
      <3>4. NoGap(seqs, at)
        BY <1>5, <3>1, Adjacent
      <3> QED BY <2>4, <3>2, <3>3, <3>4 DEF NoGap
    <2>6. /\ at[j] + 1 \in DOMAIN lines /\ lines[at[j] + 1] = LineOf(units, i, j)
          /\ at[j + 1] = at[j] + 1 /\ at[j] \in Nat
      BY <1>7, <1>9
    <2>7. at[k] + 1 \in DOMAIN lines /\ lines[at[k] + 1] = LineOf(units, i, k)
      BY <1>7, <2>3
    <2>8. units[i][k].role # "h2"
      BY <1>9, <2>3
    <2>9. ~LineOf(units, i, k).heading /\ LineOf(units, i, j).piece = <<i, j>>
      BY <2>8 DEF LineOf, Line
    <2>10. (at[j] + 1) + 1 \in DOMAIN lines /\ ~lines[(at[j] + 1) + 1].heading
      BY <2>5, <2>6, <2>7, <2>9
    <2> QED BY <2>6, <2>9, <2>10 DEF Appears
  <1> QED BY <1>1, <1>3, <1>8, <1>9 DEF lines, n

\* Nothing joined is nothing, one sequence joined is itself, and single elements
\* joined are those elements.
LEMMA FlattenSmall ==
    ASSUME NEW T, NEW seqs \in Seq(Seq(T))
    PROVE  /\ (\A i \in DOMAIN seqs : seqs[i] = <<>>) => FlattenSeq(seqs) = <<>>
           /\ Len(seqs) = 1 => FlattenSeq(seqs) = seqs[1]
           /\ (\A i \in DOMAIN seqs : Len(seqs[i]) = 1)
                 => /\ Len(FlattenSeq(seqs)) = Len(seqs)
                    /\ \A i \in DOMAIN seqs : FlattenSeq(seqs)[i] = seqs[i][1]
  <1> DEFINE flat == FlattenSeq(seqs)
             n == Len(seqs)
  <1>1. flat \in Seq(T)
    BY Flattened
  <1>2. \E at : Placed(seqs, flat, at)
    BY Flattened
  <1>3. PICK at : Placed(seqs, flat, at)
    BY <1>2
  <1> HIDE DEF flat
  <1>4. n \in Nat /\ DOMAIN seqs = 1..n /\ \A i \in 1..n : seqs[i] \in Seq(T)
    OBVIOUS
  <1>5. /\ at[1] = 0 /\ at \in [1..(n + 1) -> Nat] /\ Len(flat) = at[n + 1]
        /\ \A i \in 1..n : at[i + 1] = at[i] + Len(seqs[i])
        /\ \A i \in 1..n : \A j \in DOMAIN seqs[i] :
              at[i] + j \in DOMAIN flat /\ flat[at[i] + j] = seqs[i][j]
        /\ \A k \in DOMAIN flat : \E i \in DOMAIN seqs : \E j \in DOMAIN seqs[i] : k = at[i] + j
    <2>1. /\ at[1] = 0 /\ at \in [1..(Len(seqs) + 1) -> Nat] /\ Len(flat) = at[Len(seqs) + 1]
          /\ \A i \in DOMAIN seqs : at[i + 1] = at[i] + Len(seqs[i])
          /\ \A i \in DOMAIN seqs : \A j \in DOMAIN seqs[i] :
                at[i] + j \in DOMAIN flat /\ flat[at[i] + j] = seqs[i][j]
          /\ \A k \in DOMAIN flat : \E i \in DOMAIN seqs : \E j \in DOMAIN seqs[i] : k = at[i] + j
      BY ONLY <1>3 DEF Placed
    <2> QED BY <1>4, <2>1
  <1> HIDE DEF n
  <1>6. ASSUME \A i \in 1..n : seqs[i] = <<>> PROVE flat = <<>>
    <2>1. \A i \in DOMAIN seqs : DOMAIN seqs[i] = {}
      BY <1>4, <1>6
    <2>2. DOMAIN flat = {}
      BY <1>5, <2>1
    <2> QED BY <1>1, <2>2
  <1>7. ASSUME n = 1 PROVE flat = seqs[1]
    <2>1. 1 \in 1..n /\ seqs[1] \in Seq(T)
      BY <1>4, <1>7
    <2>2. Len(flat) = Len(seqs[1])
      <3>1. at[1 + 1] = at[1] + Len(seqs[1])
        BY <1>5, <2>1
      <3>2. Len(flat) = at[1 + 1] /\ Len(seqs[1]) \in Nat
        BY <1>5, <1>7, <2>1
      <3> QED BY <1>5, <3>1, <3>2
    <2>3. ASSUME NEW j \in 1..Len(seqs[1]) PROVE flat[j] = seqs[1][j]
      <3>1. j \in DOMAIN seqs[1] /\ at[1] + j = j
        BY <1>5, <2>1
      <3> QED BY <1>5, <2>1, <3>1
    <2>4. \A j \in 1..Len(flat) : flat[j] = seqs[1][j]
      BY <2>2, <2>3
    <2> QED BY <1>1, <2>1, <2>2, <2>4, SeqEqual
  <1>8. ASSUME \A i \in 1..n : Len(seqs[i]) = 1
        PROVE  Len(flat) = n /\ \A i \in 1..n : flat[i] = seqs[i][1]
    <2> DEFINE Bad == {i \in 1..(n + 1) : at[i] # i - 1}
    <2>1. Bad = {}
      <3>1. SUFFICES ASSUME Bad # {} PROVE FALSE
        OBVIOUS
      <3>2. PICK m \in Bad : \A k \in Bad : m <= k
        <4>1. Bad \subseteq Nat
          OBVIOUS
        <4> HIDE DEF Bad
        <4> QED BY <3>1, <4>1, Least
      <3>3. m \in 1..(n + 1) /\ at[m] # m - 1 /\ m # 1
        BY <1>5
      <3> DEFINE p == m - 1
      <3>4. p \in 1..n /\ p \in 1..(n + 1) /\ m = p + 1 /\ ~(m <= p)
        BY <1>4, <3>3
      <3>5. at[p] = p - 1
        BY <3>2, <3>4
      <3>6. at[p + 1] = at[p] + 1
        BY <1>5, <1>8, <3>4
      <3> QED BY <3>3, <3>4, <3>5, <3>6
    <2>2. \A i \in 1..(n + 1) : at[i] = i - 1
      BY <2>1
    <2>3. Len(flat) = n
      <3>1. n + 1 \in 1..(n + 1)
        BY <1>4
      <3> QED BY <1>4, <1>5, <2>2, <3>1
    <2>4. ASSUME NEW i \in 1..n PROVE flat[i] = seqs[i][1]
      <3>1. 1 \in DOMAIN seqs[i] /\ at[i] = i - 1
        BY <1>4, <1>8, <2>2
      <3>2. flat[at[i] + 1] = seqs[i][1]
        BY <1>5, <3>1
      <3>3. at[i] + 1 = i
        BY <3>1
      <3> QED BY <3>2, <3>3
    <2> QED BY <2>3, <2>4
  <1> QED BY <1>4, <1>6, <1>7, <1>8 DEF flat, n

\* A line of a unit is one of its pieces.
LEMMA LinesArePieces ==
    ASSUME NEW R, NEW units \in Seq(Seq([role : R, words : Nat])), NEW i \in DOMAIN units, NEW roles
    PROVE  \A k \in DOMAIN Lines(units, i, roles) : \E j \in DOMAIN units[i] :
              /\ units[i][j].role \in roles
              /\ Lines(units, i, roles)[k] = LineOf(units, i, j)
  <1> DEFINE seqs == Chosen(units, i, roles)
             lines == Lines(units, i, roles)
  <1>1. /\ lines = FlattenSeq(seqs) /\ seqs \in Seq(Seq(Lined))
        /\ DOMAIN seqs = DOMAIN units[i]
    <2>1. DOMAIN seqs = DOMAIN units[i]
      BY DEF Chosen
    <2> QED BY <2>1, LinesAreChosen
  <1>2. \A j \in DOMAIN units[i] :
           seqs[j] = IF units[i][j].role \in roles THEN <<LineOf(units, i, j)>> ELSE <<>>
    BY DEF Chosen
  <1> HIDE DEF seqs, lines
  <1>3. \E at : Placed(seqs, lines, at)
    BY <1>1, Flattened
  <1>4. PICK at : Placed(seqs, lines, at)
    BY <1>3
  <1>5. ASSUME NEW k \in DOMAIN lines
        PROVE  \E j \in DOMAIN units[i] : units[i][j].role \in roles /\ lines[k] = LineOf(units, i, j)
    <2>1. PICK j \in DOMAIN seqs : \E m \in DOMAIN seqs[j] : k = at[j] + m
      BY <1>4 DEF Placed
    <2>2. PICK m \in DOMAIN seqs[j] : k = at[j] + m
      BY <2>1
    <2>3. lines[k] = seqs[j][m]
      BY <1>4, <2>2 DEF Placed
    <2>4. j \in DOMAIN units[i]
      BY <1>1
    <2>5. units[i][j].role \in roles /\ seqs[j] = <<LineOf(units, i, j)>>
      <3>1. CASE units[i][j].role \notin roles
        <4>1. seqs[j] = <<>>
          BY <1>2, <2>4, <3>1
        <4> QED BY <2>2, <4>1
      <3> QED BY <1>2, <2>4, <3>1
    <2>6. m = 1
      BY <2>2, <2>5
    <2> QED BY <2>3, <2>4, <2>5, <2>6
  <1> QED BY <1>5 DEF lines

\* Without a piece of these roles there are no lines.
LEMMA NoLines ==
    ASSUME NEW R, NEW units \in Seq(Seq([role : R, words : Nat])), NEW i \in DOMAIN units, NEW roles,
           \A j \in DOMAIN units[i] : units[i][j].role \notin roles
    PROVE  Lines(units, i, roles) = <<>>
  <1>1. DOMAIN Lines(units, i, roles) = {}
    BY LinesArePieces
  <1>2. Lines(units, i, roles) \in Seq(Lined)
    BY TakenAppears
  <1> QED BY <1>1, <1>2

\* The words of a unit of nothing but text are the words of its lines.
LEMMA WordsOfText ==
    ASSUME NEW units \in Seq(Seq([role : {"text"}, words : Nat])), Len(units) = 1
    PROVE  WordsIn(FlattenSeq([i \in DOMAIN units |-> Lines(units, i, {"text"})])) = WordsIn(units[1])
  <1> DEFINE seqs == Chosen(units, 1, {"text"})
             lines == Lines(units, 1, {"text"})
             all == [i \in DOMAIN units |-> Lines(units, i, {"text"})]
             n == Len(units[1])
  <1>1. DOMAIN units = 1..1 /\ 1 \in DOMAIN units
    OBVIOUS
  <1>2. /\ lines = FlattenSeq(seqs) /\ seqs \in Seq(Seq(Lined))
        /\ DOMAIN units[1] = 1..n /\ n \in Nat /\ Len(seqs) = n
    BY <1>1, LinesAreChosen
  <1>3. lines \in Seq(Lined)
    BY <1>2, Flattened
  <1>4. FlattenSeq(all) = lines
    <2>1. all \in [1..1 -> Seq(Lined)] /\ all[1] = lines
      BY <1>1, <1>3
    <2>2. \A g \in [1..1 -> Seq(Lined)] : g \in Seq(Seq(Lined)) /\ Len(g) = 1
      <3>1. \A k \in Nat : \A g \in [1..k -> Seq(Lined)] : g \in Seq(Seq(Lined)) /\ Len(g) = k
        BY Indexed
      <3>2. 1 \in Nat
        OBVIOUS
      <3> HIDE DEF Lined
      <3> QED BY ONLY <3>1, <3>2
    <2>3. all \in Seq(Seq(Lined)) /\ Len(all) = 1
      BY <2>1, <2>2
    <2> HIDE DEF all
    <2> QED BY <2>1, <2>3, FlattenSmall
  <1>5. \A j \in 1..n : units[1][j].role = "text"
    <2>1. units[1] \in Seq([role : {"text"}, words : Nat])
      BY <1>1
    <2>2. \A j \in 1..n : units[1][j] \in [role : {"text"}, words : Nat]
      BY <2>1, ElementOfSeq
    <2> QED BY <2>2
  <1>6. \A j \in 1..n : seqs[j] = <<LineOf(units, 1, j)>>
    BY <1>2, <1>5 DEF Chosen
  <1>7. \A j \in DOMAIN seqs : Len(seqs[j]) = 1 /\ seqs[j][1] = LineOf(units, 1, j)
    <2>1. DOMAIN seqs = 1..n
      BY <1>2
    <2> HIDE DEF seqs
    <2> QED BY <1>6, <2>1
  <1>8. Len(lines) = n /\ \A j \in 1..n : lines[j] = LineOf(units, 1, j)
    <2> HIDE DEF seqs, lines, n
    <2>1. /\ Len(lines) = Len(seqs)
          /\ \A i \in DOMAIN seqs : lines[i] = seqs[i][1]
      BY <1>2, <1>7, FlattenSmall
    <2>2. DOMAIN seqs = 1..n
      BY <1>2
    <2> QED BY <1>2, <1>7, <2>1, <2>2
  <1>9. \A j \in 1..n : lines[j].words = units[1][j].words
    <2> HIDE DEF lines
    <2>1. \A j \in 1..n : LineOf(units, 1, j).words = units[1][j].words
      BY DEF LineOf, Line
    <2> QED BY <1>8, <2>1
  <1>10. DOMAIN lines = 1..n
    BY <1>3, <1>8
  <1>11. [k \in DOMAIN lines |-> lines[k].words] = [k \in DOMAIN units[1] |-> units[1][k].words]
    BY <1>2, <1>9, <1>10
  <1>12. WordsIn(lines) = WordsIn(units[1])
    BY <1>11, Zenon DEF WordsIn
  <1> QED BY <1>4, <1>12

-----------------------------------------------------------------------------
(* The converters.                                                         *)

\* Piece j of unit i is taken by a converter that keeps these roles: it is text,
\* or a heading over text that is taken.
Taken(units, i, j, roles) ==
    \/ units[i][j].role \in roles \ {"h2"}
    \/ /\ units[i][j].role \in roles
       /\ \E k \in (j + 1)..Len(units[i]) :
             /\ units[i][k].role \in roles
             /\ \A m \in (j + 1)..k : units[i][m].role # "h2"

\* What every converter does: it makes lines, among them every piece of these roles.
Keeps(lines, units, roles) ==
    /\ lines \in Seq(Lined)
    /\ \A i \in DOMAIN units : \A j \in DOMAIN units[i] :
          Taken(units, i, j, roles) => Appears(lines, <<i, j>>)

\* A converter that makes of each unit at least its lines keeps them all.
LEMMA UnitByUnit ==
    ASSUME NEW R, NEW units \in Seq(Seq([role : R, words : Nat])), NEW roles,
           NEW made, made = [i \in DOMAIN units |-> made[i]],
           \A i \in DOMAIN units :
               /\ made[i] \in Seq(Lined)
               /\ \A p : Appears(Lines(units, i, roles), p) => Appears(made[i], p)
    PROVE  /\ made \in Seq(Seq(Lined))
           /\ Keeps(FlattenSeq(made), units, roles)
  <1>1. made \in Seq(Seq(Lined))
    <2>0. DOMAIN units = 1..Len(units) /\ Len(units) \in Nat
      OBVIOUS
    <2>1. made \in [1..Len(units) -> Seq(Lined)]
      BY <2>0
    <2>2. \A k \in Nat : \A g \in [1..k -> Seq(Lined)] : g \in Seq(Seq(Lined))
      BY Indexed
    <2> QED BY <2>0, <2>1, <2>2
  <1>2. DOMAIN made = DOMAIN units
    OBVIOUS
  <1>3. ASSUME NEW i \in DOMAIN units, NEW j \in DOMAIN units[i], Taken(units, i, j, roles)
        PROVE  Appears(FlattenSeq(made), <<i, j>>)
    <2>1. Appears(Lines(units, i, roles), <<i, j>>)
      BY <1>3, TakenAppears DEF Taken
    <2>2. Appears(made[i], <<i, j>>)
      BY <2>1
    <2> QED BY <1>1, <1>2, <2>2, AppearsInWhole
  <1> QED BY <1>1, <1>3, AppearsInWhole DEF Keeps

\* Markdown, CSV, web pages and Word files: the pieces of some roles, in order.
LEMMA PlainKeeps ==
    ASSUME NEW R, NEW units \in Seq(Seq([role : R, words : Nat])), NEW roles
    PROVE  Keeps(FlattenSeq([i \in DOMAIN units |-> Lines(units, i, roles)]), units, roles)
  <1> DEFINE made == [i \in DOMAIN units |-> Lines(units, i, roles)]
  <1>1. \A i \in DOMAIN units : made[i] = Lines(units, i, roles)
    OBVIOUS
  <1>2. \A i \in DOMAIN units : Lines(units, i, roles) \in Seq(Lined)
    BY TakenAppears
  <1>3. made = [i \in DOMAIN units |-> made[i]]
    OBVIOUS
  <1> HIDE DEF made
  <1>4. Keeps(FlattenSeq(made), units, roles)
    BY <1>1, <1>2, <1>3, UnitByUnit
  <1> QED BY <1>4 DEF made

\* A sheet or a page, some of whose pieces come twice.
LEMMA TwiceKeeps ==
    ASSUME NEW R, NEW units \in Seq(Seq([role : R, words : Nat])), NEW roles, NEW again
    PROVE  Keeps(FlattenSeq([i \in DOMAIN units |->
                     Lines(units, i, roles) \o Lines(units, i, again)]), units, roles)
  <1> DEFINE made == [i \in DOMAIN units |-> Lines(units, i, roles) \o Lines(units, i, again)]
  <1>1. \A i \in DOMAIN units : made[i] = Lines(units, i, roles) \o Lines(units, i, again)
    OBVIOUS
  <1>2. \A i \in DOMAIN units : /\ Lines(units, i, roles) \in Seq(Lined)
                                /\ Lines(units, i, again) \in Seq(Lined)
    BY TakenAppears
  <1>3. made = [i \in DOMAIN units |-> made[i]]
    OBVIOUS
  <1> HIDE DEF made
  <1>4. \A i \in DOMAIN units :
           /\ made[i] \in Seq(Lined)
           /\ \A p : Appears(Lines(units, i, roles), p) => Appears(made[i], p)
    BY <1>1, <1>2, AppearsInJoin
  <1>5. Keeps(FlattenSeq(made), units, roles)
    BY <1>3, <1>4, UnitByUnit
  <1> QED BY <1>5 DEF made

\* The pages read from their pictures.
LEMMA ScannedKeeps ==
    ASSUME NEW R, NEW units \in Seq(Seq([role : R, words : Nat]))
    PROVE  Keeps(FlattenSeq([i \in DOMAIN units |->
                     <<Line(Generated, 1, TRUE)>> \o Lines(units, i, {"scan"})]), units, {"scan"})
  <1> DEFINE page == Line(Generated, 1, TRUE)
             made == [i \in DOMAIN units |-> <<page>> \o Lines(units, i, {"scan"})]
  <1>0. page \in Lined
    BY DEF Lined, Line, Generated, FrontMatter
  <1>1. \A i \in DOMAIN units : made[i] = <<page>> \o Lines(units, i, {"scan"})
    OBVIOUS
  <1>2. \A i \in DOMAIN units : Lines(units, i, {"scan"}) \in Seq(Lined)
    BY TakenAppears
  <1>3. made = [i \in DOMAIN units |-> made[i]]
    OBVIOUS
  <1>3a. <<page>> \in Seq(Lined)
    <2> HIDE DEF page
    <2> QED BY <1>0
  <1>4. \A i \in DOMAIN units :
           /\ made[i] \in Seq(Lined)
           /\ \A p : Appears(Lines(units, i, {"scan"}), p) => Appears(made[i], p)
    <2> HIDE DEF made, page
    <2> QED BY <1>1, <1>2, <1>3a, AppearsInJoin
  <1>5. Keeps(FlattenSeq(made), units, {"scan"})
    <2> HIDE DEF made, page
    <2> QED BY <1>3, <1>4, UnitByUnit
  <1> QED BY <1>5

\* Of a PDF its text and tables, or what is read from its pictures if it has none.
LEMMA PdfKeeps ==
    ASSUME NEW R, NEW units \in Seq(Seq([role : R, words : Nat]))
    PROVE  Keeps(Pdf(units), units,
                 IF \E i \in DOMAIN units : \E j \in DOMAIN units[i] :
                        units[i][j].role \in {"text", "table"}
                 THEN {"text", "table"} ELSE {"scan"})
  <1> DEFINE made == [i \in DOMAIN units |->
                         Lines(units, i, {"text", "table"}) \o Lines(units, i, {"table"})]
             scanned == [i \in DOMAIN units |->
                         <<Line(Generated, 1, TRUE)>> \o Lines(units, i, {"scan"})]
  <1>1. Pdf(units) = IF FlattenSeq(made) # <<>> THEN FlattenSeq(made) ELSE FlattenSeq(scanned)
    BY DEF Pdf, PerUnit
  <1>2. Keeps(FlattenSeq(made), units, {"text", "table"})
    BY TwiceKeeps
  <1>3. Keeps(FlattenSeq(scanned), units, {"scan"})
    BY ScannedKeeps
  <1>4. ASSUME \E i \in DOMAIN units : \E j \in DOMAIN units[i] :
                  units[i][j].role \in {"text", "table"}
        PROVE  FlattenSeq(made) # <<>>
    <2>1. PICK i \in DOMAIN units : \E j \in DOMAIN units[i] :
                  units[i][j].role \in {"text", "table"}
      BY <1>4
    <2>2. PICK j \in DOMAIN units[i] : units[i][j].role \in {"text", "table"}
      BY <2>1
    <2>3. Taken(units, i, j, {"text", "table"})
      BY <2>2 DEF Taken
    <2>4. Appears(FlattenSeq(made), <<i, j>>)
      BY <1>2, <2>3 DEF Keeps
    <2> HIDE DEF made
    <2>5. DOMAIN FlattenSeq(made) # {}
      BY <2>4 DEF Appears
    <2> QED BY <2>5
  <1>5. ASSUME ~\E i \in DOMAIN units : \E j \in DOMAIN units[i] :
                  units[i][j].role \in {"text", "table"}
        PROVE  FlattenSeq(made) = <<>>
    <2>1. \A i \in DOMAIN units : Lines(units, i, {"text", "table"}) = <<>>
      BY <1>5, NoLines
    <2>2. \A i \in DOMAIN units : Lines(units, i, {"table"}) = <<>>
      <3>1. \A i \in DOMAIN units : \A j \in DOMAIN units[i] : units[i][j].role \notin {"table"}
        BY <1>5
      <3> QED BY <3>1, NoLines
    <2>3. \A i \in DOMAIN made : made[i] = <<>>
      BY <2>1, <2>2
    <2>4. made \in Seq(Seq(Lined))
      <3>0. DOMAIN units = 1..Len(units) /\ Len(units) \in Nat /\ DOMAIN made = DOMAIN units
        OBVIOUS
      <3>1. made \in [1..Len(units) -> Seq(Lined)]
        <4>1. \A i \in 1..Len(units) : made[i] = <<>>
          BY <2>3, <3>0
        <4>2. made = [i \in 1..Len(units) |-> made[i]]
          BY <3>0
        <4>3. <<>> \in Seq(Lined)
          OBVIOUS
        <4> HIDE DEF made
        <4> QED BY <4>1, <4>2, <4>3
      <3>2. \A k \in Nat : \A g \in [1..k -> Seq(Lined)] : g \in Seq(Seq(Lined))
        BY Indexed
      <3> HIDE DEF made
      <3> QED BY <3>0, <3>1, <3>2
    <2> HIDE DEF made
    <2> QED BY <2>3, <2>4, FlattenSmall
  <1> HIDE DEF made, scanned
  <1> QED BY <1>1, <1>2, <1>3, <1>4, <1>5

\* What \o returns.
LEMMA JoinIs ==
    ASSUME NEW S, NEW a \in Seq(S), NEW b \in Seq(S)
    PROVE  /\ a \o b \in Seq(S) /\ Len(a \o b) = Len(a) + Len(b)
           /\ \A k \in 1..Len(a) : (a \o b)[k] = a[k]
           /\ \A k \in 1..Len(b) : (a \o b)[Len(a) + k] = b[k]
  OBVIOUS

\* A slide: the first shape is a heading over the next one, or over the notes line.
TitleOf(shapes, t) == IF shapes = <<>> THEN t ELSE [shapes[1] EXCEPT !.heading = TRUE]
SlideOf(shapes, t, g, notes) ==
    <<TitleOf(shapes, t)>> \o SubSeq(shapes, 2, Len(shapes)) \o <<g>> \o notes

\* The title, turned into a heading, always has a line of text below it.
LEMMA SlideKeeps ==
    ASSUME NEW shapes \in Seq(Lined), \A k \in DOMAIN shapes : ~shapes[k].heading,
           NEW notes \in Seq(Lined), NEW t \in Lined, NEW g \in Lined, ~g.heading
    PROVE  /\ SlideOf(shapes, t, g, notes) \in Seq(Lined)
           /\ \A p : Appears(shapes, p) \/ Appears(notes, p)
                       => Appears(SlideOf(shapes, t, g, notes), p)
  <1> DEFINE title == TitleOf(shapes, t)
             body == SubSeq(shapes, 2, Len(shapes))
             c == <<title>> \o body \o <<g>>
  <1>0. title = IF shapes = <<>> THEN t ELSE [shapes[1] EXCEPT !.heading = TRUE]
    BY DEF TitleOf
  <1>7. SlideOf(shapes, t, g, notes) = c \o notes
    BY DEF SlideOf
  <1> HIDE DEF title
  <1>1. title \in Lined
    <2>1. CASE shapes = <<>>
      BY <1>0, <2>1
    <2>2. CASE shapes # <<>>
      <3>1. shapes[1] \in Lined
        BY <2>2
      <3> QED BY <1>0, <2>2, <3>1 DEF Lined
    <2> QED BY <2>1, <2>2
  <1>2. Len(shapes) \in Nat /\ DOMAIN shapes = 1..Len(shapes) /\ \A k \in 1..Len(shapes) : shapes[k] \in Lined
    OBVIOUS
  <1>3. /\ body \in Seq(Lined) /\ DOMAIN body = 1..Len(body)
        /\ Len(body) = IF shapes = <<>> THEN 0 ELSE Len(shapes) - 1
        /\ \A k \in 1..Len(body) : body[k] = shapes[k + 1]
    OBVIOUS
  <1> HIDE DEF body
  <1>4. /\ c \in Seq(Lined)
        /\ Len(c) = Len(body) + 2
        /\ c[1] = title
        /\ \A k \in 1..Len(body) : c[k + 1] = body[k]
        /\ c[Len(body) + 2] = g
    <2> DEFINE d == <<title>> \o body
    <2>0. Len(body) \in Nat
      BY <1>3
    <2>1. <<title>> \in Seq(Lined) /\ Len(<<title>>) = 1 /\ <<title>>[1] = title
      BY <1>1
    <2>2. /\ d \in Seq(Lined) /\ Len(d) = 1 + Len(body) /\ d[1] = title
          /\ \A k \in 1..Len(body) : d[k + 1] = body[k]
      BY <1>3, <2>1
    <2> HIDE DEF d
    <2>3. c = d \o <<g>>
      BY DEF d
    <2> HIDE DEF c
    <2>4. /\ c \in Seq(Lined) /\ Len(c) = Len(d) + 1 /\ c[Len(d) + 1] = g
          /\ \A k \in 1..Len(d) : c[k] = d[k]
      <3>1. <<g>> \in Seq(Lined) /\ Len(<<g>>) = 1 /\ 1 \in 1..Len(<<g>>) /\ <<g>>[1] = g
        OBVIOUS
      <3>2. /\ c \in Seq(Lined) /\ Len(c) = Len(d) + Len(<<g>>)
            /\ \A k \in 1..Len(d) : c[k] = d[k]
            /\ \A k \in 1..Len(<<g>>) : c[Len(d) + k] = <<g>>[k]
        BY <2>2, <2>3, <3>1, JoinIs
      <3> QED BY <3>1, <3>2
    <2>5. 1 \in 1..Len(d) /\ \A k \in 1..Len(body) : k + 1 \in 1..Len(d)
      BY <2>0, <2>2
    <2>6. Len(d) + 1 = Len(body) + 2
      BY <2>0, <2>2
    <2> QED BY <2>2, <2>4, <2>5, <2>6
  <1> HIDE DEF c
  <1>5. ASSUME NEW p, Appears(shapes, p) PROVE Appears(c, p)
    <2>1. PICK k \in DOMAIN shapes : shapes[k].piece = p
      BY <1>5 DEF Appears
    <2>2. k \in 1..Len(shapes) /\ shapes # <<>>
      BY <1>2
    <2>5. ~shapes[k].heading
      OBVIOUS
    <2>3. CASE k = 1
      <3>1. c[1].piece = p
        BY <1>0, <1>2, <1>4, <2>1, <2>2, <2>3 DEF Lined
      <3>2. 2 \in DOMAIN c /\ 1 \in DOMAIN c
        BY <1>3, <1>4
      <3>3. ~c[2].heading
        <4>1. CASE Len(body) = 0
          <5>1. c[2] = g
            BY <1>4, <4>1
          <5> QED BY <5>1
        <4>2. CASE Len(body) # 0
          <5>0. Len(body) \in Nat
            BY <1>3
          <5>1. 1 \in 1..Len(body)
            BY <4>2, <5>0
          <5>2. c[1 + 1] = body[1] /\ body[1] = shapes[1 + 1]
            BY <1>3, <1>4, <5>1
          <5>3. c[2] = shapes[2]
            BY <5>2
          <5>4. 2 \in 1..Len(shapes)
            BY <1>2, <1>3, <2>2, <4>2
          <5> QED BY <1>2, <5>3, <5>4
        <4> QED BY <4>1, <4>2
      <3> QED BY <3>1, <3>2, <3>3 DEF Appears
    <2>4. CASE k # 1
      <3>1. k - 1 \in 1..Len(body) /\ (k - 1) + 1 = k
        BY <1>2, <1>3, <2>2, <2>4
      <3>2. c[(k - 1) + 1] = body[k - 1] /\ body[k - 1] = shapes[(k - 1) + 1]
        BY <1>3, <1>4, <3>1
      <3>3. k \in DOMAIN c
        BY <1>3, <1>4, <3>1
      <3> QED BY <2>1, <2>2, <2>5, <3>1, <3>2, <3>3 DEF Appears
    <2> QED BY <2>3, <2>4
  <1>6. /\ c \o notes \in Seq(Lined)
        /\ \A p : Appears(c, p) \/ Appears(notes, p) => Appears(c \o notes, p)
    BY <1>4, AppearsInJoin
  <1> QED BY <1>5, <1>6, <1>7

\* A slide of a file, as Pptx makes it.
Slide(units, i) ==
    SlideOf(Lines(units, i, {"text"}), Line(Generated, 1, TRUE), Line(Generated, 1, FALSE),
            Lines(units, i, {"notes"}))

\* Of slides the shapes with text and the notes.
LEMMA PptxKeeps ==
    ASSUME NEW R, NEW units \in Seq(Seq([role : R, words : Nat]))
    PROVE  Keeps(Pptx(units), units, {"text", "notes"})
  <1> DEFINE made == [i \in DOMAIN units |-> Slide(units, i)]
  <1>1. Pptx(units) = FlattenSeq(made)
    BY DEF Pptx, PerUnit, Slide, SlideOf, TitleOf
  <1>2. ASSUME NEW i \in DOMAIN units
        PROVE  /\ Slide(units, i) \in Seq(Lined)
               /\ \A p : Appears(Lines(units, i, {"text", "notes"}), p) => Appears(Slide(units, i), p)
    <2> DEFINE shapes == Lines(units, i, {"text"})
               notes == Lines(units, i, {"notes"})
               t == Line(Generated, 1, TRUE)
               g == Line(Generated, 1, FALSE)
    <2>1. shapes \in Seq(Lined) /\ notes \in Seq(Lined)
      BY TakenAppears
    <2>2. \A k \in DOMAIN shapes : ~shapes[k].heading
      <3>1. \A j \in DOMAIN units[i] : units[i][j].role \in {"text"} => ~LineOf(units, i, j).heading
        BY DEF LineOf, Line
      <3> QED BY <3>1, LinesArePieces
    <2>3. t \in Lined /\ g \in Lined /\ ~g.heading
      BY DEF Line, Lined, Generated, FrontMatter
    <2>5. Slide(units, i) = SlideOf(shapes, t, g, notes)
      BY DEF Slide
    <2> HIDE DEF shapes, notes, t, g
    <2>6. /\ Slide(units, i) \in Seq(Lined)
          /\ \A p : Appears(shapes, p) \/ Appears(notes, p) => Appears(Slide(units, i), p)
      <3>1. SlideOf(shapes, t, g, notes) \in Seq(Lined)
        BY <2>1, <2>2, <2>3, SlideKeeps
      <3>2. \A p : Appears(shapes, p) \/ Appears(notes, p) => Appears(SlideOf(shapes, t, g, notes), p)
        BY <2>1, <2>2, <2>3, SlideKeeps
      <3> QED BY <2>5, <3>1, <3>2
    <2>7. ASSUME NEW p, Appears(Lines(units, i, {"text", "notes"}), p)
          PROVE  Appears(Slide(units, i), p)
      <3>1. PICK k \in DOMAIN Lines(units, i, {"text", "notes"}) :
               Lines(units, i, {"text", "notes"})[k].piece = p
        BY <2>7 DEF Appears
      <3>2. PICK j \in DOMAIN units[i] :
               /\ units[i][j].role \in {"text", "notes"}
               /\ Lines(units, i, {"text", "notes"})[k] = LineOf(units, i, j)
        BY LinesArePieces
      <3>3. p = <<i, j>>
        BY <3>1, <3>2 DEF LineOf, Line
      <3>4. CASE units[i][j].role = "text"
        <4>1. units[i][j].role \in {"text"} \ {"h2"}
          BY <3>4
        <4>2. Appears(shapes, p)
          BY <3>3, <4>1, TakenAppears DEF shapes
        <4> QED BY <2>6, <4>2
      <3>5. CASE units[i][j].role = "notes"
        <4>1. units[i][j].role \in {"notes"} \ {"h2"}
          BY <3>5
        <4>2. Appears(notes, p)
          BY <3>3, <4>1, TakenAppears DEF notes
        <4> QED BY <2>6, <4>2
      <3> QED BY <3>2, <3>4, <3>5
    <2> QED BY <2>6, <2>7
  <1>3. \A i \in DOMAIN units : made[i] = Slide(units, i)
    OBVIOUS
  <1>4. made = [i \in DOMAIN units |-> made[i]]
    OBVIOUS
  <1> HIDE DEF made
  <1>5. Keeps(FlattenSeq(made), units, {"text", "notes"})
    BY <1>2, <1>3, <1>4, UnitByUnit
  <1> QED BY <1>1, <1>5

\* Of an image all its text, or none.
LEMMA ImageKeeps ==
    ASSUME NEW units \in Seq(Seq([role : {"text"}, words : Nat])), Len(units) = 1
    PROVE  IF WordsIn(units[1]) < MinWords THEN Image(units) = <<>>
           ELSE Keeps(Image(units), units, {"text"})
  <1> DEFINE text == FlattenSeq([i \in DOMAIN units |-> Lines(units, i, {"text"})])
  <1>1. Image(units) = IF WordsIn(text) < MinWords THEN <<>> ELSE text
    BY DEF Image, PerUnit
  <1>2. WordsIn(text) = WordsIn(units[1])
    BY WordsOfText
  <1>3. Keeps(text, units, {"text"})
    BY PlainKeeps
  <1> HIDE DEF text
  <1> QED BY <1>1, <1>2, <1>3

-----------------------------------------------------------------------------
\* A piece is among the pieces of its role.
LEMMA InPieces ==
    ASSUME NEW units, NEW roles, NEW i \in DOMAIN units, NEW j \in DOMAIN units[i],
           units[i][j].role \in roles
    PROVE  <<i, j>> \in Pieces(units, roles)
  <1>1. j \in {n \in DOMAIN units[i] : units[i][n].role \in roles}
    OBVIOUS
  <1> QED BY <1>1 DEF Pieces

\* If only text of other roles than these is left out, what is neither left out nor a
\* heading over nothing is taken.
LEMMA WhatIsTaken ==
    ASSUME NEW f \in Files, NEW roles,
           \A i \in DOMAIN f.units : \A j \in DOMAIN f.units[i] :
               f.units[i][j].role \notin roles => <<i, j>> \in LeftOut(f)
    PROVE  \A i \in DOMAIN f.units : \A j \in DOMAIN f.units[i] :
               <<i, j>> \notin LeftOut(f) /\ ~Empty(f, <<i, j>>) => Taken(f.units, i, j, roles)
  <1> SUFFICES ASSUME NEW i \in DOMAIN f.units, NEW j \in DOMAIN f.units[i],
                      <<i, j>> \notin LeftOut(f), ~Empty(f, <<i, j>>)
               PROVE  Taken(f.units, i, j, roles)
    OBVIOUS
  <1> DEFINE unit == f.units[i]
             n == Len(unit)
  <1>1. unit[j].role \in roles
    OBVIOUS
  <1>2. CASE unit[j].role # "h2"
    BY <1>1, <1>2 DEF Taken
  <1>3. CASE unit[j].role = "h2"
    <2>1. Empty(f, <<i, j>>) =
             \A k \in (j + 1)..n : <<i, k>> \in LeftOut(f)
                                     \/ \E m \in (j + 1)..k : unit[m].role = "h2"
      BY <1>3 DEF Empty
    <2>2. PICK k \in (j + 1)..n : /\ <<i, k>> \notin LeftOut(f)
                                  /\ ~\E m \in (j + 1)..k : unit[m].role = "h2"
      BY <2>1
    <2>3. k \in DOMAIN unit
      <3>1. unit \in Seq([role : RolesOf(f.ext), words : Nat])
        BY FilesAssumption
      <3>2. DOMAIN unit = 1..n /\ n \in Nat
        BY <3>1
      <3> HIDE DEF n, unit
      <3>3. j \in 1..n
        BY <3>2 DEF unit
      <3> QED BY <3>2, <3>3
    <2>4. unit[k].role \in roles
      BY <2>2, <2>3
    <2> QED BY <1>1, <2>2, <2>4 DEF Taken
  <1> QED BY <1>2, <1>3

\* The roles of which a file's converter keeps everything.
LEMMA ConverterKeeps ==
    ASSUME NEW f \in Files, Supported(f)
    PROVE  \/ \E roles :
                 /\ Keeps(Converted(f), f.units, roles)
                 /\ \A i \in DOMAIN f.units : \A j \in DOMAIN f.units[i] :
                       f.units[i][j].role \notin roles => <<i, j>> \in LeftOut(f)
           \/ /\ Converted(f) = <<>>
              /\ \A i \in DOMAIN f.units : \A j \in DOMAIN f.units[i] : <<i, j>> \in LeftOut(f)
  <1> DEFINE units == f.units
             Left(i, j, roles) == units[i][j].role \in roles => <<i, j>> \in LeftOut(f)
  <1>1. /\ units \in Seq(Seq([role : RolesOf(f.ext), words : Nat])) /\ f.opens \in BOOLEAN
        /\ Images \cap Routes = {}
        /\ f.ext \in {".png"} \cup Images => Len(units) = 1
    BY FilesAssumption
  <1>2. \A i \in DOMAIN units : \A j \in DOMAIN units[i] : units[i][j].role \in RolesOf(f.ext)
    <2>1. SUFFICES ASSUME NEW i \in DOMAIN units, NEW j \in DOMAIN units[i]
                   PROVE  units[i][j].role \in RolesOf(f.ext)
      OBVIOUS
    <2>2. units[i] \in Seq([role : RolesOf(f.ext), words : Nat])
      BY <1>1
    <2>3. j \in 1..Len(units[i])
      BY <2>2
    <2>4. units[i][j] \in [role : RolesOf(f.ext), words : Nat]
      BY <2>2, <2>3, ElementOfSeq
    <2> QED BY <2>4
  <1>3. \A roles : \A i \in DOMAIN units : \A j \in DOMAIN units[i] :
           units[i][j].role \in roles => <<i, j>> \in Pieces(units, roles)
    BY InPieces
  <1> HIDE DEF units
  <1>4. f.ext \in Routes \cup Images
    BY DEF Supported
  <1>4a. f.ext \in Routes \ {".png"} => f.ext \notin {".png"} \cup Images
    BY <1>1
  <1>5. CASE f.ext = ".md"
    <2>0. Converted(f) = Markdown(units)
      BY <1>4a, <1>5 DEF Converted, units, Routes
    <2>0a. Markdown(units) = FlattenSeq([i \in DOMAIN units |-> Lines(units, i, {"h2", "text"})])
      BY Zenon DEF Markdown, PerUnit
    <2>1. Converted(f) = FlattenSeq([i \in DOMAIN units |-> Lines(units, i, {"h2", "text"})])
      BY <2>0, <2>0a
    <2>2. Keeps(Converted(f), units, {"h2", "text"})
      BY <1>1, <2>1, PlainKeeps
    <2>3. RolesOf(f.ext) = {"h2", "text"}
      BY <1>5 DEF RolesOf
    <2> QED BY <1>2, <2>2, <2>3 DEF units
  <1>6. CASE f.ext = ".csv"
    <2>0. Converted(f) = Csv(units)
      BY <1>4a, <1>6 DEF Converted, units, Routes
    <2>0a. Csv(units) = FlattenSeq([i \in DOMAIN units |-> Lines(units, i, {"text"})])
      BY Zenon DEF Csv, PerUnit
    <2>1. Converted(f) = FlattenSeq([i \in DOMAIN units |-> Lines(units, i, {"text"})])
      BY <2>0, <2>0a
    <2>2. Keeps(Converted(f), units, {"text"})
      BY <1>1, <2>1, PlainKeeps
    <2>3. RolesOf(f.ext) = {"text"}
      BY <1>6 DEF RolesOf
    <2> QED BY <1>2, <2>2, <2>3 DEF units
  <1>7. CASE f.ext = ".html"
    <2>0. Converted(f) = Html(units)
      BY <1>4a, <1>7 DEF Converted, units, Routes
    <2>0a. Html(units) = FlattenSeq([i \in DOMAIN units |-> Lines(units, i, {"h2", "text"})])
      BY Zenon DEF Html, PerUnit
    <2>1. Converted(f) = FlattenSeq([i \in DOMAIN units |-> Lines(units, i, {"h2", "text"})])
      BY <2>0, <2>0a
    <2>2. Keeps(Converted(f), units, {"h2", "text"})
      BY <1>1, <2>1, PlainKeeps
    <2>3. RolesOf(f.ext) = {"h2", "text", "chrome"}
      BY <1>7 DEF RolesOf
    <2>4. LeftOut(f) = Pieces(units, {"chrome"})
      BY <1>1, <1>7 DEF LeftOut, units, Routes
    <2>5. \A i \in DOMAIN units : \A j \in DOMAIN units[i] :
             units[i][j].role \notin {"h2", "text"} => <<i, j>> \in LeftOut(f)
      BY <1>2, <1>3, <2>3, <2>4
    <2> QED BY <2>2, <2>5 DEF units
  <1>8. CASE f.ext = ".docx"
    <2>1. RolesOf(f.ext) = {"h2", "text", "table"}
      BY <1>8 DEF RolesOf
    <2>2. CASE f.opens
      <3>0. Converted(f) = Docx(units, f.opens)
        BY <1>4a, <1>8 DEF Converted, units, Routes
      <3>0a. Docx(units, f.opens) = FlattenSeq([i \in DOMAIN units |-> Lines(units, i, {"h2", "text"})])
        BY <2>2 DEF Docx, PerUnit
      <3>1. Converted(f) = FlattenSeq([i \in DOMAIN units |-> Lines(units, i, {"h2", "text"})])
        BY <3>0, <3>0a
      <3>2. Keeps(Converted(f), units, {"h2", "text"})
        BY <1>1, <3>1, PlainKeeps
      <3>3. LeftOut(f) = Pieces(units, {"table"})
        BY <1>1, <1>8, <2>2 DEF LeftOut, units, Routes
      <3>4. \A i \in DOMAIN units : \A j \in DOMAIN units[i] :
               units[i][j].role \notin {"h2", "text"} => <<i, j>> \in LeftOut(f)
        BY <1>2, <1>3, <2>1, <3>3
      <3> QED BY <3>2, <3>4 DEF units
    <2>3. CASE ~f.opens
      <3>0. Converted(f) = Docx(units, f.opens)
        BY <1>4a, <1>8 DEF Converted, units, Routes
      <3>0a. Docx(units, f.opens) = FlattenSeq([i \in DOMAIN units |-> Lines(units, i, {"h2", "text", "table"})])
        BY <2>3 DEF Docx, PerUnit
      <3>1. Converted(f) = FlattenSeq([i \in DOMAIN units |-> Lines(units, i, {"h2", "text", "table"})])
        BY <3>0, <3>0a
      <3>2. Keeps(Converted(f), units, {"h2", "text", "table"})
        BY <1>1, <3>1, PlainKeeps
      <3> QED BY <1>2, <2>1, <3>2 DEF units
    <2> QED BY <1>1, <2>2, <2>3
  <1>9. CASE f.ext = ".xlsx"
    <2>0. Converted(f) = Xlsx(units)
      BY <1>4a, <1>9 DEF Converted, units, Routes
    <2>0a. Xlsx(units) = FlattenSeq([i \in DOMAIN units |->
                Lines(units, i, {"h2", "text", "merged"}) \o Lines(units, i, {"merged"})])
      BY Zenon DEF Xlsx, PerUnit
    <2>1. Converted(f) = FlattenSeq([i \in DOMAIN units |->
                Lines(units, i, {"h2", "text", "merged"}) \o Lines(units, i, {"merged"})])
      BY <2>0, <2>0a
    <2>2. Keeps(Converted(f), units, {"h2", "text", "merged"})
      <3>1. Keeps(FlattenSeq([i \in DOMAIN units |->
                Lines(units, i, {"h2", "text", "merged"}) \o Lines(units, i, {"merged"})]),
                units, {"h2", "text", "merged"})
        BY <1>1, TwiceKeeps
      <3> QED BY <2>1, <3>1
    <2>3. RolesOf(f.ext) = {"h2", "text", "merged"}
      BY <1>9 DEF RolesOf
    <2> QED BY <1>2, <2>2, <2>3 DEF units
  <1>10. CASE f.ext = ".pptx"
    <2>1. Converted(f) = Pptx(units)
      BY <1>4a, <1>10 DEF Converted, units, Routes
    <2>2. Keeps(Converted(f), units, {"text", "notes"})
      BY <1>1, <2>1, PptxKeeps
    <2>3. RolesOf(f.ext) = {"text", "notes", "graphic"}
      BY <1>10 DEF RolesOf
    <2>4. LeftOut(f) = Pieces(units, {"graphic"})
      BY <1>1, <1>10 DEF LeftOut, units, Routes
    <2>5. \A i \in DOMAIN units : \A j \in DOMAIN units[i] :
             units[i][j].role \notin {"text", "notes"} => <<i, j>> \in LeftOut(f)
      BY <1>2, <1>3, <2>3, <2>4
    <2> QED BY <2>2, <2>5 DEF units
  <1>11. CASE f.ext = ".pdf"
    <2> DEFINE Texts == \E i \in DOMAIN units : \E j \in DOMAIN units[i] :
                            units[i][j].role \in {"text", "table"}
    <2>1. Converted(f) = Pdf(units)
      BY <1>4a, <1>11 DEF Converted, units, Routes
    <2>2. Keeps(Converted(f), units, IF Texts THEN {"text", "table"} ELSE {"scan"})
      BY <1>1, <2>1, PdfKeeps
    <2>3. RolesOf(f.ext) = {"text", "table", "scan"}
      BY <1>11 DEF RolesOf
    <2>4. CASE Texts
      <3>1. Pieces(units, {"text", "table"}) # {}
        BY <1>3, <2>4
      <3>2. LeftOut(f) = Pieces(units, {"scan"})
        BY <1>1, <1>11, <3>1 DEF LeftOut, units, Routes
      <3>3. \A i \in DOMAIN units : \A j \in DOMAIN units[i] :
               units[i][j].role \notin {"text", "table"} => <<i, j>> \in LeftOut(f)
        BY <1>2, <1>3, <2>3, <3>2
      <3>4. Keeps(Converted(f), units, {"text", "table"})
        BY <2>2, <2>4
      <3> QED BY <3>3, <3>4 DEF units
    <2>5. CASE ~Texts
      <3>1. \A i \in DOMAIN units : \A j \in DOMAIN units[i] : units[i][j].role \in {"scan"}
        BY <1>2, <2>3, <2>5
      <3>2. Keeps(Converted(f), units, {"scan"})
        BY <2>2, <2>5
      <3> QED BY <3>1, <3>2 DEF units
    <2> QED BY <2>4, <2>5
  <1>12. CASE f.ext \in {".png"} \cup Images
    <2>0. f.ext \notin Routes \ {".png"}
      BY <1>1, <1>12 DEF Routes
    <2>1. Converted(f) = Image(units)
      BY <1>12, <2>0 DEF Converted, units, Routes
    <2>2. RolesOf(f.ext) = {"text"}
      BY <2>0 DEF RolesOf, Routes
    <2>3. IF WordsIn(units[1]) < MinWords THEN Image(units) = <<>>
          ELSE Keeps(Image(units), units, {"text"})
      BY <1>1, <1>12, <2>2, ImageKeeps
    <2>4. CASE WordsIn(units[1]) < MinWords
      <3>1. LeftOut(f) = Pieces(units, {"text", "h2", "table", "chrome", "scan", "notes", "graphic", "merged"})
        BY <1>12, <2>0, <2>4 DEF LeftOut, units, Routes
      <3>2. \A i \in DOMAIN units : \A j \in DOMAIN units[i] : <<i, j>> \in LeftOut(f)
        BY <1>2, <1>3, <2>2, <3>1
      <3> QED BY <2>1, <2>3, <2>4, <3>2 DEF units
    <2>5. CASE ~(WordsIn(units[1]) < MinWords)
      BY <1>2, <2>1, <2>2, <2>3, <2>5 DEF units
    <2> QED BY <2>4, <2>5
  <1> QED BY <1>4, <1>5, <1>6, <1>7, <1>8, <1>9, <1>10, <1>11, <1>12 DEF Routes

\* Every piece is in the Markdown, but for what is left out and headings over nothing.
LEMMA ConvertedHolds ==
    ASSUME NEW f \in Files, Supported(f)
    PROVE  /\ Converted(f) \in Seq(Lined)
           /\ \A i \in DOMAIN f.units : \A j \in DOMAIN f.units[i] :
                 \/ <<i, j>> \in LeftOut(f)
                 \/ Empty(f, <<i, j>>)
                 \/ Appears(Converted(f), <<i, j>>)
  <1>1. CASE \E roles :
                 /\ Keeps(Converted(f), f.units, roles)
                 /\ \A i \in DOMAIN f.units : \A j \in DOMAIN f.units[i] :
                       f.units[i][j].role \notin roles => <<i, j>> \in LeftOut(f)
    <2>1. PICK roles :
                 /\ Keeps(Converted(f), f.units, roles)
                 /\ \A i \in DOMAIN f.units : \A j \in DOMAIN f.units[i] :
                       f.units[i][j].role \notin roles => <<i, j>> \in LeftOut(f)
      BY <1>1
    <2>2. \A i \in DOMAIN f.units : \A j \in DOMAIN f.units[i] :
               <<i, j>> \notin LeftOut(f) /\ ~Empty(f, <<i, j>>) => Taken(f.units, i, j, roles)
      BY <2>1, WhatIsTaken
    <2> QED BY <2>1, <2>2 DEF Keeps
  <1>2. CASE /\ Converted(f) = <<>>
             /\ \A i \in DOMAIN f.units : \A j \in DOMAIN f.units[i] : <<i, j>> \in LeftOut(f)
    <2>1. <<>> \in Seq(Lined)
      OBVIOUS
    <2> QED BY <1>2, <2>1
  <1> QED BY <1>1, <1>2, ConverterKeeps

-----------------------------------------------------------------------------
(* The sections.                                                           *)

\* The sections made of them.
Sectioned == [heading : Nat \X Nat, body : Seq(Lined)]

\* A section is some text: where it ends, and that it is not empty.
LEMMA SectionIs ==
    ASSUME NEW lines \in Seq(Lined), NEW k \in DOMAIN lines
    PROVE  /\ End(lines, k) \in k..Len(lines)
           /\ \A j \in k..(End(lines, k) - 1) : j # Len(lines) /\ ~lines[j + 1].heading
           /\ End(lines, k) = Len(lines) \/ lines[End(lines, k) + 1].heading
           /\ Section(lines, k) \in Sectioned
           /\ Len(Section(lines, k).body) = End(lines, k) - k + 1
           /\ \A j \in k..End(lines, k) : Section(lines, k).body[j - k + 1] = lines[j]
  <1> DEFINE Ends == {j \in k..Len(lines) : j = Len(lines) \/ lines[j + 1].heading}
             e == End(lines, k)
  <1>1. Len(lines) \in Nat /\ DOMAIN lines = 1..Len(lines) /\ k \in 1..Len(lines)
    OBVIOUS
  <1>2. Len(lines) \in Ends /\ Ends \subseteq Nat
    BY <1>1
  <1>3. e \in Ends /\ \A j \in Ends : e <= j
    <2>1. e = CHOOSE x \in Ends : \A y \in Ends : x <= y
      BY DEF End, Min
    <2> HIDE DEF Ends, e
    <2>2. \E x \in Ends : \A y \in Ends : x <= y
      BY <1>2, Least
    <2> QED BY <2>1, <2>2
  <1> HIDE DEF e
  <1>4. e \in k..Len(lines) /\ (e = Len(lines) \/ lines[e + 1].heading)
    BY <1>3
  <1>4a. k \in Nat /\ e \in Nat /\ 1 <= k /\ k <= e /\ e <= Len(lines) /\ Len(lines) \in Nat
    <2>1. Len(lines) \in Nat /\ k \in 1..Len(lines)
      BY <1>1
    <2>2. \A n \in Nat : \A x \in 1..n : \A y \in x..n :
             x \in Nat /\ y \in Nat /\ 1 <= x /\ x <= y /\ y <= n
      OBVIOUS
    <2>3. e \in k..Len(lines)
      BY <1>4
    <2> QED BY ONLY <2>1, <2>2, <2>3
  <1>5. ASSUME NEW j \in k..(e - 1)
        PROVE  j # Len(lines) /\ ~lines[j + 1].heading
    <2>1. j \in k..Len(lines) /\ ~(e <= j)
      BY <1>4a
    <2>2. j \notin Ends
      BY <1>3, <2>1
    <2> QED BY <2>1, <2>2
  <1> DEFINE body == SubSeq(lines, k, e)
             head == IF k = 1 THEN Intro ELSE lines[k - 1].piece
  <1>6. /\ body \in Seq(Lined)
        /\ Len(body) = e - k + 1
        /\ \A j \in 1..(e - k + 1) : body[j] = lines[k + j - 1]
    BY <1>4a
  <1>7. head \in Nat \X Nat
    <2>1. Intro \in Nat \X Nat
      BY DEF Intro
    <2>2. ASSUME k # 1 PROVE lines[k - 1].piece \in Nat \X Nat
      <3>1. k - 1 \in 1..Len(lines)
        BY <1>1, <2>2
      <3>2. lines[k - 1] \in Lined
        BY <3>1, ElementOfSeq
      <3> QED BY <3>2 DEF Lined
    <2> QED BY <2>1, <2>2
  <1>8. Section(lines, k) = [heading |-> head, body |-> body]
    BY DEF Section, e
  <1> HIDE DEF body, head
  <1>9. Section(lines, k) \in Sectioned /\ Section(lines, k).body = body
    BY <1>6, <1>7, <1>8 DEF Sectioned
  <1>10. ASSUME NEW j \in k..e PROVE body[j - k + 1] = lines[j]
    <2>1. j - k + 1 \in 1..(e - k + 1) /\ k + (j - k + 1) - 1 = j
      BY <1>4a
    <2> QED BY <1>6, <2>1
  <1> QED BY <1>4, <1>5, <1>6, <1>9, <1>10 DEF e

\* The sections are those that begin at some line, each of them.
LEMMA SectionsAre ==
    ASSUME NEW lines \in Seq(Lined)
    PROVE  /\ Sections(lines) \in Seq(Sectioned)
           /\ \A k \in DOMAIN lines : Begins(lines, k) =>
                 \E s \in DOMAIN Sections(lines) : Sections(lines)[s] = Section(lines, k)
           /\ \A s \in DOMAIN Sections(lines) : \E k \in DOMAIN lines :
                 Begins(lines, k) /\ Sections(lines)[s] = Section(lines, k)
  <1> DEFINE seqs == [k \in DOMAIN lines |->
                         IF Begins(lines, k) THEN <<Section(lines, k)>> ELSE <<>>]
             all == Sections(lines)
  <1>1. all = FlattenSeq(seqs)
    BY DEF Sections
  <1>2. DOMAIN seqs = DOMAIN lines
    OBVIOUS
  <1>3. \A k \in DOMAIN lines :
           seqs[k] = IF Begins(lines, k) THEN <<Section(lines, k)>> ELSE <<>>
    OBVIOUS
  <1>4. seqs \in Seq(Seq(Sectioned))
    <2>1. \A k \in DOMAIN lines : Section(lines, k) \in Sectioned
      BY SectionIs
    <2>2. \A k \in DOMAIN lines : seqs[k] \in Seq(Sectioned)
      BY <1>3, <2>1
    <2>3. DOMAIN lines = 1..Len(lines) /\ Len(lines) \in Nat
      OBVIOUS
    <2>4. seqs \in [1..Len(lines) -> Seq(Sectioned)]
      <3>1. seqs = [k \in 1..Len(lines) |-> seqs[k]]
        BY <2>3
      <3> HIDE DEF seqs
      <3> QED BY <2>2, <2>3, <3>1
    <2> HIDE DEF seqs
    <2> QED BY <2>3, <2>4, Indexed
  <1> HIDE DEF seqs, all
  <1>5. all \in Seq(Sectioned) /\ \E at : Placed(seqs, all, at)
    BY <1>1, <1>4, Flattened
  <1>6. PICK at : Placed(seqs, all, at)
    BY <1>5
  <1>7. ASSUME NEW k \in DOMAIN lines, Begins(lines, k)
        PROVE  \E s \in DOMAIN all : all[s] = Section(lines, k)
    <2>1. seqs[k] = <<Section(lines, k)>>
      BY <1>3, <1>7
    <2>2. 1 \in DOMAIN seqs[k] /\ seqs[k][1] = Section(lines, k)
      BY <2>1
    <2>3. k \in DOMAIN seqs
      BY <1>2
    <2>4. at[k] + 1 \in DOMAIN all /\ all[at[k] + 1] = seqs[k][1]
      BY <1>6, <2>2, <2>3 DEF Placed
    <2> QED BY <2>2, <2>4
  <1>8. ASSUME NEW s \in DOMAIN all
        PROVE  \E k \in DOMAIN lines : Begins(lines, k) /\ all[s] = Section(lines, k)
    <2>1. PICK k \in DOMAIN seqs : \E m \in DOMAIN seqs[k] : s = at[k] + m
      BY <1>6 DEF Placed
    <2>2. PICK m \in DOMAIN seqs[k] : s = at[k] + m
      BY <2>1
    <2>3. all[s] = seqs[k][m]
      BY <1>6, <2>2 DEF Placed
    <2>4. k \in DOMAIN lines
      BY <1>2
    <2>5. CASE ~Begins(lines, k)
      <3>1. seqs[k] = <<>>
        BY <1>3, <2>4, <2>5
      <3> QED BY <2>2, <3>1
    <2>6. CASE Begins(lines, k)
      <3>1. seqs[k] = <<Section(lines, k)>>
        BY <1>3, <2>4, <2>6
      <3>2. m = 1
        BY <2>2, <3>1
      <3> QED BY <2>3, <2>4, <2>6, <3>1, <3>2
    <2> QED BY <2>5, <2>6
  <1> QED BY <1>5, <1>7, <1>8 DEF all

\* What appears in the Markdown is in a section, or is the heading of one; no section
\* is empty.
LEMMA SectionsHold ==
    ASSUME NEW lines \in Seq(Lined)
    PROVE  /\ Sections(lines) \in Seq(Sectioned)
           /\ \A s \in DOMAIN Sections(lines) : 1 \in DOMAIN Sections(lines)[s].body
           /\ \A p : Appears(lines, p) =>
                 \E s \in DOMAIN Sections(lines) :
                    \/ Sections(lines)[s].heading = p
                    \/ \E k \in DOMAIN Sections(lines)[s].body : Sections(lines)[s].body[k].piece = p
  <1>1. Sections(lines) \in Seq(Sectioned)
    BY SectionsAre
  <1>2. Len(lines) \in Nat /\ DOMAIN lines = 1..Len(lines)
    OBVIOUS
  <1>3. ASSUME NEW k \in DOMAIN lines
        PROVE  DOMAIN Section(lines, k).body = 1..(End(lines, k) - k + 1) /\ End(lines, k) \in k..Len(lines)
    <2>1. /\ Section(lines, k) \in Sectioned /\ End(lines, k) \in k..Len(lines)
          /\ Len(Section(lines, k).body) = End(lines, k) - k + 1
      BY SectionIs
    <2>2. Section(lines, k).body \in Seq(Lined)
      BY <2>1 DEF Sectioned
    <2> QED BY <2>1, <2>2
  <1>4. ASSUME NEW s \in DOMAIN Sections(lines)
        PROVE  1 \in DOMAIN Sections(lines)[s].body
    <2>1. PICK k \in DOMAIN lines : Begins(lines, k) /\ Sections(lines)[s] = Section(lines, k)
      BY SectionsAre
    <2>2. 1 \in 1..(End(lines, k) - k + 1)
      BY <1>2, <1>3
    <2> QED BY <1>3, <2>1, <2>2
  <1>5. ASSUME NEW p, Appears(lines, p)
        PROVE  \E s \in DOMAIN Sections(lines) :
                    \/ Sections(lines)[s].heading = p
                    \/ \E k \in DOMAIN Sections(lines)[s].body : Sections(lines)[s].body[k].piece = p
    <2>1. PICK k \in DOMAIN lines :
             /\ lines[k].piece = p
             /\ lines[k].heading => k + 1 \in DOMAIN lines /\ ~lines[k + 1].heading
      BY <1>5 DEF Appears
    <2>2. CASE lines[k].heading
      <3>1. k + 1 # 1 /\ (k + 1) - 1 = k /\ k + 1 \in DOMAIN lines
        BY <1>2, <2>1, <2>2
      <3>2. Begins(lines, k + 1)
        BY <2>1, <2>2, <3>1 DEF Begins
      <3>3. Section(lines, k + 1).heading = p
        BY <2>1, <3>1 DEF Section
      <3>4. \E s \in DOMAIN Sections(lines) : Sections(lines)[s] = Section(lines, k + 1)
        BY <3>1, <3>2, SectionsAre
      <3> QED BY <3>3, <3>4
    <2>3. CASE ~lines[k].heading
      <3> DEFINE From == {m \in 1..k : \A x \in m..k : ~lines[x].heading}
      <3>1. k \in From /\ From \subseteq Nat
        BY <1>2, <2>3
      <3>2. PICK m \in From : \A x \in From : m <= x
        <4> HIDE DEF From
        <4> QED BY <3>1, Least
      <3>3. m \in 1..k /\ (\A x \in m..k : ~lines[x].heading) /\ m \in DOMAIN lines
        BY <1>2
      <3>4. Begins(lines, m)
        <4>1. ~lines[m].heading
          BY <3>3
        <4>2. ASSUME m # 1, ~lines[m - 1].heading PROVE FALSE
          <5>1. m - 1 \in 1..k /\ ~(m <= m - 1)
            BY <3>3, <4>2
          <5>2. \A x \in (m - 1)..k : x = m - 1 \/ x \in m..k
            BY <3>3
          <5>3. m - 1 \in From
            BY <3>3, <4>2, <5>1, <5>2
          <5> QED BY <3>2, <5>1, <5>3
        <4> QED BY <4>1, <4>2 DEF Begins
      <3> DEFINE e == End(lines, m)
      <3>5. /\ e \in m..Len(lines)
            /\ e = Len(lines) \/ lines[e + 1].heading
            /\ \A j \in m..e : Section(lines, m).body[j - m + 1] = lines[j]
        BY <3>3, SectionIs
      <3> HIDE DEF e, From
      <3>5a. /\ k \in Nat /\ m \in Nat /\ Len(lines) \in Nat /\ m <= k /\ k <= Len(lines)
        BY <1>2, <3>3
      <3>5b. e \in Nat /\ m <= e
        BY <3>5, <3>5a
      <3>6. k <= e
        <4>1. SUFFICES ASSUME e < k PROVE FALSE
          BY <3>5a, <3>5b
        <4>2. e + 1 \in m..k /\ e # Len(lines)
          BY <3>5a, <3>5b, <4>1
        <4> QED BY <3>3, <3>5, <4>2
      <3>7. k \in m..e /\ k - m + 1 \in 1..(e - m + 1)
        BY <3>5a, <3>5b, <3>6
      <3>8. k - m + 1 \in DOMAIN Section(lines, m).body /\ Section(lines, m).body[k - m + 1].piece = p
        BY <1>3, <2>1, <3>3, <3>5, <3>7 DEF e
      <3>9. \E s \in DOMAIN Sections(lines) : Sections(lines)[s] = Section(lines, m)
        BY <3>3, <3>4, SectionsAre
      <3> QED BY <3>8, <3>9
    <2> QED BY <2>2, <2>3
  <1> QED BY <1>1, <1>4, <1>5

\* The front matter comes off again.
LEMMA SectionsOfFile ==
    ASSUME NEW f, Converted(f) \in Seq(Lined)
    PROVE  SectionsOf(f) = Sections(Converted(f))
  <1> DEFINE lines == Converted(f)
             front == Line(FrontMatter, 1, FALSE)
  <1>1. front.piece = FrontMatter
    BY DEF Line
  <1> HIDE DEF lines, front
  <1>2. lines \in Seq(Lined)
    BY DEF lines
  <1>3. /\ <<front>> \o lines # <<>> /\ (<<front>> \o lines)[1] = front
        /\ Tail(<<front>> \o lines) = lines
    BY <1>2
  <1>4. Injected(lines) = <<front>> \o lines
    BY DEF Injected, front
  <1>5. Stripped(Injected(lines)) = lines
    BY <1>1, <1>3, <1>4 DEF Stripped
  <1> QED BY <1>5 DEF SectionsOf, lines

-----------------------------------------------------------------------------
(* Where the sentences begin.                                              *)

\* Where each sentence of a document begins: after so many words.
Starts(d, at) ==
    /\ at[1][1] = 0
    /\ \A s \in DOMAIN d : \A k \in 1..(Len(d[s]) + 1) : at[s][k] \in Nat
    /\ \A s \in DOMAIN d : \A k \in DOMAIN d[s] : at[s][k + 1] = at[s][k] + d[s][k]
    /\ \A s \in DOMAIN d : at[s + 1][1] = at[s][Len(d[s]) + 1]
    /\ \A w \in DOMAIN WordsOf(d) : \A s, k :
          WordsOf(d)[w] = <<s, k>> => w \in (at[s][k] + 1)..(at[s][k] + d[s][k])

\* Those places.
Start(d) == CHOOSE at : Starts(d, at)

\* The sentences of section s as words.
Sentences(d, s) == [k \in DOMAIN d[s] |-> [w \in 1..d[s][k] |-> <<s, k>>]]
InSection(d, s) == FlattenSeq(Sentences(d, s))

\* The words of a section, sentence by sentence.
LEMMA SectionPlaced ==
    ASSUME NEW d \in Seq(Seq(Nat \ {0})), NEW s \in DOMAIN d
    PROVE  /\ InSection(d, s) \in Seq(Nat \X Nat)
           /\ \E at : Placed(Sentences(d, s), InSection(d, s), at)
           /\ Sentences(d, s) \in Seq(Seq(Nat \X Nat))
           /\ Len(Sentences(d, s)) = Len(d[s])
           /\ \A k \in DOMAIN d[s] : Len(Sentences(d, s)[k]) = d[s][k]
  <1>1. /\ s \in Nat /\ d[s] \in Seq(Nat \ {0}) /\ Len(d[s]) \in Nat
        /\ DOMAIN d[s] = 1..Len(d[s])
    OBVIOUS
  <1>2. \A k \in DOMAIN d[s] : k \in Nat /\ d[s][k] \in Nat
    BY <1>1
  <1>3. ASSUME NEW k \in DOMAIN d[s]
        PROVE  Sentences(d, s)[k] \in Seq(Nat \X Nat) /\ Len(Sentences(d, s)[k]) = d[s][k]
    <2>1. Sentences(d, s)[k] = [w \in 1..d[s][k] |-> <<s, k>>]
      BY DEF Sentences
    <2>2. [w \in 1..d[s][k] |-> <<s, k>>] \in [1..d[s][k] -> Nat \X Nat]
      BY <1>1, <1>2
    <2>3. \A n \in Nat : \A g \in [1..n -> Nat \X Nat] : g \in Seq(Nat \X Nat) /\ Len(g) = n
      BY Indexed
    <2>4. d[s][k] \in Nat /\ Sentences(d, s)[k] \in [1..d[s][k] -> Nat \X Nat]
      BY <1>2, <2>1, <2>2
    <2> QED BY <2>3, <2>4
  <1>4. Sentences(d, s) \in [1..Len(d[s]) -> Seq(Nat \X Nat)]
    <2>1. Sentences(d, s) = [k \in 1..Len(d[s]) |-> Sentences(d, s)[k]]
      BY <1>1 DEF Sentences
    <2> QED BY <1>1, <1>3, <2>1
  <1>5. Sentences(d, s) \in Seq(Seq(Nat \X Nat)) /\ Len(Sentences(d, s)) = Len(d[s])
    BY <1>1, <1>4, Indexed
  <1>6. InSection(d, s) \in Seq(Nat \X Nat) /\ \E at : Placed(Sentences(d, s), InSection(d, s), at)
    BY <1>5, Flattened DEF InSection
  <1> QED BY <1>3, <1>5, <1>6

\* The places of the sentences are those of their sections and in them.
LEMMA StartsExist ==
    ASSUME NEW d \in Seq(Seq(Nat \ {0}))
    PROVE  Starts(d, Start(d))
  <1> DEFINE all == [s \in DOMAIN d |-> InSection(d, s)]
             words == WordsOf(d)
             inner(s) == CHOOSE at : Placed(Sentences(d, s), InSection(d, s), at)
  <1>1. /\ Len(d) \in Nat /\ DOMAIN d = 1..Len(d)
        /\ \A s \in DOMAIN d : Len(d[s]) \in Nat /\ DOMAIN d[s] = 1..Len(d[s])
        /\ \A s \in DOMAIN d : \A k \in DOMAIN d[s] : d[s][k] \in Nat
    <2>1. \A s \in DOMAIN d : d[s] \in Seq(Nat \ {0})
      OBVIOUS
    <2> QED BY <2>1
  <1>2. words = FlattenSeq(all)
    BY DEF WordsOf, InSection, Sentences
  <1>3. all \in Seq(Seq(Nat \X Nat)) /\ Len(all) = Len(d) /\ DOMAIN all = DOMAIN d
    <2>1. all \in [1..Len(d) -> Seq(Nat \X Nat)]
      BY <1>1, SectionPlaced
    <2>2. DOMAIN all = DOMAIN d
      OBVIOUS
    <2> HIDE DEF all
    <2> QED BY <1>1, <2>1, <2>2, Indexed
  <1>4. \A s \in DOMAIN d : all[s] = InSection(d, s)
    OBVIOUS
  <1> HIDE DEF all, words
  <1>5. PICK outer : Placed(all, words, outer)
    BY <1>2, <1>3, Flattened
  <1>6. \A s \in DOMAIN d : Placed(Sentences(d, s), InSection(d, s), inner(s))
    BY SectionPlaced
  <1> HIDE DEF inner
  <1>7. /\ outer[1] = 0
        /\ \A s \in DOMAIN d : outer[s] \in Nat /\ outer[s + 1] = outer[s] + Len(InSection(d, s))
    <2>1. \A s \in DOMAIN d : s \in 1..(Len(all) + 1)
      BY <1>1, <1>3
    <2> QED BY <1>3, <1>4, <1>5, <2>1 DEF Placed
  <1>8. ASSUME NEW s \in DOMAIN d
        PROVE  /\ inner(s)[1] = 0
               /\ \A k \in 1..(Len(d[s]) + 1) : inner(s)[k] \in Nat
               /\ \A k \in DOMAIN d[s] : inner(s)[k + 1] = inner(s)[k] + d[s][k]
               /\ inner(s)[Len(d[s]) + 1] = Len(InSection(d, s))
    <2>1. Len(Sentences(d, s)) = Len(d[s]) /\ \A k \in DOMAIN d[s] : Len(Sentences(d, s)[k]) = d[s][k]
      BY SectionPlaced
    <2>2. DOMAIN Sentences(d, s) = DOMAIN d[s]
      BY DEF Sentences
    <2>3. Placed(Sentences(d, s), InSection(d, s), inner(s))
      BY <1>6
    <2> QED BY <2>1, <2>2, <2>3 DEF Placed
  <1> DEFINE at == [s \in 1..(Len(d) + 1) |->
                      [k \in 1..(IF s \in DOMAIN d THEN Len(d[s]) + 1 ELSE 1) |->
                          outer[s] + (IF s \in DOMAIN d THEN inner(s)[k] ELSE 0)]]
  <1>9. ASSUME NEW s \in DOMAIN d, NEW k \in 1..(Len(d[s]) + 1)
        PROVE  at[s][k] = outer[s] + inner(s)[k]
    <2>1. s \in 1..(Len(d) + 1)
      BY <1>1
    <2> QED BY <2>1
  <1>10. ASSUME NEW s \in 1..(Len(d) + 1) PROVE at[s][1] = outer[s]
    <2>1. CASE s \in DOMAIN d
      <3>1. 1 \in 1..(Len(d[s]) + 1)
        BY <1>1, <2>1
      <3> QED BY <1>7, <1>8, <1>9, <2>1, <3>1
    <2>2. CASE s \notin DOMAIN d
      <3>0. s = Len(d) + 1
        BY <1>1, <2>2
      <3>1. outer[s] \in Nat
        BY <1>3, <1>5, <3>0 DEF Placed
      <3>2. at[s][1] = outer[s] + 0
        BY <2>2
      <3> QED BY <3>1, <3>2
    <2> QED BY <2>1, <2>2
  <1> HIDE DEF at
  <1>11. at[1][1] = 0
    BY <1>1, <1>7, <1>10
  <1>12. ASSUME NEW s \in DOMAIN d
         PROVE  /\ \A k \in 1..(Len(d[s]) + 1) : at[s][k] \in Nat
                /\ \A k \in DOMAIN d[s] : at[s][k + 1] = at[s][k] + d[s][k]
                /\ at[s + 1][1] = at[s][Len(d[s]) + 1]
    <2>1. ASSUME NEW k \in 1..(Len(d[s]) + 1) PROVE at[s][k] \in Nat
      <3>1. outer[s] \in Nat /\ inner(s)[k] \in Nat
        BY <1>7, <1>8
      <3>2. at[s][k] = outer[s] + inner(s)[k]
        BY <1>9
      <3>3. \A x, y \in Nat : x + y \in Nat
        OBVIOUS
      <3> QED BY <3>1, <3>2, <3>3
    <2>2. ASSUME NEW k \in DOMAIN d[s] PROVE at[s][k + 1] = at[s][k] + d[s][k]
      <3>1. k \in 1..(Len(d[s]) + 1) /\ k + 1 \in 1..(Len(d[s]) + 1)
        BY <1>1
      <3>2. at[s][k + 1] = outer[s] + inner(s)[k + 1] /\ at[s][k] = outer[s] + inner(s)[k]
        BY <1>9, <3>1
      <3>3. inner(s)[k + 1] = inner(s)[k] + d[s][k]
        BY <1>8
      <3>4. outer[s] \in Nat /\ inner(s)[k] \in Nat /\ d[s][k] \in Nat
        BY <1>1, <1>7, <1>8, <3>1
      <3>5. \A x, y, z \in Nat : x + (y + z) = (x + y) + z
        OBVIOUS
      <3>6. outer[s] + (inner(s)[k] + d[s][k]) = (outer[s] + inner(s)[k]) + d[s][k]
        BY <3>4, <3>5
      <3> QED BY ONLY <3>2, <3>3, <3>6
    <2>3. at[s + 1][1] = at[s][Len(d[s]) + 1]
      <3>1. s + 1 \in 1..(Len(d) + 1) /\ Len(d[s]) + 1 \in 1..(Len(d[s]) + 1)
        BY <1>1
      <3>2. at[s + 1][1] = outer[s + 1]
        BY <1>10, <3>1
      <3>3. outer[s + 1] = outer[s] + inner(s)[Len(d[s]) + 1]
        BY <1>7, <1>8
      <3>4. at[s][Len(d[s]) + 1] = outer[s] + inner(s)[Len(d[s]) + 1]
        BY <1>9, <3>1
      <3> QED BY <3>2, <3>3, <3>4
    <2> QED BY <2>1, <2>2, <2>3
  <1>13. ASSUME NEW w \in DOMAIN words, NEW s0, NEW k0, words[w] = <<s0, k0>>
         PROVE  w \in (at[s0][k0] + 1)..(at[s0][k0] + d[s0][k0])
    <2>1. PICK s \in DOMAIN all : \E j \in DOMAIN all[s] : w = outer[s] + j
      BY <1>5 DEF Placed
    <2>2. PICK j \in DOMAIN all[s] : w = outer[s] + j
      BY <2>1
    <2>3. s \in DOMAIN d /\ words[w] = all[s][j] /\ all[s] = InSection(d, s)
      BY <1>3, <1>4, <1>5, <2>2 DEF Placed
    <2>4. Placed(Sentences(d, s), InSection(d, s), inner(s))
      BY <1>6, <2>3
    <2>5. PICK k \in DOMAIN Sentences(d, s) : \E m \in DOMAIN Sentences(d, s)[k] : j = inner(s)[k] + m
      BY <2>2, <2>3, <2>4 DEF Placed
    <2>6. PICK m \in DOMAIN Sentences(d, s)[k] : j = inner(s)[k] + m
      BY <2>5
    <2>7. InSection(d, s)[j] = Sentences(d, s)[k][m]
      BY <2>4, <2>6 DEF Placed
    <2>8. k \in DOMAIN d[s] /\ m \in 1..d[s][k] /\ Sentences(d, s)[k][m] = <<s, k>>
      BY DEF Sentences
    <2>9. s0 = s /\ k0 = k
      BY <1>13, <2>3, <2>7, <2>8
    <2>10. k \in 1..(Len(d[s]) + 1)
      BY <1>1, <2>3, <2>8
    <2>11. /\ at[s][k] = outer[s] + inner(s)[k]
           /\ outer[s] \in Nat /\ inner(s)[k] \in Nat /\ d[s][k] \in Nat
      BY <1>1, <1>7, <1>8, <1>9, <2>3, <2>8, <2>10
    <2>12. w = outer[s] + (inner(s)[k] + m)
      BY <2>2, <2>6
    <2>13. \A x, y, z \in Nat : \A n \in 1..z :
              x + (y + n) \in (x + y + 1)..(x + y + z)
      OBVIOUS
    <2> QED BY <2>8, <2>9, <2>11, <2>12, <2>13
  <1>14. Starts(d, at)
    BY <1>11, <1>12, <1>13 DEF Starts, words
  <1> QED BY <1>14 DEF Start

-----------------------------------------------------------------------------
(* The chunker takes every sentence to chunks of its section.              *)

\* The next sentence to read is where as many words end as are read.
PlaceInv ==
    /\ section <= Len(doc) + 1
    /\ section <= Len(doc) => sentence <= Len(doc[section]) + 1
    /\ section > Len(doc) => sentence = 1
    /\ pc = "flush" => section <= Len(doc) /\ sentence = Len(doc[section]) + 1
    /\ read = Start(doc)[section][sentence]

\* Sentence k of section s is read.
Read(s, k) == s < section \/ (s = section /\ k < sentence)

\* Where a word of a section can be once it is read.
Kept(w, s) == w <= read /\ (InChunk(w, s) \/ (s = section /\ first <= w))

KeptInv ==
    \A s \in DOMAIN doc : \A k \in DOMAIN doc[s] : Read(s, k) =>
        \A w \in (Start(doc)[s][k] + 1)..(Start(doc)[s][k] + doc[s][k]) : Kept(w, s)

\* A chunk once made stays.
LEMMA ChunksStay ==
    ASSUME chunks \in Seq(Chunk), NEW r \in Chunk,
           chunks' = chunks \/ chunks' = Append(chunks, r),
           NEW w, NEW s, InChunk(w, s)
    PROVE  InChunk(w, s)'
  <1>1. PICK i \in DOMAIN chunks : chunks[i].section = s /\ chunks[i].first <= w /\ w <= chunks[i].last
    BY DEF InChunk
  <1>2. i \in DOMAIN chunks' /\ chunks'[i] = chunks[i]
    OBVIOUS
  <1> QED BY <1>1, <1>2 DEF InChunk

\* The chunk just made holds its words.
LEMMA ChunkHolds ==
    ASSUME chunks \in Seq(Chunk), NEW r \in Chunk, chunks' = Append(chunks, r),
           NEW w, r.first <= w, w <= r.last, NEW s, r.section = s
    PROVE  InChunk(w, s)'
  <1>1. Len(chunks) + 1 \in DOMAIN chunks' /\ chunks'[Len(chunks) + 1] = r
    OBVIOUS
  <1> QED BY <1>1 DEF InChunk

\* What the invariants say of the numbers.
LEMMA Numbers ==
    ASSUME Inv
    PROVE  /\ doc \in Seq(Seq(Nat \ {0})) /\ Len(doc) \in Nat /\ DOMAIN doc = 1..Len(doc)
           /\ section \in Nat \ {0} /\ sentence \in Nat \ {0}
           /\ first \in Nat \ {0} /\ last \in Nat /\ read \in Nat
           /\ chunks \in Seq(Chunk) /\ last = read /\ first <= last + 1
           /\ Starts(doc, Start(doc))
           /\ \A s \in DOMAIN doc : Len(doc[s]) \in Nat /\ DOMAIN doc[s] = 1..Len(doc[s])
           /\ \A s \in DOMAIN doc : \A k \in DOMAIN doc[s] : doc[s][k] \in Nat \ {0}
  <1>1. /\ doc \in Seq(Seq(Nat \ {0})) /\ section \in Nat \ {0} /\ sentence \in Nat \ {0}
        /\ first \in Nat \ {0} /\ last \in Nat /\ read \in Nat
        /\ chunks \in Seq(Chunk) /\ last = read /\ first <= last + 1
    BY ChunkerAssumption DEF Inv, TypeOK, CurrentInv
  <1>2. Starts(doc, Start(doc))
    BY <1>1, StartsExist
  <1>3. \A s \in DOMAIN doc : doc[s] \in Seq(Nat \ {0})
    BY <1>1
  <1>4. Len(doc) \in Nat /\ DOMAIN doc = 1..Len(doc)
    BY <1>1
  <1>5. \A s \in DOMAIN doc : Len(doc[s]) \in Nat /\ DOMAIN doc[s] = 1..Len(doc[s])
    BY <1>3
  <1>6. \A s \in DOMAIN doc : \A k \in DOMAIN doc[s] : doc[s][k] \in Nat \ {0}
    BY <1>3
  <1> QED BY <1>1, <1>2, <1>4, <1>5, <1>6

\* At the beginning nothing is read.
LEMMA PlaceInit == Init => PlaceInv /\ KeptInv
  <1> SUFFICES ASSUME Init PROVE PlaceInv /\ KeptInv
    OBVIOUS
  <1>1. Inv
    BY InitInv
  <1>2. section = 1 /\ sentence = 1 /\ read = 0 /\ pc = "read"
    BY DEF Init
  <1>3. Start(doc)[1][1] = 0 /\ Len(doc) \in Nat /\ DOMAIN doc = 1..Len(doc)
    BY <1>1, Numbers DEF Starts
  <1>4. \A s \in DOMAIN doc : Len(doc[s]) \in Nat /\ DOMAIN doc[s] = 1..Len(doc[s])
    BY <1>1, Numbers
  <1>5. PlaceInv
    <2>1. section <= Len(doc) + 1
      BY <1>2, <1>3
    <2>2. section <= Len(doc) => sentence <= Len(doc[section]) + 1
      BY <1>2, <1>3, <1>4
    <2> QED BY <1>2, <1>3, <2>1, <2>2 DEF PlaceInv
  <1>6. KeptInv
    <2>1. \A s \in DOMAIN doc : \A k \in DOMAIN doc[s] : ~Read(s, k)
      BY <1>2, <1>3, <1>4 DEF Read
    <2> QED BY <2>1 DEF KeptInv
  <1> QED BY <1>5, <1>6

\* The place of the next sentence moves on as the words are read.
LEMMA PlaceStep == ASSUME Inv, PlaceInv, [Next]_vars PROVE PlaceInv'
  <1> DEFINE at == Start(doc)
  <1>1. /\ Len(doc) \in Nat /\ DOMAIN doc = 1..Len(doc)
        /\ section \in Nat \ {0} /\ sentence \in Nat \ {0} /\ read \in Nat
        /\ \A s \in DOMAIN doc : Len(doc[s]) \in Nat /\ DOMAIN doc[s] = 1..Len(doc[s])
        /\ Starts(doc, at)
    BY Numbers
  <1>2. /\ section <= Len(doc) + 1
        /\ section <= Len(doc) => sentence <= Len(doc[section]) + 1
        /\ section > Len(doc) => sentence = 1
        /\ pc = "flush" => section <= Len(doc) /\ sentence = Len(doc[section]) + 1
        /\ read = at[section][sentence]
    BY DEF PlaceInv
  <1>3. /\ \A s \in DOMAIN doc : \A k \in DOMAIN doc[s] : at[s][k + 1] = at[s][k] + doc[s][k]
        /\ \A s \in DOMAIN doc : at[s + 1][1] = at[s][Len(doc[s]) + 1]
    BY <1>1 DEF Starts
  <1> HIDE DEF at
  <1>4. CASE ReadSentence
    <2>1. /\ pc = "read" /\ section <= Len(doc) /\ sentence <= Len(doc[section])
          /\ read' = read + doc[section][sentence] /\ sentence' = sentence + 1
          /\ section' = section /\ doc' = doc /\ pc' = pc
      BY <1>4 DEF ReadSentence
    <2>2. section \in DOMAIN doc /\ sentence \in DOMAIN doc[section]
      BY <1>1, <2>1
    <2>3. at[section][sentence + 1] = at[section][sentence] + doc[section][sentence]
      BY <1>3, <2>2
    <2>4. sentence + 1 <= Len(doc[section]) + 1
      BY <1>1, <2>1, <2>2
    <2> QED BY <1>1, <1>2, <2>1, <2>3, <2>4 DEF PlaceInv, at
  <1>5. CASE EndSection
    <2>1. /\ section <= Len(doc) /\ sentence > Len(doc[section]) /\ pc' = "flush"
          /\ UNCHANGED <<doc, section, sentence, read>>
      BY <1>5 DEF EndSection
    <2>2. section \in DOMAIN doc
      BY <1>1, <2>1
    <2>3. sentence = Len(doc[section]) + 1
      BY <1>1, <1>2, <2>1, <2>2
    <2> QED BY <1>2, <2>1, <2>3 DEF PlaceInv, at
  <1>6. CASE SplitLong
    BY <1>2, <1>6 DEF SplitLong, PlaceInv, at
  <1>7. CASE FlushRest
    <2>1. /\ pc = "flush" /\ section' = section + 1 /\ sentence' = 1 /\ pc' = "read"
          /\ doc' = doc /\ read' = read
      BY <1>7 DEF FlushRest
    <2>2. section \in DOMAIN doc /\ section + 1 <= Len(doc) + 1
      BY <1>1, <1>2, <2>1
    <2>3. at[section + 1][1] = at[section][sentence]
      BY <1>2, <1>3, <2>1, <2>2
    <2>4. section + 1 <= Len(doc) => 1 <= Len(doc[section + 1]) + 1
      <3>1. ASSUME section + 1 <= Len(doc) PROVE section + 1 \in DOMAIN doc
        BY <1>1, <3>1
      <3> QED BY <1>1, <3>1
    <2> QED BY <1>2, <2>1, <2>2, <2>3, <2>4 DEF PlaceInv, at
  <1>8. CASE Finish
    BY <1>2, <1>8 DEF Finish, PlaceInv, at
  <1>9. CASE UNCHANGED vars
    BY <1>2, <1>9 DEF vars, PlaceInv, at
  <1> QED BY <1>4, <1>5, <1>6, <1>7, <1>8, <1>9 DEF Next

\* A turn of one of the loops: to the next section, the next sentence, the end of the
\* sentences, the next window of a text that is not used up, or the end.
Advances ==
    /\ doc' = doc
    /\ \/ section <= Len(doc) /\ section' = section + 1
       \/ /\ section' = section /\ section <= Len(doc)
          /\ \/ sentence <= Len(doc[section]) /\ sentence' = sentence + 1
             \/ /\ sentence' = sentence
                /\ \/ pc = "read" /\ pc' = "flush"
                   \/ pc = "flush" /\ pc' = "flush" /\ last' = last /\ first < first' /\ first' <= last
       \/ section > Len(doc) /\ pc = "read" /\ pc' = "done"

\* Why split returns: every turn of its loops (chunker.py:37, 43, 52) takes it forward
\* in a finite order, whatever the document, as long as the overlap is shorter than a
\* chunk.  No step leaves everything as it was, and the window stays in the text.
THEOREM LoopsAdvance == Spec => [][Advances]_vars
<1>1. ASSUME Inv, PlaceInv, Next PROVE Advances
  <2>1. /\ Len(doc) \in Nat /\ section \in Nat /\ sentence \in Nat
        /\ first \in Nat /\ last \in Nat
    BY <1>1, Numbers
  <2>2. CASE ReadSentence BY <2>2 DEF ReadSentence, Advances
  <2>3. CASE EndSection BY <2>3 DEF EndSection, Advances
  <2>4. CASE SplitLong
    <3>1. /\ pc = "flush" /\ last - first + 1 > ChunkSize /\ first' = first + (ChunkSize - Overlap)
          /\ UNCHANGED <<doc, section, sentence, last, pc>>
      BY <2>4 DEF SplitLong, TokenCount, Advance
    <3>2. section <= Len(doc) BY <1>1, <3>1 DEF PlaceInv
    <3>3. first < first' /\ first' <= last
      <4>1. ChunkSize \in Nat /\ Overlap \in Nat /\ Overlap < ChunkSize
        BY ChunkerAssumption
      <4> QED BY <2>1, <3>1, <4>1
    <3> QED BY <3>1, <3>2, <3>3 DEF Advances
  <2>5. CASE FlushRest BY <1>1, <2>5 DEF FlushRest, Advances, PlaceInv
  <2>6. CASE Finish BY <2>6 DEF Finish, Advances
  <2> QED BY <1>1, <2>2, <2>3, <2>4, <2>5, <2>6 DEF Next
<1>2. Init => Inv /\ PlaceInv BY InitInv, PlaceInit
<1>3. Inv /\ PlaceInv /\ [Next]_vars => (Inv /\ PlaceInv)' BY NextInv, PlaceStep
<1>4. Inv /\ PlaceInv /\ [Next]_vars => [Advances]_vars BY <1>1
<1> QED BY <1>2, <1>3, <1>4, PTL DEF Spec

\* Words of a section that are read are in its chunks or in current.
LEMMA KeptStep == ASSUME Inv, PlaceInv, KeptInv, [Next]_vars PROVE KeptInv'
  <1> USE ChunkerAssumption
  <1> DEFINE at == Start(doc)
             Of(s, k) == (at[s][k] + 1)..(at[s][k] + doc[s][k])
  <1>1. /\ Len(doc) \in Nat /\ DOMAIN doc = 1..Len(doc)
        /\ section \in Nat \ {0} /\ sentence \in Nat \ {0}
        /\ first \in Nat \ {0} /\ last \in Nat /\ read \in Nat
        /\ chunks \in Seq(Chunk) /\ last = read /\ first <= last + 1
        /\ \A s \in DOMAIN doc : Len(doc[s]) \in Nat /\ DOMAIN doc[s] = 1..Len(doc[s])
        /\ \A s \in DOMAIN doc : \A k \in DOMAIN doc[s] : doc[s][k] \in Nat \ {0}
        /\ Starts(doc, at)
    BY Numbers
  <1>2. /\ pc = "flush" => section <= Len(doc) /\ sentence = Len(doc[section]) + 1
        /\ read = at[section][sentence]
    BY DEF PlaceInv
  <1>3. \A s \in DOMAIN doc : \A k \in DOMAIN doc[s] : Read(s, k) =>
           \A w \in Of(s, k) : Kept(w, s)
    BY DEF KeptInv
  <1>3a. \A s \in DOMAIN doc : \A k \in DOMAIN doc[s] : Of(s, k) \subseteq Nat
    <2>1. SUFFICES ASSUME NEW s \in DOMAIN doc, NEW k \in DOMAIN doc[s] PROVE Of(s, k) \subseteq Nat
      OBVIOUS
    <2>2. k \in 1..(Len(doc[s]) + 1)
      BY <1>1
    <2>3. at[s][k] \in Nat /\ doc[s][k] \in Nat
      BY <1>1, <2>2 DEF Starts
    <2> QED BY <2>3
  <1> HIDE DEF at
  <1>4. doc' = doc
    BY DEF Next, ReadSentence, EndSection, SplitLong, FlushRest, Finish, vars
  <1>5. SUFFICES ASSUME NEW s \in DOMAIN doc, NEW k \in DOMAIN doc[s], Read(s, k)',
                        NEW w \in Of(s, k)
                 PROVE  Kept(w, s)'
    BY <1>4 DEF KeptInv, at
  <1>5a. w \in Nat /\ s \in Nat /\ k \in Nat /\ k <= Len(doc[s]) /\ s <= Len(doc)
    BY <1>1, <1>3a
  <1>6. /\ Record(first, last) \in Chunk
        /\ Record(first, first + ChunkSize - 1) \in Chunk
        /\ Record(first, last).first = first /\ Record(first, last).last = last
        /\ Record(first, last).section = section
        /\ Record(first, first + ChunkSize - 1).first = first
        /\ Record(first, first + ChunkSize - 1).last = first + ChunkSize - 1
        /\ Record(first, first + ChunkSize - 1).section = section
    BY <1>1 DEF Record, Chunk
  <1> HIDE DEF Of
  <1>7. CASE ReadSentence
    <2> DEFINE cut == TokenCount + doc[section][sentence] > ChunkSize /\ TokenCount > 0
    <2>1. /\ section <= Len(doc) /\ sentence <= Len(doc[section])
          /\ chunks' = IF cut THEN Append(chunks, Record(first, last)) ELSE chunks
          /\ first' = IF cut THEN TailStart ELSE first
          /\ read' = read + doc[section][sentence] /\ sentence' = sentence + 1
          /\ section' = section
      BY <1>7 DEF ReadSentence
    <2> HIDE DEF cut
    <2>2. section \in DOMAIN doc /\ sentence \in DOMAIN doc[section]
      BY <1>1, <2>1
    <2>2a. doc[section][sentence] \in Nat
      BY <1>1, <2>2
    <2>3. TailStart <= last + 1
      <3>1. CASE last - Overlap + 1 > first
        BY <1>1, <3>1 DEF TailStart
      <3>2. CASE ~(last - Overlap + 1 > first)
        BY <1>1, <3>2 DEF TailStart
      <3> QED BY <3>1, <3>2
    <2>4. CASE Read(s, k)
      <3>1. w <= read /\ (InChunk(w, s) \/ (s = section /\ first <= w))
        BY <1>3, <1>5, <2>4 DEF Kept
      <3>2. w <= read'
        <4>1. \A x, y, z \in Nat : x <= y => x <= y + z
          OBVIOUS
        <4>2. read \in Nat
          BY <1>1
        <4> QED BY <1>5a, <2>1, <2>2a, <3>1, <4>1, <4>2
      <3>3. CASE InChunk(w, s)
        <4>1. chunks' = chunks \/ chunks' = Append(chunks, Record(first, last))
          BY <2>1
        <4>2. InChunk(w, s)'
          BY <1>1, <1>6, <3>3, <4>1, ChunksStay
        <4> QED BY <3>2, <4>2 DEF Kept
      <3>4. CASE s = section /\ first <= w /\ cut
        <4>1. chunks' = Append(chunks, Record(first, last)) /\ w <= last
          BY <1>1, <2>1, <3>1, <3>4
        <4>2. InChunk(w, s)'
          BY <1>1, <1>6, <3>4, <4>1, ChunkHolds
        <4> QED BY <3>2, <4>2 DEF Kept
      <3>5. CASE s = section /\ first <= w /\ ~cut
        BY <2>1, <3>2, <3>5 DEF Kept
      <3> QED BY <3>1, <3>3, <3>4, <3>5
    <2>5. CASE ~Read(s, k)
      <3>1. s = section /\ k = sentence
        BY <1>1, <1>5, <1>5a, <2>1, <2>5 DEF Read
      <3>2. w \in (read + 1)..(read + doc[section][sentence])
        BY <1>2, <3>1 DEF Of
      <3>3. w <= read' /\ last + 1 <= w
        BY <1>1, <2>1, <2>2a, <3>2
      <3>4. first' <= last + 1 /\ first' \in Int
        <4>1. TailStart \in Int
          BY <1>1 DEF TailStart
        <4> QED BY <1>1, <2>1, <2>3, <4>1
      <3>5. first' <= w
        BY <1>1, <1>5a, <3>3, <3>4
      <3> QED BY <2>1, <3>1, <3>3, <3>5 DEF Kept
    <2> QED BY <2>4, <2>5
  <1>8. CASE SplitLong
    <2> DEFINE r == Record(first, first + ChunkSize - 1)
    <2>1. /\ chunks' = Append(chunks, r) /\ first' = first + Advance
          /\ UNCHANGED <<section, sentence, read>>
      BY <1>8 DEF SplitLong
    <2>2. Read(s, k)
      BY <1>5, <2>1 DEF Read
    <2>3. w <= read' /\ (InChunk(w, s) \/ (s = section /\ first <= w))
      BY <1>3, <1>5, <2>1, <2>2 DEF Kept
    <2>4. r \in Chunk /\ r.first = first /\ r.last = first + ChunkSize - 1 /\ r.section = section
      BY <1>6
    <2> HIDE DEF r
    <2>5. CASE InChunk(w, s)
      <3>1. InChunk(w, s)'
        BY <1>1, <2>1, <2>4, <2>5, ChunksStay
      <3> QED BY <2>3, <3>1 DEF Kept
    <2>6. CASE s = section /\ first <= w /\ w <= first + ChunkSize - 1
      <3>1. InChunk(w, s)'
        BY <1>1, <2>1, <2>4, <2>6, ChunkHolds
      <3> QED BY <2>3, <3>1 DEF Kept
    <2>7. CASE s = section /\ ~(w <= first + ChunkSize - 1)
      <3>1. first' <= w
        BY <1>1, <1>5a, <2>1, <2>7 DEF Advance
      <3> QED BY <2>1, <2>3, <2>7, <3>1 DEF Kept
    <2> QED BY <2>3, <2>5, <2>6, <2>7
  <1>9. CASE FlushRest
    <2> DEFINE r == Record(first, last)
    <2>1. /\ pc = "flush"
          /\ chunks' = IF TokenCount > 0 THEN Append(chunks, r) ELSE chunks
          /\ section' = section + 1 /\ sentence' = 1 /\ read' = read
      BY <1>9 DEF FlushRest
    <2>2. Read(s, k)
      <3>1. s < section + 1
        BY <1>1, <1>5, <1>5a, <2>1 DEF Read
      <3>2. CASE s < section
        BY <3>2 DEF Read
      <3>3. CASE ~(s < section)
        <4>1. s = section /\ k < sentence
          BY <1>1, <1>2, <1>5a, <2>1, <3>1, <3>3
        <4> QED BY <4>1 DEF Read
      <3> QED BY <3>2, <3>3
    <2>3. w <= read /\ (InChunk(w, s) \/ (s = section /\ first <= w))
      BY <1>3, <1>5, <2>2 DEF Kept
    <2>4. r \in Chunk /\ r.first = first /\ r.last = last /\ r.section = section
      BY <1>6
    <2> HIDE DEF r
    <2>5. CASE InChunk(w, s)
      <3>1. chunks' = chunks \/ chunks' = Append(chunks, r)
        BY <2>1
      <3>2. InChunk(w, s)'
        BY <1>1, <2>4, <2>5, <3>1, ChunksStay
      <3> QED BY <2>1, <2>3, <3>2 DEF Kept
    <2>6. CASE s = section /\ first <= w
      <3>1. TokenCount > 0 /\ w <= last
        BY <1>1, <1>5a, <2>3, <2>6 DEF TokenCount
      <3>2. chunks' = Append(chunks, r)
        BY <2>1, <3>1
      <3>3. InChunk(w, s)'
        BY <1>1, <2>4, <2>6, <3>1, <3>2, ChunkHolds
      <3> QED BY <2>1, <2>3, <3>3 DEF Kept
    <2> QED BY <2>3, <2>5, <2>6
  <1>10. CASE EndSection \/ Finish \/ UNCHANGED vars
    <2>1. UNCHANGED <<section, sentence, read, first, chunks>>
      BY <1>10 DEF EndSection, Finish, vars
    <2>2. Read(s, k)
      BY <1>5, <2>1 DEF Read
    <2>3. Kept(w, s)
      BY <1>3, <1>5, <2>2
    <2> QED BY <2>1, <2>3 DEF Kept, InChunk
  <1> QED BY <1>7, <1>8, <1>9, <1>10 DEF Next

-----------------------------------------------------------------------------
(* The text of a file.                                                     *)

\* The document the chunker was given is the file's.
FileInv ==
    /\ file \in Files
    /\ Supported(file)
    /\ doc = Lengths(SectionsOf(file))

PipelineInv == Inv /\ PlaceInv /\ KeptInv /\ FileInv

\* The file stays what it was, and the chunker runs on its sections.
LEMMA PipelineInvariance == PipelineSpec => []PipelineInv
  <1>1. PipelineInit => PipelineInv
    BY InitInv, PlaceInit DEF PipelineInit, PipelineInv, FileInv
  <1>2. PipelineInv /\ [PipelineNext]_pipeline_vars => PipelineInv'
    <2>1. SUFFICES ASSUME PipelineInv, [PipelineNext]_pipeline_vars PROVE PipelineInv'
      OBVIOUS
    <2>2. [Next]_vars /\ file' = file
      BY <2>1 DEF PipelineNext, pipeline_vars
    <2>3. Inv /\ PlaceInv /\ KeptInv /\ FileInv
      BY <2>1 DEF PipelineInv
    <2>4. Inv'
      BY <2>2, <2>3, NextInv
    <2>5. PlaceInv'
      BY <2>2, <2>3, PlaceStep
    <2>6. KeptInv'
      BY <2>2, <2>3, KeptStep
    <2>7. doc' = doc
      BY <2>2 DEF Next, ReadSentence, EndSection, SplitLong, FlushRest, Finish, vars
    <2>8. FileInv'
      BY <2>2, <2>3, <2>7 DEF FileInv
    <2> QED BY <2>4, <2>5, <2>6, <2>8 DEF PipelineInv
  <1> QED BY <1>1, <1>2, PTL DEF PipelineSpec

\* When all is read, every word of a section is in a chunk of it.
LEMMA AllKept ==
    ASSUME PipelineInv, pc = "done"
    PROVE  /\ \A w \in DOMAIN WordsOf(doc) : \A s \in DOMAIN doc : \A k \in DOMAIN doc[s] :
                 WordsOf(doc)[w] = <<s, k>> => InChunk(w, s)
           /\ \A s \in DOMAIN doc : \A k \in DOMAIN doc[s] : \E i \in DOMAIN chunks : chunks[i].section = s
  <1>1. /\ Len(doc) \in Nat /\ DOMAIN doc = 1..Len(doc) /\ section \in Nat \ {0}
        /\ \A s \in DOMAIN doc : Len(doc[s]) \in Nat /\ DOMAIN doc[s] = 1..Len(doc[s])
        /\ \A s \in DOMAIN doc : \A k \in DOMAIN doc[s] : doc[s][k] \in Nat \ {0}
        /\ Starts(doc, Start(doc))
    BY Numbers DEF PipelineInv
  <1>2. section > Len(doc)
    BY DEF PipelineInv, Inv, CurrentInv
  <1>3. ASSUME NEW s \in DOMAIN doc, NEW k \in DOMAIN doc[s],
               NEW w \in (Start(doc)[s][k] + 1)..(Start(doc)[s][k] + doc[s][k])
        PROVE  InChunk(w, s)
    <2>1. s < section /\ s # section
      BY <1>1, <1>2
    <2>2. Read(s, k)
      BY <2>1 DEF Read
    <2>3. Kept(w, s)
      BY <1>3, <2>2 DEF PipelineInv, KeptInv
    <2> QED BY <2>1, <2>3 DEF Kept
  <1>4. ASSUME NEW s \in DOMAIN doc, NEW k \in DOMAIN doc[s]
        PROVE  \E i \in DOMAIN chunks : chunks[i].section = s
    <2> DEFINE w == Start(doc)[s][k] + 1
    <2>1. k \in 1..(Len(doc[s]) + 1) /\ doc[s][k] \in Nat \ {0}
      BY <1>1
    <2>2. Start(doc)[s][k] \in Nat
      BY <1>1, <2>1 DEF Starts
    <2>3. w \in w..(Start(doc)[s][k] + doc[s][k])
      BY <2>1, <2>2
    <2>4. InChunk(w, s)
      BY <1>3, <2>3
    <2> QED BY <2>4 DEF InChunk
  <1>5. ASSUME NEW w \in DOMAIN WordsOf(doc), NEW s \in DOMAIN doc, NEW k \in DOMAIN doc[s],
               WordsOf(doc)[w] = <<s, k>>
        PROVE  InChunk(w, s)
    <2>1. w \in (Start(doc)[s][k] + 1)..(Start(doc)[s][k] + doc[s][k])
      BY <1>1, <1>5 DEF Starts
    <2> QED BY <1>3, <2>1
  <1> QED BY <1>4, <1>5

\* process_document calls the chunker with a file's sections (main.py 77-97): what is
\* proved of the chunker holds of every file.
THEOREM FilesAreChunked == PipelineSpec => Spec
<1>1. PipelineInit => Init BY DEF PipelineInit
<1>2. [PipelineNext]_pipeline_vars => [Next]_vars BY DEF PipelineNext, pipeline_vars
<1> QED BY <1>1, <1>2, PTL DEF PipelineSpec, Spec

\* When a file is done, every piece of its text is in chunks of its section or is the
\* heading of one, but for what its converter leaves out and headings over nothing;
\* the front matter is in none (router.py 30-40, chunker.py 16-33, 42-60).  For all
\* files of the formats' roles and all sizes.
THEOREM TextIsKept == PipelineSpec => []TextArrives
  <1>1. ASSUME PipelineInv, pc = "done" PROVE TextArrives
    <2> DEFINE sections == SectionsOf(file)
               arrives(p) ==
                \E s \in DOMAIN sections :
                    \/ sections[s].heading = p /\ \E i \in DOMAIN chunks : chunks[i].section = s
                    \/ \E k \in DOMAIN sections[s].body :
                          /\ sections[s].body[k].piece = p
                          /\ \A w \in DOMAIN WordsOf(doc) : WordsOf(doc)[w] = <<s, k>> => InChunk(w, s)
    <2>1. file \in Files /\ Supported(file) /\ doc = Lengths(sections)
      BY <1>1 DEF PipelineInv, FileInv
    <2>2. /\ Converted(file) \in Seq(Lined)
          /\ \A i \in DOMAIN file.units : \A j \in DOMAIN file.units[i] :
                 \/ <<i, j>> \in LeftOut(file)
                 \/ Empty(file, <<i, j>>)
                 \/ Appears(Converted(file), <<i, j>>)
      BY <2>1, ConvertedHolds
    <2>3. sections = Sections(Converted(file))
      BY <2>2, SectionsOfFile
    <2> HIDE DEF sections
    <2>4. /\ sections \in Seq(Sectioned)
          /\ \A s \in DOMAIN sections : 1 \in DOMAIN sections[s].body
          /\ \A p : Appears(Converted(file), p) =>
                 \E s \in DOMAIN sections :
                    \/ sections[s].heading = p
                    \/ \E k \in DOMAIN sections[s].body : sections[s].body[k].piece = p
      BY <2>2, <2>3, SectionsHold
    <2>5. /\ DOMAIN doc = DOMAIN sections
          /\ \A s \in DOMAIN sections : DOMAIN doc[s] = DOMAIN sections[s].body
      BY <2>1 DEF Lengths
    <2>6. /\ \A w \in DOMAIN WordsOf(doc) : \A s \in DOMAIN doc : \A k \in DOMAIN doc[s] :
                 WordsOf(doc)[w] = <<s, k>> => InChunk(w, s)
          /\ \A s \in DOMAIN doc : \A k \in DOMAIN doc[s] : \E i \in DOMAIN chunks : chunks[i].section = s
      BY <1>1, AllKept
    <2>7. ASSUME NEW p, Appears(Converted(file), p)
          PROVE  arrives(p)
      <3>1. PICK s \in DOMAIN sections :
                    \/ sections[s].heading = p
                    \/ \E k \in DOMAIN sections[s].body : sections[s].body[k].piece = p
        BY <2>4, <2>7
      <3>2. CASE sections[s].heading = p
        <4>1. \E i \in DOMAIN chunks : chunks[i].section = s
          BY <2>4, <2>5, <2>6
        <4> QED BY <3>2, <4>1
      <3>3. CASE \E k \in DOMAIN sections[s].body : sections[s].body[k].piece = p
        BY <2>5, <2>6, <3>3
      <3> QED BY <3>1, <3>2, <3>3
    <2>8. ASSUME NEW s \in DOMAIN sections, NEW k \in DOMAIN sections[s].body
          PROVE  sections[s].body[k].piece # FrontMatter
      <3>1. sections[s] \in Sectioned
        BY <2>4
      <3>2. sections[s].body \in Seq(Lined)
        BY <3>1 DEF Sectioned
      <3>3. sections[s].body[k] \in Lined
        BY <3>2
      <3> QED BY <3>3 DEF Lined
    <2> HIDE DEF arrives
    <2>9. \A i \in DOMAIN file.units : \A j \in DOMAIN file.units[i] :
                \/ <<i, j>> \in LeftOut(file)
                \/ Empty(file, <<i, j>>)
                \/ arrives(<<i, j>>)
      BY <2>2, <2>7
    <2>10. \A p : arrives(p) =>
                \E s \in DOMAIN sections :
                    \/ sections[s].heading = p /\ \E i \in DOMAIN chunks : chunks[i].section = s
                    \/ \E k \in DOMAIN sections[s].body :
                          /\ sections[s].body[k].piece = p
                          /\ \A w \in DOMAIN WordsOf(Lengths(sections)) :
                                WordsOf(Lengths(sections))[w] = <<s, k>> => InChunk(w, s)
      BY <2>1 DEF arrives
    <2> QED BY <2>8, <2>9, <2>10 DEF TextArrives, sections
  <1>2. PipelineInv => TextArrives
    BY <1>1 DEF TextArrives
  <1> QED BY <1>2, PipelineInvariance, PTL
=============================================================================

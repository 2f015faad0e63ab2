---------------------------- MODULE ChunkerProofs ----------------------------
(***************************************************************************)
(* For any document, lines, headings and sizes: no text is lost, every     *)
(* child is of the page and section it names and a parent begins there,    *)
(* what a child repeats and how long it gets is bounded, the parents       *)
(* partition the children, and vectors match texts.                        *)
(*                                                                         *)
(* The first invariant, IInv, says where the segments lie: chunks,         *)
(* children and the buffer are runs of pieces read under one heading of    *)
(* one page, and what is left of a chunk that is being split is a run at   *)
(* its end, the last sentence taken included.  RInv adds the order of the  *)
(* runs: each chunk begins behind the ones before it, or in the last line  *)
(* of one.  LInv adds their lengths: the count of _split_large is that of  *)
(* the sentences taken, or one more.  GInv is about make_parents,   *)
(* and OInv about the order of the pages.                                  *)
(***************************************************************************)
EXTENDS EmbedBatches, SequenceTheorems, WellFoundedInduction, TLAPS

Holds(c) ==
    /\ c.lo \in 1..Len(pieces) /\ c.hi \in c.lo..Len(pieces)
    /\ \A p \in c.lo..c.hi : pieces[p].page = c.page /\ pieces[p].section = c.section

\* Segments are runs of pieces of their own page and section.
SegmentsHold ==
    /\ \A k \in 1..Len(chunks) : Holds(chunks[k])
    /\ \A k \in 1..Len(children) : Holds(children[k])

\* The buffer is empty or the last run read, under the present heading.
BufferHolds ==
    IF buffer.hi = 0 THEN buffer = NoBuffer
    ELSE /\ buffer.lo \in 1..buffer.tail /\ buffer.tail \in 1..buffer.hi
         /\ buffer.hi = Len(pieces)
         /\ \A p \in buffer.lo..buffer.hi : pieces[p].page = page /\ pieces[p].section = section

\* The state of _split_large is about the first chunk, or there is none.
SplitInv ==
    IF phase = "split" /\ chunks # <<>>
    THEN /\ split.lo \in chunks[1].lo..split.last
         /\ split.last \in chunks[1].lo..chunks[1].hi
         /\ split.next \in split.last..(chunks[1].hi + 1)
    ELSE split = NoSplit

PhaseInv ==
    /\ phase # "read" => buffer = NoBuffer
    /\ phase \in {"group", "chunked"} => chunks = <<>>
    /\ phase \in {"read", "split"} => group.hi = 0
    /\ group.lo \in 1..(group.hi + 1) /\ group.hi \in 0..Len(children)

IInv == TypeOK /\ SegmentsHold /\ BufferHolds /\ SplitInv /\ PhaseInv /\ NothingLost

\* The results are the first texts; there is none before the chunker is done,
\* and the chunker does nothing any more.
EmbedInv ==
    /\ embedding \in {"wait", "run", "done", "failed"} /\ start \in Nat /\ attempt \in Nat
    /\ embedding = "wait" => start = 0
    /\ embedding # "wait" => phase = "chunked"
    /\ vectors = [i \in 1..(IF start < Segments THEN start ELSE Segments) |-> i]
    /\ embedding = "done" => start >= Segments

-----------------------------------------------------------------------------
(* Text. *)

\* A set of numbers has a least one.
LEMMA LeastNumber ==
    ASSUME NEW T \in SUBSET Nat, T # {}
    PROVE  \E x \in T : \A y \in T : x <= y
<1>1. IsWellFoundedOn(OpToRel(<, Nat), Nat)
    BY NatLessThanWellFounded
<1> DEFINE R == OpToRel(<, Nat)
<1>2. \A x, y \in Nat : y < x => <<y, x>> \in R
    BY DEF OpToRel
<1>3. IsWellFoundedOn(R, Nat)
    BY <1>1
<1> HIDE DEF R
<1>4. PICK x \in T : \A y \in T : ~(<<y, x>> \in R)
    BY <1>3, WFMin
<1>5. x \in Nat /\ \A y \in T : y \in Nat
    OBVIOUS
<1>6. \A y \in T : ~(y < x)
    BY <1>2, <1>4, <1>5, Zenon
<1> QED
    BY <1>5, <1>6

\* A sentence ends within its segment, and none ends before it.
LEMMA SentenceEndInside ==
    ASSUME NEW p \in Nat, NEW hi \in Nat, p <= hi
    PROVE  /\ SentenceEnd(p, hi) \in p..hi
           /\ \A q \in p..(SentenceEnd(p, hi) - 1) : ~pieces[q].ends
<1> DEFINE stops == {e \in p..hi : e = hi \/ pieces[e].ends}
<1>1. PICK e \in stops : \A y \in stops : e <= y
    <2>1. stops \in SUBSET Nat /\ hi \in stops
        OBVIOUS
    <2> HIDE DEF stops
    <2> QED
        BY <2>1, LeastNumber
<1>2. /\ e \in p..hi
      /\ e = hi \/ pieces[e].ends
      /\ \A q \in p..(e - 1) : ~pieces[q].ends
    BY <1>1
<1> QED
    BY <1>2 DEF SentenceEnd

LEMMA WidthIsInt ==
    ASSUME TypeOK, NEW lo \in 1..Len(pieces), NEW hi \in 1..Len(pieces)
    PROVE  Width(lo, hi) \in Int
<1>0. pieces \in Seq(Piece)
    BY DEF TypeOK
<1>1. pieces[lo] \in Piece /\ pieces[hi] \in Piece
    BY <1>0
<1>2. pieces[lo].start \in Int /\ pieces[hi].stop \in Int
    BY <1>1 DEF Piece
<1> QED
    BY <1>2 DEF Width

LEMMA LineIsSolid ==
    ASSUME NEW line \in Lines
    PROVE  /\ Len(line.cuts) \in Nat \ {0} /\ LineWidth(line) \in Nat
           /\ \A i \in 1..Len(line.cuts) : line.cuts[i] \in Nat
           /\ line.ends \in BOOLEAN
<1>1. line.cuts \in Seq(Nat) /\ line.cuts # <<>> /\ line.ends \in BOOLEAN
    BY ChunkerAssumption
<1>2. Len(line.cuts) \in Nat \ {0}
    BY <1>1, EmptySeq
<1>3. \A i \in 1..Len(line.cuts) : line.cuts[i] \in Nat
    BY <1>1
<1> QED
    BY <1>1, <1>2, <1>3 DEF LineWidth

\* The pieces of a line come after those read before and belong to the page
\* and section of the moment.
LEMMA PiecesGrow ==
    ASSUME TypeOK, NEW line \in Lines, pieces' = pieces \o NewPieces(line)
    PROVE  /\ pieces' \in Seq(Piece)
           /\ Len(pieces') \in Nat /\ Len(pieces') > Len(pieces) /\ Len(pieces) \in Nat
           /\ \A p \in 1..Len(pieces) : pieces'[p] = pieces[p]
           /\ \A p \in (Len(pieces) + 1)..Len(pieces') :
                 pieces'[p].page = page /\ pieces'[p].section = section
<1> DEFINE m == Len(line.cuts)
           new == NewPieces(line)
<1>1. m \in Nat \ {0} /\ (\A i \in 1..m : line.cuts[i] \in Nat) /\ line.ends \in BOOLEAN
    BY LineIsSolid
<1>2. Base \in Int
    <2>1. CASE pieces = <<>>
        BY <2>1 DEF Base
    <2>2. CASE pieces # <<>>
        <3>1. Len(pieces) \in 1..Len(pieces)
            BY <2>2, EmptySeq DEF TypeOK
        <3>2. pieces[Len(pieces)] \in Piece
            BY SMTT(60), <3>1 DEF TypeOK
        <3> QED
            BY <2>2, <3>2 DEF Base, Piece
    <2> QED
        BY <2>1, <2>2
<1>3. read \in Nat /\ page \in Nat /\ section \in Sections
    BY ChunkerAssumption DEF TypeOK
<1>4. \A i \in 1..m : new[i] \in Piece /\ new[i].page = page /\ new[i].section = section
    <2>1. ASSUME NEW i \in 1..m
          PROVE  new[i] \in Piece /\ new[i].page = page /\ new[i].section = section
        <3>1. Base + (IF i = 1 THEN 0 ELSE line.cuts[i - 1] + 1) \in Int
            <4>1. CASE i = 1
                BY <1>2, <4>1
            <4>2. CASE i # 1
                <5>1. i - 1 \in 1..m
                    BY <1>1, <4>2
                <5>2. line.cuts[i - 1] \in Nat
                    BY <1>1, <5>1
                <5> QED
                    BY <1>2, <4>2, <5>2
            <4> QED
                BY <4>1, <4>2
        <3>2. Base + line.cuts[i] \in Int /\ (i < m \/ line.ends) \in BOOLEAN
            BY <1>1, <1>2
        <3>3. new[i] = [start   |-> Base + (IF i = 1 THEN 0 ELSE line.cuts[i - 1] + 1),
                        stop    |-> Base + line.cuts[i],
                        ends    |-> i < m \/ line.ends,
                        line    |-> read,
                        page    |-> page,
                        section |-> section]
            BY <1>1 DEF NewPieces
        <3> HIDE DEF new, m
        <3> QED
            BY <1>3, <3>1, <3>2, <3>3 DEF Piece
    <2> QED
        BY <2>1
<1>5. new \in Seq(Piece) /\ Len(new) = m
    <2>1. new = [i \in 1..m |-> new[i]]
        BY <1>1 DEF NewPieces
    <2> HIDE DEF new
    <2>2. new \in [1..m -> Piece]
        BY <1>4, <2>1
    <2> HIDE DEF m
    <2>3. \A f \in [1..m -> Piece] : f \in Seq(Piece) /\ Len(f) = m
        BY <1>1
    <2> QED
        BY <2>2, <2>3
<1> HIDE DEF new, m
<1>6. pieces \in Seq(Piece) /\ pieces' = pieces \o new /\ Len(pieces) \in Nat
    BY DEF TypeOK, new
<1>7. /\ pieces' \in Seq(Piece) /\ Len(pieces') = Len(pieces) + m
      /\ \A p \in 1..(Len(pieces) + m) :
             pieces'[p] = IF p <= Len(pieces) THEN pieces[p] ELSE new[p - Len(pieces)]
    <2>1. pieces \o new \in Seq(Piece) /\ Len(pieces \o new) = Len(pieces) + Len(new)
        BY <1>5, <1>6, ConcatProperties
    <2>2. \A p \in 1..(Len(pieces) + Len(new)) :
             (pieces \o new)[p] = IF p <= Len(pieces) THEN pieces[p] ELSE new[p - Len(pieces)]
        BY <1>5, <1>6, ConcatProperties
    <2> QED
        BY <1>5, <1>6, <2>1, <2>2
<1>8. \A p \in (Len(pieces) + 1)..Len(pieces') : p - Len(pieces) \in 1..m
    BY <1>1, <1>6, <1>7
<1> QED
    BY <1>1, <1>4, <1>6, <1>7, <1>8

-----------------------------------------------------------------------------
(* Reading a page. *)

\* A flush puts the buffer behind the chunks; nothing of either is lost.
LEMMA FlushHolds ==
    ASSUME IInv, phase = "read"
    PROVE  /\ Flushed \in Seq(Chunk)
           /\ \A k \in 1..Len(Flushed) : Holds(Flushed[k])
           /\ \A p : Within(p, buffer) \/ (\E k \in 1..Len(chunks) : Within(p, chunks[k])) =>
                    \E k \in 1..Len(Flushed) : Within(p, Flushed[k])
<1>1. chunks \in Seq(Chunk) /\ Len(chunks) \in Nat
    BY DEF IInv, TypeOK
<1>2. CASE ~Buffered
    <2>1. Flushed = chunks /\ buffer = NoBuffer
        BY SMTT(60), <1>2 DEF Flushed, IInv, BufferHolds, Buffered, TypeOK
    <2>2. \A p : ~Within(p, buffer)
        BY <2>1 DEF Within, NoBuffer
    <2> QED
        BY <1>1, <2>1, <2>2 DEF IInv, SegmentsHold
<1>3. CASE Buffered
    <2> DEFINE c == [lo |-> buffer.lo, hi |-> buffer.hi, page |-> page,
                     section |-> section, subsection |-> subsection]
    <2>1. Flushed = Append(chunks, c)
        BY <1>3 DEF Flushed
    <2>2. c \in Chunk
        <3>1. page \in Nat /\ buffer.lo \in Nat /\ buffer.hi \in Nat
            BY ChunkerAssumption DEF IInv, TypeOK
        <3> QED
            BY <3>1 DEF IInv, TypeOK, Chunk
    <2>3. Holds(c)
        BY SMTT(60), <1>3 DEF IInv, BufferHolds, Buffered, Holds, TypeOK
    <2>4. c.lo = buffer.lo /\ c.hi = buffer.hi
        OBVIOUS
    <2> HIDE DEF c
    <2>5. /\ Flushed \in Seq(Chunk) /\ Len(Flushed) = Len(chunks) + 1
          /\ \A k \in 1..Len(chunks) : Flushed[k] = chunks[k]
          /\ Flushed[Len(chunks) + 1] = c
        BY <1>1, <2>1, <2>2, AppendProperties
    <2>6. \A k \in 1..Len(Flushed) : k \in 1..Len(chunks) \/ k = Len(chunks) + 1
        BY <1>1, <2>5
    <2>7. \A k \in 1..Len(Flushed) : Holds(Flushed[k])
        BY <2>3, <2>5, <2>6 DEF IInv, SegmentsHold
    <2>8. ASSUME NEW p, Within(p, buffer) PROVE \E k \in 1..Len(Flushed) : Within(p, Flushed[k])
        <3>1. Len(chunks) + 1 \in 1..Len(Flushed)
            BY <1>1, <2>5
        <3> QED
            BY <2>4, <2>5, <2>8, <3>1 DEF Within
    <2>9. ASSUME NEW p, NEW k \in 1..Len(chunks), Within(p, chunks[k])
          PROVE  \E j \in 1..Len(Flushed) : Within(p, Flushed[j])
        <3>1. k \in 1..Len(Flushed)
            BY <1>1, <2>5
        <3> QED
            BY <2>5, <2>9, <3>1
    <2> QED
        BY <2>5, <2>7, <2>8, <2>9
<1> QED
    BY <1>2, <1>3


\* The pieces read so far stay where they are.
Longer == Len(pieces') >= Len(pieces) /\ \A p \in 1..Len(pieces) : pieces'[p] = pieces[p]

LEMMA HoldsStays ==
    ASSUME TypeOK, TypeOK', Longer, NEW c, Holds(c)
    PROVE  /\ c.lo \in 1..Len(pieces') /\ c.hi \in c.lo..Len(pieces')
           /\ \A p \in c.lo..c.hi : pieces'[p].page = c.page /\ pieces'[p].section = c.section
<1>0. pieces \in Seq(Piece) /\ pieces' \in Seq(Piece)
    BY DEF TypeOK
<1>1. Len(pieces) \in Nat /\ Len(pieces') \in Nat
    BY <1>0
<1>2. c.lo \in 1..Len(pieces) /\ c.hi \in c.lo..Len(pieces)
    BY DEF Holds
<1>3. \A p \in c.lo..c.hi : p \in 1..Len(pieces)
    BY <1>1, <1>2
<1> QED
    BY <1>1, <1>2, <1>3 DEF Holds, Longer

\* When the buffer is flushed, the segments stay runs of pieces, and a piece
\* that was placed is in one of them.
LEMMA FlushStep ==
    ASSUME IInv, phase = "read", TypeOK', Longer, UNCHANGED children, chunks' = Flushed,
           \A k \in 1..Len(Flushed) : k = 1 => split'.lo <= Flushed[k].lo
    PROVE  /\ SegmentsHold'
           /\ \A p \in 1..Len(pieces) : Placed(p)'
<1>1. /\ chunks' \in Seq(Chunk) /\ DOMAIN chunks' = 1..Len(Flushed)
      /\ DOMAIN chunks = 1..Len(chunks) /\ DOMAIN children' = DOMAIN children
      /\ \A k \in 1..Len(Flushed) : chunks'[k] = Flushed[k] /\ Holds(Flushed[k])
    BY FlushHolds DEF IInv, TypeOK
<1>2. SegmentsHold'
    <2>1. ASSUME NEW k \in 1..Len(chunks') PROVE Holds(chunks[k])'
        <3>1. Holds(Flushed[k]) /\ chunks'[k] = Flushed[k]
            BY <1>1, <2>1
        <3> QED
            BY <3>1, HoldsStays DEF Holds, IInv
    <2>2. ASSUME NEW k \in 1..Len(children') PROVE Holds(children[k])'
        <3>1. Holds(children[k]) /\ children'[k] = children[k]
            BY <2>2 DEF IInv, SegmentsHold
        <3> QED
            BY <3>1, HoldsStays DEF Holds, IInv
    <2> QED
        BY <2>1, <2>2 DEF SegmentsHold
<1>3. ASSUME NEW p \in 1..Len(pieces) PROVE Placed(p)'
    <2>1. Placed(p)
        <3>1. pieces \in Seq(Piece)
            BY DEF IInv, TypeOK
        <3>2. p \in DOMAIN pieces
            BY <1>3, <3>1
        <3> QED
            BY <3>2 DEF IInv, NothingLost
    <2>2. CASE \E k \in DOMAIN children : Within(p, children[k])
        BY <2>2 DEF Placed, Within
    <2>3. CASE ~\E k \in DOMAIN children : Within(p, children[k])
        <3>1. Within(p, buffer) \/ \E k \in 1..Len(chunks) : Within(p, chunks[k])
            BY <1>1, <2>1, <2>3 DEF Placed
        <3>2. PICK k \in 1..Len(Flushed) : Within(p, Flushed[k])
            BY <3>1, FlushHolds
        <3>3. Flushed[k].lo \in Nat /\ Flushed[k].hi \in Nat
            <4>1. chunks' \in Seq(Chunk) /\ k \in DOMAIN chunks' /\ chunks'[k] = Flushed[k]
                BY <1>1
            <4>2. Flushed[k] \in Chunk
                BY <4>1
            <4> QED
                BY <4>2 DEF Chunk
        <3>4. split'.lo \in Nat
            BY DEF TypeOK
        <3>5. k = 1 => p >= split'.lo
            BY <1>3, <3>2, <3>3, <3>4 DEF Within
        <3>6. k \in DOMAIN chunks' /\ p \in chunks'[k].lo..chunks'[k].hi
            BY <1>1, <3>2 DEF Within
        <3> QED
            BY <3>5, <3>6 DEF Placed, Within
    <2> QED
        BY <2>2, <2>3
<1> QED
    BY <1>2, <1>3

\* A blank line flushes or does nothing; the kept tail is a part of the buffer.
LEMMA BlankLineKeeps ==
    ASSUME IInv, BlankLine
    PROVE  IInv'
<1> USE ChunkerAssumption
<1>1. /\ phase = "read" /\ phase' = "read" /\ read < MaxLines /\ read' = read + 1
      /\ UNCHANGED <<page, split, children, group, parents, pieces, section, subsection>>
    BY DEF BlankLine, ReadLine
<1>2. CASE UNCHANGED <<chunks, buffer, bufChars>>
    <2>1. TypeOK'
        BY SMTT(60), <1>1, <1>2 DEF IInv, TypeOK
    <2>2. SegmentsHold' /\ BufferHolds' /\ SplitInv' /\ PhaseInv'
        BY <1>1, <1>2 DEF IInv, SegmentsHold, Holds, BufferHolds, NoBuffer, SplitInv, NoSplit, PhaseInv
    <2>3. NothingLost'
        BY <1>1, <1>2 DEF IInv, NothingLost, Placed, Within
    <2> QED
        BY <2>1, <2>2, <2>3 DEF IInv
<1>3. CASE Buffered /\ chunks' = Flushed /\ buffer' = KeptTail
           /\ bufChars' = Width(buffer.tail, buffer.hi)
    <2>1. /\ buffer.lo \in 1..buffer.tail /\ buffer.tail \in 1..buffer.hi
          /\ buffer.hi = Len(pieces) /\ Len(pieces) \in Nat
          /\ \A p \in buffer.lo..buffer.hi : pieces[p].page = page /\ pieces[p].section = section
        <3>1. pieces \in Seq(Piece) /\ buffer.hi \in Nat /\ buffer.hi # 0
            BY <1>3 DEF IInv, TypeOK, Buffered
        <3>2. Len(pieces) \in Nat
            BY <3>1
        <3> QED
            BY <3>1, <3>2 DEF IInv, BufferHolds
    <2>2. /\ buffer'.lo = buffer.tail /\ buffer'.tail = buffer.tail /\ buffer'.hi = buffer.hi
          /\ buffer' \in [lo : Nat, tail : Nat, hi : Nat]
        BY <1>3 DEF IInv, TypeOK, KeptTail
    <2>3. bufChars' \in Int
        <3>1. buffer.tail \in 1..Len(pieces)
            BY <2>1
        <3> QED
            BY <1>3, <2>1, <3>1, WidthIsInt DEF IInv
    <2>4. TypeOK'
        <3>1. Flushed \in Seq(Chunk)
            BY <1>1, FlushHolds
        <3>2. /\ chunks' \in Seq(Chunk)
              /\ phase' \in {"read", "split", "group", "chunked"}
              /\ read' \in 0..MaxLines
            <4>1. read \in 0..MaxLines
                BY DEF IInv, TypeOK
            <4>2. chunks' \in Seq(Chunk)
                BY <1>3, <3>1
            <4>3. read' \in 0..MaxLines
                BY <1>1, <4>1, ChunkerAssumption
            <4> QED
                BY <1>1, <4>2, <4>3
        <3>3. /\ page' \in 1..Pages /\ pieces' \in Seq(Piece)
              /\ section' \in Sections /\ subsection' \in Sections
            BY <1>1 DEF IInv, TypeOK
        <3>4. /\ split' \in [next : Nat, lo : Nat, last : Nat, chars : Int]
              /\ children' \in Seq(Chunk)
              /\ group' \in [lo : Nat, hi : Nat, size : Int]
              /\ parents' \in Seq([lo : Nat, hi : Nat])
            BY <1>1 DEF IInv, TypeOK
        <3> QED
            BY <2>2, <2>3, <3>2, <3>3, <3>4 DEF TypeOK
    <2>5. split'.lo = 0
        BY <1>1 DEF IInv, SplitInv, NoSplit
    <2>6. SegmentsHold' /\ \A p \in 1..Len(pieces) : Placed(p)'
        <3>1. \A k \in 1..Len(Flushed) : split'.lo <= Flushed[k].lo
            <4>1. \A k \in 1..Len(Flushed) : Flushed[k] \in Chunk
                <5>1. Flushed \in Seq(Chunk)
                    BY <1>1, FlushHolds
                <5> QED
                    BY <5>1
            <4>2. \A k \in 1..Len(Flushed) : Flushed[k].lo \in Nat
                BY <4>1 DEF Chunk
            <4> QED
                BY <2>5, <4>2
        <3>2. Longer
            BY <1>1, <2>1 DEF Longer
        <3> QED
            BY <1>1, <1>3, <2>4, <3>1, <3>2, FlushStep
    <2>7. BufferHolds'
        <3>1. /\ buffer'.hi # 0 /\ buffer'.lo \in 1..buffer'.tail /\ buffer'.tail \in 1..buffer'.hi
              /\ buffer'.hi = Len(pieces')
            BY <1>1, <2>1, <2>2
        <3>2. \A p \in buffer'.lo..buffer'.hi :
                  pieces'[p].page = page' /\ pieces'[p].section = section'
            <4>1. \A p \in buffer.tail..buffer.hi : p \in buffer.lo..buffer.hi
                BY <2>1
            <4> QED
                BY <1>1, <2>1, <2>2, <4>1
        <3> QED
            BY <3>1, <3>2 DEF BufferHolds
    <2>8. SplitInv' /\ PhaseInv'
        BY <1>1 DEF IInv, SplitInv, NoSplit, PhaseInv
    <2>9. NothingLost'
        <3>1. pieces \in Seq(Piece)
            BY DEF IInv, TypeOK
        <3> QED
            BY <1>1, <2>6, <3>1 DEF NothingLost
    <2> QED
        BY <2>4, <2>6, <2>7, <2>8, <2>9 DEF IInv
<1> QED
    BY <1>2, <1>3 DEF BlankLine

\* The sequences of a typed state.
LEMMA Sequences ==
    ASSUME TypeOK
    PROVE  /\ pieces \in Seq(Piece) /\ Len(pieces) \in Nat /\ DOMAIN pieces = 1..Len(pieces)
           /\ chunks \in Seq(Chunk) /\ Len(chunks) \in Nat /\ DOMAIN chunks = 1..Len(chunks)
           /\ children \in Seq(Chunk) /\ Len(children) \in Nat
           /\ DOMAIN children = 1..Len(children)
<1>1. pieces \in Seq(Piece) /\ chunks \in Seq(Chunk) /\ children \in Seq(Chunk)
    BY DEF TypeOK
<1> QED
    BY <1>1

\* The buffer's flush begins no earlier than the first piece.
LEMMA FlushedIsTyped ==
    ASSUME IInv, phase = "read"
    PROVE  /\ Flushed \in Seq(Chunk) /\ Len(Flushed) \in Nat
           /\ \A k \in 1..Len(Flushed) :
                 Flushed[k] \in Chunk /\ Flushed[k].lo \in Nat /\ Flushed[k].hi \in Nat
<1>1. Flushed \in Seq(Chunk)
    BY FlushHolds
<1>2. \A k \in 1..Len(Flushed) : Flushed[k] \in Chunk
    BY <1>1
<1> QED
    BY <1>1, <1>2 DEF Chunk

\* A heading flushes before the section changes, so no segment gets its name.
LEMMA HeadingLineKeeps ==
    ASSUME IInv, HeadingLine
    PROVE  IInv'
<1> USE ChunkerAssumption
<1>1. /\ phase = "read" /\ phase' = "read" /\ read < MaxLines /\ read' = read + 1
      /\ UNCHANGED <<page, split, children, group, parents, pieces>>
      /\ chunks' = Flushed /\ buffer' = NoBuffer /\ bufChars' = 0
      /\ section' \in Sections /\ subsection' = section
    BY DEF HeadingLine, ReadLine, Sections
<1>2. TypeOK'
    <2>1. NoBuffer \in [lo : Nat, tail : Nat, hi : Nat]
        BY DEF NoBuffer
    <2>2. chunks' \in Seq(Chunk)
        BY <1>1, FlushedIsTyped
    <2>3. read' \in 0..MaxLines
        BY SMTT(60), <1>1 DEF IInv, TypeOK
    <2> QED
        BY <1>1, <2>1, <2>2, <2>3 DEF IInv, TypeOK
<1>3. split'.lo = 0
    BY <1>1 DEF IInv, SplitInv, NoSplit
<1>4. SegmentsHold' /\ \A p \in 1..Len(pieces) : Placed(p)'
    <2>1. \A k \in 1..Len(Flushed) : split'.lo <= Flushed[k].lo
        BY <1>1, <1>3, FlushedIsTyped
    <2>2. Longer
        BY <1>1, Sequences DEF Longer, IInv
    <2> QED
        BY <1>1, <1>2, <2>1, <2>2, FlushStep
<1>5. BufferHolds'
    BY <1>1 DEF BufferHolds, NoBuffer
<1>6. SplitInv' /\ PhaseInv'
    BY <1>1 DEF IInv, SplitInv, NoSplit, PhaseInv
<1>7. NothingLost'
    BY <1>1, <1>4, Sequences DEF NothingLost, IInv
<1> QED
    BY <1>2, <1>4, <1>5, <1>6, <1>7 DEF IInv

\* A text line: its pieces are in the buffer, and what the buffer lets go of
\* is flushed.
LEMMA TextLineKeeps ==
    ASSUME IInv, TextLine
    PROVE  IInv'
<1> USE ChunkerAssumption
<1> DEFINE n == Len(pieces)
           first == n + 1
<1>1. /\ phase = "read" /\ phase' = "read" /\ read < MaxLines /\ read' = read + 1
      /\ UNCHANGED <<page, split, children, group, parents, section, subsection>>
    BY DEF TextLine, ReadLine
<1>2. PICK line \in Lines :
         LET full == bufChars + 1 + LineWidth(line) >= ChunkSize
             kept == IF full THEN KeptTail ELSE buffer
             keptChars == IF full THEN Width(buffer.tail, buffer.hi) ELSE bufChars
         IN  /\ pieces' = pieces \o NewPieces(line)
             /\ \/ /\ Buffered
                   /\ chunks' = IF full THEN Flushed ELSE chunks
                   /\ buffer' = [lo |-> kept.lo, tail |-> first, hi |-> Len(pieces')]
                   /\ bufChars' = keptChars + LineWidth(line)
                \/ /\ ~Buffered
                   /\ buffer' = [lo |-> first, tail |-> first, hi |-> Len(pieces')]
                   /\ bufChars' = LineWidth(line)
                   /\ UNCHANGED chunks
    BY DEF TextLine
<1>3. /\ pieces' \in Seq(Piece) /\ Len(pieces') \in Nat /\ Len(pieces') > n /\ n \in Nat
      /\ \A p \in 1..n : pieces'[p] = pieces[p]
      /\ \A p \in first..Len(pieces') : pieces'[p].page = page /\ pieces'[p].section = section
      /\ Longer
    <2>1. pieces' = pieces \o NewPieces(line)
        BY <1>2
    <2> QED
        BY SMTT(60), <2>1, PiecesGrow DEF IInv, Longer
<1>4. LineWidth(line) \in Nat
    BY LineIsSolid
<1>5. Buffered => /\ buffer.lo \in 1..buffer.tail /\ buffer.tail \in 1..buffer.hi
                  /\ buffer.hi = n
                  /\ \A p \in buffer.lo..buffer.hi : pieces[p].page = page /\ pieces[p].section = section
    BY <1>3 DEF IInv, TypeOK, Buffered, BufferHolds
<1>6. /\ buffer'.tail = first /\ buffer'.hi = Len(pieces')
      /\ buffer'.lo \in {first, buffer.lo, buffer.tail}
      /\ ~Buffered => buffer'.lo = first
      /\ buffer' \in [lo : Nat, tail : Nat, hi : Nat]
    <2>1. KeptTail.lo = buffer.tail
        BY DEF KeptTail, IInv, TypeOK
    <2>2. buffer.lo \in Nat /\ buffer.tail \in Nat
        BY DEF IInv, TypeOK
    <2> QED
        BY SMTT(60), <1>2, <1>3, <2>1, <2>2
<1>7. bufChars' \in Int
    <2>1. Buffered => Width(buffer.tail, buffer.hi) \in Int
        BY <1>3, <1>5, WidthIsInt DEF IInv
    <2>2. bufChars \in Int
        BY DEF IInv, TypeOK
    <2> QED
        BY <1>2, <1>4, <2>1, <2>2
<1>8. chunks' = chunks \/ (Buffered /\ chunks' = Flushed)
    BY <1>2
<1>9. TypeOK'
    <2>1. chunks' \in Seq(Chunk)
        BY <1>1, <1>8, FlushedIsTyped, Sequences DEF IInv
    <2>2. read' \in 0..MaxLines
        <3>1. read \in 0..MaxLines /\ MaxLines \in Nat
            BY ChunkerAssumption DEF IInv, TypeOK
        <3> QED
            BY <1>1, <3>1
    <2>3. pieces' \in Seq(Piece) /\ buffer' \in [lo : Nat, tail : Nat, hi : Nat]
        BY <1>3, <1>6
    <2> HIDE DEF n
    <2> QED
        BY <1>1, <1>7, <2>1, <2>2, <2>3 DEF IInv, TypeOK
<1>10. BufferHolds'
    <2>1. buffer'.lo \in 1..first /\ buffer'.hi # 0
        BY <1>3, <1>5, <1>6
    <2>2. ASSUME NEW p \in buffer'.lo..buffer'.hi
          PROVE  pieces'[p].page = page /\ pieces'[p].section = section
        <3>1. CASE p >= first
            BY <1>3, <1>6, <2>1, <2>2, <3>1
        <3>2. CASE p < first
            <4>1. Buffered /\ p \in buffer.lo..buffer.hi
                BY SMTT(60), <1>3, <1>5, <1>6, <2>1, <2>2, <3>2
            <4>2. p \in 1..n
                BY <1>3, <2>1, <2>2, <3>2
            <4> QED
                BY <1>3, <1>5, <4>1, <4>2
        <3> QED
            BY <1>3, <2>1, <2>2, <3>1, <3>2
    <2> QED
        BY <1>1, <1>3, <1>6, <2>1, <2>2 DEF BufferHolds
<1>11. SplitInv' /\ PhaseInv'
    BY <1>1 DEF IInv, SplitInv, NoSplit, PhaseInv
<1>12. SegmentsHold' /\ \A p \in 1..n : Placed(p)'
    <2>1. CASE Buffered /\ chunks' = Flushed
        <3>1. split'.lo = 0
            BY <1>1 DEF IInv, SplitInv, NoSplit
        <3>2. \A k \in 1..Len(Flushed) : split'.lo <= Flushed[k].lo
            BY <1>1, <3>1, FlushedIsTyped
        <3> QED
            BY <1>1, <1>3, <1>9, <2>1, <3>2, FlushStep
    <2>2. CASE chunks' = chunks /\ buffer'.lo = buffer.lo /\ Buffered
        <3>1. SegmentsHold'
            <4>1. ASSUME NEW k \in 1..Len(chunks') PROVE Holds(chunks[k])'
                <5>1. Holds(chunks[k]) /\ chunks'[k] = chunks[k]
                    BY <2>2, <4>1 DEF IInv, SegmentsHold
                <5> QED
                    BY ZenonT(60), <1>3, <1>9, <5>1, HoldsStays DEF Holds, IInv
            <4>2. ASSUME NEW k \in 1..Len(children') PROVE Holds(children[k])'
                <5>1. Holds(children[k]) /\ children'[k] = children[k]
                    BY <1>1, <4>2 DEF IInv, SegmentsHold
                <5> QED
                    BY ZenonT(60), <1>3, <1>9, <5>1, HoldsStays DEF Holds, IInv
            <4> QED
                BY <4>1, <4>2 DEF SegmentsHold
        <3>2. ASSUME NEW p \in 1..n PROVE Placed(p)'
            <4>1. Placed(p)
                BY <3>2, Sequences DEF IInv, NothingLost
            <4>2. Within(p, buffer) => Within(p, buffer)'
                BY <1>3, <1>5, <1>6, <2>2 DEF Within
            <4> QED
                BY <1>1, <2>2, <4>1, <4>2 DEF Placed, Within
        <3> QED
            BY <3>1, <3>2
    <2>3. CASE chunks' = chunks /\ ~Buffered
        <3>1. Flushed = chunks
            BY <2>3 DEF Flushed
        <3>2. split'.lo = 0
            BY <1>1 DEF IInv, SplitInv, NoSplit
        <3>3. \A k \in 1..Len(Flushed) : split'.lo <= Flushed[k].lo
            BY <1>1, <3>2, FlushedIsTyped
        <3> QED
            BY <1>1, <1>3, <1>9, <2>3, <3>1, <3>3, FlushStep
    <2>4. chunks' = chunks /\ Buffered => buffer'.lo = buffer.lo \/ chunks' = Flushed
        BY <1>2, <1>6 DEF KeptTail
    <2> QED
        BY <1>8, <2>1, <2>2, <2>3, <2>4
<1>13. NothingLost'
    <2>1. ASSUME NEW p \in first..Len(pieces') PROVE Placed(p)'
        <3>1. p \in buffer'.lo..buffer'.hi
            BY <1>3, <1>5, <1>6, <2>1
        <3> QED
            BY <3>1 DEF Placed, Within
    <2>2. DOMAIN pieces' = 1..Len(pieces')
        BY <1>3
    <2> QED
        BY <1>3, <1>12, <2>1, <2>2 DEF NothingLost
<1> QED
    BY <1>9, <1>10, <1>11, <1>12, <1>13 DEF IInv

-----------------------------------------------------------------------------
(* Sizing the chunks of a page. *)

\* The loop over a chunk begins at its first piece.
LEMMA BeginSplitHolds ==
    ASSUME NEW queue \in Seq(Chunk), queue # <<>>,
           \A k \in 1..Len(queue) : queue[k].lo <= queue[k].hi
    PROVE  /\ BeginSplit(queue) \in [next : Nat, lo : Nat, last : Nat, chars : Int]
           /\ BeginSplit(queue).next = queue[1].lo /\ BeginSplit(queue).lo = queue[1].lo
           /\ BeginSplit(queue).last = queue[1].lo
<1>1. Len(queue) \in Nat \ {0} /\ Head(queue) = queue[1] /\ queue[1] \in Chunk
    <2>1. 1 \in 1..Len(queue)
        BY EmptySeq
    <2> QED
        BY <2>1, EmptySeq
<1>2. queue[1].lo \in Nat
    BY <1>1 DEF Chunk
<1> QED
    BY <1>1, <1>2 DEF BeginSplit

\* What the loop starts with satisfies the invariant.
LEMMA SplitStarts ==
    ASSUME chunks' \in Seq(Chunk), phase' = "split", split' = BeginSplit(chunks'),
           \A k \in 1..Len(chunks') : chunks'[k].lo <= chunks'[k].hi
    PROVE  /\ SplitInv'
           /\ split' \in [next : Nat, lo : Nat, last : Nat, chars : Int]
           /\ chunks' # <<>> => split'.lo = chunks'[1].lo
<1>1. CASE chunks' = <<>>
    <2>1. split' = NoSplit
        BY <1>1 DEF BeginSplit
    <2>2. NoSplit \in [next : Nat, lo : Nat, last : Nat, chars : Int]
        BY DEF NoSplit
    <2> QED
        BY <1>1, <2>1, <2>2 DEF SplitInv, NoSplit
<1>2. CASE chunks' # <<>>
    <2>1. /\ split' \in [next : Nat, lo : Nat, last : Nat, chars : Int]
          /\ split'.next = chunks'[1].lo /\ split'.lo = chunks'[1].lo
          /\ split'.last = chunks'[1].lo
        BY <1>2, BeginSplitHolds
    <2>2. chunks'[1].lo \in Nat /\ chunks'[1].hi \in Nat /\ chunks'[1].lo <= chunks'[1].hi
        <3>1. 1 \in 1..Len(chunks')
            BY <1>2, EmptySeq
        <3>2. chunks'[1] \in Chunk
            BY <3>1
        <3> QED
            BY <3>1, <3>2 DEF Chunk
    <2> QED
        BY <1>2, <2>1, <2>2 DEF SplitInv
<1> QED
    BY <1>1, <1>2

\* A page that ends flushes, so the next one begins with an empty buffer.
LEMMA PageEndsKeeps ==
    ASSUME IInv, PageEnds
    PROVE  IInv'
<1> USE ChunkerAssumption
<1>1. /\ phase = "read" /\ phase' = "split" /\ chunks' = Flushed /\ split' = BeginSplit(chunks')
      /\ buffer' = NoBuffer /\ bufChars' = 0
      /\ UNCHANGED <<page, read, pieces, section, subsection, children, group, parents>>
    BY DEF PageEnds
<1>2. /\ chunks' \in Seq(Chunk) /\ Len(chunks') \in Nat
      /\ \A k \in 1..Len(chunks') : chunks'[k].lo <= chunks'[k].hi
    <2>1. \A k \in 1..Len(Flushed) : Flushed[k].lo \in Nat /\ Flushed[k].hi \in Flushed[k].lo..Len(pieces)
        BY <1>1, FlushHolds, FlushedIsTyped DEF Holds
    <2> QED
        BY <1>1, <2>1, FlushedIsTyped
<1>3. /\ SplitInv' /\ split' \in [next : Nat, lo : Nat, last : Nat, chars : Int]
      /\ chunks' # <<>> => split'.lo = chunks'[1].lo
    BY <1>1, <1>2, SplitStarts
<1>4. TypeOK'
    <2>1. NoBuffer \in [lo : Nat, tail : Nat, hi : Nat]
        BY DEF NoBuffer
    <2> QED
        BY <1>1, <1>2, <1>3, <2>1 DEF IInv, TypeOK
<1>5. SegmentsHold' /\ \A p \in 1..Len(pieces) : Placed(p)'
    <2>1. ASSUME 1 \in 1..Len(Flushed) PROVE split'.lo <= Flushed[1].lo
        <3>1. Len(Flushed) >= 1 /\ Flushed[1].lo \in Nat
            BY <1>1, <2>1, FlushedIsTyped
        <3>2. chunks' # <<>>
            BY <1>1, <3>1
        <3> QED
            BY <1>1, <1>3, <3>1, <3>2
    <2>2. Longer
        BY <1>1, Sequences DEF Longer, IInv
    <2> QED
        BY <1>1, <1>4, <2>1, <2>2, FlushStep
<1>6. BufferHolds' /\ PhaseInv'
    BY <1>1 DEF BufferHolds, NoBuffer, IInv, PhaseInv
<1>7. NothingLost'
    BY <1>1, <1>5, Sequences DEF NothingLost, IInv
<1> QED
    BY <1>3, <1>4, <1>5, <1>6, <1>7 DEF IInv

\* Where the text is while chunks are sized: the buffer is empty.
LEMMA PlacedInSplit ==
    ASSUME IInv, phase = "split", NEW p \in 1..Len(pieces)
    PROVE  \/ \E k \in 1..Len(children) : Within(p, children[k])
           \/ \E k \in 1..Len(chunks) : Within(p, chunks[k]) /\ (k = 1 => p >= split.lo)
<1>1. Placed(p)
    BY Sequences DEF IInv, NothingLost
<1>2. ~Within(p, buffer)
    BY Sequences DEF IInv, PhaseInv, NoBuffer, Within
<1> QED
    BY <1>1, <1>2, Sequences DEF Placed, IInv

\* The first chunk, and what is left after it.
LEMMA FirstChunk ==
    ASSUME IInv, phase = "split", chunks # <<>>
    PROVE  /\ Head(chunks) = chunks[1] /\ 1 \in 1..Len(chunks) /\ chunks[1] \in Chunk
           /\ Holds(chunks[1]) /\ chunks[1].lo \in Nat /\ chunks[1].hi \in Nat
           /\ Tail(chunks) \in Seq(Chunk) /\ Len(Tail(chunks)) = Len(chunks) - 1
           /\ \A k \in 1..Len(Tail(chunks)) : k + 1 \in 1..Len(chunks)
                                             /\ Tail(chunks)[k] = chunks[k + 1]
<1>1. chunks \in Seq(Chunk) /\ Len(chunks) \in Nat
    BY Sequences DEF IInv
<1>2. /\ Head(chunks) \in Chunk /\ Tail(chunks) \in Seq(Chunk)
      /\ Head(chunks) = chunks[1] /\ Len(chunks) >= 1
      /\ Len(Tail(chunks)) = Len(chunks) - 1
      /\ \A k \in 1..Len(Tail(chunks)) : Tail(chunks)[k] = chunks[k + 1]
    BY <1>1, HeadTailProperties
<1>3. chunks[1].lo \in Nat /\ chunks[1].hi \in Nat
    BY <1>2 DEF Chunk
<1>4. Holds(chunks[1])
    BY <1>1, <1>2 DEF IInv, SegmentsHold
<1> QED
    BY <1>1, <1>2, <1>3, <1>4

\* The children with one more of them.
LEMMA NewChild ==
    ASSUME IInv, NEW c \in Chunk, Holds(c), children' = Append(children, c)
    PROVE  /\ children' \in Seq(Chunk) /\ Len(children') = Len(children) + 1
           /\ DOMAIN children' = 1..(Len(children) + 1)
           /\ \A k \in 1..Len(children) : children'[k] = children[k]
           /\ children'[Len(children) + 1] = c
           /\ \A k \in 1..Len(children') : Holds(children'[k])
<1>1. children \in Seq(Chunk) /\ Len(children) \in Nat
    BY Sequences DEF IInv
<1>2. /\ children' \in Seq(Chunk) /\ Len(children') = Len(children) + 1
      /\ \A k \in 1..Len(children) : children'[k] = children[k]
      /\ children'[Len(children) + 1] = c
    BY <1>1, AppendProperties
<1>3. \A k \in 1..Len(children') : k \in 1..Len(children) \/ k = Len(children) + 1
    BY <1>1, <1>2
<1>4. \A k \in 1..Len(children') : Holds(children'[k])
    BY <1>2, <1>3 DEF IInv, SegmentsHold
<1> QED
    BY <1>1, <1>2, <1>4

\* The state of the loop over the first chunk.
LEMMA SplitFacts ==
    ASSUME IInv, phase = "split", chunks # <<>>
    PROVE  /\ split.lo \in chunks[1].lo..split.last
           /\ split.last \in chunks[1].lo..chunks[1].hi
           /\ split.next \in split.last..(chunks[1].hi + 1)
           /\ split.lo \in Nat /\ split.last \in Nat /\ split.next \in Nat /\ split.chars \in Int
BY DEF IInv, SplitInv, TypeOK

\* A part of the first chunk is a segment.
LEMMA CutHolds ==
    ASSUME IInv, phase = "split", chunks # <<>>,
           NEW lo \in Nat, NEW hi \in Nat, chunks[1].lo <= lo, lo <= hi, hi <= chunks[1].hi
    PROVE  /\ Cut(lo, hi) \in Chunk /\ Holds(Cut(lo, hi))
           /\ Cut(lo, hi).lo = lo /\ Cut(lo, hi).hi = hi
<1> DEFINE c == chunks[1]
           new == Cut(lo, hi)
<1>1. c \in Chunk /\ Holds(c) /\ Head(chunks) = c /\ c.lo \in Nat /\ c.hi \in Nat
    BY FirstChunk
<1>2. new = [c EXCEPT !.lo = lo, !.hi = hi]
    BY <1>1 DEF Cut
<1> HIDE DEF c, new
<1>3. /\ new.lo = lo /\ new.hi = hi /\ new.page = c.page /\ new.section = c.section
      /\ new \in Chunk
    BY <1>1, <1>2 DEF Chunk
<1>4. chunks[1].lo = c.lo /\ chunks[1].hi = c.hi
    BY DEF c
<1>5. Holds(new)
    <2>1. Len(pieces) \in Nat
        BY Sequences DEF IInv
    <2>2. \A p \in lo..hi : p \in c.lo..c.hi
        BY <1>1, <1>4
    <2> QED
        BY <1>1, <1>3, <1>4, <2>1, <2>2 DEF Holds
<1> QED
    BY <1>3, <1>5 DEF new

\* The last of the first chunk becomes a child, and the next chunk begins.
LEMMA ChunkLeaves ==
    ASSUME IInv, phase = "split", chunks # <<>>,
           NEW c \in Chunk, Holds(c), c.lo \in Nat, c.lo <= split.lo, c.hi = chunks[1].hi,
           children' = Append(children, c), chunks' = Tail(chunks), split' = BeginSplit(chunks'),
           UNCHANGED <<phase, page, read, pieces, section, subsection, buffer, bufChars,
                       group, parents>>
    PROVE  IInv'
<1> DEFINE n == Len(children)
<1>1. /\ children' \in Seq(Chunk) /\ DOMAIN children' = 1..(n + 1) /\ Len(children') = n + 1
      /\ \A k \in 1..n : children'[k] = children[k]
      /\ children'[n + 1] = c /\ n \in Nat
      /\ \A k \in 1..Len(children') : Holds(children'[k])
    BY NewChild, Sequences DEF IInv
<1>2. /\ chunks' \in Seq(Chunk) /\ Len(chunks') = Len(chunks) - 1 /\ Len(chunks) \in Nat
      /\ DOMAIN chunks' = 1..Len(chunks')
      /\ \A k \in 1..Len(chunks') : k + 1 \in 1..Len(chunks) /\ chunks'[k] = chunks[k + 1]
    BY FirstChunk, Sequences DEF IInv
<1>3. \A k \in 1..Len(chunks') : Holds(chunks'[k])
    BY <1>2 DEF IInv, SegmentsHold
<1>4. SegmentsHold'
    BY <1>1, <1>3 DEF SegmentsHold, Holds
<1>5. \A k \in 1..Len(chunks') : chunks'[k].lo <= chunks'[k].hi
    <2>1. Len(pieces) \in Nat
        BY Sequences DEF IInv
    <2> QED
        BY <1>3, <2>1 DEF Holds
<1>6. /\ SplitInv' /\ split' \in [next : Nat, lo : Nat, last : Nat, chars : Int]
      /\ chunks' # <<>> => split'.lo = chunks'[1].lo
    BY <1>2, <1>5, SplitStarts
<1>7. TypeOK'
    BY <1>1, <1>2, <1>6 DEF IInv, TypeOK
<1>8. BufferHolds' /\ PhaseInv'
    <2>1. buffer' = NoBuffer
        BY DEF IInv, PhaseInv
    <2>2. PhaseInv'
        BY <1>1, <2>1 DEF IInv, PhaseInv
    <2> QED
        BY <2>1, <2>2 DEF BufferHolds, NoBuffer
<1>9. ASSUME NEW p \in 1..Len(pieces) PROVE Placed(p)'
    <2>1. CASE \E k \in 1..n : Within(p, children[k])
        <3>1. PICK k \in 1..n : Within(p, children[k])
            BY <2>1
        <3>2. k \in DOMAIN children' /\ children'[k] = children[k]
            BY <1>1
        <3> QED
            BY <3>1, <3>2 DEF Placed, Within
    <2>2. CASE ~\E k \in 1..n : Within(p, children[k])
        <3>1. PICK k \in 1..Len(chunks) : Within(p, chunks[k]) /\ (k = 1 => p >= split.lo)
            BY <2>2, PlacedInSplit
        <3>2. CASE k = 1
            <4>1. p \in c.lo..c.hi
                <5>1. chunks[1].lo \in Nat /\ chunks[1].hi \in Nat /\ split.lo \in Nat
                    BY FirstChunk, SplitFacts
                <5> QED
                    BY <3>1, <3>2, <5>1 DEF Within
            <4>2. n + 1 \in DOMAIN children'
                BY <1>1
            <4> QED
                BY <1>1, <4>1, <4>2 DEF Placed, Within
        <3>3. CASE k # 1
            <4> DEFINE j == k - 1
            <4>1. j \in 1..Len(chunks') /\ chunks'[j] = chunks[k]
                BY <1>2, <3>3
            <4>2. j = 1 => p >= split'.lo
                <5>1. ASSUME j = 1 PROVE p >= split'.lo
                    <6>1. chunks' # <<>> /\ chunks'[1] \in Chunk
                        BY SMTT(60), <1>2, <4>1, <5>1
                    <6>2. chunks'[1].lo \in Nat /\ chunks'[1].hi \in Nat
                        BY <6>1 DEF Chunk
                    <6> QED
                        BY <1>6, <3>1, <4>1, <5>1, <6>1, <6>2 DEF Within
                <5> QED
                    BY <5>1
            <4> HIDE DEF j
            <4> QED
                BY <1>2, <3>1, <4>1, <4>2 DEF Placed, Within
        <3> QED
            BY <3>2, <3>3
    <2> QED
        BY <2>1, <2>2
<1>10. NothingLost'
    BY <1>9, Sequences DEF NothingLost, IInv
<1> QED
    BY <1>4, <1>6, <1>7, <1>8, <1>10 DEF IInv

\* A chunk that is short enough, and the rest of one that is not.
LEMMA KeepChunkKeeps ==
    ASSUME IInv, KeepChunk \/ SplitEnds
    PROVE  IInv'
<1>1. /\ phase = "split" /\ chunks # <<>> /\ chunks' = Tail(chunks) /\ split' = BeginSplit(chunks')
      /\ UNCHANGED <<phase, page, read, pieces, section, subsection, buffer, bufChars,
                     group, parents>>
    BY DEF KeepChunk, SplitEnds, Splitting
<1>2. /\ split.lo \in chunks[1].lo..split.last /\ split.last \in chunks[1].lo..chunks[1].hi
      /\ split.lo \in Nat /\ split.last \in Nat
      /\ Head(chunks) = chunks[1] /\ chunks[1] \in Chunk /\ Holds(chunks[1])
      /\ chunks[1].lo \in Nat /\ chunks[1].hi \in Nat
    BY <1>1, SplitFacts, FirstChunk
<1>3. CASE KeepChunk
    <2>1. children' = Append(children, chunks[1])
        BY <1>2, <1>3 DEF KeepChunk
    <2>2. chunks[1].lo <= split.lo
        BY <1>2
    <2> QED
        BY <1>1, <1>2, <2>1, <2>2, ChunkLeaves
<1>4. CASE SplitEnds
    <2> DEFINE c == Cut(split.lo, chunks[1].hi)
    <2>1. children' = Append(children, c)
        BY <1>2, <1>4 DEF SplitEnds
    <2>2. c \in Chunk /\ Holds(c) /\ c.lo = split.lo /\ c.hi = chunks[1].hi
        BY <1>1, <1>2, CutHolds
    <2> HIDE DEF c
    <2>3. c.lo \in Nat /\ c.lo <= split.lo
        BY <1>2, <2>2
    <2> QED
        BY <1>1, <2>1, <2>2, <2>3, ChunkLeaves
<1> QED
    BY <1>3, <1>4

\* The next sentence of a long chunk: what is let go of is a child, so what
\* comes before the new first piece is in one.
LEMMA SplitSentenceKeeps ==
    ASSUME IInv, SplitSentence
    PROVE  IInv'
<1> DEFINE s == split.next
           e == SentenceEnd(s, chunks[1].hi)
           n == Len(children)
           c == Cut(split.lo, s - 1)
<1>1. /\ phase = "split" /\ chunks # <<>>
      /\ UNCHANGED <<phase, page, read, pieces, section, subsection, buffer, bufChars, chunks,
                     group, parents>>
    BY DEF SplitSentence, Splitting
<1>2. /\ split.lo \in chunks[1].lo..split.last /\ split.last \in chunks[1].lo..chunks[1].hi
      /\ split.next \in split.last..(chunks[1].hi + 1)
      /\ split.lo \in Nat /\ split.last \in Nat /\ split.next \in Nat /\ split.chars \in Int
      /\ Head(chunks) = chunks[1] /\ Holds(chunks[1])
      /\ chunks[1].lo \in Nat /\ chunks[1].hi \in Nat
    BY <1>1, SplitFacts, FirstChunk
<1>3. s <= chunks[1].hi
    BY <1>2 DEF SplitSentence
<1>4. e \in s..chunks[1].hi
    BY <1>2, <1>3, SentenceEndInside
<1>5. PICK full \in BOOLEAN, overlap \in BOOLEAN :
         /\ full => split.lo < s
         /\ overlap => full
         /\ children' = IF full THEN Append(children, c) ELSE children
         /\ split' = [next  |-> e + 1,
                      last  |-> s,
                      lo    |-> IF overlap THEN split.last ELSE IF full THEN s ELSE split.lo,
                      chars |-> Width(s, e) + 1 + (IF overlap THEN Width(split.last, s - 1)
                                                   ELSE IF full THEN 0 ELSE split.chars)]
    <2> DEFINE f == split.lo < s /\ split.chars + Width(s, e) + 1 >= ChunkSize
               o == f /\ ChunkOverlap > 0
    <2>1. /\ children' = IF f THEN Append(children, c) ELSE children
          /\ split' = [next  |-> e + 1,
                       last  |-> s,
                       lo    |-> IF o THEN split.last ELSE IF f THEN s ELSE split.lo,
                       chars |-> Width(s, e) + 1 + (IF o THEN Width(split.last, s - 1)
                                                    ELSE IF f THEN 0 ELSE split.chars)]
        BY <1>2 DEF SplitSentence
    <2>2. f \in BOOLEAN /\ o \in BOOLEAN /\ (f => split.lo < s) /\ (o => f)
        OBVIOUS
    <2> HIDE DEF f, o, c, e
    <2> QED
        BY <2>1, <2>2
<1>6. /\ split'.next = e + 1 /\ split'.last = s
      /\ split'.lo = IF overlap THEN split.last ELSE IF full THEN s ELSE split.lo
      /\ split'.chars = Width(s, e) + 1 + (IF overlap THEN Width(split.last, s - 1)
                                           ELSE IF full THEN 0 ELSE split.chars)
    BY <1>5
<1> HIDE DEF c, e
<1>7. /\ split'.next \in s..(chunks[1].hi + 1) /\ split'.lo \in chunks[1].lo..s
      /\ split'.next \in Nat /\ split'.lo \in Nat /\ split'.last \in Nat
      /\ split'.lo <= s /\ s \in chunks[1].lo..chunks[1].hi
    BY SMTT(60), <1>2, <1>3, <1>4, <1>5, <1>6
<1>8. split'.chars \in Int
    <2>1. Len(pieces) \in Nat /\ chunks[1].lo \in 1..Len(pieces) /\ chunks[1].hi \in 1..Len(pieces)
        BY <1>2, Sequences DEF Holds, IInv
    <2>2. s \in 1..Len(pieces) /\ e \in 1..Len(pieces) /\ split.last \in 1..Len(pieces)
        BY <1>2, <1>3, <1>4, <2>1
    <2>3. Width(s, e) \in Int
        BY <2>2, WidthIsInt DEF IInv
    <2>4. overlap => Width(split.last, s - 1) \in Int
        <3>1. overlap => s - 1 \in 1..Len(pieces)
            <4>1. overlap => split.lo < s
                BY <1>5
            <4>2. split.lo \in Nat /\ chunks[1].lo <= split.lo /\ 1 <= chunks[1].lo /\ s <= Len(pieces) /\ s \in Nat
                BY <1>2, <2>1, <2>2
            <4> HIDE DEF s
            <4> QED
                BY <2>1, <4>1, <4>2
        <3> QED
            BY <2>2, <3>1, WidthIsInt DEF IInv
    <2> QED
        BY <1>2, <1>6, <2>3, <2>4
<1>9. split' \in [next : Nat, lo : Nat, last : Nat, chars : Int]
    <2>1. split' = [next |-> split'.next, last |-> split'.last, lo |-> split'.lo,
                    chars |-> split'.chars]
        BY <1>5
    <2> QED
        BY <1>7, <1>8, <2>1
<1>10. SplitInv'
    BY <1>1, <1>6, <1>7 DEF SplitInv
<1>11. full => /\ c \in Chunk /\ Holds(c) /\ c.lo = split.lo /\ c.hi = s - 1
    <2>1. full => s - 1 \in Nat /\ split.lo <= s - 1 /\ s - 1 <= chunks[1].hi
                  /\ chunks[1].lo <= split.lo
        BY SMTT(60), <1>2, <1>3, <1>5
    <2> QED
        BY <1>1, <1>2, <2>1, CutHolds DEF c
<1>12. /\ children' \in Seq(Chunk) /\ n \in Nat /\ Len(children') >= n
       /\ DOMAIN children' = 1..Len(children')
       /\ \A k \in 1..n : k \in DOMAIN children' /\ children'[k] = children[k]
       /\ \A k \in 1..Len(children') : Holds(children'[k])
       /\ full => n + 1 \in DOMAIN children' /\ children'[n + 1] = c
    <2>1. n \in Nat /\ children \in Seq(Chunk) /\ DOMAIN children = 1..n
        BY Sequences DEF IInv
    <2>2. CASE full
        <3>1. children' = Append(children, c)
            BY <1>5, <2>2
        <3>2. /\ children' \in Seq(Chunk) /\ Len(children') = n + 1
              /\ DOMAIN children' = 1..(n + 1)
              /\ \A k \in 1..n : children'[k] = children[k]
              /\ children'[n + 1] = c
              /\ \A k \in 1..Len(children') : Holds(children'[k])
            BY <1>11, <2>2, <3>1, NewChild
        <3> QED
            BY <2>1, <3>2
    <2>3. CASE ~full
        <3>1. children' = children
            BY <1>5, <2>3
        <3> QED
            BY <2>1, <2>3, <3>1 DEF IInv, SegmentsHold
    <2> QED
        BY <2>2, <2>3
<1>13. SegmentsHold'
    BY <1>1, <1>12 DEF SegmentsHold, Holds, IInv
<1>14. TypeOK'
    BY <1>1, <1>9, <1>12 DEF IInv, TypeOK
<1>15. BufferHolds' /\ PhaseInv'
    <2>1. buffer' = NoBuffer
        BY <1>1 DEF IInv, PhaseInv
    <2>2. PhaseInv'
        BY <1>1, <1>12, <2>1 DEF IInv, PhaseInv
    <2> QED
        BY <2>1, <2>2 DEF BufferHolds, NoBuffer
<1>16. ASSUME NEW p \in 1..Len(pieces) PROVE Placed(p)'
    <2>1. CASE \E k \in 1..n : Within(p, children[k])
        BY <1>12, <2>1 DEF Placed, Within
    <2>2. CASE ~\E k \in 1..n : Within(p, children[k])
        <3>1. PICK k \in 1..Len(chunks) : Within(p, chunks[k]) /\ (k = 1 => p >= split.lo)
            BY <1>1, <2>2, PlacedInSplit
        <3>2. CASE k = 1 /\ p < split'.lo
            <4>1. full /\ p \in split.lo..(s - 1)
                BY <1>2, <1>5, <1>6, <1>7, <3>1, <3>2
            <4> QED
                BY <1>11, <1>12, <4>1 DEF Placed, Within
        <3>3. CASE k # 1 \/ p >= split'.lo
            <4>1. k \in DOMAIN chunks' /\ Within(p, chunks[k])'
                BY <1>1, <3>1, Sequences DEF IInv, Within
            <4> QED
                BY <3>3, <4>1 DEF Placed
        <3> QED
            BY <1>7, <3>2, <3>3
    <2> QED
        BY <2>1, <2>2
<1>17. NothingLost'
    BY <1>1, <1>16, Sequences DEF NothingLost, IInv
<1> QED
    BY <1>10, <1>13, <1>14, <1>15, <1>17 DEF IInv

\* The next page begins without text in the buffer or chunks to size.
LEMMA NextPageKeeps ==
    ASSUME IInv, NextPage
    PROVE  IInv'
<1> USE ChunkerAssumption
<1>0. page' \in 1..Pages
    <2>1. page \in 1..Pages /\ Pages \in Nat
        BY DEF IInv, TypeOK
    <2>2. (page < Pages /\ page' = page + 1) \/ page' = page
        BY DEF NextPage
    <2> QED
        BY <2>1, <2>2
<1>1. /\ phase = "split" /\ chunks = <<>> /\ page' \in 1..Pages
      /\ phase' \in {"read", "group"} /\ section' = NoSection /\ subsection' = NoSection
      /\ UNCHANGED <<read, pieces, buffer, bufChars, chunks, split, children, group, parents>>
    BY <1>0 DEF NextPage
<1>2. TypeOK'
    BY <1>1 DEF IInv, TypeOK, Sections
<1>3. SegmentsHold'
    BY <1>1 DEF IInv, SegmentsHold, Holds
<1>4. buffer' = NoBuffer /\ split' = NoSplit
    BY <1>1 DEF IInv, PhaseInv, SplitInv
<1>5. BufferHolds' /\ SplitInv' /\ PhaseInv'
    <2>1. PhaseInv'
        BY <1>1, <1>4 DEF IInv, PhaseInv
    <2> QED
        BY <1>1, <1>4, <2>1 DEF BufferHolds, NoBuffer, SplitInv
<1>6. NothingLost'
    BY <1>1 DEF IInv, NothingLost, Placed, Within
<1> QED
    BY <1>2, <1>3, <1>5, <1>6 DEF IInv

-----------------------------------------------------------------------------
(* Grouping and embedding: the text and its segments stay. *)

\* A step that only forms groups.
LEMMA GroupingKeeps ==
    ASSUME IInv, GroupChild \/ GroupsEnd
    PROVE  IInv'
<1> USE ChunkerAssumption
<1>1. /\ phase = "group" /\ phase' \in {"group", "chunked"}
      /\ UNCHANGED <<page, read, pieces, section, subsection, buffer, bufChars, chunks, split,
                     children>>
    BY DEF GroupChild, GroupsEnd
<1>2. group.lo \in Nat /\ group.hi \in Nat /\ group.size \in Int /\ group.lo \in 1..(group.hi + 1)
    BY DEF IInv, TypeOK, PhaseInv
<1>3. /\ group' \in [lo : Nat, hi : Nat, size : Int]
      /\ group'.lo \in 1..(group'.hi + 1) /\ group'.hi \in 0..Len(children)
      /\ parents' = parents \/ parents' = Append(parents, [lo |-> group.lo, hi |-> group.hi])
    <2>1. CASE GroupChild
        <3> DEFINE next == group.hi + 1
                   width == Width(children[next].lo, children[next].hi)
        <3>1. next \in 1..Len(children)
            BY SMTT(60), <1>2, <2>1, Sequences DEF GroupChild, IInv
        <3>2. width \in Int
            <4>1. Holds(children[next]) /\ Len(pieces) \in Nat
                BY <3>1, Sequences DEF IInv, SegmentsHold
            <4>2. children[next].lo \in 1..Len(pieces) /\ children[next].hi \in 1..Len(pieces)
                BY <4>1 DEF Holds
            <4> QED
                BY <4>2, WidthIsInt DEF IInv
        <3>3. PICK close \in BOOLEAN :
                 /\ parents' = IF close THEN Append(parents, [lo |-> group.lo, hi |-> group.hi])
                               ELSE parents
                 /\ group' = [lo   |-> IF close THEN next ELSE group.lo,
                              hi   |-> next,
                              size |-> width + (IF close THEN 0 ELSE group.size)]
            <4> DEFINE f == /\ group.lo <= group.hi
                            /\ \/ children[next].section # children[group.hi].section
                               \/ group.size + width > ParentSize
            <4>1. /\ parents' = IF f THEN Append(parents, [lo |-> group.lo, hi |-> group.hi])
                                ELSE parents
                  /\ group' = [lo   |-> IF f THEN next ELSE group.lo,
                               hi   |-> next,
                               size |-> width + (IF f THEN 0 ELSE group.size)]
                BY <2>1 DEF GroupChild
            <4>2. f \in BOOLEAN
                OBVIOUS
            <4> HIDE DEF f, next, width
            <4> QED
                BY <4>1, <4>2
        <3> HIDE DEF width
        <3>4. /\ group'.hi = next /\ group'.lo \in {next, group.lo}
              /\ group' \in [lo : Nat, hi : Nat, size : Int]
            BY SMTT(60), <1>2, <3>2, <3>3
        <3> QED
            BY SMTT(60), <1>2, <3>1, <3>3, <3>4
    <2>2. CASE GroupsEnd
        <3>1. group' = [group EXCEPT !.lo = group.hi + 1] /\ group \in [lo : Nat, hi : Nat, size : Int]
              /\ group.hi \in 0..Len(children)
            BY <2>2 DEF GroupsEnd, IInv, TypeOK, PhaseInv
        <3>2. group'.lo = group.hi + 1 /\ group'.hi = group.hi
              /\ group' \in [lo : Nat, hi : Nat, size : Int]
            BY <1>2, <3>1
        <3>3. parents' = parents \/ parents' = Append(parents, [lo |-> group.lo, hi |-> group.hi])
            BY <2>2 DEF GroupsEnd
        <3> QED
            BY <1>2, <3>1, <3>2, <3>3
    <2> QED
        BY <2>1, <2>2
<1>4. TypeOK'
    <2>1. [lo |-> group.lo, hi |-> group.hi] \in [lo : Nat, hi : Nat]
        BY <1>2
    <2>2. parents \in Seq([lo : Nat, hi : Nat])
        BY DEF IInv, TypeOK
    <2>3. parents' \in Seq([lo : Nat, hi : Nat])
        <3>1. ASSUME NEW g \in [lo : Nat, hi : Nat], parents' = Append(parents, g)
              PROVE  parents' \in Seq([lo : Nat, hi : Nat])
            BY <2>2, <3>1, AppendProperties
        <3> QED
            BY <1>3, <2>1, <2>2, <3>1
    <2> QED
        BY <1>1, <1>3, <2>3 DEF IInv, TypeOK
<1>5. SegmentsHold' /\ BufferHolds' /\ SplitInv' /\ PhaseInv' /\ NothingLost'
    <2>1. SegmentsHold' /\ BufferHolds' /\ SplitInv'
        BY <1>1 DEF IInv, SegmentsHold, Holds, BufferHolds, SplitInv, NoSplit, NoBuffer, PhaseInv
    <2>2. PhaseInv'
        BY <1>1, <1>3 DEF IInv, PhaseInv
    <2>3. NothingLost'
        BY <1>1 DEF IInv, NothingLost, Placed, Within
    <2> QED
        BY <2>1, <2>2, <2>3
<1> QED
    BY <1>4, <1>5 DEF IInv

\* Every step of the chunker keeps the invariant.
LEMMA ChunkerStep == IInv /\ [ChunkerNext]_chunkerVars => IInv'
<1>1. ASSUME IInv, UNCHANGED chunkerVars PROVE IInv'
    BY <1>1 DEF chunkerVars, IInv, TypeOK, SegmentsHold, Holds, BufferHolds, NoBuffer, SplitInv,
       NoSplit, PhaseInv, NothingLost, Placed, Within
<1>2. ASSUME IInv, ChunkerNext PROVE IInv'
    BY <1>2, BlankLineKeeps, HeadingLineKeeps, TextLineKeeps, PageEndsKeeps, KeepChunkKeeps,
       SplitSentenceKeeps, NextPageKeeps, GroupingKeeps DEF ChunkerNext
<1> QED
    BY <1>1, <1>2

\* The vectors of a batch come next.
LEMMA BatchAligned ==
    ASSUME EmbedInv, Segments \in Nat, start < Segments, vectors' = vectors \o Batch(start)
    PROVE  vectors' = [i \in 1..(IF start + BatchSize < Segments THEN start + BatchSize
                                                                 ELSE Segments) |-> i]
<1> DEFINE stop == IF start + BatchSize < Segments THEN start + BatchSize ELSE Segments
           m == stop - start
<1>1. start \in Nat /\ BatchSize \in Nat \ {0} /\ vectors = [i \in 1..start |-> i]
    BY EmbedAssumption DEF EmbedInv
<1>2. stop \in Nat /\ stop > start /\ m \in Nat /\ start + m = stop
    BY <1>1
<1>3. Batch(start) = [i \in 1..m |-> start + i]
    BY DEF Batch
<1> HIDE DEF stop
<1>4. vectors \in Seq(Nat) /\ Len(vectors) = start /\ \A i \in 1..start : vectors[i] = i
    BY <1>1
<1>5. /\ Batch(start) \in Seq(Nat) /\ Len(Batch(start)) = m
      /\ \A i \in 1..m : Batch(start)[i] = start + i
    BY <1>1, <1>2, <1>3
<1> HIDE DEF m
<1>6. /\ vectors \o Batch(start) \in Seq(Nat) /\ Len(vectors \o Batch(start)) = start + m
      /\ \A i \in 1..(start + m) : (vectors \o Batch(start))[i] =
             IF i <= start THEN vectors[i] ELSE Batch(start)[i - start]
    BY ZenonT(60), <1>4, <1>5, ConcatProperties
<1>7. /\ vectors' \in Seq(Nat) /\ Len(vectors') = stop
      /\ \A i \in 1..stop : vectors'[i] = i
    <2>1. ASSUME NEW i \in 1..stop PROVE (vectors \o Batch(start))[i] = i
        <3>1. CASE i <= start
            BY <1>1, <1>2, <1>4, <1>6, <3>1
        <3>2. CASE i > start
            <4>1. i - start \in 1..m
                BY <1>1, <1>2, <3>2
            <4> QED
                BY <1>1, <1>2, <1>5, <1>6, <3>2, <4>1
        <3>3. i <= start \/ i > start
            BY <1>1, <1>2
        <3> QED
            BY <3>1, <3>2, <3>3
    <2> QED
        BY <1>2, <1>6, <2>1
<1>8. vectors' = [i \in 1..stop |-> i]
    <2> DEFINE q == vectors'
               t == [i \in 1..stop |-> i]
    <2>1. q \in Seq(Nat) /\ Len(q) = stop /\ \A i \in 1..stop : q[i] = i
        BY <1>7
    <2>2. t \in Seq(Nat) /\ Len(t) = stop /\ \A i \in 1..stop : t[i] = i
        BY <1>2
    <2> HIDE DEF q, t
    <2>3. q = t
        BY <2>1, <2>2, SeqEqual
    <2> QED
        BY <2>3 DEF q, t
<1> QED
    BY <1>8 DEF stop

\* The number of texts.
LEMMA SegmentsIsNat ==
    ASSUME TypeOK
    PROVE  Segments \in Nat
<1>1. Len(children) \in Nat /\ parents \in Seq([lo : Nat, hi : Nat])
    BY Sequences DEF TypeOK
<1> QED
    BY <1>1 DEF Segments

\* A step of the chunker comes before the embedding; a failed batch changes
\* nothing, and a batch that succeeds adds its vectors.
LEMMA EmbedStep == TypeOK /\ TypeOK' /\ EmbedInv /\ [Next]_vars => EmbedInv'
<1> SUFFICES ASSUME TypeOK, TypeOK', EmbedInv, [Next]_vars PROVE EmbedInv'
    OBVIOUS
<1> USE EmbedAssumption
<1>0. /\ embedding \in {"wait", "run", "done", "failed"} /\ start \in Nat /\ attempt \in Nat
      /\ Segments \in Nat
    BY SegmentsIsNat DEF EmbedInv
<1>1. CASE ChunkerNext /\ UNCHANGED embedVars
    <2>1. phase # "chunked"
        BY <1>1 DEF ChunkerNext, BlankLine, HeadingLine, TextLine, ReadLine, PageEnds, KeepChunk,
           SplitSentence, SplitEnds, Splitting, NextPage, GroupChild, GroupsEnd
    <2>2. embedding = "wait" /\ start = 0
        BY <2>1 DEF EmbedInv
    <2>3. vectors = [i \in 1..0 |-> i]
        <3>1. (IF start < Segments THEN start ELSE Segments) = 0
            BY <1>0, <2>2
        <3> QED
            BY <3>1 DEF EmbedInv
    <2>4. UNCHANGED <<embedding, start, attempt, vectors>>
        BY <1>1 DEF embedVars
    <2>5. Segments' \in Nat
        <3>1. children' \in Seq(Chunk) /\ parents' \in Seq([lo : Nat, hi : Nat])
            BY DEF TypeOK
        <3> QED
            BY <3>1 DEF Segments
    <2>6. (IF start' < Segments' THEN start' ELSE Segments') = 0
        BY <2>2, <2>4, <2>5
    <2> QED
        BY <1>0, <2>2, <2>3, <2>4, <2>6 DEF EmbedInv
<1>2. CASE UNCHANGED chunkerVars
    <2>1. Segments' = Segments /\ phase' = phase
        BY <1>2 DEF chunkerVars, Segments
    <2>2. CASE BeginEmbedding
        BY <1>0, <2>1, <2>2 DEF BeginEmbedding, EmbedInv
    <2>3. CASE Embed
        <3>1. /\ embedding = "run" /\ start < Segments /\ start' = start + BatchSize /\ attempt' = 0
              /\ embedding' = "run" /\ vectors' = vectors \o Batch(start)
            BY <2>3 DEF Embed
        <3>2. vectors' = [i \in 1..(IF start + BatchSize < Segments THEN start + BatchSize
                                                                    ELSE Segments) |-> i]
            BY <1>0, <3>1, BatchAligned
        <3> QED
            BY <1>0, <2>1, <3>1, <3>2 DEF EmbedInv
    <2>4. CASE EmbedRaises
        BY <1>0, <2>1, <2>4 DEF EmbedRaises, EmbedInv
    <2>5. CASE EmbeddingEnds
        BY <1>0, <2>1, <2>5 DEF EmbeddingEnds, EmbedInv
    <2>6. CASE UNCHANGED vars
        BY <1>0, <2>1, <2>6 DEF vars, embedVars, EmbedInv
    <2>7. CASE ChunkerNext /\ UNCHANGED embedVars
        BY <1>1, <2>7
    <2> QED
        BY <2>2, <2>3, <2>4, <2>5, <2>6, <2>7 DEF Next
<1> QED
    BY <1>1, <1>2 DEF Next, BeginEmbedding, Embed, EmbedRaises, EmbeddingEnds, vars

-----------------------------------------------------------------------------
\* An empty document has no text to lose.
LEMMA InitInvariant == EmbedInit => IInv /\ EmbedInv
<1> SUFFICES ASSUME EmbedInit PROVE IInv /\ EmbedInv
    OBVIOUS
<1> USE ChunkerAssumption
<1>1. /\ phase = "read" /\ page = 1 /\ read = 0 /\ pieces = <<>> /\ buffer = NoBuffer
      /\ bufChars = 0 /\ chunks = <<>> /\ split = NoSplit /\ children = <<>> /\ parents = <<>>
      /\ group = [lo |-> 1, hi |-> 0, size |-> 0]
      /\ section = NoSection /\ subsection = NoSection
      /\ embedding = "wait" /\ start = 0 /\ attempt = 0 /\ vectors = <<>>
    BY DEF EmbedInit, Init
<1>2. TypeOK
    BY <1>1 DEF TypeOK, NoBuffer, NoSplit, Sections
<1>3. SegmentsHold /\ BufferHolds /\ SplitInv /\ PhaseInv /\ NothingLost
    BY <1>1 DEF SegmentsHold, BufferHolds, NoBuffer, SplitInv, PhaseInv, NothingLost
<1>4. Segments = 0
    BY <1>1 DEF Segments
<1>5. vectors = [i \in 1..0 |-> i]
    BY <1>1
<1>6. EmbedInv
    BY <1>1, <1>4, <1>5 DEF EmbedInv
<1> QED
    BY <1>2, <1>3, <1>6 DEF IInv

\* Both invariants hold for any document and any sizes.
THEOREM ChunkingInvariant == Spec => [](IInv /\ EmbedInv)
<1>1. IInv /\ EmbedInv /\ [Next]_vars => IInv' /\ EmbedInv'
    <2> SUFFICES ASSUME IInv, EmbedInv, [Next]_vars PROVE IInv' /\ EmbedInv'
        OBVIOUS
    <2>1. [ChunkerNext]_chunkerVars
        BY DEF Next, vars, BeginEmbedding, Embed, EmbedRaises, EmbeddingEnds
    <2>2. IInv'
        BY <2>1, ChunkerStep
    <2> QED
        BY <2>2, EmbedStep DEF IInv
<1> QED
    BY <1>1, InitInvariant, PTL DEF Spec

\* Every variable of the chunker keeps its type.
THEOREM TypeCorrect == Spec => []TypeOK
<1>1. IInv => TypeOK
    BY DEF IInv
<1> QED
    BY <1>1, ChunkingInvariant, PTL

\* Every piece of text read is in a child segment or on its way to one
\* (chunk_page, _split_large), whatever the lines, headings and sizes.
THEOREM TextIsKept == Spec => []NothingLost
<1>1. IInv => NothingLost
    BY DEF IInv
<1> QED
    BY <1>1, ChunkingInvariant, PTL

\* The vectors are those of the first texts in order, and of all of them when
\* embed_chunks returns, whatever batches failed and were tried again.
THEOREM VectorsMatchTexts == Spec => []VectorsAligned
<1>1. IInv /\ EmbedInv => VectorsAligned
    <2> SUFFICES ASSUME IInv, EmbedInv PROVE VectorsAligned
        OBVIOUS
    <2> DEFINE m == IF start < Segments THEN start ELSE Segments
    <2>1. m \in Nat /\ vectors = [i \in 1..m |-> i]
        BY SegmentsIsNat DEF IInv, EmbedInv
    <2>2. embedding = "done" => m = Segments
        BY SegmentsIsNat DEF IInv, EmbedInv
    <2> HIDE DEF m
    <2>3. Len(vectors) = m
        BY <2>1
    <2> QED
        BY <2>1, <2>2, <2>3 DEF VectorsAligned
<1> QED
    BY <1>1, ChunkingInvariant, PTL

-----------------------------------------------------------------------------
(* What a child repeats, and how long it gets.  Chunks follow one another   *)
(* in the text and overlap by a kept line at most; what _split_large keeps  *)
(* of a chunk is its last sentence.                                         *)

SameLine(lo, hi) == pieces[lo].line = pieces[hi].line

\* A segment that begins at lo repeats a part of the last line of c at most.
Follows(lo, c) == lo <= c.hi => SameLine(lo, c.hi)

LinesRise ==
    /\ \A p \in 1..Len(pieces) : pieces[p].line < read
    /\ \A p, q \in 1..Len(pieces) : p <= q => pieces[p].line <= pieces[q].line

InRow(queue) == \A j, k \in 1..Len(queue) : j < k =>
    /\ queue[j].lo <= queue[k].lo /\ queue[j].hi <= queue[k].hi
    /\ Follows(queue[k].lo, queue[j])

BufferFollows == Buffered =>
    /\ SameLine(buffer.tail, buffer.hi)
    /\ \A k \in 1..Len(chunks) : chunks[k].lo <= buffer.lo /\ Follows(buffer.lo, chunks[k])

\* While a page is read the children are those of the pages before.
ChildrenBefore == \A j \in 1..Len(children) :
    /\ phase = "read" => /\ \A k \in 1..Len(chunks) : children[j].hi < chunks[k].lo
                         /\ Buffered => children[j].hi < buffer.lo
    /\ phase = "split" => \A k \in 2..Len(chunks) : Follows(chunks[k].lo, children[j])

\* What the rest of the first chunk begins with is one unit of any child, and
\* it begins where a child ends or before.
SplitFollows == (phase = "split" /\ chunks # <<>>) =>
    /\ \A j \in 1..Len(children) :
           split.lo <= children[j].hi => Unit(split.lo, children[j].hi)
    /\ \A p \in split.last..(split.next - 2) : ~pieces[p].ends
    /\ split.lo > chunks[1].lo => \E j \in 1..Len(children) : split.lo <= children[j].hi + 1
    /\ Width(chunks[1].lo, chunks[1].hi) <= ChunkSize => split.lo = chunks[1].lo

RInv == LinesRise /\ InRow(chunks) /\ BufferFollows /\ ChildrenBefore /\ SplitFollows /\ RepeatsOneUnit

Contiguous == \A p \in 1..(Len(pieces) - 1) : pieces[p + 1].start = pieces[p].stop + 1

\* The count is the length of what was taken or one more, and what was taken
\* fits or is two sentences at most.
SplitCounts == (phase = "split" /\ chunks # <<>>) =>
    LET width == Width(split.lo, split.next - 1) IN
    /\ split.lo = split.next => split.chars = 0
    /\ split.lo < split.next =>
          /\ split.last < split.next
          /\ split.chars \in {width, width + 1}
          /\ width <= ChunkSize \/ AtMostOneBreak(split.lo, split.next - 1)

LInv == Contiguous /\ SplitCounts /\ SizeBound

\* The pieces of a line are of that line, and follow one another and the text
\* before with one space between.
LEMMA PiecesJoin ==
    ASSUME TypeOK, NEW line \in Lines, pieces' = pieces \o NewPieces(line)
    PROVE  /\ \A p \in (Len(pieces) + 1)..Len(pieces') : pieces'[p].line = read
           /\ \A p \in 1..(Len(pieces') - 1) :
                  p >= Len(pieces) => pieces'[p + 1].start = pieces'[p].stop + 1
<1> DEFINE m == Len(line.cuts)
           new == NewPieces(line)
           n == Len(pieces)
<1>1. m \in Nat \ {0} /\ (\A i \in 1..m : line.cuts[i] \in Nat) /\ n \in Nat
    BY LineIsSolid, Sequences
<1>2. \A i \in 1..m : /\ new[i].line = read
                      /\ new[i].start = Base + (IF i = 1 THEN 0 ELSE line.cuts[i - 1] + 1)
                      /\ new[i].stop = Base + line.cuts[i]
    BY <1>1 DEF NewPieces
<1>3. Base \in Int /\ (n > 0 => Base = pieces[n].stop + 1)
    <2>1. CASE pieces = <<>>
        BY <2>1 DEF Base
    <2>2. CASE pieces # <<>>
        <3>1. n \in 1..n /\ pieces[n] \in Piece
            BY <1>1, <2>2, EmptySeq, Sequences
        <3>2. pieces[n].stop \in Int
            BY <3>1 DEF Piece
        <3> QED
            BY <2>2, <3>2 DEF Base
    <2> QED
        BY <2>1, <2>2
<1>4. new \in Seq(Piece) \/ Len(new) = m
    BY <1>1 DEF NewPieces
<1>5. /\ Len(pieces') = n + m
      /\ \A p \in 1..n : pieces'[p] = pieces[p]
      /\ \A p \in (n + 1)..(n + m) : pieces'[p] = new[p - n]
    <2>1. new = [i \in 1..m |-> new[i]]
        BY <1>1 DEF NewPieces
    <2> HIDE DEF new
    <2>2. \E T : new \in Seq(T)
        <3> DEFINE T == {new[i] : i \in 1..m}
        <3>1. \A i \in 1..m : new[i] \in T
            OBVIOUS
        <3> HIDE DEF T
        <3>2. new \in [1..m -> T]
            BY <2>1, <3>1
        <3> HIDE DEF m
        <3>3. \A f \in [1..m -> T] : f \in Seq(T)
            BY <1>1
        <3> QED
            BY <3>2, <3>3
    <2>3. PICK T : new \in Seq(T)
        BY <2>2
    <2>4. Len(new) = m
        BY <1>1, <2>1, <2>3
    <2>5. pieces \in Seq(Piece \cup T) /\ new \in Seq(Piece \cup T)
        BY <2>3, Sequences
    <2> HIDE DEF m
    <2>6. /\ Len(pieces \o new) = n + m
          /\ \A p \in 1..(n + m) : (pieces \o new)[p] = IF p <= n THEN pieces[p] ELSE new[p - n]
        BY <2>4, <2>5, ConcatProperties
    <2>7. pieces' = pieces \o new
        BY DEF new
    <2> QED
        BY <1>1, <2>6, <2>7 DEF m
<1> HIDE DEF new, m
<1>6. ASSUME NEW p \in 1..(Len(pieces') - 1), p >= n PROVE pieces'[p + 1].start = pieces'[p].stop + 1
    <2> DEFINE i == p + 1 - n
    <2>1. i \in 1..m /\ p + 1 \in (n + 1)..(n + m) /\ p + 1 - n = i
        BY <1>1, <1>5, <1>6 DEF m
    <2>2. pieces'[p + 1] = new[i]
        BY <1>5, <2>1
    <2> HIDE DEF i
    <2>3. CASE p = n
        <3>1. i = 1 /\ n > 0 /\ pieces'[p] = pieces[n]
            BY <1>1, <1>5, <1>6, <2>3 DEF i
        <3>2. new[i].start = Base
            BY <1>2, <1>3, <2>1, <3>1
        <3> QED
            BY <1>3, <2>2, <3>1, <3>2
    <2>4. CASE p > n
        <3>1. i # 1 /\ i - 1 \in 1..m /\ p \in (n + 1)..(n + m) /\ p - n = i - 1
            BY <1>1, <1>5, <1>6, <2>1, <2>4 DEF i, m
        <3>2. pieces'[p] = new[i - 1]
            BY <1>5, <3>1
        <3>3. line.cuts[i - 1] \in Nat
            BY <1>1, <3>1 DEF m
        <3>4. new[i].start = Base + (line.cuts[i - 1] + 1) /\ new[i - 1].stop = Base + line.cuts[i - 1]
            BY <1>2, <2>1, <3>1
        <3> QED
            BY <1>3, <2>2, <3>2, <3>3, <3>4
    <2> QED
        BY <1>1, <1>6, <2>3, <2>4
<1>7. ASSUME NEW p \in (n + 1)..Len(pieces') PROVE pieces'[p].line = read
    <2>1. p \in (n + 1)..(n + m) /\ p - n \in 1..m
        BY <1>1, <1>5 DEF m
    <2> QED
        BY <1>2, <1>5, <2>1
<1> QED
    BY <1>6, <1>7

\* A step that reads a line keeps the lines in order.
LEMMA LinesGrow ==
    ASSUME IInv, IInv', RInv, ChunkerNext
    PROVE  LinesRise'
<1>1. /\ pieces \in Seq(Piece) /\ pieces' \in Seq(Piece)
      /\ Len(pieces) \in Nat /\ Len(pieces') \in Nat /\ read \in Nat
    <2>1. pieces \in Seq(Piece) /\ pieces' \in Seq(Piece) /\ read \in 0..MaxLines
        BY DEF IInv, TypeOK
    <2>2. MaxLines \in Nat
        BY ChunkerAssumption
    <2> QED
        BY <2>1, <2>2
<1>2. \A p \in 1..Len(pieces) : pieces[p].line \in Nat
    <2>1. \A p \in 1..Len(pieces) : pieces[p] \in Piece
        BY <1>1
    <2> QED
        BY <2>1 DEF Piece
<1>0. /\ \A p \in 1..Len(pieces) : pieces[p].line < read
      /\ \A p, q \in 1..Len(pieces) : p <= q => pieces[p].line <= pieces[q].line
    BY DEF RInv, LinesRise
<1>3. CASE TextLine
    <2>1. PICK line \in Lines : pieces' = pieces \o NewPieces(line)
        BY <1>3 DEF TextLine
    <2>2. /\ Len(pieces') > Len(pieces) /\ \A p \in 1..Len(pieces) : pieces'[p] = pieces[p]
          /\ \A p \in (Len(pieces) + 1)..Len(pieces') : pieces'[p].line = read
        BY <2>1, PiecesGrow, PiecesJoin DEF IInv
    <2>3. read' = read + 1
        BY <1>3 DEF TextLine, ReadLine
    <2>4. \A p \in 1..Len(pieces') : p \in 1..Len(pieces) \/ p \in (Len(pieces) + 1)..Len(pieces')
        BY <1>1, <2>2
    <2>5. \A p \in 1..Len(pieces') : pieces'[p].line \in Nat /\ pieces'[p].line <= read
        <3>1. ASSUME NEW p \in 1..Len(pieces) PROVE pieces'[p].line \in Nat /\ pieces'[p].line <= read
            <4>1. pieces'[p] = pieces[p] /\ pieces[p].line \in Nat /\ pieces[p].line < read
                BY <1>0, <1>2, <2>2
            <4> QED
                BY <1>1, <4>1
        <3>2. ASSUME NEW p \in (Len(pieces) + 1)..Len(pieces')
              PROVE  pieces'[p].line \in Nat /\ pieces'[p].line <= read
            BY <1>1, <2>2
        <3> QED
            BY <2>4, <3>1, <3>2
    <2>6. ASSUME NEW p \in 1..Len(pieces'), NEW q \in 1..Len(pieces'), p <= q
          PROVE  pieces'[p].line <= pieces'[q].line
        <3>1. CASE q \in 1..Len(pieces)
            <4>1. p \in 1..Len(pieces)
                BY <1>1, <2>6, <3>1
            <4> QED
                BY <1>0, <2>2, <2>6, <3>1, <4>1
        <3>2. CASE q \in (Len(pieces) + 1)..Len(pieces')
            <4>1. pieces'[q].line = read
                BY <2>2, <3>2
            <4> QED
                BY <2>5, <4>1
        <3> QED
            BY <2>4, <3>1, <3>2
    <2>7. \A p \in 1..Len(pieces') : pieces'[p].line < read'
        BY <1>1, <2>3, <2>5
    <2> QED
        BY <2>6, <2>7 DEF LinesRise
<1>4. CASE ~TextLine
    <2>1. pieces' = pieces /\ (read' = read + 1 \/ read' = read)
        BY <1>4 DEF ChunkerNext, BlankLine, HeadingLine, ReadLine, PageEnds, KeepChunk, SplitSentence,
           SplitEnds, NextPage, GroupChild, GroupsEnd
    <2> QED
        BY <1>0, <1>1, <1>2, <2>1 DEF LinesRise
<1> QED
    BY <1>3, <1>4

\* Bounds of the segments.
LEMMA SegmentEnds ==
    ASSUME IInv
    PROVE  /\ \A k \in 1..Len(chunks) : /\ chunks[k].lo \in 1..Len(pieces) /\ chunks[k].hi \in 1..Len(pieces)
                                        /\ chunks[k].lo <= chunks[k].hi
           /\ \A k \in 1..Len(children) : /\ children[k].lo \in 1..Len(pieces) /\ children[k].hi \in 1..Len(pieces)
                                          /\ children[k].lo <= children[k].hi
           /\ Len(pieces) \in Nat /\ Len(chunks) \in Nat /\ Len(children) \in Nat
<1>1. Len(pieces) \in Nat /\ Len(chunks) \in Nat /\ Len(children) \in Nat
    BY Sequences DEF IInv
<1>2. /\ \A k \in 1..Len(chunks) : chunks[k].lo \in 1..Len(pieces) /\ chunks[k].hi \in chunks[k].lo..Len(pieces)
      /\ \A k \in 1..Len(children) : children[k].lo \in 1..Len(pieces) /\ children[k].hi \in children[k].lo..Len(pieces)
    BY DEF IInv, SegmentsHold, Holds
<1> QED
    BY <1>1, <1>2

LEMMA LineNumbers ==
    ASSUME IInv, RInv
    PROVE  /\ \A p \in 1..Len(pieces) : pieces[p].line \in Nat
           /\ \A p, q \in 1..Len(pieces) : p <= q => pieces[p].line <= pieces[q].line
<1>1. \A p \in 1..Len(pieces) : pieces[p] \in Piece
    BY Sequences DEF IInv
<1> QED
    BY <1>1 DEF Piece, RInv, LinesRise

\* A part at the end of a line, or of a sentence, is one too.
LEMMA LinePart ==
    ASSUME IInv, RInv, NEW lo \in 1..Len(pieces), NEW m \in 1..Len(pieces), NEW hi \in 1..Len(pieces),
           lo <= m, m <= hi, SameLine(lo, hi)
    PROVE  SameLine(m, hi) /\ SameLine(lo, m)
<1>1. /\ pieces[lo].line \in Nat /\ pieces[m].line \in Nat /\ pieces[hi].line \in Nat
      /\ pieces[lo].line <= pieces[m].line /\ pieces[m].line <= pieces[hi].line
    BY LineNumbers
<1> QED
    BY <1>1 DEF SameLine

LEMMA UnitPart ==
    ASSUME IInv, RInv, NEW lo \in 1..Len(pieces), NEW m \in 1..Len(pieces), NEW hi \in 1..Len(pieces),
           lo <= m, m <= hi, Unit(lo, hi)
    PROVE  Unit(m, hi)
<1>1. CASE SameLine(lo, hi)
    BY <1>1, LinePart DEF Unit, SameLine
<1>2. CASE \A p \in lo..(hi - 1) : ~pieces[p].ends
    <2>1. \A p \in m..(hi - 1) : p \in lo..(hi - 1)
        BY Sequences DEF IInv
    <2> QED
        BY <1>2, <2>1 DEF Unit
<1> QED
    BY <1>1, <1>2 DEF Unit, SameLine

\* A flush keeps the row: the buffer begins with the last line of the last chunk
\* at most, and the line that is kept of it is the last of the new chunk.
LEMMA FlushFollows ==
    ASSUME IInv, RInv, phase = "read"
    PROVE  /\ InRow(Flushed)
           /\ \A k \in 1..Len(Flushed) : Flushed[k].lo \in 1..Len(pieces) /\ Flushed[k].hi \in 1..Len(pieces)
           /\ \A j \in 1..Len(children), k \in 1..Len(Flushed) : children[j].hi < Flushed[k].lo
           /\ Buffered => \A k \in 1..Len(Flushed) :
                  Flushed[k].lo <= buffer.tail /\ Follows(buffer.tail, Flushed[k])
<1> DEFINE n == Len(chunks)
<1>0. /\ n \in Nat /\ Len(pieces) \in Nat /\ chunks \in Seq(Chunk)
      /\ \A k \in 1..n : /\ chunks[k].lo \in 1..Len(pieces) /\ chunks[k].hi \in 1..Len(pieces)
                         /\ chunks[k].lo <= chunks[k].hi
      /\ \A j \in 1..Len(children), k \in 1..n : children[j].hi < chunks[k].lo
    <2>1. \A j \in 1..Len(children), k \in 1..n : children[j].hi < chunks[k].lo
        BY DEF RInv, ChildrenBefore
    <2> QED
        BY <2>1, SegmentEnds, Sequences DEF IInv
<1>1. CASE ~Buffered
    <2>1. Flushed = chunks
        BY <1>1 DEF Flushed
    <2> QED
        BY <1>0, <1>1, <2>1 DEF RInv
<1>2. CASE Buffered
    <2> DEFINE c == [lo |-> buffer.lo, hi |-> buffer.hi, page |-> page,
                     section |-> section, subsection |-> subsection]
    <2>1. Flushed = Append(chunks, c)
        BY <1>2 DEF Flushed
    <2>2. /\ Len(Flushed) = n + 1 /\ (\A k \in 1..n : Flushed[k] = chunks[k]) /\ Flushed[n + 1] = c
        <3> HIDE DEF c, n
        <3>1. \A x : Len(Append(chunks, x)) = Len(chunks) + 1 /\ Append(chunks, x)[Len(chunks) + 1] = x
                     /\ \A k \in 1..Len(chunks) : Append(chunks, x)[k] = chunks[k]
            BY <1>0
        <3> QED
            BY <2>1, <3>1 DEF n
    <2>3. c.lo = buffer.lo /\ c.hi = buffer.hi
        OBVIOUS
    <2> HIDE DEF c, n
    <2>4. /\ buffer.lo \in 1..Len(pieces) /\ buffer.tail \in 1..Len(pieces) /\ buffer.hi = Len(pieces)
          /\ buffer.lo <= buffer.tail /\ buffer.tail <= buffer.hi /\ buffer.hi \in 1..Len(pieces)
        <3>1. buffer.lo \in Nat /\ buffer.tail \in Nat /\ buffer.hi \in Nat
            BY DEF IInv, TypeOK
        <3> QED
            BY <1>0, <1>2, <3>1 DEF IInv, BufferHolds, Buffered
    <2>5. /\ SameLine(buffer.tail, buffer.hi)
          /\ \A k \in 1..n : chunks[k].lo <= buffer.lo /\ Follows(buffer.lo, chunks[k])
          /\ \A j \in 1..Len(children) : children[j].hi < buffer.lo
        <3>1. \A j \in 1..Len(children) : children[j].hi < buffer.lo
            BY <1>2 DEF RInv, ChildrenBefore
        <3> QED
            BY <1>2, <3>1 DEF RInv, BufferFollows, n
    <2>6. \A k \in 1..Len(Flushed) : k \in 1..n \/ k = n + 1
        BY <1>0, <2>2
    <2>7. InRow(Flushed)
        <3>1. ASSUME NEW j \in 1..Len(Flushed), NEW k \in 1..Len(Flushed), j < k
              PROVE  /\ Flushed[j].lo <= Flushed[k].lo /\ Flushed[j].hi <= Flushed[k].hi
                     /\ Follows(Flushed[k].lo, Flushed[j])
            <4>1. j \in 1..n /\ Flushed[j] = chunks[j]
                BY <1>0, <2>2, <2>6, <3>1
            <4>2. CASE k \in 1..n
                BY <2>2, <3>1, <4>1, <4>2 DEF RInv, InRow, n
            <4>3. CASE k = n + 1
                BY <1>0, <2>2, <2>3, <2>4, <2>5, <4>1, <4>3
            <4> QED
                BY <2>6, <4>2, <4>3
        <3> QED
            BY <3>1 DEF InRow
    <2>8. ASSUME NEW k \in 1..Len(Flushed)
          PROVE  /\ Flushed[k].lo \in 1..Len(pieces) /\ Flushed[k].hi \in 1..Len(pieces)
                 /\ \A j \in 1..Len(children) : children[j].hi < Flushed[k].lo
                 /\ Flushed[k].lo <= buffer.tail /\ Follows(buffer.tail, Flushed[k])
        <3>1. CASE k \in 1..n
            <4>1. /\ Flushed[k] = chunks[k] /\ chunks[k].lo <= buffer.lo /\ Follows(buffer.lo, chunks[k])
                  /\ chunks[k].lo \in 1..Len(pieces) /\ chunks[k].hi \in 1..Len(pieces)
                BY <1>0, <2>2, <2>5, <3>1
            <4>2. Follows(buffer.tail, chunks[k])
                <5>1. ASSUME buffer.tail <= chunks[k].hi PROVE SameLine(buffer.tail, chunks[k].hi)
                    <6>1. SameLine(buffer.lo, chunks[k].hi)
                        BY <2>4, <4>1, <5>1 DEF Follows
                    <6> QED
                        BY <2>4, <4>1, <5>1, <6>1, LinePart
                <5> QED
                    BY <5>1 DEF Follows
            <4> QED
                BY SMTT(60), <1>0, <2>4, <3>1, <4>1, <4>2
        <3>2. CASE k = n + 1
            BY <2>2, <2>3, <2>4, <2>5, <3>2 DEF Follows
        <3> QED
            BY <2>6, <3>1, <3>2
    <2> QED
        BY <2>7, <2>8
<1> QED
    BY <1>1, <1>2

\* What a segment repeats does not change while the text grows.
LEMMA UnitStays ==
    ASSUME IInv, Longer, NEW lo \in 1..Len(pieces), NEW hi \in 1..Len(pieces), Unit(lo, hi)
    PROVE  \/ pieces'[lo].line = pieces'[hi].line
           \/ \A p \in lo..(hi - 1) : ~pieces'[p].ends
<1>1. \A p \in 1..Len(pieces) : pieces'[p] = pieces[p]
    BY DEF Longer
<1>2. \A p \in lo..(hi - 1) : p \in 1..Len(pieces)
    BY Sequences DEF IInv
<1> QED
    BY <1>1, <1>2 DEF Unit

LEMMA RepeatsStays ==
    ASSUME IInv, RInv, Longer, UNCHANGED children
    PROVE  RepeatsOneUnit'
<1>1. /\ \A k \in 1..Len(children) : children[k].lo \in 1..Len(pieces) /\ children[k].hi \in 1..Len(pieces)
      /\ DOMAIN children = 1..Len(children) /\ Len(children) \in Nat
    BY SegmentEnds, Sequences DEF IInv
<1> SUFFICES ASSUME NEW k \in 1..Len(children)
             PROVE  /\ children[k].lo = 1 \/ \E j \in 1..(k - 1) : children[k].lo <= children[j].hi + 1
                    /\ \A j \in 1..(k - 1) : children[k].lo <= children[j].hi =>
                          \/ pieces'[children[k].lo].line = pieces'[children[j].hi].line
                          \/ \A p \in children[k].lo..(children[j].hi - 1) : ~pieces'[p].ends
    BY <1>1 DEF RepeatsOneUnit, Unit
<1>2. /\ children[k].lo = 1 \/ \E j \in 1..(k - 1) : children[k].lo <= children[j].hi + 1
      /\ \A j \in 1..(k - 1) : children[k].lo <= children[j].hi => Unit(children[k].lo, children[j].hi)
    BY <1>1 DEF RInv, RepeatsOneUnit
<1>3. \A j \in 1..(k - 1) : j \in 1..Len(children)
    BY <1>1
<1> QED
    BY <1>1, <1>2, <1>3, UnitStays

\* What the code has read of the page lies behind the children.
Behind(lo) == \A j \in 1..Len(children) : children[j].hi < lo

\* A step that reads a line keeps what is repeated if it keeps the row of
\* chunks and the place of the buffer behind it.
LEMMA ReadRepeats ==
    ASSUME IInv, IInv', RInv, phase = "read", phase' = "read", Longer, LinesRise', UNCHANGED children,
           InRow(chunks'),
           \A k \in 1..Len(chunks') : /\ chunks'[k].lo \in 1..Len(pieces) /\ chunks'[k].hi \in 1..Len(pieces)
                                      /\ Behind(chunks'[k].lo),
           buffer'.hi > 0 => /\ pieces'[buffer'.tail].line = pieces'[buffer'.hi].line
                             /\ \A k \in 1..Len(chunks') : chunks'[k].lo <= buffer'.lo /\ Follows(buffer'.lo, chunks'[k])
                             /\ Behind(buffer'.lo)
    PROVE  RInv'
<1>0. /\ Len(pieces) \in Nat /\ \A p \in 1..Len(pieces) : pieces'[p] = pieces[p]
      /\ buffer'.lo \in Nat /\ (buffer'.hi > 0 => buffer'.lo >= 1)
    <2>1. buffer'.lo \in Nat /\ buffer'.tail \in Nat
        BY DEF IInv, TypeOK
    <2>2. buffer'.hi # 0 => buffer'.lo \in 1..buffer'.tail
        BY DEF IInv, BufferHolds
    <2> QED
        BY <2>1, <2>2, Sequences DEF IInv, Longer
<1>1. InRow(chunks)'
    <2>1. ASSUME NEW j \in 1..Len(chunks'), NEW k \in 1..Len(chunks'), j < k
          PROVE  /\ chunks'[j].lo <= chunks'[k].lo /\ chunks'[j].hi <= chunks'[k].hi
                 /\ chunks'[k].lo <= chunks'[j].hi => pieces'[chunks'[k].lo].line = pieces'[chunks'[j].hi].line
        <3>1. /\ chunks'[j].lo <= chunks'[k].lo /\ chunks'[j].hi <= chunks'[k].hi
              /\ chunks'[k].lo <= chunks'[j].hi => pieces[chunks'[k].lo].line = pieces[chunks'[j].hi].line
            BY <2>1 DEF InRow, Follows, SameLine
        <3>2. chunks'[k].lo \in 1..Len(pieces) /\ chunks'[j].hi \in 1..Len(pieces)
            OBVIOUS
        <3> QED
            BY <1>0, <3>1, <3>2
    <2> QED
        BY <2>1 DEF InRow, Follows, SameLine
<1>2. BufferFollows'
    <2>1. ASSUME buffer'.hi > 0, NEW k \in 1..Len(chunks')
          PROVE  /\ chunks'[k].lo <= buffer'.lo
                 /\ buffer'.lo <= chunks'[k].hi => pieces'[buffer'.lo].line = pieces'[chunks'[k].hi].line
        <3>1. /\ chunks'[k].lo <= buffer'.lo
              /\ buffer'.lo <= chunks'[k].hi => pieces[buffer'.lo].line = pieces[chunks'[k].hi].line
            BY <2>1 DEF Follows, SameLine
        <3>2. chunks'[k].hi \in 1..Len(pieces)
            OBVIOUS
        <3>3. buffer'.lo <= chunks'[k].hi => buffer'.lo \in 1..Len(pieces)
            BY <1>0, <2>1, <3>2
        <3> QED
            BY <1>0, <3>1, <3>2, <3>3
    <2> QED
        BY <2>1 DEF BufferFollows, Buffered, Follows, SameLine
<1>3. ChildrenBefore'
    BY DEF ChildrenBefore, Buffered, Behind
<1>4. SplitFollows'
    BY DEF SplitFollows
<1>5. RepeatsOneUnit'
    BY RepeatsStays
<1> QED
    BY <1>1, <1>2, <1>3, <1>4, <1>5 DEF RInv

LEMMA BlankLineRepeats ==
    ASSUME IInv, IInv', RInv, BlankLine
    PROVE  RInv'
<1>1. /\ phase = "read" /\ phase' = "read" /\ UNCHANGED <<children, pieces>>
    BY DEF BlankLine, ReadLine
<1>2. Longer /\ LinesRise'
    <2>1. ChunkerNext
        BY DEF ChunkerNext
    <2> QED
        BY <1>1, <2>1, LinesGrow, Sequences DEF Longer, IInv
<1>3. /\ InRow(Flushed)
      /\ \A k \in 1..Len(Flushed) : /\ Flushed[k].lo \in 1..Len(pieces) /\ Flushed[k].hi \in 1..Len(pieces)
                                    /\ Behind(Flushed[k].lo)
    BY <1>1, FlushFollows DEF Behind
<1>4. /\ InRow(chunks)
      /\ \A k \in 1..Len(chunks) : /\ chunks[k].lo \in 1..Len(pieces) /\ chunks[k].hi \in 1..Len(pieces)
                                   /\ Behind(chunks[k].lo)
    BY <1>1, SegmentEnds DEF Behind, RInv, ChildrenBefore
<1>5. Buffered => /\ SameLine(buffer.tail, buffer.hi) /\ Behind(buffer.lo)
                  /\ buffer.lo \in Nat /\ buffer.tail \in Nat /\ buffer.lo <= buffer.tail
                  /\ \A k \in 1..Len(chunks) : chunks[k].lo <= buffer.lo /\ Follows(buffer.lo, chunks[k])
    <2>1. buffer.lo \in Nat /\ buffer.tail \in Nat
        BY DEF IInv, TypeOK
    <2> QED
        BY <1>1, <2>1 DEF Behind, RInv, ChildrenBefore, BufferFollows, IInv, BufferHolds, Buffered
<1>6. CASE Buffered /\ chunks' = Flushed /\ buffer' = KeptTail
    <2>1. buffer'.lo = buffer.tail /\ buffer'.tail = buffer.tail /\ buffer'.hi = buffer.hi
        BY <1>6 DEF KeptTail, IInv, TypeOK
    <2>2. Behind(buffer.tail)
        <3>1. \A j \in 1..Len(children) : children[j].hi \in Nat
            BY SegmentEnds
        <3> QED
            BY <1>5, <1>6, <3>1 DEF Behind
    <2>3. /\ \A k \in 1..Len(Flushed) : Flushed[k].lo <= buffer.tail /\ Follows(buffer.tail, Flushed[k])
        BY <1>1, <1>6, FlushFollows
    <2>4. chunks' = Flushed
        BY <1>6
    <2>5. pieces'[buffer'.tail].line = pieces'[buffer'.hi].line
        BY <1>1, <1>5, <1>6, <2>1 DEF SameLine
    <2> QED
        BY <1>1, <1>2, <1>3, <2>1, <2>2, <2>3, <2>4, <2>5, ReadRepeats
<1>7. CASE UNCHANGED <<chunks, buffer>>
    <2>1. chunks' = chunks /\ buffer' = buffer
        BY <1>7
    <2> QED
        BY <1>1, <1>2, <1>4, <1>5, <2>1, ReadRepeats DEF Buffered, SameLine
<1> QED
    BY <1>6, <1>7 DEF BlankLine

LEMMA HeadingLineRepeats ==
    ASSUME IInv, IInv', RInv, HeadingLine
    PROVE  RInv'
<1>1. /\ phase = "read" /\ phase' = "read" /\ UNCHANGED <<children, pieces>>
      /\ chunks' = Flushed /\ buffer' = NoBuffer
    BY DEF HeadingLine, ReadLine
<1>2. Longer /\ LinesRise'
    <2>1. ChunkerNext
        BY DEF ChunkerNext
    <2> QED
        BY <1>1, <2>1, LinesGrow, Sequences DEF Longer, IInv
<1>3. /\ InRow(Flushed)
      /\ \A k \in 1..Len(Flushed) : /\ Flushed[k].lo \in 1..Len(pieces) /\ Flushed[k].hi \in 1..Len(pieces)
                                    /\ Behind(Flushed[k].lo)
    BY <1>1, FlushFollows DEF Behind
<1>4. ~(buffer'.hi > 0)
    BY <1>1 DEF NoBuffer
<1> QED
    BY <1>1, <1>2, <1>3, <1>4, ReadRepeats

LEMMA TextLineRepeats ==
    ASSUME IInv, IInv', RInv, TextLine
    PROVE  RInv'
<1> DEFINE first == Len(pieces) + 1
<1>1. /\ phase = "read" /\ phase' = "read" /\ UNCHANGED children
    BY DEF TextLine, ReadLine
<1>2. PICK line \in Lines, full \in BOOLEAN :
         /\ pieces' = pieces \o NewPieces(line)
         /\ buffer'.tail = first /\ buffer'.hi = Len(pieces')
         /\ \/ /\ Buffered
               /\ chunks' = IF full THEN Flushed ELSE chunks
               /\ buffer'.lo = IF full THEN buffer.tail ELSE buffer.lo
            \/ /\ ~Buffered
               /\ chunks' = chunks /\ buffer'.lo = first
    <2>1. PICK line \in Lines :
            LET full == bufChars + 1 + LineWidth(line) >= ChunkSize
                kept == IF full THEN KeptTail ELSE buffer
            IN  /\ pieces' = pieces \o NewPieces(line)
                /\ \/ /\ Buffered
                      /\ chunks' = IF full THEN Flushed ELSE chunks
                      /\ buffer' = [lo |-> kept.lo, tail |-> first, hi |-> Len(pieces')]
                   \/ /\ ~Buffered
                      /\ buffer' = [lo |-> first, tail |-> first, hi |-> Len(pieces')]
                      /\ UNCHANGED chunks
        BY DEF TextLine
    <2> DEFINE full == bufChars + 1 + LineWidth(line) >= ChunkSize
    <2>2. full \in BOOLEAN
        OBVIOUS
    <2>3. (IF full THEN KeptTail ELSE buffer).lo = IF full THEN buffer.tail ELSE buffer.lo
        BY DEF KeptTail, IInv, TypeOK
    <2> HIDE DEF full, first
    <2>4. /\ pieces' = pieces \o NewPieces(line)
          /\ \/ /\ Buffered
                /\ chunks' = IF full THEN Flushed ELSE chunks
                /\ buffer' = [lo |-> (IF full THEN KeptTail ELSE buffer).lo, tail |-> first, hi |-> Len(pieces')]
             \/ /\ ~Buffered
                /\ buffer' = [lo |-> first, tail |-> first, hi |-> Len(pieces')]
                /\ UNCHANGED chunks
        BY <2>1 DEF full, first
    <2>5. CASE Buffered
        <3>1. buffer' = [lo |-> (IF full THEN KeptTail ELSE buffer).lo, tail |-> first, hi |-> Len(pieces')]
            BY <2>4, <2>5
        <3>2. /\ buffer'.tail = first /\ buffer'.hi = Len(pieces')
              /\ buffer'.lo = IF full THEN buffer.tail ELSE buffer.lo
            BY <2>3, <3>1
        <3> QED
            BY <2>2, <2>4, <2>5, <3>2
    <2>6. CASE ~Buffered
        <3>1. buffer' = [lo |-> first, tail |-> first, hi |-> Len(pieces')] /\ chunks' = chunks
            BY <2>4, <2>6
        <3>2. buffer'.tail = first /\ buffer'.hi = Len(pieces') /\ buffer'.lo = first
            BY <3>1
        <3> QED
            BY <2>2, <2>4, <2>6, <3>1, <3>2
    <2> QED
        BY <2>5, <2>6
<1>3. Longer /\ LinesRise' /\ Len(pieces') > Len(pieces) /\ Len(pieces) \in Nat /\ Len(pieces') \in Nat
    <2>1. ChunkerNext
        BY DEF ChunkerNext
    <2> QED
        BY <1>2, <2>1, LinesGrow, PiecesGrow DEF Longer, IInv
<1>4. pieces'[buffer'.tail].line = pieces'[buffer'.hi].line
    <2>1. \A p \in first..Len(pieces') : pieces'[p].line = read
        BY <1>2, PiecesJoin DEF IInv
    <2>2. first \in first..Len(pieces') /\ Len(pieces') \in first..Len(pieces')
        BY <1>3
    <2> HIDE DEF first
    <2> QED
        BY <1>2, <2>1, <2>2
<1>5. /\ InRow(chunks)
      /\ \A k \in 1..Len(chunks) : /\ chunks[k].lo \in 1..Len(pieces) /\ chunks[k].hi \in 1..Len(pieces)
                                   /\ Behind(chunks[k].lo)
    BY <1>1, SegmentEnds DEF Behind, RInv, ChildrenBefore
<1>6. CASE Buffered /\ full = TRUE
    <2>1. chunks' = Flushed /\ buffer'.lo = buffer.tail
        BY <1>2, <1>6
    <2>2. /\ InRow(Flushed)
          /\ \A k \in 1..Len(Flushed) : /\ Flushed[k].lo \in 1..Len(pieces) /\ Flushed[k].hi \in 1..Len(pieces)
                                        /\ Behind(Flushed[k].lo)
          /\ \A k \in 1..Len(Flushed) : Flushed[k].lo <= buffer.tail /\ Follows(buffer.tail, Flushed[k])
        BY <1>1, <1>6, FlushFollows DEF Behind
    <2>3. Behind(buffer.tail)
        <3>1. buffer.lo \in Nat /\ buffer.tail \in Nat
            BY DEF IInv, TypeOK
        <3>2. Behind(buffer.lo) /\ buffer.lo <= buffer.tail
            BY <1>1, <1>6, <3>1 DEF Behind, RInv, ChildrenBefore, IInv, BufferHolds, Buffered
        <3>3. \A j \in 1..Len(children) : children[j].hi \in Nat
            BY SegmentEnds
        <3> QED
            BY <3>1, <3>2, <3>3 DEF Behind
    <2> QED
        BY <1>1, <1>3, <1>4, <2>1, <2>2, <2>3, ReadRepeats
<1>7. CASE Buffered /\ full = FALSE
    <2>1. chunks' = chunks /\ buffer'.lo = buffer.lo
        BY <1>2, <1>7
    <2>2. /\ Behind(buffer.lo)
          /\ \A k \in 1..Len(chunks) : chunks[k].lo <= buffer.lo /\ Follows(buffer.lo, chunks[k])
        BY <1>1, <1>7 DEF Behind, RInv, ChildrenBefore, BufferFollows
    <2> QED
        BY <1>1, <1>3, <1>4, <1>5, <2>1, <2>2, ReadRepeats
<1>8. CASE ~Buffered
    <2>1. chunks' = chunks /\ buffer'.lo = first
        BY <1>2, <1>8
    <2>2. Behind(first)
        <3>1. \A j \in 1..Len(children) : children[j].hi \in 1..Len(pieces)
            BY SegmentEnds
        <3> QED
            BY <1>3, <3>1 DEF Behind
    <2>3. \A k \in 1..Len(chunks) : chunks[k].lo <= first /\ Follows(first, chunks[k])
        BY <1>3, <1>5 DEF Follows
    <2> HIDE DEF first
    <2> QED
        BY <1>1, <1>3, <1>4, <1>5, <2>1, <2>2, <2>3, ReadRepeats
<1> QED
    BY <1>2, <1>6, <1>7, <1>8

LEMMA PageEndsRepeats ==
    ASSUME IInv, IInv', RInv, PageEnds
    PROVE  RInv'
<1>1. /\ phase = "read" /\ phase' = "split" /\ chunks' = Flushed /\ split' = BeginSplit(chunks')
      /\ buffer' = NoBuffer /\ UNCHANGED <<read, pieces, children>>
    BY DEF PageEnds
<1>2. /\ InRow(Flushed) /\ Len(pieces) \in Nat
      /\ \A k \in 1..Len(Flushed) : Flushed[k].lo \in 1..Len(pieces) /\ Flushed[k].hi \in 1..Len(pieces)
      /\ \A j \in 1..Len(children), k \in 1..Len(Flushed) : children[j].hi < Flushed[k].lo
      /\ \A j \in 1..Len(children) : children[j].hi \in 1..Len(pieces)
    BY <1>1, FlushFollows, SegmentEnds
<1>3. LinesRise' /\ RepeatsOneUnit'
    <2>1. Longer
        BY <1>1, <1>2 DEF Longer
    <2> QED
        BY <1>1, <2>1, RepeatsStays DEF RInv, LinesRise
<1>4. InRow(chunks)'
    BY <1>1, <1>2 DEF InRow, Follows, SameLine
<1>5. BufferFollows'
    BY <1>1 DEF BufferFollows, Buffered, NoBuffer
<1>6. ChildrenBefore'
    <2>1. ASSUME NEW j \in 1..Len(children), NEW k \in 2..Len(chunks')
          PROVE  ~(chunks'[k].lo <= children[j].hi)
        <3>1. k \in 1..Len(Flushed) /\ chunks'[k] = Flushed[k]
            BY <1>1, FlushedIsTyped
        <3> QED
            BY <1>2, <3>1
    <2> QED
        BY <1>1, <2>1 DEF ChildrenBefore, Follows
<1>7. SplitFollows'
    <2>1. ASSUME chunks' # <<>>
          PROVE  /\ split'.lo = chunks'[1].lo /\ split'.last = split'.lo /\ split'.next = split'.lo
                 /\ split'.lo \in Nat /\ \A j \in 1..Len(children) : ~(split'.lo <= children[j].hi)
        <3>1. chunks' \in Seq(Chunk) /\ 1 \in 1..Len(chunks')
            BY <1>1, <2>1, EmptySeq, FlushedIsTyped
        <3>2. split'.lo = chunks'[1].lo /\ split'.last = split'.lo /\ split'.next = split'.lo
            BY <1>1, <2>1, <3>1 DEF BeginSplit
        <3> QED
            BY <1>1, <1>2, <3>1, <3>2
    <2>2. ASSUME chunks' # <<>>
          PROVE  /\ \A p \in split'.last..(split'.next - 2) : ~pieces'[p].ends
                 /\ ~(split'.lo > chunks'[1].lo)
        BY <2>1, <2>2
    <2> QED
        BY <1>1, <2>1, <2>2 DEF SplitFollows
<1> QED
    BY <1>3, <1>4, <1>5, <1>6, <1>7 DEF RInv

\* What the rest of the first chunk begins with: there is no gap before it, and
\* it repeats one unit at most.
LEMMA RestBegins ==
    ASSUME IInv, RInv, phase = "split", chunks # <<>>
    PROVE  /\ split.lo \in 1..Len(pieces)
           /\ split.lo = 1 \/ \E j \in 1..Len(children) : split.lo <= children[j].hi + 1
           /\ \A j \in 1..Len(children) : split.lo <= children[j].hi => Unit(split.lo, children[j].hi)
<1>1. /\ split.lo \in Nat /\ split.last \in Nat /\ chunks[1].lo \in Nat /\ 1 \in 1..Len(chunks)
      /\ chunks[1].lo \in 1..Len(pieces) /\ chunks[1].hi \in 1..Len(pieces) /\ Len(pieces) \in Nat
      /\ split.lo >= chunks[1].lo /\ split.lo <= split.last /\ split.last <= chunks[1].hi
    BY FirstChunk, SplitFacts, SegmentEnds
<1>2. /\ \A j \in 1..Len(children) : split.lo <= children[j].hi => Unit(split.lo, children[j].hi)
      /\ split.lo > chunks[1].lo => \E j \in 1..Len(children) : split.lo <= children[j].hi + 1
    BY DEF RInv, SplitFollows
<1>3. CASE split.lo > chunks[1].lo
    BY SMTT(60), <1>1, <1>2, <1>3
<1>4. CASE split.lo = 1
    BY <1>1, <1>2, <1>4
<1>5. CASE split.lo = chunks[1].lo /\ split.lo # 1
    <2> DEFINE p == split.lo - 1
    <2>1. p \in 1..Len(pieces)
        BY <1>1, <1>5
    <2>2. \/ \E k \in 1..Len(children) : Within(p, children[k])
          \/ \E k \in 1..Len(chunks) : Within(p, chunks[k]) /\ (k = 1 => p >= split.lo)
        <3> HIDE DEF p
        <3> QED
            BY <2>1, PlacedInSplit
    <2>3. ASSUME NEW k \in 1..Len(chunks), Within(p, chunks[k]), k = 1 => p >= split.lo
          PROVE  FALSE
        <3>1. k # 1
            BY <1>1, <2>3
        <3>2. chunks[1].lo <= chunks[k].lo
            BY <1>1, <3>1, SegmentEnds DEF RInv, InRow
        <3>3. chunks[k].lo \in Nat
            BY SegmentEnds
        <3> QED
            BY <1>1, <1>5, <2>1, <2>3, <3>2, <3>3 DEF Within
    <2>4. PICK k \in 1..Len(children) : Within(p, children[k])
        BY <2>2, <2>3
    <2>5. split.lo <= children[k].hi + 1
        BY <1>1, <2>1, <2>4, SegmentEnds DEF Within
    <2> QED
        BY SMTT(60), <1>1, <1>2, <2>5
<1> QED
    BY <1>1, <1>3, <1>4, <1>5

\* So a child that begins there repeats one unit at most.
LEMMA RepeatsAppend ==
    ASSUME IInv, RInv, phase = "split", chunks # <<>>, UNCHANGED pieces,
           NEW c \in Chunk, Holds(c), c.lo = split.lo, children' = Append(children, c)
    PROVE  RepeatsOneUnit'
<1> DEFINE n == Len(children)
<1>1. /\ DOMAIN children' = 1..(n + 1) /\ children'[n + 1] = c /\ n \in Nat
      /\ DOMAIN children = 1..n
      /\ \A k \in 1..n : children'[k] = children[k]
    BY NewChild, Sequences DEF IInv
<1>2. /\ c.lo = 1 \/ \E j \in 1..n : c.lo <= children[j].hi + 1
      /\ \A j \in 1..n : c.lo <= children[j].hi => Unit(c.lo, children[j].hi)
    BY RestBegins
<1>3. RepeatsOneUnit
    BY DEF RInv
<1> SUFFICES ASSUME NEW k \in 1..(n + 1)
             PROVE  /\ children'[k].lo = 1 \/ \E j \in 1..(k - 1) : children'[k].lo <= children'[j].hi + 1
                    /\ \A j \in 1..(k - 1) : children'[k].lo <= children'[j].hi =>
                          Unit(children'[k].lo, children'[j].hi)
    BY ZenonT(60), <1>1 DEF RepeatsOneUnit, Unit
<1> HIDE DEF n
<1>4. CASE k = n + 1
    <2>1. \A j \in 1..(k - 1) : j \in 1..n
        BY <1>1, <1>4
    <2>2. \A j \in 1..n : j \in 1..(k - 1)
        BY <1>1, <1>4
    <2> QED
        BY <1>1, <1>2, <1>4, <2>1, <2>2
<1>5. CASE k \in 1..n
    <2>1. \A j \in 1..(k - 1) : j \in 1..n
        BY <1>1, <1>5
    <2>2. /\ children[k].lo = 1 \/ \E j \in 1..(k - 1) : children[k].lo <= children[j].hi + 1
          /\ \A j \in 1..(k - 1) : children[k].lo <= children[j].hi => Unit(children[k].lo, children[j].hi)
        BY <1>1, <1>3, <1>5 DEF RepeatsOneUnit
    <2> QED
        BY <1>1, <1>5, <2>1, <2>2
<1> QED
    BY <1>1, <1>4, <1>5

\* The next chunk begins with a part of the last line of those before it.
LEMMA ChunkLeavesRepeats ==
    ASSUME IInv, IInv', RInv, phase = "split", chunks # <<>>,
           NEW c \in Chunk, Holds(c), c.lo = split.lo, c.hi = chunks[1].hi,
           children' = Append(children, c), chunks' = Tail(chunks), split' = BeginSplit(chunks'),
           UNCHANGED <<phase, read, pieces, buffer>>
    PROVE  RInv'
<1> DEFINE n == Len(children)
<1>1. /\ Len(children') = n + 1 /\ children'[n + 1] = c /\ n \in Nat
      /\ \A j \in 1..n : children'[j] = children[j]
      /\ \A j \in 1..(n + 1) : j \in 1..n \/ j = n + 1
    BY NewChild, Sequences DEF IInv
<1>2. /\ Len(chunks') = Len(chunks) - 1 /\ Len(chunks) \in Nat /\ chunks' \in Seq(Chunk)
      /\ \A k \in 1..Len(chunks') : k + 1 \in 1..Len(chunks) /\ chunks'[k] = chunks[k + 1]
    BY FirstChunk, Sequences DEF IInv
<1>3. RepeatsOneUnit'
    BY RepeatsAppend
<1>4. LinesRise' /\ BufferFollows'
    <2>1. buffer' = NoBuffer
        BY DEF IInv, PhaseInv
    <2> QED
        BY <2>1 DEF RInv, LinesRise, BufferFollows, Buffered, NoBuffer
<1>5. InRow(chunks)'
    <2>1. ASSUME NEW j \in 1..Len(chunks'), NEW k \in 1..Len(chunks'), j < k
          PROVE  /\ chunks'[j].lo <= chunks'[k].lo /\ chunks'[j].hi <= chunks'[k].hi
                 /\ Follows(chunks'[k].lo, chunks'[j])
        <3>1. j + 1 \in 1..Len(chunks) /\ k + 1 \in 1..Len(chunks) /\ j + 1 < k + 1
            BY <1>2, <2>1
        <3> QED
            BY <1>2, <3>1 DEF RInv, InRow
    <2> QED
        BY <2>1 DEF InRow, Follows, SameLine
\* What the chunks behind the first repeat of the children, the new one too.
<1>6. ASSUME NEW j \in 1..(n + 1), NEW k \in 2..Len(chunks) PROVE Follows(chunks[k].lo, children'[j])
    <2>1. CASE j \in 1..n
        BY <1>1, <2>1 DEF RInv, ChildrenBefore
    <2>2. CASE j = n + 1
        <3>1. k \in 1..Len(chunks) /\ 1 \in 1..Len(chunks) /\ 1 < k
            BY <1>2
        <3>2. Follows(chunks[k].lo, chunks[1])
            BY <3>1 DEF RInv, InRow
        <3> QED
            BY <1>1, <2>2, <3>2 DEF Follows
    <2> QED
        BY <1>1, <2>1, <2>2
<1>7. \A k \in 1..Len(chunks') : k + 1 \in 2..Len(chunks) /\ chunks'[k] = chunks[k + 1]
    BY <1>2
<1>8. ChildrenBefore'
    <2>1. ASSUME NEW j \in 1..(n + 1), NEW k \in 2..Len(chunks') PROVE Follows(chunks'[k].lo, children'[j])
        <3>1. k \in 1..Len(chunks')
            BY <1>2
        <3> QED
            BY <1>6, <1>7, <3>1
    <2> QED
        BY <1>1, <2>1 DEF ChildrenBefore, Follows, SameLine
<1>9. SplitFollows'
    <2>1. ASSUME chunks' # <<>>
          PROVE  /\ split'.lo = chunks'[1].lo /\ split'.last = split'.lo /\ split'.next = split'.lo
                 /\ 1 \in 1..Len(chunks') /\ split'.lo \in Nat
        <3>1. 1 \in 1..Len(chunks')
            BY <1>2, <2>1, EmptySeq
        <3>2. chunks'[1] \in Chunk /\ Head(chunks') = chunks'[1]
            BY <1>2, <2>1, <3>1
        <3> QED
            BY <2>1, <3>1, <3>2 DEF BeginSplit, Chunk
    <2>2. ASSUME chunks' # <<>>, NEW j \in 1..(n + 1), split'.lo <= children'[j].hi
          PROVE  Unit(split'.lo, children'[j].hi)
        <3>1. Follows(split'.lo, children'[j])
            BY <1>6, <1>7, <2>1, <2>2
        <3> QED
            BY <2>2, <3>1 DEF Follows, SameLine, Unit
    <2>3. ASSUME chunks' # <<>>
          PROVE  /\ \A p \in split'.last..(split'.next - 2) : ~pieces'[p].ends
                 /\ ~(split'.lo > chunks'[1].lo)
        BY <2>1, <2>3
    <2>4. ASSUME chunks' # <<>>, NEW j \in 1..Len(children'), split'.lo <= children'[j].hi
          PROVE  Unit(split'.lo, children'[j].hi)
        <3>1. j \in 1..(n + 1)
            BY <1>1
        <3> QED
            BY <2>2, <2>4, <3>1
    <2>5. Width(chunks[1].lo, chunks[1].hi)' <= ChunkSize /\ chunks' # <<>> => split'.lo = chunks'[1].lo
        BY <2>1
    <2> HIDE DEF n
    <2> QED
        BY ZenonT(60), <2>3, <2>4, <2>5 DEF SplitFollows, Unit
<1> QED
    BY <1>3, <1>4, <1>5, <1>8, <1>9 DEF RInv

\* A step of _split_large: the sentence ends with piece e, and a full buffer
\* becomes the child c.
SentenceTaken(full, overlap, e, c) ==
    /\ e \in split.next..chunks[1].hi
    /\ \A q \in split.next..(e - 1) : ~pieces[q].ends
    /\ full <=> split.lo < split.next /\ split.chars + Width(split.next, e) + 1 >= ChunkSize
    /\ overlap => full
    /\ full => /\ c \in Chunk /\ Holds(c) /\ c.lo = split.lo /\ c.hi = split.next - 1
               /\ children' = Append(children, c)
    /\ ~full => children' = children
    /\ split'.next = e + 1 /\ split'.last = split.next
    /\ split'.lo = IF overlap THEN split.last ELSE IF full THEN split.next ELSE split.lo
    /\ split'.chars = Width(split.next, e) + 1
                      + (IF overlap THEN Width(split.last, split.next - 1)
                         ELSE IF full THEN 0 ELSE split.chars)

LEMMA SentenceIsTaken ==
    ASSUME IInv, SplitSentence
    PROVE  \E full \in BOOLEAN, overlap \in BOOLEAN, e \in Nat : \E c : SentenceTaken(full, overlap, e, c)
<1> DEFINE s == split.next
           e == SentenceEnd(s, chunks[1].hi)
           c == Cut(split.lo, s - 1)
           f == split.lo < s /\ split.chars + Width(s, e) + 1 >= ChunkSize
           o == f /\ ChunkOverlap > 0
<1>1. phase = "split" /\ chunks # <<>>
    BY DEF SplitSentence, Splitting
<1>2. /\ split.lo \in chunks[1].lo..split.last /\ split.last \in chunks[1].lo..chunks[1].hi
      /\ split.next \in split.last..(chunks[1].hi + 1)
      /\ split.lo \in Nat /\ split.last \in Nat /\ split.next \in Nat /\ split.chars \in Int
      /\ Head(chunks) = chunks[1]
      /\ chunks[1].lo \in Nat /\ chunks[1].hi \in Nat
    BY <1>1, SplitFacts, FirstChunk
<1>3. s <= chunks[1].hi
    BY <1>2 DEF SplitSentence
<1>4. e \in s..chunks[1].hi /\ e \in Nat /\ \A q \in s..(e - 1) : ~pieces[q].ends
    <2>1. s \in Nat /\ chunks[1].hi \in Nat /\ s <= chunks[1].hi
        BY <1>2, <1>3
    <2> HIDE DEF s
    <2>2. /\ SentenceEnd(s, chunks[1].hi) \in s..chunks[1].hi
          /\ \A q \in s..(SentenceEnd(s, chunks[1].hi) - 1) : ~pieces[q].ends
        BY <2>1, SentenceEndInside
    <2>3. SentenceEnd(s, chunks[1].hi) \in Nat
        BY <2>1, <2>2
    <2> QED
        BY <2>2, <2>3
<1>5. /\ children' = IF f THEN Append(children, c) ELSE children
      /\ split' = [next  |-> e + 1,
                   last  |-> s,
                   lo    |-> IF o THEN split.last ELSE IF f THEN s ELSE split.lo,
                   chars |-> Width(s, e) + 1 + (IF o THEN Width(split.last, s - 1)
                                                ELSE IF f THEN 0 ELSE split.chars)]
    BY <1>2 DEF SplitSentence
<1>6. f => c \in Chunk /\ Holds(c) /\ c.lo = split.lo /\ c.hi = s - 1
    <2>1. f => s - 1 \in Nat /\ split.lo <= s - 1 /\ s - 1 <= chunks[1].hi
               /\ chunks[1].lo <= split.lo
        BY <1>2, <1>3
    <2> HIDE DEF f
    <2> QED
        BY <1>1, <1>2, <2>1, CutHolds DEF c
<1>7. f \in BOOLEAN /\ o \in BOOLEAN /\ (o => f)
    OBVIOUS
<1>8. f <=> split.lo < s /\ split.chars + Width(s, e) + 1 >= ChunkSize
    OBVIOUS
<1> HIDE DEF c, f, o, e
<1>9. /\ split'.next = e + 1 /\ split'.last = s
      /\ split'.lo = IF o THEN split.last ELSE IF f THEN s ELSE split.lo
      /\ split'.chars = Width(s, e) + 1 + (IF o THEN Width(split.last, s - 1)
                                           ELSE IF f THEN 0 ELSE split.chars)
    BY <1>5
<1>10. SentenceTaken(f, o, e, c)
    <2>1. (f => children' = Append(children, c)) /\ (~f => children' = children)
        BY <1>5
    <2> HIDE DEF s
    <2>2. /\ f => c \in Chunk /\ Holds(c) /\ c.lo = split.lo /\ c.hi = split.next - 1
          /\ e \in split.next..chunks[1].hi /\ \A q \in split.next..(e - 1) : ~pieces[q].ends
          /\ f <=> split.lo < split.next /\ split.chars + Width(split.next, e) + 1 >= ChunkSize
        BY <1>4, <1>6, <1>8 DEF s
    <2>3. /\ split'.next = e + 1 /\ split'.last = split.next
          /\ split'.lo = IF o THEN split.last ELSE IF f THEN split.next ELSE split.lo
          /\ split'.chars = Width(split.next, e) + 1 + (IF o THEN Width(split.last, split.next - 1)
                                                       ELSE IF f THEN 0 ELSE split.chars)
        BY <1>9 DEF s
    <2> QED
        BY <1>7, <2>1, <2>2, <2>3 DEF SentenceTaken
<1> QED
    BY <1>4, <1>7, <1>10

\* The loop keeps one sentence at most: what it begins with again is a unit of
\* the child just made.
LEMMA SplitSentenceRepeats ==
    ASSUME IInv, IInv', RInv, SplitSentence
    PROVE  RInv'
<1> DEFINE n == Len(children)
           s == split.next
<1>1. /\ phase = "split" /\ chunks # <<>>
      /\ UNCHANGED <<phase, read, pieces, buffer, chunks>>
      /\ Width(chunks[1].lo, chunks[1].hi) > ChunkSize
    BY FirstChunk DEF SplitSentence, Splitting
<1>2. /\ split.lo \in Nat /\ split.last \in Nat /\ s \in Nat /\ 1 \in 1..Len(chunks)
      /\ chunks[1].lo \in 1..Len(pieces) /\ chunks[1].hi \in 1..Len(pieces)
      /\ chunks[1].lo <= split.lo /\ split.lo <= split.last
      /\ split.last <= s /\ split.last <= chunks[1].hi /\ s <= chunks[1].hi + 1
      /\ Len(pieces) \in Nat /\ n \in Nat
      /\ split.lo \in 1..Len(pieces) /\ split.last \in 1..Len(pieces)
      /\ Width(chunks[1].lo, chunks[1].hi) \in Int
    <2>1. /\ split.lo \in Nat /\ split.last \in Nat /\ s \in Nat /\ 1 \in 1..Len(chunks)
          /\ chunks[1].lo \in 1..Len(pieces) /\ chunks[1].hi \in 1..Len(pieces)
          /\ chunks[1].lo <= split.lo /\ split.lo <= split.last
          /\ split.last <= s /\ split.last <= chunks[1].hi /\ s <= chunks[1].hi + 1
          /\ Len(pieces) \in Nat /\ n \in Nat
        BY <1>1, FirstChunk, SplitFacts, SegmentEnds
    <2>2. split.lo \in 1..Len(pieces) /\ split.last \in 1..Len(pieces)
        BY <2>1
    <2> QED
        BY <2>1, <2>2, WidthIsInt DEF IInv
<1>3a. PICK full \in BOOLEAN, overlap \in BOOLEAN, e \in Nat : \E c : SentenceTaken(full, overlap, e, c)
    BY SentenceIsTaken
<1>3. PICK c : SentenceTaken(full, overlap, e, c)
    BY <1>3a
<1>4. /\ e >= s /\ e <= chunks[1].hi /\ s \in 1..Len(pieces) /\ e \in 1..Len(pieces)
      /\ \A q \in s..(e - 1) : ~pieces[q].ends
      /\ full => split.lo < s
      /\ overlap => full
      /\ split'.next = e + 1 /\ split'.last = s
      /\ split'.lo = IF overlap THEN split.last ELSE IF full THEN s ELSE split.lo
    <2>1. /\ e \in s..chunks[1].hi /\ \A q \in s..(e - 1) : ~pieces[q].ends
          /\ full => split.lo < s
          /\ overlap => full
          /\ split'.next = e + 1 /\ split'.last = s
          /\ split'.lo = IF overlap THEN split.last ELSE IF full THEN s ELSE split.lo
        BY <1>3 DEF SentenceTaken
    <2>2. s >= 1 /\ chunks[1].hi \in Nat /\ chunks[1].hi <= Len(pieces)
        BY <1>2
    <2>3. e >= s /\ e <= chunks[1].hi /\ s \in 1..Len(pieces) /\ e \in 1..Len(pieces)
        BY SMTT(60), <1>2, <2>1, <2>2
    <2> QED
        BY <2>1, <2>3
<1>5. LinesRise' /\ InRow(chunks)' /\ BufferFollows'
    <2>1. buffer' = NoBuffer
        BY <1>1 DEF IInv, PhaseInv
    <2> QED
        BY <1>1, <2>1 DEF RInv, LinesRise, InRow, Follows, SameLine, BufferFollows, Buffered, NoBuffer
<1>6. \A k \in 2..Len(chunks) : /\ k \in 1..Len(chunks) /\ chunks[k].lo \in 1..Len(pieces)
                                /\ Follows(chunks[k].lo, chunks[1])
    <2>1. ASSUME NEW k \in 2..Len(chunks)
          PROVE  /\ k \in 1..Len(chunks) /\ chunks[k].lo \in 1..Len(pieces)
                 /\ Follows(chunks[k].lo, chunks[1])
        <3>1. k \in 1..Len(chunks) /\ 1 < k
            BY SegmentEnds
        <3> QED
            BY <1>2, <3>1, SegmentEnds DEF RInv, InRow
    <2> QED
        BY <2>1
<1>7. CASE ~full
    <2>1. children' = children /\ split'.lo = split.lo /\ ~overlap
        BY <1>3, <1>4, <1>7 DEF SentenceTaken
    <2>2. RepeatsOneUnit' /\ ChildrenBefore'
        BY <1>1, <2>1 DEF RInv, RepeatsOneUnit, Unit, ChildrenBefore, Buffered, Follows, SameLine
    <2>3. SplitFollows'
        <3>1. \A p \in s..(split'.next - 2) : ~pieces[p].ends
            BY <1>4
        <3>2. /\ \A j \in 1..n : split.lo <= children[j].hi => Unit(split.lo, children[j].hi)
              /\ split.lo > chunks[1].lo => \E j \in 1..n : split.lo <= children[j].hi + 1
            BY <1>1 DEF RInv, SplitFollows
        <3>3. ~(Width(chunks[1].lo, chunks[1].hi) <= ChunkSize)
            BY <1>1, <1>2, ChunkerAssumption
        <3> QED
            BY <1>1, <1>4, <2>1, <3>1, <3>2, <3>3 DEF SplitFollows, Unit, Width
    <2> QED
        BY <1>5, <2>2, <2>3 DEF RInv
<1>8. CASE full
    <2>1. /\ c \in Chunk /\ Holds(c) /\ c.lo = split.lo /\ c.hi = s - 1
          /\ children' = Append(children, c)
        BY <1>3, <1>8 DEF SentenceTaken
    <2>2. /\ Len(children') = n + 1 /\ children'[n + 1] = c
          /\ \A j \in 1..n : children'[j] = children[j]
          /\ \A j \in 1..(n + 1) : j \in 1..n \/ j = n + 1
        BY <1>2, <2>1, NewChild
    <2>3. RepeatsOneUnit'
        BY <1>1, <2>1, RepeatsAppend
    <2>4. s - 1 \in 1..Len(pieces) /\ split.lo <= s - 1
        BY SMTT(60), <1>2, <1>4, <1>8
    <2>5. ChildrenBefore'
        <3>1. ASSUME NEW j \in 1..(n + 1), NEW k \in 2..Len(chunks) PROVE Follows(chunks[k].lo, children'[j])
            <4>1. CASE j \in 1..n
                BY <1>1, <2>2, <4>1 DEF RInv, ChildrenBefore
            <4>2. CASE j = n + 1
                <5>1. ASSUME chunks[k].lo <= s - 1 PROVE SameLine(chunks[k].lo, s - 1)
                    <6>0. chunks[k].lo \in Nat /\ chunks[1].hi \in Nat /\ s \in Nat /\ s <= chunks[1].hi + 1
                        BY SMTT(60), <1>2, <1>6
                    <6>1. chunks[k].lo <= chunks[1].hi /\ s - 1 <= chunks[1].hi
                        BY <5>1, <6>0
                    <6>2. SameLine(chunks[k].lo, chunks[1].hi)
                        BY <1>6, <6>1 DEF Follows
                    <6> DEFINE m == s - 1
                    <6>3. chunks[k].lo \in 1..Len(pieces) /\ m \in 1..Len(pieces)
                          /\ chunks[1].hi \in 1..Len(pieces) /\ chunks[k].lo <= m /\ m <= chunks[1].hi
                        BY <1>2, <1>6, <2>4, <5>1, <6>1
                    <6> HIDE DEF m
                    <6>4. SameLine(chunks[k].lo, m)
                        BY <6>2, <6>3, LinePart
                    <6> QED
                        BY <6>4 DEF m
                <5> QED
                    BY <2>1, <2>2, <4>2, <5>1 DEF Follows
            <4> QED
                BY <2>2, <4>1, <4>2
        <3> QED
            BY <1>1, <2>2, <3>1 DEF ChildrenBefore, Follows, SameLine
    <2>6. /\ split'.lo \in 1..Len(pieces) /\ split.lo <= split'.lo /\ split'.lo <= s
          /\ split'.lo = s \/ split'.lo = split.last
        BY <1>2, <1>4, <1>8
    <2>7. ASSUME NEW j \in 1..(n + 1), split'.lo <= children'[j].hi
          PROVE  Unit(split'.lo, children'[j].hi)
        <3>1. CASE j \in 1..n
            <4>1. children'[j] = children[j] /\ children[j].hi \in 1..Len(pieces)
                BY <2>2, <3>1, SegmentEnds
            <4>2. split.lo <= children[j].hi
                BY SMTT(60), <1>2, <2>6, <2>7, <4>1
            <4>3. Unit(split.lo, children[j].hi)
                BY <1>1, <3>1, <4>2, RestBegins
            <4> QED
                BY <1>2, <2>6, <2>7, <4>1, <4>3, UnitPart
        <3>2. CASE j = n + 1
            <4>1. children'[j].hi = s - 1 /\ split'.lo = split.last
                BY <1>2, <2>1, <2>2, <2>6, <2>7, <3>2
            <4>2. \A p \in split.last..(s - 2) : ~pieces[p].ends
                BY <1>1 DEF RInv, SplitFollows
            <4>3. s - 1 - 1 = s - 2
                BY <1>2
            <4> QED
                BY <4>1, <4>2, <4>3 DEF Unit
        <3> QED
            BY <2>2, <3>1, <3>2
    <2>8. \E j \in 1..(n + 1) : split'.lo <= children'[j].hi + 1
        <3>1. n + 1 \in 1..(n + 1) /\ children'[n + 1].hi = s - 1
            BY <1>2, <2>1, <2>2
        <3>2. children'[n + 1].hi + 1 = s
            BY <1>2, <3>1
        <3> QED
            BY <2>6, <3>1, <3>2
    <2>9. SplitFollows'
        <3>1. \A p \in s..(split'.next - 2) : ~pieces[p].ends
            BY <1>4
        <3>2. ~(Width(chunks[1].lo, chunks[1].hi) <= ChunkSize)
            BY <1>1, <1>2, ChunkerAssumption
        <3> HIDE DEF n, s
        <3>3. Len(children') = n + 1
            BY <2>2 DEF n
        <3> QED
            BY <1>1, <1>4, <2>7, <2>8, <3>1, <3>2, <3>3 DEF SplitFollows, Unit, Width, s
    <2> QED
        BY <1>5, <2>3, <2>5, <2>9 DEF RInv
<1> QED
    BY <1>7, <1>8

\* A chunk that fits is a child as it is; of one that does not, the rest.
LEMMA KeepChunkRepeats ==
    ASSUME IInv, IInv', RInv, KeepChunk \/ SplitEnds
    PROVE  RInv'
<1>1. /\ phase = "split" /\ chunks # <<>> /\ chunks' = Tail(chunks) /\ split' = BeginSplit(chunks')
      /\ UNCHANGED <<phase, read, pieces, buffer>>
    BY DEF KeepChunk, SplitEnds, Splitting
<1>2. /\ Head(chunks) = chunks[1] /\ chunks[1] \in Chunk /\ Holds(chunks[1])
      /\ chunks[1].lo \in Nat /\ chunks[1].hi \in Nat /\ split.lo \in Nat /\ split.last \in Nat
      /\ chunks[1].lo <= split.lo /\ split.lo <= chunks[1].hi
    BY <1>1, FirstChunk, SplitFacts
<1>3. CASE KeepChunk
    <2>1. children' = Append(children, chunks[1]) /\ Width(chunks[1].lo, chunks[1].hi) <= ChunkSize
        BY <1>2, <1>3 DEF KeepChunk
    <2>2. chunks[1].lo = split.lo
        BY <1>1, <2>1 DEF RInv, SplitFollows
    <2> QED
        BY <1>1, <1>2, <2>1, <2>2, ChunkLeavesRepeats
<1>4. CASE SplitEnds
    <2> DEFINE c == Cut(split.lo, chunks[1].hi)
    <2>1. children' = Append(children, c)
        BY <1>2, <1>4 DEF SplitEnds
    <2>2. c \in Chunk /\ Holds(c) /\ c.lo = split.lo /\ c.hi = chunks[1].hi
        BY <1>1, <1>2, CutHolds
    <2> HIDE DEF c
    <2> QED
        BY <1>1, <2>1, <2>2, ChunkLeavesRepeats
<1> QED
    BY <1>3, <1>4

\* Between pages, and when the segments are grouped, there is no chunk left.
LEMMA QuietRepeats ==
    ASSUME IInv, IInv', RInv, chunks = <<>>, UNCHANGED <<read, pieces, children, buffer, chunks>>,
           phase # "read"
    PROVE  RInv'
<1>1. buffer' = NoBuffer /\ chunks' = <<>> /\ Len(chunks') = 0
    BY EmptySeq DEF IInv, PhaseInv
<1>2. LinesRise' /\ InRow(chunks)' /\ RepeatsOneUnit'
    BY <1>1 DEF RInv, LinesRise, InRow, RepeatsOneUnit, Unit
<1>3. BufferFollows' /\ ChildrenBefore' /\ SplitFollows'
    BY <1>1 DEF BufferFollows, ChildrenBefore, SplitFollows, Buffered, NoBuffer
<1> QED
    BY <1>2, <1>3 DEF RInv

LEMMA RepeatsStep == IInv /\ IInv' /\ RInv /\ [ChunkerNext]_chunkerVars => RInv'
<1> SUFFICES ASSUME IInv, IInv', RInv, [ChunkerNext]_chunkerVars PROVE RInv'
    OBVIOUS
<1>1. CASE NextPage
    BY <1>1, QuietRepeats DEF NextPage
<1>2. CASE GroupChild \/ GroupsEnd
    <2>1. /\ phase # "read" /\ chunks = <<>> /\ UNCHANGED <<read, pieces, children, buffer, chunks>>
        BY <1>2 DEF GroupChild, GroupsEnd, IInv, PhaseInv
    <2> QED
        BY <2>1, QuietRepeats
<1>3. CASE UNCHANGED chunkerVars
    BY <1>3 DEF chunkerVars, RInv, LinesRise, InRow, Follows, SameLine, BufferFollows, Buffered,
       ChildrenBefore, SplitFollows, Unit, Width, RepeatsOneUnit
<1> QED
    BY <1>1, <1>2, <1>3, BlankLineRepeats, HeadingLineRepeats, TextLineRepeats, PageEndsRepeats,
       KeepChunkRepeats, SplitSentenceRepeats DEF ChunkerNext

-----------------------------------------------------------------------------
(* How long a child gets. *)

\* The length of a run is that of its parts and the space between them.
LEMMA WidthAdds ==
    ASSUME IInv, Contiguous, NEW a \in 1..Len(pieces), NEW b \in 1..Len(pieces), NEW c \in 1..Len(pieces),
           a <= b, b < c
    PROVE  /\ Width(a, b) \in Int /\ Width(b + 1, c) \in Int
           /\ Width(a, c) = Width(a, b) + 1 + Width(b + 1, c)
<1>1. b + 1 \in 1..Len(pieces) /\ b \in 1..(Len(pieces) - 1) /\ Len(pieces) \in Nat
    BY Sequences DEF IInv
<1>2. pieces[a] \in Piece /\ pieces[b] \in Piece /\ pieces[c] \in Piece /\ pieces[b + 1] \in Piece
    BY <1>1, Sequences DEF IInv
<1>3. pieces[b + 1].start = pieces[b].stop + 1
    BY <1>1 DEF Contiguous
<1>4. /\ pieces[a].start \in Int /\ pieces[b].stop \in Int /\ pieces[c].stop \in Int
      /\ pieces[b + 1].start \in Int
    BY <1>2 DEF Piece
<1>5. /\ Width(a, b) = pieces[b].stop - pieces[a].start /\ Width(a, c) = pieces[c].stop - pieces[a].start
      /\ Width(b + 1, c) = pieces[c].stop - pieces[b + 1].start
    BY DEF Width
<1> HIDE DEF Width
<1> DEFINE u == pieces[a].start
           v == pieces[b].stop
           w == pieces[c].stop
           x == pieces[b + 1].start
<1>6. u \in Int /\ v \in Int /\ w \in Int /\ x \in Int /\ x = v + 1
    BY <1>3, <1>4
<1>7. Width(a, b) = v - u /\ Width(a, c) = w - u /\ Width(b + 1, c) = w - x
    BY <1>5
<1> HIDE DEF u, v, w, x
<1> QED
    BY SMTT(60), <1>6, <1>7

\* A child that was long enough stays what it was while the text grows.
LEMMA SizeStays ==
    ASSUME IInv, SizeBound, Longer, UNCHANGED children
    PROVE  SizeBound'
<1>1. /\ \A k \in 1..Len(children) : children[k].lo \in 1..Len(pieces) /\ children[k].hi \in 1..Len(pieces)
      /\ DOMAIN children = 1..Len(children) /\ Len(pieces) \in Nat
    BY SegmentEnds, Sequences DEF IInv
<1>2. \A p \in 1..Len(pieces) : pieces'[p] = pieces[p]
    BY DEF Longer
<1>3. ASSUME NEW k \in 1..Len(children), Width(children[k].lo, children[k].hi)' > ChunkSize
      PROVE  AtMostOneBreak(children[k].lo, children[k].hi)'
    <2>1. Width(children[k].lo, children[k].hi) > ChunkSize
        BY <1>1, <1>2, <1>3 DEF Width
    <2>2. AtMostOneBreak(children[k].lo, children[k].hi)
        BY <1>1, <2>1 DEF SizeBound
    <2>3. \A p \in children[k].lo..(children[k].hi - 1) : p \in 1..Len(pieces)
        BY <1>1
    <2> QED
        BY <1>2, <2>2, <2>3 DEF AtMostOneBreak
<1> QED
    BY <1>1, <1>3 DEF SizeBound

\* A new child that fits, or has one break, keeps the bound.
LEMMA SizeAppend ==
    ASSUME IInv, SizeBound, UNCHANGED pieces, NEW c \in Chunk, Holds(c), children' = Append(children, c),
           Width(c.lo, c.hi) > ChunkSize => AtMostOneBreak(c.lo, c.hi)
    PROVE  SizeBound'
<1>1. /\ DOMAIN children' = 1..(Len(children) + 1) /\ children'[Len(children) + 1] = c
      /\ DOMAIN children = 1..Len(children)
      /\ \A k \in 1..Len(children) : children'[k] = children[k]
      /\ \A k \in 1..(Len(children) + 1) : k \in 1..Len(children) \/ k = Len(children) + 1
    BY NewChild, Sequences DEF IInv
<1>2. ASSUME NEW k \in 1..(Len(children) + 1), Width(children'[k].lo, children'[k].hi) > ChunkSize
      PROVE  AtMostOneBreak(children'[k].lo, children'[k].hi)
    <2>1. CASE k \in 1..Len(children)
        BY <1>1, <1>2, <2>1 DEF SizeBound
    <2>2. CASE k = Len(children) + 1
        BY <1>1, <1>2, <2>2
    <2> QED
        BY <1>1, <2>1, <2>2
<1> QED
    BY <1>1, <1>2 DEF SizeBound, Width, AtMostOneBreak

\* What the loop has taken of the first chunk.
LEMMA TakenFacts ==
    ASSUME IInv, LInv, phase = "split", chunks # <<>>, split.lo < split.next
    PROVE  /\ split.last < split.next /\ split.lo \in 1..Len(pieces) /\ split.last \in 1..Len(pieces)
           /\ split.next - 1 \in 1..Len(pieces) /\ split.lo <= split.next - 1
           /\ split.last <= split.next - 1
           /\ Width(split.lo, split.next - 1) \in Int /\ Width(split.last, split.next - 1) \in Int
           /\ split.chars \in {Width(split.lo, split.next - 1), Width(split.lo, split.next - 1) + 1}
           /\ \/ Width(split.lo, split.next - 1) <= ChunkSize
              \/ AtMostOneBreak(split.lo, split.next - 1)
<1>1. /\ split.lo \in Nat /\ split.last \in Nat /\ split.next \in Nat /\ 1 \in 1..Len(chunks)
      /\ chunks[1].lo \in 1..Len(pieces) /\ chunks[1].hi \in 1..Len(pieces) /\ Len(pieces) \in Nat
      /\ chunks[1].lo <= split.lo /\ split.lo <= split.last /\ split.last <= chunks[1].hi
      /\ split.next <= chunks[1].hi + 1
    BY FirstChunk, SplitFacts, SegmentEnds
<1>2. /\ split.last < split.next
      /\ split.chars \in {Width(split.lo, split.next - 1), Width(split.lo, split.next - 1) + 1}
      /\ \/ Width(split.lo, split.next - 1) <= ChunkSize
         \/ AtMostOneBreak(split.lo, split.next - 1)
    BY DEF LInv, SplitCounts
<1>3. /\ split.lo \in 1..Len(pieces) /\ split.last \in 1..Len(pieces)
      /\ split.next - 1 \in 1..Len(pieces) /\ split.lo <= split.next - 1
      /\ split.last <= split.next - 1
    BY SMTT(60), <1>1, <1>2
<1> DEFINE m == split.next - 1
<1>4. m \in 1..Len(pieces)
    BY <1>3
<1> HIDE DEF m
<1>5. Width(split.lo, m) \in Int /\ Width(split.last, m) \in Int
    BY <1>3, <1>4, WidthIsInt DEF IInv
<1> QED
    BY <1>2, <1>3, <1>5 DEF m

LEMMA ContiguousStays ==
    ASSUME IInv, Contiguous, ChunkerNext
    PROVE  Longer /\ Contiguous'
<1>0. Len(pieces) \in Nat
    BY Sequences DEF IInv
<1>1. CASE TextLine
    <2>1. PICK line \in Lines : pieces' = pieces \o NewPieces(line)
        BY <1>1 DEF TextLine
    <2>2. Longer /\ Len(pieces') \in Nat
        BY <2>1, PiecesGrow DEF Longer, IInv
    <2>3. ASSUME NEW p \in 1..(Len(pieces') - 1) PROVE pieces'[p + 1].start = pieces'[p].stop + 1
        <3>1. CASE p >= Len(pieces)
            BY <2>1, <3>1, PiecesJoin DEF IInv
        <3>2. CASE p < Len(pieces)
            <4>1. p \in 1..(Len(pieces) - 1) /\ p \in 1..Len(pieces) /\ p + 1 \in 1..Len(pieces)
                BY <1>0, <2>2, <3>2
            <4> QED
                BY <2>2, <4>1 DEF Contiguous, Longer
        <3> QED
            BY <1>0, <2>2, <3>1, <3>2
    <2> QED
        BY <2>2, <2>3 DEF Contiguous
<1>2. CASE ~TextLine
    <2>1. pieces' = pieces
        BY <1>2 DEF ChunkerNext, BlankLine, HeadingLine, PageEnds, KeepChunk, SplitSentence,
           SplitEnds, NextPage, GroupChild, GroupsEnd
    <2> QED
        BY <1>0, <2>1 DEF Contiguous, Longer
<1> QED
    BY <1>1, <1>2

\* When the next chunk begins, nothing is taken of it yet.
LEMMA NothingTaken ==
    ASSUME IInv', phase' = "split", split' = BeginSplit(chunks')
    PROVE  SplitCounts'
<1>1. ASSUME chunks' # <<>> PROVE split'.lo = split'.next /\ split'.chars = 0 /\ split'.lo \in Nat
    <2>1. split'.lo \in Nat
        BY DEF IInv, TypeOK
    <2> QED
        BY <1>1, <2>1 DEF BeginSplit
<1> QED
    BY <1>1 DEF SplitCounts

LEMMA KeepChunkSize ==
    ASSUME IInv, IInv', LInv, KeepChunk \/ SplitEnds
    PROVE  SizeBound' /\ SplitCounts'
<1>1. /\ phase = "split" /\ phase' = "split" /\ chunks # <<>> /\ split' = BeginSplit(chunks')
      /\ UNCHANGED pieces
    BY DEF KeepChunk, SplitEnds, Splitting
<1>2. /\ Head(chunks) = chunks[1] /\ chunks[1] \in Chunk /\ Holds(chunks[1])
      /\ chunks[1].lo \in Nat /\ chunks[1].hi \in Nat /\ split.lo \in Nat /\ split.last \in Nat
      /\ chunks[1].lo <= split.lo /\ split.lo <= chunks[1].hi /\ split.next <= chunks[1].hi + 1
      /\ split.next \in Nat /\ chunks[1].lo \in 1..Len(pieces) /\ chunks[1].hi \in 1..Len(pieces)
    BY <1>1, FirstChunk, SplitFacts, SegmentEnds
<1>3. SizeBound /\ ChunkSize \in Nat
    BY ChunkerAssumption DEF LInv
<1>4. CASE KeepChunk
    <2>1. children' = Append(children, chunks[1]) /\ Width(chunks[1].lo, chunks[1].hi) <= ChunkSize
        BY <1>2, <1>4 DEF KeepChunk
    <2>2. Width(chunks[1].lo, chunks[1].hi) \in Int
        BY <1>2, WidthIsInt DEF IInv
    <2>3. ~(Width(chunks[1].lo, chunks[1].hi) > ChunkSize)
        BY <1>3, <2>1, <2>2
    <2>4. SizeBound'
        BY <1>1, <1>2, <1>3, <2>1, <2>3, SizeAppend
    <2> QED
        BY <1>1, <2>4, NothingTaken
<1>5. CASE SplitEnds
    <2> DEFINE c == Cut(split.lo, chunks[1].hi)
    <2>1. children' = Append(children, c) /\ split.next > chunks[1].hi
        BY <1>2, <1>5 DEF SplitEnds
    <2>2. c \in Chunk /\ Holds(c) /\ c.lo = split.lo /\ c.hi = chunks[1].hi
        BY <1>1, <1>2, CutHolds
    <2> HIDE DEF c
    <2>3. split.lo < split.next /\ split.next - 1 = chunks[1].hi
        BY <1>2, <2>1
    <2>4. /\ Width(split.lo, chunks[1].hi) \in Int
          /\ Width(split.lo, chunks[1].hi) <= ChunkSize \/ AtMostOneBreak(split.lo, chunks[1].hi)
        BY <1>1, <2>3, TakenFacts
    <2>5. Width(c.lo, c.hi) > ChunkSize => AtMostOneBreak(c.lo, c.hi)
        BY <1>3, <2>2, <2>4
    <2>6. SizeBound'
        BY <1>1, <1>3, <2>1, <2>2, <2>5, SizeAppend
    <2> QED
        BY <1>1, <2>6, NothingTaken
<1> QED
    BY <1>4, <1>5

\* One sentence, and the sentence kept before it, have one break at most.
LEMMA OneBreak ==
    ASSUME NEW a \in Nat, NEW s \in Nat, NEW e \in Nat, a <= s, s <= e,
           \A q \in a..(s - 2) : ~pieces[q].ends, \A q \in s..(e - 1) : ~pieces[q].ends
    PROVE  AtMostOneBreak(a, e)
<1>1. CASE a = s
    <2>1. e \in a..e /\ \A p \in a..(e - 1) : pieces[p].ends => p = e
        BY <1>1
    <2> QED
        BY <2>1 DEF AtMostOneBreak
<1>2. CASE a < s
    <2>1. s - 1 \in a..e
        BY <1>2
    <2>2. ASSUME NEW p \in a..(e - 1), pieces[p].ends PROVE p = s - 1
        <3>1. p \notin a..(s - 2) /\ p \notin s..(e - 1)
            BY <2>2
        <3> QED
            BY <1>2, <3>1
    <2> QED
        BY <2>1, <2>2 DEF AtMostOneBreak
<1> QED
    BY <1>1, <1>2

\* The count is exact but for one separator, so a buffer that takes another
\* sentence still fits; one that begins anew holds the overlap and a sentence.
LEMMA SplitSentenceSize ==
    ASSUME IInv, IInv', RInv, LInv, SplitSentence
    PROVE  SizeBound' /\ SplitCounts'
<1> DEFINE s == split.next
           b == s - 1
<1>1. /\ phase = "split" /\ chunks # <<>> /\ UNCHANGED <<phase, pieces, chunks>>
    BY DEF SplitSentence, Splitting
<1>2. /\ split.lo \in Nat /\ split.last \in Nat /\ s \in Nat /\ split.chars \in Int
      /\ chunks[1].lo \in 1..Len(pieces) /\ chunks[1].hi \in 1..Len(pieces)
      /\ chunks[1].lo <= split.lo /\ split.lo <= split.last
      /\ split.last <= s /\ split.last <= chunks[1].hi
      /\ Len(pieces) \in Nat /\ split.lo \in 1..Len(pieces)
    <2>1. /\ split.lo \in Nat /\ split.last \in Nat /\ s \in Nat /\ split.chars \in Int
          /\ chunks[1].lo \in 1..Len(pieces) /\ chunks[1].hi \in 1..Len(pieces)
          /\ chunks[1].lo <= split.lo /\ split.lo <= split.last
          /\ split.last <= s /\ split.last <= chunks[1].hi
          /\ Len(pieces) \in Nat
        BY <1>1, FirstChunk, SplitFacts, SegmentEnds
    <2> QED
        BY <2>1
<1>3a. PICK full \in BOOLEAN, overlap \in BOOLEAN, e \in Nat : \E c : SentenceTaken(full, overlap, e, c)
    BY SentenceIsTaken
<1>3. PICK c : SentenceTaken(full, overlap, e, c)
    BY <1>3a
<1> DEFINE ws == Width(s, e)
<1>4. /\ e >= s /\ e <= chunks[1].hi /\ s \in 1..Len(pieces) /\ e \in 1..Len(pieces)
      /\ \A q \in s..(e - 1) : ~pieces[q].ends
    BY SMTT(60), <1>2, <1>3 DEF SentenceTaken
<1>5. /\ full <=> split.lo < s /\ split.chars + ws + 1 >= ChunkSize
      /\ overlap => full
      /\ full => /\ c \in Chunk /\ Holds(c) /\ c.lo = split.lo /\ c.hi = b
                 /\ children' = Append(children, c)
      /\ ~full => children' = children
      /\ split'.next = e + 1 /\ split'.last = s
      /\ split'.lo = IF overlap THEN split.last ELSE IF full THEN s ELSE split.lo
      /\ split'.chars = ws + 1 + (IF overlap THEN Width(split.last, b) ELSE IF full THEN 0 ELSE split.chars)
    BY <1>3 DEF SentenceTaken
<1>6. /\ Contiguous /\ SizeBound /\ ChunkSize \in Nat
      /\ split.lo = s => split.chars = 0
    BY <1>1, ChunkerAssumption DEF LInv, SplitCounts
<1>7. split.lo < s =>
         /\ split.last < s /\ split.last \in 1..Len(pieces)
         /\ b \in 1..Len(pieces) /\ split.lo <= b /\ split.last <= b
         /\ Width(split.lo, b) \in Int /\ Width(split.last, b) \in Int
         /\ split.chars \in {Width(split.lo, b), Width(split.lo, b) + 1}
         /\ Width(split.lo, b) <= ChunkSize \/ AtMostOneBreak(split.lo, b)
    BY <1>1, TakenFacts
<1>8. \A p \in split.last..(s - 2) : ~pieces[p].ends
    BY <1>1 DEF RInv, SplitFollows
<1>9. ws \in Int
    BY <1>4, WidthIsInt DEF IInv
<1>10. b + 1 = s /\ (b < e)
    BY <1>2, <1>4
<1> HIDE DEF ws, b, s
<1>11. SizeBound'
    <2>1. CASE full
        <3>1. split.lo < s
            BY <1>5, <2>1
        <3>2. Width(c.lo, c.hi) > ChunkSize => AtMostOneBreak(c.lo, c.hi)
            BY <1>5, <1>6, <1>7, <2>1, <3>1
        <3> QED
            BY <1>1, <1>5, <1>6, <2>1, <3>2, SizeAppend
    <2>2. CASE ~full
        <3>1. Longer
            BY <1>1, <1>2 DEF Longer
        <3> QED
            BY <1>5, <1>6, <2>2, <3>1, SizeStays
    <2> QED
        BY <2>1, <2>2
\* What is taken now, from lo on.
<1> DEFINE Counts(lo) == /\ lo <= s
                         /\ split'.chars \in {Width(lo, e), Width(lo, e) + 1}
                         /\ Width(lo, e) <= ChunkSize \/ AtMostOneBreak(lo, e)
<1>12. ~full /\ split.lo < s => Counts(split.lo)
    <2> SUFFICES ASSUME ~full, split.lo < s PROVE Counts(split.lo)
        OBVIOUS
    <2>1. Width(split.lo, b) \in Int /\ Width(split.lo, e) = Width(split.lo, b) + 1 + ws
        <3>0. split.lo \in 1..Len(pieces) /\ b \in 1..Len(pieces) /\ split.lo <= b
            BY <1>2, <1>7
        <3>1. Width(split.lo, e) = Width(split.lo, b) + 1 + Width(b + 1, e)
            BY <1>4, <1>6, <1>10, <3>0, WidthAdds
        <3>2. Width(split.lo, b) \in Int
            BY <1>7
        <3>3. Width(b + 1, e) = ws
            BY <1>10 DEF ws
        <3> QED
            BY <3>1, <3>2, <3>3
    <2>2. split'.chars = ws + 1 + split.chars /\ ~(split.chars + ws + 1 >= ChunkSize)
        BY <1>5
    <2>3. split.chars = Width(split.lo, b) \/ split.chars = Width(split.lo, b) + 1
        BY <1>7
    <2>4. split'.chars = Width(split.lo, e) \/ split'.chars = Width(split.lo, e) + 1
        BY <1>9, <2>1, <2>2, <2>3
    <2>5. Width(split.lo, e) <= ChunkSize
        BY <1>2, <1>6, <1>9, <2>1, <2>2, <2>3
    <2> QED
        BY <1>2, <2>4, <2>5
<1>13. (full /\ ~overlap) \/ split.lo = s => Counts(s)
    <2> SUFFICES ASSUME (full /\ ~overlap) \/ split.lo = s PROVE Counts(s)
        OBVIOUS
    <2>1. split'.chars = ws + 1
        <3>1. CASE split.lo = s
            BY <1>2, <1>5, <1>6, <1>9, <3>1
        <3>2. CASE full /\ ~overlap
            BY <1>5, <1>9, <3>2
        <3> QED
            BY <3>1, <3>2
    <2>2. AtMostOneBreak(s, e)
        <3>1. \A q \in s..(s - 2) : ~pieces[q].ends
            BY <1>2
        <3> QED
            BY SMTT(60), <1>2, <1>4, <3>1, OneBreak
    <2> QED
        BY <1>2, <1>9, <2>1, <2>2 DEF ws
<1>14. overlap => Counts(split.last)
    <2> SUFFICES ASSUME overlap PROVE Counts(split.last)
        OBVIOUS
    <2>1. split.lo < s /\ split'.chars = ws + 1 + Width(split.last, b)
        BY <1>5
    <2>2. Width(split.last, b) \in Int /\ Width(split.last, e) = Width(split.last, b) + 1 + ws
        <3>1. Width(split.last, e) = Width(split.last, b) + 1 + Width(b + 1, e)
            BY <1>2, <1>4, <1>6, <1>7, <1>10, <2>1, WidthAdds
        <3> QED
            BY <1>7, <1>10, <2>1, <3>1 DEF ws
    <2>3. AtMostOneBreak(split.last, e)
        BY <1>2, <1>4, <1>8, OneBreak
    <2> QED
        BY <1>2, <1>9, <2>1, <2>2, <2>3
<1>15. Counts(split'.lo) /\ split'.lo \in Nat
    <2>1. CASE overlap
        BY <1>2, <1>5, <1>14, <2>1
    <2>2. CASE full /\ ~overlap
        BY <1>2, <1>5, <1>13, <2>2
    <2>3. CASE ~full
        <3>1. split'.lo = split.lo /\ (split.lo < s \/ split.lo = s)
            BY <1>2, <1>5, <2>3
        <3> QED
            BY <1>2, <1>12, <1>13, <2>3, <3>1
    <2> QED
        BY <1>5, <2>1, <2>2, <2>3
<1>16. SplitCounts'
    <2>1. split'.next - 1 = e /\ split'.lo < split'.next /\ split'.last < split'.next /\ split'.lo # split'.next
        BY <1>2, <1>4, <1>5, <1>15
    <2>2. /\ split'.chars \in {Width(split'.lo, e), Width(split'.lo, e) + 1}
          /\ Width(split'.lo, e) <= ChunkSize \/ AtMostOneBreak(split'.lo, e)
        BY <1>15
    <2> QED
        BY <1>1, <2>1, <2>2 DEF SplitCounts, Width, AtMostOneBreak
<1> QED
    BY <1>11, <1>16

\* The other steps of the chunker make no child, and take nothing of a chunk.
LEMMA LengthStep == IInv /\ IInv' /\ RInv /\ LInv /\ [ChunkerNext]_chunkerVars => LInv'
<1> SUFFICES ASSUME IInv, IInv', RInv, LInv, [ChunkerNext]_chunkerVars PROVE LInv'
    OBVIOUS
<1>0. Contiguous /\ SizeBound /\ SplitCounts
    BY DEF LInv
<1>1. CASE UNCHANGED chunkerVars
    BY <1>1 DEF chunkerVars, LInv, Contiguous, SplitCounts, SizeBound, Width, AtMostOneBreak
<1>2. CASE KeepChunk \/ SplitEnds
    <2>1. Contiguous'
        BY <1>0, <1>2, ContiguousStays DEF ChunkerNext
    <2> QED
        BY <1>2, <2>1, KeepChunkSize DEF LInv
<1>3. CASE SplitSentence
    <2>1. Contiguous'
        BY <1>0, <1>3, ContiguousStays DEF ChunkerNext
    <2> QED
        BY <1>3, <2>1, SplitSentenceSize DEF LInv
<1>4. CASE BlankLine \/ HeadingLine \/ TextLine \/ PageEnds \/ NextPage \/ GroupChild \/ GroupsEnd
    <2>1. Contiguous' /\ Longer
        BY <1>0, <1>4, ContiguousStays DEF ChunkerNext
    <2>2. UNCHANGED children
        BY <1>4 DEF BlankLine, HeadingLine, TextLine, ReadLine, PageEnds, NextPage, GroupChild, GroupsEnd
    <2>3. SizeBound'
        BY <1>0, <2>1, <2>2, SizeStays
    <2>4. SplitCounts'
        <3>1. CASE PageEnds
            BY <3>1, NothingTaken DEF PageEnds
        <3>2. CASE NextPage
            BY <3>2 DEF NextPage, SplitCounts
        <3>3. CASE BlankLine \/ HeadingLine \/ TextLine \/ GroupChild \/ GroupsEnd
            BY <3>3 DEF BlankLine, HeadingLine, TextLine, ReadLine, GroupChild, GroupsEnd, SplitCounts
        <3> QED
            BY <1>4, <3>1, <3>2, <3>3
    <2> QED
        BY <2>1, <2>3, <2>4 DEF LInv
<1> QED
    BY <1>1, <1>2, <1>3, <1>4 DEF ChunkerNext

LEMMA InitLengths == EmbedInit => RInv /\ LInv
<1> SUFFICES ASSUME EmbedInit PROVE RInv /\ LInv
    OBVIOUS
<1>1. /\ phase = "read" /\ pieces = <<>> /\ buffer = NoBuffer /\ chunks = <<>> /\ children = <<>>
    BY DEF EmbedInit, Init
<1>2. Len(pieces) = 0 /\ Len(chunks) = 0 /\ Len(children) = 0
    BY <1>1
<1>3. RInv
    BY <1>1, <1>2 DEF RInv, LinesRise, InRow, BufferFollows, Buffered, NoBuffer, ChildrenBefore,
       SplitFollows, RepeatsOneUnit
<1>4. LInv
    BY <1>1, <1>2 DEF LInv, Contiguous, SplitCounts, SizeBound
<1> QED
    BY <1>3, <1>4

THEOREM LengthInvariant == Spec => [](IInv /\ RInv /\ LInv)
<1>1. IInv /\ RInv /\ LInv /\ [Next]_vars => IInv' /\ RInv' /\ LInv'
    <2> SUFFICES ASSUME IInv, RInv, LInv, [Next]_vars PROVE IInv' /\ RInv' /\ LInv'
        OBVIOUS
    <2>1. [ChunkerNext]_chunkerVars
        BY DEF Next, vars, BeginEmbedding, Embed, EmbedRaises, EmbeddingEnds
    <2>2. IInv'
        BY <2>1, ChunkerStep
    <2> QED
        BY <2>1, <2>2, RepeatsStep, LengthStep
<1>2. EmbedInit => IInv /\ RInv /\ LInv
    BY InitInvariant, InitLengths
<1> QED
    BY <1>1, <1>2, PTL DEF Spec

\* A child repeats a line or a sentence of the text before it at most and
\* leaves no gap, however the flushes of chunk_page and the splits of
\* _split_large follow one another.
THEOREM OverlapIsOneUnit == Spec => []RepeatsOneUnit
<1>1. RInv => RepeatsOneUnit
    BY DEF RInv
<1> QED
    BY <1>1, LengthInvariant, PTL

\* A child longer than chunk_size has one sentence break at most, whatever the
\* chunk size and overlap: the count of _split_large is never short.
THEOREM LengthIsBounded == Spec => []SizeBound
<1>1. LInv => SizeBound
    BY DEF LInv
<1> QED
    BY <1>1, LengthInvariant, PTL

-----------------------------------------------------------------------------
(* The parents. *)

\* The length of the children of a group.
WidthOf(g, segments, text) ==
    LET f[k \in (g.lo - 1)..g.hi] ==
            IF k < g.lo THEN 0 ELSE f[k - 1] + (text[segments[k].hi].stop - text[segments[k].lo].start)
    IN  f[g.hi]

\* A closed group of children.
GroupHolds(g) ==
    /\ g.lo \in 1..g.hi /\ g.hi \in 1..Len(children)
    /\ \A c \in g.lo..g.hi : children[c].section = children[g.lo].section
    /\ WidthOf(g, children, pieces) \in Int
    /\ g.lo < g.hi => WidthOf(g, children, pieces) <= ParentSize

\* A group is closed only before a child that does not belong to it.
Full(g) ==
    g.hi < Len(children) =>
        \/ children[g.hi + 1].section # children[g.lo].section
        \/ WidthOf(g, children, pieces) + Width(children[g.hi + 1].lo, children[g.hi + 1].hi) > ParentSize

\* The groups follow one another, and the count of the open one is its length.
GroupsHold(at, closed, open) ==
    /\ \A k \in 1..Len(closed) :
           /\ GroupHolds(closed[k]) /\ Full(closed[k])
           /\ closed[k].lo = IF k = 1 THEN 1 ELSE closed[k - 1].hi + 1
    /\ open.lo = IF closed = <<>> THEN 1 ELSE closed[Len(closed)].hi + 1
    /\ open.lo <= open.hi => GroupHolds(open) /\ open.size = WidthOf(open, children, pieces)
    /\ at \in {"read", "split"} => closed = <<>>
    /\ at = "chunked" => open.lo = open.hi + 1 /\ open.hi = Len(children)
    /\ at # "chunked" /\ open.lo > open.hi => open.size = 0

GInv == GroupsHold(phase, parents, group)

\* The running sums of the lengths of the children from lo on.
Sums(f, lo, hi) ==
    f = [k \in (lo - 1)..hi |-> IF k < lo THEN 0 ELSE f[k - 1] + Width(children[k].lo, children[k].hi)]

LEMMA SumsExist ==
    ASSUME NEW lo \in Nat \ {0}, NEW hi \in Nat, hi >= lo - 1
    PROVE  \E f : Sums(f, lo, hi)
<1> DEFINE T == {n \in Nat : n >= lo - 1 /\ ~\E f : Sums(f, lo, n)}
           w(k) == Width(children[k].lo, children[k].hi)
<1>1. SUFFICES ASSUME T # {} PROVE FALSE
    OBVIOUS
<1>2. PICK n \in T : \A y \in T : n <= y
    <2>1. T \in SUBSET Nat
        OBVIOUS
    <2> HIDE DEF T
    <2> QED
        BY <1>1, <2>1, LeastNumber
<1>3. n \in Nat /\ n >= lo - 1 /\ ~\E f : Sums(f, lo, n)
    OBVIOUS
<1>4. CASE n = lo - 1
    <2> DEFINE f == [k \in (lo - 1)..n |-> 0]
    <2>1. \A k \in (lo - 1)..n : k < lo
        BY <1>4
    <2>2. f = [k \in (lo - 1)..n |-> IF k < lo THEN 0 ELSE f[k - 1] + w(k)]
        BY <2>1
    <2>3. Sums(f, lo, n)
        BY <2>2 DEF Sums
    <2> QED
        BY <1>3, <2>3
<1>5. CASE n # lo - 1
    <2>1. n - 1 \in Nat /\ n - 1 >= lo - 1 /\ n - 1 \notin T
        BY <1>2, <1>3, <1>5
    <2>2. PICK g : Sums(g, lo, n - 1)
        BY <2>1
    <2>3. g = [k \in (lo - 1)..(n - 1) |-> IF k < lo THEN 0 ELSE g[k - 1] + w(k)]
        BY <2>2 DEF Sums
    <2> HIDE DEF T, w
    <2> DEFINE f == [k \in (lo - 1)..n |-> IF k = n THEN g[n - 1] + w(n) ELSE g[k]]
    <2>4. ASSUME NEW k \in (lo - 1)..n
          PROVE  f[k] = IF k < lo THEN 0 ELSE f[k - 1] + w(k)
        <3>1. CASE k = n
            <4>1. ~(k < lo) /\ k - 1 \in (lo - 1)..n /\ k - 1 # n
                BY <1>3, <1>5, <3>1
            <4>2. f[k] = g[n - 1] + w(n) /\ f[k - 1] = g[n - 1]
                BY <3>1, <4>1
            <4> HIDE DEF f
            <4> QED
                BY <3>1, <4>1, <4>2
        <3>2. CASE k # n
            <4>1. k \in (lo - 1)..(n - 1)
                BY <1>3, <3>2
            <4>2. f[k] = g[k]
                BY <3>2
            <4>3. g[k] = IF k < lo THEN 0 ELSE g[k - 1] + w(k)
                BY <2>3, <4>1
            <4>4. ~(k < lo) => f[k - 1] = g[k - 1]
                <5>1. ~(k < lo) => k - 1 \in (lo - 1)..n /\ k - 1 # n
                    BY <1>3, <4>1
                <5> QED
                    BY <5>1
            <4> HIDE DEF f
            <4> QED
                BY <4>2, <4>3, <4>4
        <3> QED
            BY <3>1, <3>2
    <2>5. f = [k \in (lo - 1)..n |-> f[k]]
        OBVIOUS
    <2> HIDE DEF f
    <2>6. f = [k \in (lo - 1)..n |-> IF k < lo THEN 0 ELSE f[k - 1] + w(k)]
        BY <2>4, <2>5
    <2>7. Sums(f, lo, n)
        BY <2>6 DEF Sums, w
    <2> QED
        BY <1>3, <2>7
<1> QED
    BY <1>4, <1>5

\* They do not depend on where they stop.
LEMMA SumsAgree ==
    ASSUME NEW lo \in Nat \ {0}, NEW hi \in Nat, NEW f, NEW g, hi >= lo - 1,
           Sums(f, lo, hi), Sums(g, lo, hi + 1)
    PROVE  f[hi] = g[hi]
<1> DEFINE T == {k \in Nat : k >= lo - 1 /\ k <= hi /\ f[k] # g[k]}
           w(k) == Width(children[k].lo, children[k].hi)
<1>1. SUFFICES ASSUME T # {} PROVE FALSE
    OBVIOUS
<1>2. PICK k \in T : \A y \in T : k <= y
    <2>1. T \in SUBSET Nat
        OBVIOUS
    <2> HIDE DEF T
    <2> QED
        BY <1>1, <2>1, LeastNumber
<1>3. k \in Nat /\ k >= lo - 1 /\ k <= hi /\ f[k] # g[k]
    OBVIOUS
<1>4. /\ f[k] = IF k < lo THEN 0 ELSE f[k - 1] + w(k)
      /\ g[k] = IF k < lo THEN 0 ELSE g[k - 1] + w(k)
    <2>1. /\ f = [i \in (lo - 1)..hi |-> IF i < lo THEN 0 ELSE f[i - 1] + w(i)]
          /\ g = [i \in (lo - 1)..(hi + 1) |-> IF i < lo THEN 0 ELSE g[i - 1] + w(i)]
        BY DEF Sums
    <2>2. k \in (lo - 1)..hi /\ k \in (lo - 1)..(hi + 1)
        BY <1>3
    <2> HIDE DEF T, w
    <2> QED
        BY <2>1, <2>2
<1>5. ~(k < lo)
    BY <1>3, <1>4
<1>6. k - 1 \in Nat /\ k - 1 >= lo - 1 /\ k - 1 <= hi /\ k - 1 \notin T
    BY <1>2, <1>3, <1>5
<1>7. f[k - 1] = g[k - 1]
    BY <1>6
<1> HIDE DEF T, w
<1> QED
    BY <1>3, <1>4, <1>5, <1>7

\* One child more adds its length.
LEMMA GroupGrows ==
    ASSUME NEW g, NEW h, NEW lo \in Nat \ {0}, NEW hi \in Nat, hi >= lo - 1,
           g.lo = lo, g.hi = hi, h.lo = lo, h.hi = hi + 1
    PROVE  /\ WidthOf(h, children, pieces) = WidthOf(g, children, pieces) + Width(children[hi + 1].lo, children[hi + 1].hi)
           /\ hi = lo - 1 => WidthOf(g, children, pieces) = 0
<1> DEFINE f == CHOOSE x : Sums(x, lo, hi)
           e == CHOOSE x : Sums(x, lo, hi + 1)
           w(k) == Width(children[k].lo, children[k].hi)
<1>1. Sums(f, lo, hi) /\ Sums(e, lo, hi + 1)
    <2>1. \E x : Sums(x, lo, hi)
        BY SumsExist
    <2>2. hi + 1 \in Nat /\ hi + 1 >= lo - 1
        OBVIOUS
    <2>3. \E x : Sums(x, lo, hi + 1)
        BY <2>2, SumsExist
    <2> QED
        BY <2>1, <2>3
<1>2. WidthOf(g, children, pieces) = f[hi] /\ WidthOf(h, children, pieces) = e[hi + 1]
    BY DEF WidthOf, Sums, Width
<1> HIDE DEF f, e
<1>3. f[hi] = e[hi]
    BY <1>1, SumsAgree
<1>4. /\ f = [i \in (lo - 1)..hi |-> IF i < lo THEN 0 ELSE f[i - 1] + w(i)]
      /\ e = [i \in (lo - 1)..(hi + 1) |-> IF i < lo THEN 0 ELSE e[i - 1] + w(i)]
    BY <1>1 DEF Sums
<1> HIDE DEF w
<1>5. e[hi + 1] = e[hi] + w(hi + 1)
    <2>1. hi + 1 \in (lo - 1)..(hi + 1) /\ ~(hi + 1 < lo) /\ hi + 1 - 1 = hi
        OBVIOUS
    <2> QED
        BY <1>4, <2>1
<1>6. hi = lo - 1 => f[hi] = 0
    <2>1. hi \in (lo - 1)..hi /\ (hi = lo - 1 => hi < lo)
        OBVIOUS
    <2> QED
        BY <1>4, <2>1
<1> QED
    BY <1>2, <1>3, <1>5, <1>6 DEF w

LEMMA SameGroup ==
    ASSUME NEW g, NEW h, g.lo = h.lo, g.hi = h.hi
    PROVE  /\ WidthOf(g, children, pieces) = WidthOf(h, children, pieces)
           /\ GroupHolds(g) <=> GroupHolds(h)
           /\ Full(g) <=> Full(h)
<1>1. WidthOf(g, children, pieces) = WidthOf(h, children, pieces)
    BY DEF WidthOf
<1> HIDE DEF WidthOf
<1> QED
    BY <1>1 DEF GroupHolds, Full

\* The groups are about children that do not change any more.
LEMMA GroupsStay ==
    ASSUME UNCHANGED <<children, pieces>>, GroupsHold(phase', parents', group')
    PROVE  GInv'
<1>1. children' = children /\ pieces' = pieces
    OBVIOUS
<1> QED
    BY <1>1 DEF GInv, GroupsHold, GroupHolds, Full, Width

\* A group is closed before a child of another section, or one too many.
LEMMA GroupsGrow ==
    ASSUME IInv, GInv, NEW g, g = [lo |-> group.lo, hi |-> group.hi], group.lo <= group.hi,
           Full(g), parents' = Append(parents, g)
    PROVE  /\ \A k \in 1..Len(parents') :
                  /\ GroupHolds(parents'[k]) /\ Full(parents'[k])
                  /\ parents'[k].lo = IF k = 1 THEN 1 ELSE parents'[k - 1].hi + 1
           /\ parents' # <<>> /\ parents'[Len(parents')].hi = group.hi
<1> DEFINE n == Len(parents)
<1>1. parents \in Seq([lo : Nat, hi : Nat]) /\ n \in Nat
    <2>1. parents \in Seq([lo : Nat, hi : Nat])
        BY DEF IInv, TypeOK
    <2> QED
        BY <2>1
<1>2. g \in [lo : Nat, hi : Nat] /\ g.lo = group.lo /\ g.hi = group.hi
    BY DEF IInv, TypeOK
<1>3. /\ parents' \in Seq([lo : Nat, hi : Nat]) /\ Len(parents') = n + 1
      /\ \A k \in 1..n : parents'[k] = parents[k]
      /\ parents'[n + 1] = g
    BY <1>1, <1>2, AppendProperties
<1>4. GroupHolds(g)
    BY <1>2, SameGroup DEF GInv, GroupsHold
<1>5. /\ \A k \in 1..n : /\ GroupHolds(parents[k]) /\ Full(parents[k])
                          /\ parents[k].lo = IF k = 1 THEN 1 ELSE parents[k - 1].hi + 1
      /\ group.lo = IF parents = <<>> THEN 1 ELSE parents[n].hi + 1
    BY DEF GInv, GroupsHold
<1>6. ASSUME NEW k \in 1..(n + 1)
      PROVE  /\ GroupHolds(parents'[k]) /\ Full(parents'[k])
             /\ parents'[k].lo = IF k = 1 THEN 1 ELSE parents'[k - 1].hi + 1
    <2>1. CASE k \in 1..n
        <3>1. k # 1 => k - 1 \in 1..n
            BY <1>1, <2>1
        <3> QED
            BY <1>3, <1>5, <2>1, <3>1
    <2>2. CASE k = n + 1
        <3>1. k = 1 => parents = <<>>
            BY <1>1, <2>2, EmptySeq
        <3>2. k # 1 => parents # <<>> /\ k - 1 = n /\ n \in 1..n
            BY <1>1, <2>2, EmptySeq
        <3>3. parents'[k] = g
            BY <1>3, <2>2
        <3>4. parents'[k].lo = IF k = 1 THEN 1 ELSE parents'[k - 1].hi + 1
            BY <1>2, <1>3, <1>5, <2>2, <3>1, <3>2
        <3> QED
            BY <1>4, <3>3, <3>4
    <2> QED
        BY <1>1, <2>1, <2>2
<1>7. parents' # <<>>
    BY <1>1, <1>3, EmptySeq
<1> QED
    BY <1>2, <1>3, <1>6, <1>7

LEMMA GroupChildGroups ==
    ASSUME IInv, IInv', GInv, GroupChild
    PROVE  GInv'
<1> DEFINE next == group.hi + 1
           width == Width(children[next].lo, children[next].hi)
           g == [lo |-> group.lo, hi |-> group.hi]
<1>1. /\ phase = "group" /\ phase' = "group" /\ UNCHANGED <<children, pieces>>
      /\ group.hi < Len(children)
    BY DEF GroupChild
<1>2. /\ group.lo \in Nat /\ group.hi \in Nat /\ group.size \in Int /\ ParentSize \in Nat
      /\ Len(children) \in Nat /\ group.lo \in 1..(group.hi + 1)
      /\ next \in 1..Len(children) /\ next \in Nat \ {0}
    <2>1. group \in [lo : Nat, hi : Nat, size : Int] /\ group.lo \in 1..(group.hi + 1)
        BY DEF IInv, TypeOK, PhaseInv
    <2>2. ParentSize \in Nat /\ Len(children) \in Nat
        BY SegmentEnds, ChunkerAssumption
    <2> QED
        BY <1>1, <2>1, <2>2
<1>3. PICK close \in BOOLEAN :
         /\ close => /\ group.lo <= group.hi
                     /\ \/ children[next].section # children[group.hi].section
                        \/ group.size + width > ParentSize
         /\ ~close /\ group.lo <= group.hi => /\ children[next].section = children[group.hi].section
                                              /\ ~(group.size + width > ParentSize)
         /\ parents' = IF close THEN Append(parents, g) ELSE parents
         /\ group' = [lo   |-> IF close THEN next ELSE group.lo,
                      hi   |-> next,
                      size |-> width + (IF close THEN 0 ELSE group.size)]
    <2> DEFINE close == /\ group.lo <= group.hi
                        /\ \/ children[next].section # children[group.hi].section
                           \/ group.size + width > ParentSize
    <2>1. /\ parents' = IF close THEN Append(parents, g) ELSE parents
          /\ group' = [lo   |-> IF close THEN next ELSE group.lo,
                       hi   |-> next,
                       size |-> width + (IF close THEN 0 ELSE group.size)]
        BY DEF GroupChild
    <2>2. /\ close \in BOOLEAN
          /\ close => /\ group.lo <= group.hi
                      /\ \/ children[next].section # children[group.hi].section
                         \/ group.size + width > ParentSize
          /\ ~close /\ group.lo <= group.hi => /\ children[next].section = children[group.hi].section
                                               /\ ~(group.size + width > ParentSize)
        OBVIOUS
    <2> HIDE DEF close, next, width, g
    <2> QED
        BY <2>1, <2>2
<1>4. /\ group'.lo = IF close THEN next ELSE group.lo
      /\ group'.hi = next
      /\ group'.size = width + (IF close THEN 0 ELSE group.size)
    BY <1>3
<1>5. width \in Int
    <2>1. children[next].lo \in 1..Len(pieces) /\ children[next].hi \in 1..Len(pieces)
        BY <1>2, SegmentEnds
    <2> HIDE DEF next
    <2> QED
        BY <2>1, WidthIsInt DEF IInv
\* A group of one child.
<1>6. ASSUME group'.lo = next, group'.size = width
      PROVE  GroupHolds(group') /\ group'.size = WidthOf(group', children, pieces)
    <2> DEFINE none == [lo |-> next, hi |-> group.hi]
    <2>1. none.lo = next /\ none.hi = group.hi
        OBVIOUS
    <2> HIDE DEF none
    <2>2. WidthOf(group', children, pieces) = 0 + width
        <3>1. /\ WidthOf(group', children, pieces) = WidthOf(none, children, pieces) + Width(children[group.hi + 1].lo, children[group.hi + 1].hi)
              /\ group.hi = next - 1 => WidthOf(none, children, pieces) = 0
            <4>1. group'.lo = next /\ group'.hi = group.hi + 1 /\ group.hi >= next - 1
                BY <1>2, <1>4, <1>6
            <4> HIDE DEF next
            <4> QED
                BY <1>2, <2>1, <4>1, GroupGrows
        <3> QED
            BY <1>2, <3>1
    <2>3. \A c \in group'.lo..group'.hi : c = next
        BY <1>2, <1>4, <1>6
    <2>4. group'.lo \in 1..group'.hi /\ group'.hi \in 1..Len(children) /\ ~(group'.lo < group'.hi)
        BY <1>2, <1>4, <1>6
    <2> HIDE DEF next
    <2> HIDE DEF width
    <2>5. WidthOf(group', children, pieces) \in Int
        BY <1>5, <2>2
    <2>6. GroupHolds(group')
        BY <1>6, <2>3, <2>4, <2>5 DEF GroupHolds
    <2> QED
        BY <1>5, <1>6, <2>2, <2>6
<1> HIDE DEF width, g
<1>7. CASE close
    <2>0. Full(g)
        <3>1. GroupHolds(group) /\ group.size = WidthOf(group, children, pieces)
            BY <1>3, <1>7 DEF GInv, GroupsHold
        <3>2. children[group.hi].section = children[group.lo].section
            <4>1. group.hi \in group.lo..group.hi
                BY <1>2, <1>3, <1>7
            <4> QED
                BY <3>1, <4>1 DEF GroupHolds
        <3>3. \/ children[group.hi + 1].section # children[group.lo].section
              \/ WidthOf(group, children, pieces) + Width(children[group.hi + 1].lo, children[group.hi + 1].hi) > ParentSize
            BY <1>3, <1>7, <3>1, <3>2 DEF width
        <3>4. Full(group)
            BY <3>3 DEF Full
        <3> QED
            BY <3>4, SameGroup DEF g
    <2>1. /\ \A k \in 1..Len(parents') :
                  /\ GroupHolds(parents'[k]) /\ Full(parents'[k])
                  /\ parents'[k].lo = IF k = 1 THEN 1 ELSE parents'[k - 1].hi + 1
          /\ parents' # <<>> /\ parents'[Len(parents')].hi = group.hi
        BY <1>3, <1>7, <2>0, GroupsGrow DEF g
    <2>2. group'.lo = next /\ group'.size = width
        BY <1>4, <1>5, <1>7
    <2>3. GroupHolds(group') /\ group'.size = WidthOf(group', children, pieces)
        BY <1>6, <2>2
    <2>4. ~(group'.lo > group'.hi)
        BY <1>2, <1>4, <2>2
    <2>5. GroupsHold(phase', parents', group')
        BY <1>1, <2>1, <2>2, <2>3, <2>4 DEF GroupsHold
    <2> QED
        BY <1>1, <2>5, GroupsStay
<1>8. CASE ~close
    <2>1. parents' = parents /\ group'.lo = group.lo /\ group'.size = width + group.size
        BY <1>3, <1>4, <1>8
    <2>2. GroupHolds(group') /\ group'.size = WidthOf(group', children, pieces)
        <3>1. CASE group.lo <= group.hi
            <4>1. GroupHolds(group) /\ group.size = WidthOf(group, children, pieces)
                BY <3>1 DEF GInv, GroupsHold
            <4>2. WidthOf(group', children, pieces) = WidthOf(group, children, pieces) + width
                <5>1. group'.hi = group.hi + 1 /\ group.hi >= group.lo - 1 /\ group.lo \in Nat \ {0}
                    BY <1>2, <1>4
                <5> QED
                    BY <1>2, <2>1, <5>1, GroupGrows DEF width
            <4>3. children[next].section = children[group.hi].section /\ ~(group.size + width > ParentSize)
                BY <1>3, <1>8, <3>1
            <4>4. \A c \in group.lo..next : children[c].section = children[group.lo].section
                <5>1. \A c \in group.lo..group.hi : children[c].section = children[group.lo].section
                    BY <4>1 DEF GroupHolds
                <5>2. \A c \in group.lo..next : c \in group.lo..group.hi \/ c = next
                    BY <1>2
                <5>3. group.hi \in group.lo..group.hi
                    BY <1>2, <3>1
                <5> QED
                    BY <4>3, <5>1, <5>2, <5>3
            <4>5. /\ group'.size = WidthOf(group', children, pieces) /\ group'.size \in Int
                  /\ WidthOf(group', children, pieces) <= ParentSize
                <5>1. group'.size = WidthOf(group', children, pieces)
                    BY <1>2, <1>5, <2>1, <4>1, <4>2
                <5>2. group'.size \in Int /\ group'.size <= ParentSize
                    BY <1>2, <1>5, <2>1, <4>3
                <5> QED
                    BY <5>1, <5>2
            <4>6. group'.lo \in 1..group'.hi /\ group'.hi \in 1..Len(children)
                BY <1>2, <1>4, <2>1
            <4> HIDE DEF next
            <4> QED
                BY <1>4, <2>1, <4>4, <4>5, <4>6 DEF GroupHolds
        <3>2. CASE ~(group.lo <= group.hi)
            <4>1. group.lo = next /\ group.size = 0
                BY <1>1, <1>2, <3>2 DEF GInv, GroupsHold
            <4>2. group'.lo = next /\ group'.size = width
                BY <1>5, <2>1, <4>1
            <4> QED
                BY <1>6, <4>2
        <3> QED
            BY <3>1, <3>2
    <2>3. ~(group'.lo > group'.hi)
        BY <1>2, <1>4, <2>1
    <2>4. GroupsHold(phase', parents', group')
        BY <1>1, <2>1, <2>2, <2>3 DEF GInv, GroupsHold
    <2> QED
        BY <1>1, <2>4, GroupsStay
<1> QED
    BY <1>7, <1>8

LEMMA GroupsStep == IInv /\ IInv' /\ GInv /\ [ChunkerNext]_chunkerVars => GInv'
<1> SUFFICES ASSUME IInv, IInv', GInv, [ChunkerNext]_chunkerVars PROVE GInv'
    OBVIOUS
<1>1. CASE UNCHANGED chunkerVars
    <2>1. UNCHANGED <<children, pieces, phase, parents, group>>
        BY <1>1 DEF chunkerVars
    <2> QED
        BY <2>1, GroupsStay DEF GInv
<1>2. CASE GroupChild
    BY <1>2, GroupChildGroups
<1>3. CASE GroupsEnd
    <2> DEFINE g == [lo |-> group.lo, hi |-> group.hi]
    <2>1. /\ phase = "group" /\ group.hi = Len(children) /\ phase' = "chunked" /\ UNCHANGED <<children, pieces>>
          /\ parents' = IF group.lo <= group.hi THEN Append(parents, g) ELSE parents
          /\ group' = [group EXCEPT !.lo = group.hi + 1]
        BY <1>3 DEF GroupsEnd
    <2>2. /\ group.lo \in Nat /\ group.hi \in Nat /\ group.lo \in 1..(group.hi + 1)
          /\ group'.lo = group.hi + 1 /\ group'.hi = group.hi
        <3>1. group \in [lo : Nat, hi : Nat, size : Int] /\ group.lo \in 1..(group.hi + 1)
            BY DEF IInv, TypeOK, PhaseInv
        <3> QED
            BY <2>1, <3>1
    <2>3. ~(group'.lo <= group'.hi)
        BY <2>2
    <2>4. /\ \A k \in 1..Len(parents') :
                  /\ GroupHolds(parents'[k]) /\ Full(parents'[k])
                  /\ parents'[k].lo = IF k = 1 THEN 1 ELSE parents'[k - 1].hi + 1
          /\ group'.lo = IF parents' = <<>> THEN 1 ELSE parents'[Len(parents')].hi + 1
        <3>1. CASE group.lo <= group.hi
            <4> HIDE DEF g
            <4>1. parents' = Append(parents, g)
                BY <2>1, <3>1
            <4>2. Full(g)
                <5>1. g.hi = Len(children) /\ ~(Len(children) < Len(children))
                    BY <2>1, <2>2 DEF g
                <5> QED
                    BY <5>1 DEF Full
            <4> QED
                BY <2>2, <3>1, <4>1, <4>2, GroupsGrow DEF g
        <3>2. CASE ~(group.lo <= group.hi)
            <4>1. parents' = parents /\ group'.lo = group.lo
                BY <2>1, <2>2, <3>2
            <4> QED
                BY <4>1 DEF GInv, GroupsHold
        <3> QED
            BY <3>1, <3>2
    <2>5. GroupsHold(phase', parents', group')
        BY <2>1, <2>2, <2>3, <2>4 DEF GroupsHold
    <2> QED
        BY <2>1, <2>5, GroupsStay
<1>4. CASE BlankLine \/ HeadingLine \/ TextLine \/ PageEnds \/ KeepChunk \/ SplitSentence \/ SplitEnds \/ NextPage
    <2>1. /\ phase \in {"read", "split"} /\ phase' \in {"read", "split", "group"}
          /\ UNCHANGED <<parents, group>>
        BY <1>4 DEF BlankLine, HeadingLine, TextLine, ReadLine, PageEnds, KeepChunk, SplitSentence,
           SplitEnds, Splitting, NextPage
    <2>2. parents = <<>> /\ group.lo = 1 /\ group.hi = 0 /\ group.size = 0
        BY <2>1 DEF GInv, GroupsHold, IInv, PhaseInv
    <2>3. Len(parents') = 0
        BY <2>1, <2>2
    <2> QED
        BY <2>1, <2>2, <2>3 DEF GInv, GroupsHold
<1> QED
    BY <1>1, <1>2, <1>3, <1>4 DEF ChunkerNext

THEOREM GroupsInvariant == Spec => [](IInv /\ GInv)
<1>1. IInv /\ GInv /\ [Next]_vars => IInv' /\ GInv'
    <2> SUFFICES ASSUME IInv, GInv, [Next]_vars PROVE IInv' /\ GInv'
        OBVIOUS
    <2>1. [ChunkerNext]_chunkerVars
        BY DEF Next, vars, BeginEmbedding, Embed, EmbedRaises, EmbeddingEnds
    <2>2. IInv'
        BY <2>1, ChunkerStep
    <2> QED
        BY <2>1, <2>2, GroupsStep
<1>2. EmbedInit => IInv /\ GInv
    <2> SUFFICES ASSUME EmbedInit PROVE IInv /\ GInv
        OBVIOUS
    <2>1. phase = "read" /\ parents = <<>> /\ group = [lo |-> 1, hi |-> 0, size |-> 0] /\ Len(parents) = 0
        BY DEF EmbedInit, Init
    <2> QED
        BY <2>1, InitInvariant DEF GInv, GroupsHold
<1> QED
    BY <1>1, <1>2, PTL DEF Spec

\* The groups closed so far and the open one.
LEMMA AllGroups ==
    ASSUME IInv, GInv
    PROVE  /\ Groups \in Seq([lo : Nat, hi : Nat])
           /\ \A k \in 1..Len(Groups) :
                 /\ GroupHolds(Groups[k])
                 /\ k < Len(Groups) => Full(Groups[k])
                 /\ Groups[k].lo = IF k = 1 THEN 1 ELSE Groups[k - 1].hi + 1
<1> DEFINE n == Len(parents)
           g == [lo |-> group.lo, hi |-> group.hi]
<1>1. /\ parents \in Seq([lo : Nat, hi : Nat]) /\ n \in Nat
      /\ g \in [lo : Nat, hi : Nat] /\ g.lo = group.lo /\ g.hi = group.hi
    <2>1. parents \in Seq([lo : Nat, hi : Nat]) /\ group \in [lo : Nat, hi : Nat, size : Int]
        BY DEF IInv, TypeOK
    <2> QED
        BY <2>1
<1> HIDE DEF g
<1>2. CASE group.lo <= group.hi
    <2>1. Groups = Append(parents, g)
        BY <1>2 DEF Groups, g
    <2>2. /\ Groups \in Seq([lo : Nat, hi : Nat]) /\ Len(Groups) = n + 1
          /\ \A k \in 1..n : Groups[k] = parents[k]
          /\ Groups[n + 1] = g
        BY <1>1, <2>1, AppendProperties
    <2>3. GroupHolds(g)
        BY <1>1, <1>2, SameGroup DEF GInv, GroupsHold
    <2>4. /\ \A k \in 1..n : /\ GroupHolds(parents[k]) /\ Full(parents[k])
                             /\ parents[k].lo = IF k = 1 THEN 1 ELSE parents[k - 1].hi + 1
          /\ group.lo = IF parents = <<>> THEN 1 ELSE parents[n].hi + 1
        BY DEF GInv, GroupsHold
    <2>5. ASSUME NEW k \in 1..(n + 1)
          PROVE  /\ GroupHolds(Groups[k])
                 /\ k < n + 1 => Full(Groups[k])
                 /\ Groups[k].lo = IF k = 1 THEN 1 ELSE Groups[k - 1].hi + 1
        <3>1. CASE k \in 1..n
            <4>1. k # 1 => k - 1 \in 1..n
                BY <1>1, <3>1
            <4> QED
                BY <2>2, <2>4, <3>1, <4>1
        <3>2. CASE k = n + 1
            <4>1. k = 1 => parents = <<>>
                BY <1>1, <3>2, EmptySeq
            <4>2. k # 1 => parents # <<>> /\ k - 1 = n /\ n \in 1..n
                BY <1>1, <3>2, EmptySeq
            <4>3. ~(k < n + 1)
                BY <1>1, <3>2
            <4> QED
                BY <1>1, <2>2, <2>3, <2>4, <3>2, <4>1, <4>2, <4>3
        <3> QED
            BY <1>1, <3>1, <3>2
    <2> QED
        BY <2>2, <2>5
<1>3. CASE ~(group.lo <= group.hi)
    <2>1. Groups = parents
        BY <1>3 DEF Groups
    <2> QED
        BY <1>1, <2>1 DEF GInv, GroupsHold
<1> QED
    BY <1>2, <1>3

LEMMA GroupIsTyped ==
    ASSUME IInv, GInv, NEW k \in DOMAIN Groups
    PROVE  /\ k \in 1..Len(Groups) /\ k \in Nat /\ k >= 1
           /\ Groups[k] \in [lo : Nat, hi : Nat]
           /\ Groups[k].lo \in 1..Groups[k].hi /\ Groups[k].hi \in 1..Len(children)
<1>1. Groups \in Seq([lo : Nat, hi : Nat])
    BY AllGroups
<1>2. k \in 1..Len(Groups) /\ Len(Groups) \in Nat
    BY <1>1
<1>3. Groups[k] \in [lo : Nat, hi : Nat]
    BY <1>1, <1>2, ElementOfSeq
<1>4. GroupHolds(Groups[k])
    BY <1>2, AllGroups
<1> QED
    BY <1>2, <1>3, <1>4 DEF GroupHolds

\* The parents follow one another without a gap or an overlap, each is of one
\* section, its text is longer than parent_chunk_size by the spaces between its
\* children at most when it has several, and it ends only before a child that is
\* of another section or would not have fitted (make_parents); when
\* chunk_document returns they have all the children.
THEOREM ParentsAreAPartition == Spec => []ParentsPartition
<1>1. IInv /\ GInv => ParentsPartition
    <2> SUFFICES ASSUME IInv, GInv PROVE ParentsPartition
        OBVIOUS
    <2> DEFINE n == Len(parents)
    <2>1. parents \in Seq([lo : Nat, hi : Nat]) /\ n \in Nat
        <3>1. parents \in Seq([lo : Nat, hi : Nat])
            BY DEF IInv, TypeOK
        <3> QED
            BY <3>1
    <2>2. \A h : GroupWidth(h) = WidthOf(h, children, pieces)
        BY DEF GroupWidth, WidthOf, Width
    <2>3. ASSUME NEW k \in DOMAIN Groups, k > 1
          PROVE  \/ children[Groups[k].lo].section # children[Groups[k - 1].lo].section
                 \/ GroupWidth(Groups[k - 1]) + Width(children[Groups[k].lo].lo, children[Groups[k].lo].hi) > ParentSize
        <3> DEFINE b == Groups[k - 1]
        <3>1. k \in 1..Len(Groups) /\ k \in Nat /\ Len(Groups) \in Nat
            <4>1. Groups \in Seq([lo : Nat, hi : Nat])
                BY AllGroups
            <4> QED
                BY <2>3, <4>1, GroupIsTyped
        <3>2. k - 1 \in 1..Len(Groups) /\ k - 1 < Len(Groups) /\ k - 1 \in DOMAIN Groups
            <4>1. DOMAIN Groups = 1..Len(Groups)
                <5>1. Groups \in Seq([lo : Nat, hi : Nat])
                    BY AllGroups
                <5> QED
                    BY <5>1
            <4>2. k - 1 \in 1..Len(Groups) /\ k - 1 < Len(Groups)
                BY <2>3, <3>1
            <4> QED
                BY <4>1, <4>2
        <3>3. Full(b) /\ Groups[k].lo = b.hi + 1
            BY <2>3, <3>1, <3>2, AllGroups
        <3>4. b.hi \in Nat
            BY <3>2, GroupIsTyped
        <3>5. Groups[k].lo \in 1..Groups[k].hi /\ Groups[k].hi \in 1..Len(children) /\ Len(children) \in Nat
            BY <2>3, GroupIsTyped, Sequences DEF IInv
        <3> HIDE DEF b
        <3>6. b.hi < Len(children)
            BY <3>3, <3>4, <3>5
        <3>7. \/ children[b.hi + 1].section # children[b.lo].section
              \/ WidthOf(b, children, pieces) + Width(children[b.hi + 1].lo, children[b.hi + 1].hi) > ParentSize
            BY <3>3, <3>6 DEF Full
        <3>8. \/ children[Groups[k].lo].section # children[b.lo].section
              \/ GroupWidth(b) + Width(children[Groups[k].lo].lo, children[Groups[k].lo].hi) > ParentSize
            BY <2>2, <3>3, <3>7
        <3> QED
            BY <3>8 DEF b
    <2>4. ASSUME NEW k \in DOMAIN Groups
          PROVE  /\ Groups[k].lo = (IF k = 1 THEN 1 ELSE Groups[k - 1].hi + 1)
                 /\ Groups[k].lo <= Groups[k].hi
                 /\ \A c \in Groups[k].lo..Groups[k].hi : children[c].section = children[Groups[k].lo].section
                 /\ Groups[k].lo < Groups[k].hi
                        => ParentWidth(Groups[k]) <= ParentSize + (Groups[k].hi - Groups[k].lo)
        <3> DEFINE h == Groups[k]
        <3>1. k \in 1..Len(Groups) /\ GroupHolds(h) /\ h.lo \in Nat /\ h.hi \in Nat
              /\ h.lo = IF k = 1 THEN 1 ELSE Groups[k - 1].hi + 1
            BY AllGroups, GroupIsTyped
        <3> HIDE DEF h
        <3>2. GroupWidth(h) \in Int
            BY <3>1, <2>2 DEF GroupHolds
        <3>3. /\ h.lo <= h.hi /\ \A c \in h.lo..h.hi : children[c].section = children[h.lo].section
              /\ h.lo < h.hi => GroupWidth(h) <= ParentSize
            BY <3>1, <2>2 DEF GroupHolds
        <3>4. h.lo < h.hi => ParentWidth(h) <= ParentSize + (h.hi - h.lo)
            <4> DEFINE w == GroupWidth(h)
                       e == h.hi - h.lo
            <4>1. ParentSize \in Nat /\ w \in Int /\ e \in Int
                <5>1. e \in Int
                    BY <3>1
                <5>2. ParentSize \in Nat
                    BY ChunkerAssumption
                <5> QED
                    BY <3>2, <5>1, <5>2
            <4>2. ParentWidth(h) = w + e
                BY DEF ParentWidth
            <4>3. h.lo < h.hi => w <= ParentSize
                BY <3>3
            <4> HIDE DEF w, e
            <4>4. h.lo < h.hi => w + e <= ParentSize + e
                BY <4>1, <4>3
            <4> QED
                BY <4>2, <4>4 DEF e
        <3> QED
            BY <3>1, <3>3, <3>4 DEF h
    <2>5. phase = "chunked" => IF children = <<>> THEN parents = <<>> ELSE parents[Len(parents)].hi = Len(children)
        <3> SUFFICES ASSUME phase = "chunked"
                     PROVE  IF children = <<>> THEN parents = <<>> ELSE parents[Len(parents)].hi = Len(children)
            OBVIOUS
        <3>1. /\ group.lo = group.hi + 1 /\ group.hi = Len(children)
              /\ group.lo = IF parents = <<>> THEN 1 ELSE parents[n].hi + 1
              /\ \A k \in 1..n : GroupHolds(parents[k])
            BY DEF GInv, GroupsHold
        <3>0. group.hi \in Nat
            <4>1. group \in [lo : Nat, hi : Nat, size : Int]
                BY DEF IInv, TypeOK
            <4> QED
                BY <4>1
        <3>2. parents # <<>> => n \in 1..n /\ parents[n].hi \in Nat /\ parents[n].lo \in Nat
            <4>1. parents # <<>> => n \in 1..n
                BY <2>1, EmptySeq
            <4>2. \A k \in 1..n : parents[k] \in [lo : Nat, hi : Nat]
                BY <2>1, ElementOfSeq
            <4>3. ASSUME NEW k \in 1..n PROVE parents[k].lo \in Nat /\ parents[k].hi \in Nat
                <5>1. parents[k] \in [lo : Nat, hi : Nat]
                    BY <4>2
                <5> QED
                    BY <5>1
            <4> QED
                BY <4>1, <4>3
        <3>3. CASE children = <<>>
            <4>1. group.hi = 0
                BY <3>1, <3>3
            <4>2. parents # <<>> => parents[n].hi >= 1
                BY <3>1, <3>2 DEF GroupHolds
            <4> QED
                BY <3>1, <3>2, <3>3, <4>1, <4>2
        <3>4. CASE children # <<>>
            <4>1. Len(children) \in Nat /\ Len(children) # 0
                BY <3>4, Sequences, EmptySeq DEF IInv
            <4> QED
                BY <3>0, <3>1, <3>2, <3>4, <4>1
        <3> QED
            BY <3>3, <3>4
    <2> QED
        BY <2>3, <2>4, <2>5 DEF ParentsPartition
<1> QED
    BY <1>1, GroupsInvariant, PTL

-----------------------------------------------------------------------------
(* The pages. *)

\* The chunks that wait are of the present page, the children of no later one,
\* and in the order of the pages.
OInv ==
    /\ \A k \in 1..Len(chunks) : chunks[k].page = page
    /\ \A k \in 1..Len(children) : children[k].page <= page
    /\ \A j, k \in 1..Len(children) : j <= k => children[j].page <= children[k].page

LEMMA PagesAreNumbers ==
    ASSUME IInv
    PROVE  /\ page \in Nat
           /\ \A k \in 1..Len(children) : children[k].page \in Nat
<1>1. page \in Nat
    BY ChunkerAssumption DEF IInv, TypeOK
<1>2. ASSUME NEW k \in 1..Len(children) PROVE children[k].page \in Nat
    <2>1. children \in Seq(Chunk)
        BY DEF IInv, TypeOK
    <2>2. children[k] \in Chunk
        BY <2>1, ElementOfSeq
    <2> QED
        BY <2>2 DEF Chunk
<1> QED
    BY <1>1, <1>2

LEMMA ChunksFlushed ==
    ASSUME IInv, OInv, phase = "read", chunks' \in {chunks, Flushed}, UNCHANGED <<page, children>>
    PROVE  OInv'
<1>1. \A k \in 1..Len(Flushed) : Flushed[k].page = page
    <2>1. CASE ~Buffered
        BY <2>1 DEF Flushed, OInv
    <2>2. CASE Buffered
        <3> DEFINE c == [lo |-> buffer.lo, hi |-> buffer.hi, page |-> page,
                         section |-> section, subsection |-> subsection]
        <3>1. Flushed = Append(chunks, c) /\ c.page = page
            BY <2>2 DEF Flushed
        <3> HIDE DEF c
        <3>2. chunks \in Seq(Chunk) /\ Len(chunks) \in Nat
            BY DEF IInv, TypeOK
        <3>3. Len(Flushed) = Len(chunks) + 1
            BY <3>1, <3>2
        <3>4. \A k \in 1..Len(Flushed) : Flushed[k] = IF k <= Len(chunks) THEN chunks[k] ELSE c
            BY <3>1, <3>2
        <3> QED
            BY <3>1, <3>2, <3>3, <3>4 DEF OInv
    <2> QED
        BY <2>1, <2>2
<1> QED
    BY <1>1 DEF OInv

\* A child of the present page is added, and the chunks that wait are some of
\* those that did.
LEMMA ChildAdded ==
    ASSUME IInv, OInv, NEW c, c.page = page, chunks # <<>>,
           children' \in {children, Append(children, c)}, chunks' \in {chunks, Tail(chunks)},
           UNCHANGED page
    PROVE  OInv'
<1> DEFINE n == Len(children)
<1>1. /\ children \in Seq(Chunk) /\ n \in Nat
      /\ chunks \in Seq(Chunk) /\ Len(chunks) \in Nat
    BY SMTT(60) DEF IInv, TypeOK
<1>2. \A k \in 1..Len(chunks') : chunks'[k].page = page
    <2>1. CASE chunks' = chunks
        BY <2>1 DEF OInv
    <2>2. CASE chunks' = Tail(chunks)
        <3>1. Len(chunks') = Len(chunks) - 1 /\ \A k \in 1..Len(chunks') : chunks'[k] = chunks[k + 1]
            BY <1>1, <2>2, HeadTailProperties
        <3>2. \A k \in 1..Len(chunks') : k + 1 \in 1..Len(chunks)
            BY <1>1, <3>1
        <3> QED
            BY <3>1, <3>2 DEF OInv
    <2> QED
        BY <2>1, <2>2
<1>3. CASE children' = children
    BY <1>2, <1>3 DEF OInv
<1>4. CASE children' = Append(children, c)
    <2>1. Len(children') = n + 1 /\ \A k \in 1..(n + 1) : children'[k] = IF k <= n THEN children[k] ELSE c
        BY <1>1, <1>4
    <2>2. page \in Nat /\ \A k \in 1..n : children[k].page <= page
        BY PagesAreNumbers DEF OInv
    <2>3. \A k \in 1..(n + 1) : children'[k].page <= page
        BY <1>1, <2>1, <2>2
    <2>4. ASSUME NEW j \in 1..(n + 1), NEW k \in 1..(n + 1), j <= k
          PROVE  children'[j].page <= children'[k].page
        <3>1. CASE k <= n
            <4>1. j \in 1..n /\ k \in 1..n
                BY <1>1, <2>4, <3>1
            <4>2. children[j].page <= children[k].page
                BY <2>4, <4>1 DEF OInv
            <4> QED
                BY <2>1, <4>1, <4>2
        <3>2. CASE ~(k <= n)
            <4>1. children'[k].page = page
                BY <2>1, <3>2
            <4> QED
                BY <2>3, <4>1
        <3> QED
            BY <3>1, <3>2
    <2> HIDE DEF n
    <2> QED
        BY <1>2, <2>1, <2>3, <2>4 DEF OInv
<1> QED
    BY <1>3, <1>4

LEMMA PagesStep == IInv /\ OInv /\ [ChunkerNext]_chunkerVars => OInv'
<1> SUFFICES ASSUME IInv, OInv, [ChunkerNext]_chunkerVars PROVE OInv'
    OBVIOUS
<1>1. CASE BlankLine \/ HeadingLine \/ TextLine \/ PageEnds
    <2>1. /\ phase = "read" /\ chunks' \in {chunks, Flushed} /\ UNCHANGED <<page, children>>
        BY <1>1 DEF BlankLine, HeadingLine, TextLine, ReadLine, PageEnds
    <2> QED
        BY <2>1, ChunksFlushed
<1>2. CASE KeepChunk \/ SplitSentence \/ SplitEnds
    <2>1. chunks # <<>> /\ UNCHANGED page /\ chunks' \in {chunks, Tail(chunks)}
        BY <1>2 DEF KeepChunk, SplitSentence, SplitEnds, Splitting
    <2>2. Head(chunks) = chunks[1] /\ chunks[1] \in Chunk /\ chunks[1].page = page
        <3>1. chunks \in Seq(Chunk) /\ Len(chunks) \in Nat /\ Len(chunks) # 0
            BY <2>1, EmptySeq DEF IInv, TypeOK
        <3>2. 1 \in 1..Len(chunks)
            BY <3>1
        <3> QED
            BY <3>1, <3>2, ElementOfSeq DEF OInv
    <2>3. \A lo, hi : Cut(lo, hi).page = page
        BY <2>2 DEF Cut, Chunk
    <2>4. \E c : c.page = page /\ children' \in {children, Append(children, c)}
        <3>1. CASE KeepChunk
            BY <2>2, <3>1 DEF KeepChunk
        <3>2. CASE SplitSentence
            BY <2>3, <3>2 DEF SplitSentence
        <3>3. CASE SplitEnds
            BY <2>3, <3>3 DEF SplitEnds
        <3> QED
            BY <1>2, <3>1, <3>2, <3>3
    <2>5. PICK c : c.page = page /\ children' \in {children, Append(children, c)}
        BY <2>4
    <2> QED
        BY <2>1, <2>5, ChildAdded
<1>3. CASE NextPage
    <2>1. /\ chunks = <<>> /\ UNCHANGED <<chunks, children>>
          /\ page' = page + 1 \/ page' = page
        BY <1>3 DEF NextPage
    <2>2. page \in Nat /\ \A k \in 1..Len(children) : children[k].page \in Nat /\ children[k].page <= page
        BY PagesAreNumbers DEF OInv
    <2>3. Len(chunks') = 0
        BY <2>1
    <2>4. \A k \in 1..Len(children) : children[k].page <= page'
        BY <2>1, <2>2
    <2> QED
        BY <2>1, <2>3, <2>4 DEF OInv
<1>4. CASE GroupChild \/ GroupsEnd \/ UNCHANGED chunkerVars
    <2>1. UNCHANGED <<chunks, children, page>>
        BY <1>4 DEF GroupChild, GroupsEnd, chunkerVars
    <2> QED
        BY <2>1 DEF OInv
<1> QED
    BY <1>1, <1>2, <1>3, <1>4 DEF ChunkerNext

THEOREM PagesInvariant == Spec => [](IInv /\ GInv /\ OInv)
<1>1. IInv /\ OInv /\ [Next]_vars => OInv'
    <2> SUFFICES ASSUME IInv, OInv, [Next]_vars PROVE OInv'
        OBVIOUS
    <2>1. [ChunkerNext]_chunkerVars
        BY DEF Next, vars, BeginEmbedding, Embed, EmbedRaises, EmbeddingEnds
    <2> QED
        BY <2>1, PagesStep
<1>2. EmbedInit => OInv
    <2> SUFFICES ASSUME EmbedInit PROVE OInv
        OBVIOUS
    <2>1. Len(chunks) = 0 /\ Len(children) = 0
        BY DEF EmbedInit, Init
    <2> QED
        BY <2>1 DEF OInv
<1> QED
    BY <1>1, <1>2, GroupsInvariant, PTL DEF Spec

\* A child holds text of the page and the section that it names, and a parent
\* text of its section that begins on its page and goes on to later pages only.
THEOREM CitationsAreRight == Spec => []CitesItsSection
<1>1. IInv /\ GInv /\ OInv => CitesItsSection
    <2> SUFFICES ASSUME IInv, GInv, OInv PROVE CitesItsSection
        OBVIOUS
    <2>1. /\ \A k \in DOMAIN chunks : Holds(chunks[k])
          /\ \A k \in DOMAIN children : Holds(children[k])
        BY Sequences DEF IInv, SegmentsHold
    <2>2. ASSUME NEW s \in {chunks, children}, NEW k \in DOMAIN s, NEW p \in s[k].lo..s[k].hi
          PROVE  pieces[p].page = s[k].page /\ pieces[p].section = s[k].section
        BY <2>1 DEF Holds
    <2>3. ASSUME NEW k \in DOMAIN Groups
          PROVE  /\ pieces[children[Groups[k].lo].lo].page = children[Groups[k].lo].page
                 /\ \A c \in Groups[k].lo..Groups[k].hi : \A p \in children[c].lo..children[c].hi :
                        /\ pieces[p].page >= children[Groups[k].lo].page
                        /\ pieces[p].section = children[Groups[k].lo].section
        <3> DEFINE g == Groups[k]
        <3>1. GroupHolds(g) /\ g.lo \in Nat /\ g.hi \in Nat /\ g.lo \in 1..g.hi /\ g.hi \in 1..Len(children)
            BY AllGroups, GroupIsTyped
        <3> HIDE DEF g
        <3>2. g.lo \in 1..Len(children) /\ Len(children) \in Nat
            BY <3>1, Sequences DEF IInv
        <3>3. Holds(children[g.lo])
            BY <3>2 DEF IInv, SegmentsHold
        <3>4. pieces[children[g.lo].lo].page = children[g.lo].page
            <4>1. children[g.lo].lo \in children[g.lo].lo..children[g.lo].hi
                BY <3>2, <3>3, SegmentEnds DEF Holds
            <4> QED
                BY <3>3, <4>1 DEF Holds
        <3>5. ASSUME NEW c \in g.lo..g.hi, NEW p \in children[c].lo..children[c].hi
              PROVE  /\ pieces[p].page >= children[g.lo].page
                     /\ pieces[p].section = children[g.lo].section
            <4>1. c \in 1..Len(children) /\ g.lo <= c
                BY <3>1, <3>2
            <4>2. pieces[p].page = children[c].page /\ pieces[p].section = children[c].section
                BY <4>1 DEF IInv, SegmentsHold, Holds
            <4>3. children[g.lo].page <= children[c].page
                BY <3>2, <4>1 DEF OInv
            <4>4. children[g.lo].page \in Nat /\ children[c].page \in Nat
                BY <3>2, <4>1, PagesAreNumbers
            <4>5. children[c].section = children[g.lo].section
                BY <3>1 DEF GroupHolds
            <4> QED
                BY <4>2, <4>3, <4>4, <4>5
        <3> QED
            BY <3>4, <3>5 DEF g
    <2>4. \A k \in DOMAIN Groups : /\ ParentSegment(Groups[k]).page = children[Groups[k].lo].page
                                   /\ ParentSegment(Groups[k]).section = children[Groups[k].lo].section
        BY DEF ParentSegment
    <2> QED
        BY <2>2, <2>3, <2>4 DEF CitesItsSection
<1> QED
    BY <1>1, PagesInvariant, PTL
=============================================================================

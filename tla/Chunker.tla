------------------------------ MODULE Chunker ------------------------------
(***************************************************************************)
(* SemanticChunker.chunk_document: the lines of every page are gathered    *)
(* into chunks, chunks that came out too long are split at sentences, and  *)
(* the children are grouped into parents by section.  One action is one    *)
(* iteration of a loop of the code.                                        *)
(*                                                                         *)
(* Text is a sequence of pieces.  A piece is what a line holds of one      *)
(* sentence: a line is one or more pieces, and a sentence ends with the    *)
(* first piece after which one ends.  Every segment the code makes is a    *)
(* run of consecutive pieces joined by single spaces, so it is given by    *)
(* its first and last piece, and its length by their positions.            *)
(***************************************************************************)
EXTENDS Integers, Sequences

CONSTANTS
    ChunkSize,      \* settings.chunk_size
    ChunkOverlap,   \* settings.chunk_overlap
    ParentSize,     \* settings.parent_chunk_size
    Headings,       \* the lines _is_heading takes for headings
    NoSection,      \* None
    Lines,          \* the other lines: [cuts, ends]
    Pages,          \* number of pages
    MaxLines        \* bound on the lines of all pages together

\* A line [cuts, ends] holds Len(cuts) pieces, the i-th of which stops at
\* column cuts[i]; ends says whether a sentence ends with the line.
ASSUME ChunkerAssumption ==
    /\ {ChunkSize, ChunkOverlap, ParentSize, MaxLines} \subseteq Nat
    /\ Pages \in Nat \ {0}
    /\ NoSection \notin Headings
    /\ \A l \in Lines :
           /\ l.cuts \in Seq(Nat) /\ l.cuts # <<>>
           /\ l.ends \in BOOLEAN
           /\ \A i \in 2..Len(l.cuts) : l.cuts[i] > l.cuts[i - 1]

VARIABLES
    phase,      \* "read" and "split" for every page, "group", "chunked"
    page,       \* page_number
    read,       \* lines read so far
    pieces,     \* the text read so far
    section,    \* current_section
    subsection, \* current_subsection
    buffer,     \* buffer: pieces lo..hi, its last line from tail on
    bufChars,   \* buf_chars
    chunks,     \* chunks of the page that are still to be sized
    split,      \* the loop of _split_large over the first of them
    children,   \* child segments so far
    group,      \* current: children lo..hi, and their _group_size
    parents     \* closed groups of children

chunkerVars == <<phase, page, read, pieces, section, subsection, buffer, bufChars,
                 chunks, split, children, group, parents>>

Sections == Headings \cup {NoSection}

Piece == [start : Int, stop : Int, ends : BOOLEAN, line : Nat, page : Nat, section : Sections]
Chunk == [lo : Nat, hi : Nat, page : Nat, section : Sections, subsection : Sections]

TypeOK ==
    /\ phase \in {"read", "split", "group", "chunked"}
    /\ page \in 1..Pages
    /\ read \in 0..MaxLines
    /\ pieces \in Seq(Piece)
    /\ section \in Sections /\ subsection \in Sections
    /\ buffer \in [lo : Nat, tail : Nat, hi : Nat]
    /\ bufChars \in Int
    /\ chunks \in Seq(Chunk)
    /\ split \in [next : Nat, lo : Nat, last : Nat, chars : Int]
    /\ children \in Seq(Chunk)
    /\ group \in [lo : Nat, hi : Nat, size : Int]
    /\ parents \in Seq([lo : Nat, hi : Nat])

-----------------------------------------------------------------------------
(* Text. *)

Width(lo, hi) == pieces[hi].stop - pieces[lo].start

LineWidth(line) == line.cuts[Len(line.cuts)]

Base == IF pieces = <<>> THEN 0 ELSE pieces[Len(pieces)].stop + 1

NewPieces(line) ==
    [i \in 1..Len(line.cuts) |->
        [start   |-> Base + (IF i = 1 THEN 0 ELSE line.cuts[i - 1] + 1),
         stop    |-> Base + line.cuts[i],
         ends    |-> i < Len(line.cuts) \/ line.ends,
         line    |-> read,
         page    |-> page,
         section |-> section]]

\* The sentence that begins with piece p of a segment that stops at hi.
SentenceEnd(p, hi) ==
    CHOOSE e \in p..hi :
        /\ e = hi \/ pieces[e].ends
        /\ \A q \in p..(e - 1) : ~pieces[q].ends

-----------------------------------------------------------------------------
(* chunk_page.  "Variant" marks a plausible error that no step uses. *)

NoBuffer == [lo |-> 1, tail |-> 1, hi |-> 0]
Buffered == buffer.hi > 0

Flushed ==
    IF Buffered
    THEN Append(chunks, [lo |-> buffer.lo, hi |-> buffer.hi, page |-> page,
                         section |-> section, subsection |-> subsection])
    ELSE chunks

\* Variant: the whole buffer is kept.
KeptAll == buffer

KeptTail == [buffer EXCEPT !.lo = buffer.tail]

NoSplit == [next |-> 0, lo |-> 0, last |-> 0, chars |-> 0]
BeginSplit(queue) ==
    IF queue = <<>> THEN NoSplit
    ELSE [next |-> Head(queue).lo, lo |-> Head(queue).lo, last |-> Head(queue).lo, chars |-> 0]

Init ==
    /\ phase = "read" /\ page = 1 /\ read = 0 /\ pieces = <<>>
    /\ section = NoSection /\ subsection = NoSection
    /\ buffer = NoBuffer /\ bufChars = 0
    /\ chunks = <<>> /\ split = NoSplit /\ children = <<>>
    /\ group = [lo |-> 1, hi |-> 0, size |-> 0] /\ parents = <<>>

ReadLine ==
    /\ phase = "read" /\ read < MaxLines
    /\ read' = read + 1
    /\ UNCHANGED <<phase, page, split, children, group, parents>>

\* A blank line flushes a buffer that is at least half full, and keeps its
\* last line in the buffer.
BlankLine ==
    /\ ReadLine
    /\ \/ /\ Buffered /\ 2 * bufChars >= ChunkSize
          /\ chunks' = Flushed
          /\ buffer' = KeptTail
          /\ bufChars' = Width(buffer.tail, buffer.hi)
       \/ /\ ~(Buffered /\ 2 * bufChars >= ChunkSize)
          /\ UNCHANGED <<chunks, buffer, bufChars>>
    /\ UNCHANGED <<pieces, section, subsection>>

\* Variant: the buffer is cleared without a flush.
HeadingDropsBuffer ==
    /\ ReadLine
    /\ \E h \in Headings : section' = h
    /\ subsection' = section
    /\ buffer' = NoBuffer /\ bufChars' = 0
    /\ UNCHANGED <<pieces, chunks>>

\* Variant: no flush before the section changes.
HeadingKeepsBuffer ==
    /\ ReadLine
    /\ \E h \in Headings : section' = h
    /\ subsection' = section
    /\ UNCHANGED <<pieces, chunks, buffer, bufChars>>

HeadingLine ==
    /\ ReadLine
    /\ \E h \in Headings : section' = h
    /\ subsection' = section
    /\ chunks' = Flushed
    /\ buffer' = NoBuffer
    /\ bufChars' = 0
    /\ UNCHANGED pieces

TextLine ==
    /\ ReadLine
    /\ \E line \in Lines :
         LET first == Len(pieces) + 1
             full == bufChars + 1 + LineWidth(line) >= ChunkSize
             kept == IF full THEN KeptTail ELSE buffer
             keptChars == IF full THEN Width(buffer.tail, buffer.hi) ELSE bufChars
         IN  /\ pieces' = pieces \o NewPieces(line)
             /\ \/ /\ Buffered
                   /\ chunks' = IF full THEN Flushed ELSE chunks
                   /\ buffer' = [lo |-> kept.lo, tail |-> first, hi |-> Len(pieces')]
                   /\ bufChars' = keptChars + LineWidth(line)
                \/ /\ ~Buffered
                   /\ buffer' = [lo |-> first, tail |-> first, hi |-> Len(pieces')]
                   /\ bufChars' = LineWidth(line)
                   /\ UNCHANGED chunks
    /\ UNCHANGED <<section, subsection>>

PageEnds ==
    /\ phase = "read"
    /\ phase' = "split"
    /\ chunks' = Flushed
    /\ split' = BeginSplit(chunks')
    /\ buffer' = NoBuffer /\ bufChars' = 0
    /\ UNCHANGED <<page, read, pieces, section, subsection, children, group, parents>>

\* A chunk of at most chunk_size characters is a child as it is.
KeepChunk ==
    /\ phase = "split" /\ chunks # <<>>
    /\ Width(Head(chunks).lo, Head(chunks).hi) <= ChunkSize
    /\ children' = Append(children, Head(chunks))
    /\ chunks' = Tail(chunks)
    /\ split' = BeginSplit(chunks')
    /\ UNCHANGED <<phase, page, read, pieces, section, subsection, buffer, bufChars, group, parents>>

-----------------------------------------------------------------------------
(* _split_large: the sentences split.lo .. split.next - 1 are in its       *)
(* buffer, the last of them from split.last on.                            *)

Splitting ==
    /\ phase = "split" /\ chunks # <<>>
    /\ Width(Head(chunks).lo, Head(chunks).hi) > ChunkSize

Cut(lo, hi) == [Head(chunks) EXCEPT !.lo = lo, !.hi = hi]

\* Variant: the overlap is not counted.
SplitUncounted ==
    /\ Splitting /\ split.next <= Head(chunks).hi
    /\ LET s == split.next
           e == SentenceEnd(s, Head(chunks).hi)
           full == split.lo < s /\ split.chars + Width(s, e) + 1 >= ChunkSize
           overlap == full /\ ChunkOverlap > 0
       IN  /\ children' = IF full THEN Append(children, Cut(split.lo, s - 1)) ELSE children
           /\ split' = [next  |-> e + 1,
                        last  |-> s,
                        lo    |-> IF overlap THEN split.last ELSE IF full THEN s ELSE split.lo,
                        chars |-> Width(s, e) + 1 + (IF full THEN 0 ELSE split.chars)]
    /\ UNCHANGED <<phase, page, read, pieces, section, subsection, buffer, bufChars, chunks, group, parents>>

SplitSentence ==
    /\ Splitting /\ split.next <= Head(chunks).hi
    /\ LET s == split.next
           e == SentenceEnd(s, Head(chunks).hi)
           full == split.lo < s /\ split.chars + Width(s, e) + 1 >= ChunkSize
           overlap == full /\ ChunkOverlap > 0
       IN  /\ children' = IF full THEN Append(children, Cut(split.lo, s - 1)) ELSE children
           /\ split' = [next  |-> e + 1,
                        last  |-> s,
                        lo    |-> IF overlap THEN split.last ELSE IF full THEN s ELSE split.lo,
                        chars |-> Width(s, e) + 1 + (IF overlap THEN Width(split.last, s - 1)
                                                     ELSE IF full THEN 0 ELSE split.chars)]
    /\ UNCHANGED <<phase, page, read, pieces, section, subsection, buffer, bufChars, chunks, group, parents>>

SplitEnds ==
    /\ Splitting /\ split.next > Head(chunks).hi
    /\ children' = Append(children, Cut(split.lo, Head(chunks).hi))
    /\ chunks' = Tail(chunks)
    /\ split' = BeginSplit(chunks')
    /\ UNCHANGED <<phase, page, read, pieces, section, subsection, buffer, bufChars, group, parents>>

\* chunk_pages: every page begins without a section.
NextPage ==
    /\ phase = "split" /\ chunks = <<>>
    /\ \/ /\ page < Pages
          /\ page' = page + 1
          /\ phase' = "read"
       \/ /\ page = Pages
          /\ phase' = "group"
          /\ UNCHANGED page
    /\ section' = NoSection /\ subsection' = NoSection
    /\ UNCHANGED <<read, pieces, buffer, bufChars, chunks, split, children, group, parents>>

-----------------------------------------------------------------------------
(* make_parents *)

\* Variant: the size is tested before the child is added to it.
GroupLate ==
    /\ phase = "group" /\ group.hi < Len(children)
    /\ LET next == group.hi + 1
           width == Width(children[next].lo, children[next].hi)
           close == /\ group.lo <= group.hi
                    /\ \/ children[next].section # children[group.hi].section
                       \/ group.size > ParentSize
       IN  /\ parents' = IF close THEN Append(parents, [lo |-> group.lo, hi |-> group.hi]) ELSE parents
           /\ group' = [lo   |-> IF close THEN next ELSE group.lo,
                        hi   |-> next,
                        size |-> width + (IF close THEN 0 ELSE group.size)]
    /\ UNCHANGED <<phase, page, read, pieces, section, subsection, buffer, bufChars, chunks, split, children>>

GroupChild ==
    /\ phase = "group" /\ group.hi < Len(children)
    /\ LET next == group.hi + 1
           width == Width(children[next].lo, children[next].hi)
           close == /\ group.lo <= group.hi
                    /\ \/ children[next].section # children[group.hi].section
                       \/ group.size + width > ParentSize
       IN  /\ parents' = IF close THEN Append(parents, [lo |-> group.lo, hi |-> group.hi]) ELSE parents
           /\ group' = [lo   |-> IF close THEN next ELSE group.lo,
                        hi   |-> next,
                        size |-> width + (IF close THEN 0 ELSE group.size)]
    /\ UNCHANGED <<phase, page, read, pieces, section, subsection, buffer, bufChars, chunks, split, children>>

\* What the segment of a parent says of itself: what its first child says.
ParentSegment(g) == [page       |-> children[g.lo].page,
                     section    |-> children[g.lo].section,
                     subsection |-> children[g.lo].subsection]

\* _group_size.
GroupWidth(g) ==
    LET f[k \in (g.lo - 1)..g.hi] ==
            IF k < g.lo THEN 0 ELSE f[k - 1] + Width(children[k].lo, children[k].hi)
    IN  f[g.hi]

\* The length of the text of a parent: its children with spaces between them.
ParentWidth(g) == GroupWidth(g) + (g.hi - g.lo)

GroupsEnd ==
    /\ phase = "group" /\ group.hi = Len(children)
    /\ phase' = "chunked"
    /\ parents' = IF group.lo <= group.hi
                  THEN Append(parents, [lo |-> group.lo, hi |-> group.hi]) ELSE parents
    /\ group' = [group EXCEPT !.lo = group.hi + 1]
    /\ UNCHANGED <<page, read, pieces, section, subsection, buffer, bufChars, chunks, split, children>>

ChunkerNext ==
    \/ BlankLine \/ HeadingLine \/ TextLine \/ PageEnds
    \/ KeepChunk \/ SplitSentence \/ SplitEnds \/ NextPage
    \/ GroupChild \/ GroupsEnd

ChunkerSpec == Init /\ [][ChunkerNext]_chunkerVars
-----------------------------------------------------------------------------
(* Properties. *)

Within(p, c) == p \in c.lo..c.hi

\* Where piece p of the text is: with the child segments, in the buffer, in a
\* chunk that is still to be sized, or in what is left of the one being split.
Placed(p) ==
    \/ \E k \in DOMAIN children : Within(p, children[k])
    \/ Within(p, buffer)
    \/ \E k \in DOMAIN chunks : Within(p, chunks[k]) /\ (k = 1 => p >= split.lo)

\* No text is lost: at every moment each piece read is in a child segment or
\* still on its way to one, so what chunk_document returns holds all the text
\* between the headings, whatever blank lines, headings, page ends and
\* oversized chunks it met.
NothingLost == \A p \in DOMAIN pieces : Placed(p)

Groups == IF group.lo <= group.hi THEN Append(parents, [lo |-> group.lo, hi |-> group.hi])
          ELSE parents

\* A child holds text of the one page it names, read under the heading it names:
\* a heading or page end flushes the buffer before section and page change.  A
\* parent, which is embedded and cited as well, joins children whatever pages
\* they are on: all its text was read under a heading of the name it gives, and
\* it begins on the page it names and goes on to later ones only.
CitesItsSection ==
    /\ \A s \in {chunks, children} : \A k \in DOMAIN s : \A p \in s[k].lo..s[k].hi :
           pieces[p].page = s[k].page /\ pieces[p].section = s[k].section
    /\ \A k \in DOMAIN Groups :
           LET g == Groups[k]
               parent == ParentSegment(g)
           IN  /\ pieces[children[g.lo].lo].page = parent.page
               /\ \A c \in g.lo..g.hi : \A p \in children[c].lo..children[c].hi :
                      pieces[p].page >= parent.page /\ pieces[p].section = parent.section

Unit(lo, hi) ==
    \/ pieces[lo].line = pieces[hi].line
    \/ \A p \in lo..(hi - 1) : ~pieces[p].ends

\* A child begins at most one line (kept by flush) or one sentence (kept by
\* _split_large) before the end of any earlier child, and never after a gap:
\* the overlap does not compound over flushes of the kept tail and splits of
\* the chunks that begin with one.
RepeatsOneUnit ==
    \A k \in DOMAIN children :
        LET b == children[k] IN
        /\ b.lo = 1 \/ \E j \in 1..(k - 1) : b.lo <= children[j].hi + 1
        /\ \A j \in 1..(k - 1) : b.lo <= children[j].hi => Unit(b.lo, children[j].hi)

AtMostOneBreak(lo, hi) ==
    \E m \in lo..hi : \A p \in lo..(hi - 1) : pieces[p].ends => p = m

\* A child longer than chunk_size is one sentence, or one and the overlap
\* before it: the count kept by _split_large, which counts separators in one
\* branch and not in the other, never lets a third sentence in.
SizeBound ==
    \A k \in DOMAIN children :
        Width(children[k].lo, children[k].hi) > ChunkSize
            => AtMostOneBreak(children[k].lo, children[k].hi)

\* Every child has exactly one parent, and the parents follow the order of the
\* text.  A parent has children of one section; with more than one of them its
\* text exceeds parent_chunk_size by the spaces between them at most, which the
\* comparison leaves out; and it ends only where the next child is of another
\* section or would not have fitted.
ParentsPartition ==
    /\ \A k \in DOMAIN Groups :
         LET g == Groups[k] IN
         /\ g.lo = (IF k = 1 THEN 1 ELSE Groups[k - 1].hi + 1)
         /\ g.lo <= g.hi
         /\ \A c \in g.lo..g.hi : children[c].section = children[g.lo].section
         /\ g.lo < g.hi => ParentWidth(g) <= ParentSize + (g.hi - g.lo)
         /\ k > 1 => LET before == Groups[k - 1]
                         child == children[g.lo]
                     IN  \/ child.section # children[before.lo].section
                         \/ GroupWidth(before) + Width(child.lo, child.hi) > ParentSize
    /\ phase = "chunked" =>
         IF children = <<>> THEN parents = <<>> ELSE parents[Len(parents)].hi = Len(children)
=============================================================================

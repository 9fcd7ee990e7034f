------------------------------- MODULE Chunking -------------------------------
(* parse_document: one Markdown file becomes chunks.  The body is scanned   *)
(* into atomic blocks, the blocks are grouped into sections at the          *)
(* headings, and each section becomes one chunk or, over the token limit,   *)
(* several.  A line is what the scanner's regular expressions tell apart:   *)
(* its kind, n (a heading's level, a fence's length), whether a fence has   *)
(* an info string, whether it is indented, and its tokens.  Blocks,         *)
(* sections and chunks are ranges: of lines, of blocks, of blocks.          *)
(*                                                                          *)
(* A definition whose name starts with Mut is the definition after it with  *)
(* a plausible bug; the properties are shown to catch it.                   *)
EXTENDS Integers, Sequences, FiniteSets

CONSTANTS Documents,   \* what may be handed to the parser
          MaxTokens,   \* max_tokens of a chunk
          Glue         \* tokens of the blank line between two joined blocks

ASSUME MaxTokensAssumption == MaxTokens \in Nat \ {0}
ASSUME GlueAssumption == Glue \in Nat

Fences == {"tick", "tilde"}
LineKinds == {"blank", "text", "heading", "item", "pipe", "separator"} \cup Fences
BlockKinds == {"heading", "code", "table", "list", "paragraph"}
LineType == [kind : LineKinds, n : Nat, info : BOOLEAN, indented : BOOLEAN, tokens : Nat]
(* A heading has a level from 1 on.                                         *)
ASSUME DocumentsAssumption ==
  \A d \in Documents :
    /\ d.lines \in Seq(LineType)
    /\ \A i \in 1 .. Len(d.lines) : d.lines[i].kind = "heading" => d.lines[i].n > 0

VARIABLES doc,        \* the file: its frontmatter and the lines of its body
          stage,      \* what the parser is doing
          place,      \* the next line to scan, then the next block to group,
                      \* then the next section to chunk
          blocks,     \* the atomic blocks
          path,       \* _group_into_sections: the stack of headings
          current,    \* the section being collected
          sections,
          buf,        \* _pack_blocks: the blocks of the next chunk
          chunks,
          title

chunking == <<doc, stage, place, blocks, path, current, sections, buf, chunks, title>>

Lines == doc.lines
Last == Len(Lines)
Line(i) == Lines[i]

-------------------------------------------------------------------------------
(* The line scanner.                                                        *)
Blank(i) == Line(i).kind = "blank"
Fence(i) == Line(i).kind \in Fences
(* _FENCE_OPEN_RE is anchored at column 0; inside a block the line is       *)
(* stripped first.                                                          *)
OpensFence(i) == Fence(i) /\ ~Line(i).indented
Heading(i) == Line(i).kind = "heading"
ListItem(i) == Line(i).kind = "item"
HasPipe(i) == Line(i).kind \in {"pipe", "separator"}
OpensTable(i) == HasPipe(i) /\ i < Last /\ Line(i + 1).kind = "separator"
BlockStart(i) == Heading(i) \/ OpensFence(i) \/ ListItem(i) \/ OpensTable(i)

MutOpenFences(i) ==
  LET open[j \in i .. Last] ==
        IF j = i THEN <<Line(i)>>
        ELSE LET before == open[j - 1]
             IN IF before # <<>> /\ Line(j).kind = Line(i).kind /\ ~Line(j).info /\ Line(j).n >= Line(i).n
                THEN <<>> ELSE before
  IN open
(* The fences still open after line j of a block that opens at line i.      *)
OpenFences(i) ==
  LET open[j \in i .. Last] ==
        IF j = i THEN <<Line(i)>>
        ELSE LET before == open[j - 1]
                 top == before[Len(before)]
             IN IF before = <<>> \/ Line(j).kind # top.kind THEN before
                ELSE IF Line(j).info THEN Append(before, Line(j))
                ELSE IF Line(j).n >= top.n THEN SubSeq(before, 1, Len(before) - 1)
                ELSE before
  IN open

(* The last line of a block that goes on from line i as long as its lines   *)
(* are among those that continue it.                                        *)
Through(i, continuing) ==
  CHOOSE j \in i .. Last :
    /\ (i + 1) .. j \subseteq continuing
    /\ j = Last \/ j + 1 \notin continuing

CodeEnd(i) == Through(i, {k \in (i + 1) .. Last : OpenFences(i)[k - 1] # <<>>})
TableEnd(i) == Through(i + 1, {k \in i .. Last : HasPipe(k)})
ListEnd(i) ==
  Through(i, {k \in i .. Last :
                /\ ListItem(k) \/ Line(k).indented \/ Blank(k)
                /\ ~(Blank(k) /\ k < Last /\ ~ListItem(k + 1))})
ParagraphEnd(i) == Through(i, {k \in i .. Last : ~Blank(k) /\ ~BlockStart(k)})

BlockAt(i) ==
  LET block(kind, last) == [kind |-> kind, first |-> i, last |-> last]
  IN CASE OpensFence(i) -> block("code", CodeEnd(i))
       [] Heading(i) -> block("heading", i)
       [] OpensTable(i) -> block("table", TableEnd(i))
       [] ListItem(i) -> block("list", ListEnd(i))
       [] OTHER -> block("paragraph", ParagraphEnd(i))

-------------------------------------------------------------------------------
(* Sections, and the tokens of a range of blocks.                           *)
IsHeading(b) == blocks[b].kind = "heading"
Level(b) == Line(blocks[b].first).n

MutHasBody(s) == \A b \in s.from .. s.to : ~IsHeading(b)
HasBody(s) == \E b \in s.from .. s.to : ~IsHeading(b)
Closed == IF HasBody(current) THEN Append(sections, current) ELSE sections

TokensTo == LET sum[i \in 0 .. Last] ==
                  IF i = 0 THEN 0 ELSE sum[i - 1] + Line(i).tokens
            IN sum
BlockTokens(b) == TokensTo[blocks[b].last] - TokensTo[blocks[b].first - 1]
PackedTokens(s) ==
  LET sum[b \in (s.from - 1) .. s.to] ==
        IF b < s.from THEN 0 ELSE sum[b - 1] + BlockTokens(b)
  IN sum[s.to]
Joins(s) == Glue * (s.to - s.from)
TextTokens(s) == PackedTokens(s) + Joins(s)

Piece(s, from, to, tokens) ==
  [heading_path |-> s.heading_path, from |-> from, to |-> to, tokens |-> tokens]

NoBlocks(b) == [from |-> b, to |-> b - 1]

-------------------------------------------------------------------------------
Unparsed ==
  /\ stage = "frontmatter" /\ place = 1
  /\ blocks = <<>> /\ path = <<>> /\ sections = <<>> /\ chunks = <<>>
  /\ current = [heading_path |-> <<>>, from |-> 1, to |-> 0]
  /\ buf = NoBlocks(1)
  /\ title = "none"
ChunkingInit == doc \in Documents /\ Unparsed

CheckFrontmatter ==
  /\ stage = "frontmatter"
  /\ IF doc.meta = "too_large"
     THEN stage' = "refused" /\ UNCHANGED title
     ELSE /\ stage' = "scan"
          /\ title' = IF doc.meta = "titled" THEN "meta" ELSE "none"
  /\ UNCHANGED <<doc, place, blocks, path, current, sections, buf, chunks>>

SkipBlank ==
  /\ stage = "scan" /\ place <= Last /\ Blank(place)
  /\ place' = place + 1
  /\ UNCHANGED <<doc, stage, blocks, path, current, sections, buf, chunks, title>>

TakeBlock ==
  /\ stage = "scan" /\ place <= Last /\ ~Blank(place)
  /\ blocks' = Append(blocks, BlockAt(place))
  /\ place' = BlockAt(place).last + 1
  /\ UNCHANGED <<doc, stage, path, current, sections, buf, chunks, title>>

EndScan ==
  /\ stage = "scan" /\ place > Last
  /\ stage' = "group" /\ place' = 1
  /\ UNCHANGED <<doc, blocks, path, current, sections, buf, chunks, title>>

MutKept(level) == SubSeq(path, 1, IF level < Len(path) THEN level ELSE Len(path))
(* The part of the heading stack a heading of this level goes under.        *)
Kept(level) == SubSeq(path, 1, IF level - 1 < Len(path) THEN level - 1 ELSE Len(path))

StartSection ==
  /\ stage = "group" /\ place <= Len(blocks) /\ IsHeading(place)
  /\ sections' = Closed
  /\ path' = Append(Kept(Level(place)), place)
  /\ current' = [heading_path |-> path', from |-> place, to |-> place]
  /\ place' = place + 1
  /\ UNCHANGED <<doc, stage, blocks, buf, chunks, title>>

ExtendSection ==
  /\ stage = "group" /\ place <= Len(blocks) /\ ~IsHeading(place)
  /\ current' = [current EXCEPT !.to = place]
  /\ place' = place + 1
  /\ UNCHANGED <<doc, stage, blocks, path, sections, buf, chunks, title>>

EndGroup ==
  /\ stage = "group" /\ place > Len(blocks)
  /\ sections' = Closed
  /\ stage' = "chunk" /\ place' = 1
  /\ UNCHANGED <<doc, blocks, path, current, buf, chunks, title>>

Section == sections[place]
TitleFrom(s) ==
  IF title = "none" /\ \E b \in s.from .. s.to : IsHeading(b) /\ Level(b) = 1
  THEN "first_h1" ELSE title

WholeSection ==
  /\ stage = "chunk" /\ place <= Len(sections)
  /\ TextTokens(Section) <= MaxTokens
  /\ title' = TitleFrom(Section)
  /\ chunks' = Append(chunks,
       Piece(Section, Section.from, Section.to, TextTokens(Section)))
  /\ place' = place + 1
  /\ UNCHANGED <<doc, stage, blocks, path, current, sections, buf>>

SplitSection ==
  /\ stage = "chunk" /\ place <= Len(sections)
  /\ TextTokens(Section) > MaxTokens
  /\ title' = TitleFrom(Section)
  /\ stage' = "pack" /\ buf' = NoBlocks(Section.from)
  /\ UNCHANGED <<doc, place, blocks, path, current, sections, chunks>>

(* One round of _pack_blocks: the next block closes the chunk in hand when  *)
(* it does not fit, and starts or joins one.                                *)
Filled == Piece(Section, buf.from, buf.to, PackedTokens(buf))
MutOverflows(b) ==
  /\ buf.from <= buf.to
  /\ PackedTokens(buf) + BlockTokens(b) >= MaxTokens
  /\ ~IsHeading(b)
Overflows(b) ==
  /\ buf.from <= buf.to
  /\ PackedTokens(buf) + BlockTokens(b) > MaxTokens
  /\ ~IsHeading(b)

PackBlock ==
  /\ stage = "pack" /\ buf.to < Section.to
  /\ LET b == buf.to + 1
     IN IF Overflows(b)
        THEN chunks' = Append(chunks, Filled) /\ buf' = [from |-> b, to |-> b]
        ELSE buf' = [buf EXCEPT !.to = b] /\ UNCHANGED chunks
  /\ UNCHANGED <<doc, stage, place, blocks, path, current, sections, title>>

EndPack ==
  /\ stage = "pack" /\ buf.to = Section.to
  /\ chunks' = Append(chunks, Filled)
  /\ stage' = "chunk" /\ place' = place + 1
  /\ UNCHANGED <<doc, blocks, path, current, sections, buf, title>>

EndParse ==
  /\ stage = "chunk" /\ place > Len(sections)
  /\ stage' = "done"
  /\ UNCHANGED <<doc, place, blocks, path, current, sections, buf, chunks, title>>

ChunkingNext ==
  \/ CheckFrontmatter \/ SkipBlank \/ TakeBlock \/ EndScan
  \/ StartSection \/ ExtendSection \/ EndGroup
  \/ WholeSection \/ SplitSection \/ PackBlock \/ EndPack \/ EndParse

ChunkingSpec == ChunkingInit /\ [][ChunkingNext]_chunking

-------------------------------------------------------------------------------
(* Properties.                                                              *)
Holds(s, b) == s.from <= b /\ b <= s.to
Loose(b) == IsHeading(b) /\ (b = Len(blocks) \/ IsHeading(b + 1))

(* The scanner and the splitter lose and repeat nothing (_scan_blocks,      *)
(* _group_into_sections, _pack_blocks): every line that is not blank is in  *)
(* one block, every block in one chunk, in the order of the file; only a    *)
(* heading with no text of its own under it has no chunk.                   *)
NothingLost ==
  /\ \A i \in 1 .. Last : Blank(i) \/ (stage = "scan" /\ i >= place) \/ stage \in {"frontmatter", "refused"}
       \/ \E b \in 1 .. Len(blocks) : blocks[b].first <= i /\ i <= blocks[b].last
  /\ \A b \in 1 .. (Len(blocks) - 1) : blocks[b].last < blocks[b + 1].first
  /\ \A k \in 1 .. (Len(chunks) - 1) : chunks[k].to < chunks[k + 1].from
  /\ stage = "done" =>
       \A b \in 1 .. Len(blocks) : Loose(b) \/ \E k \in 1 .. Len(chunks) : Holds(chunks[k], b)

(* The chain of headings over block b: each is of a lower level than every  *)
(* heading between it and b.                                                *)
Ancestors(b) ==
  {h \in 1 .. b : /\ IsHeading(h)
                  /\ \A k \in (h + 1) .. b : IsHeading(k) => Level(k) > Level(h)}
Entries(p) == {p[k] : k \in 1 .. Len(p)}
(* A heading up to b goes down more than one level, or begins too deep.     *)
LevelSkipped(b) ==
  \E h \in 1 .. b : /\ IsHeading(h) /\ Level(h) # 1
                    /\ \A a \in Ancestors(h) : Level(a) # Level(h) - 1

(* heading_path (chunking.py:14, 249): a chunk names every heading it       *)
(* stands under, those whose own chunk was dropped included, in order.  Of  *)
(* any file, a heading stays at its place in the path until one comes of    *)
(* that level or a higher one; so an entry at the place of its own level is *)
(* an ancestor, and one that is none is named only below a skipped level.   *)
HeadingPathIsAncestry ==
  \A k \in 1 .. Len(chunks) :
    LET c == chunks[k]
        named == c.heading_path
    IN /\ Ancestors(c.from) \subseteq Entries(named)
       /\ \A i, j \in 1 .. Len(named) : i < j => named[i] < named[j]
       /\ \A i \in 1 .. Len(named) :
            /\ i <= Level(named[i])
            /\ \A h \in (named[i] + 1) .. c.from : IsHeading(h) => Level(h) > i
            /\ named[i] \in Ancestors(c.from) \/ LevelSkipped(c.from)

(* The cap (chunking.py:17-22): a chunk's text goes over max_tokens if it   *)
(* is a block of its own, or by no more than the blank lines that join its  *)
(* blocks, which _pack_blocks does not count; its recorded tokens leave out *)
(* no more than those; and a chunk of a section that was split is closed no *)
(* earlier than it must be: the next block would not have fitted.           *)
ChunksFillTheCap ==
  /\ \A k \in 1 .. Len(chunks) :
       LET c == chunks[k]
       IN /\ c.from < c.to => TextTokens(c) <= MaxTokens + Joins(c)
          /\ TextTokens(c) - Joins(c) <= c.tokens
          /\ c.tokens <= TextTokens(c)
  /\ \A k \in 1 .. (Len(chunks) - 1) :
       LET c == chunks[k]
           next == chunks[k + 1]
       IN c.to + 1 = next.from /\ ~IsHeading(next.from)
            => TextTokens(c) - Joins(c) + BlockTokens(next.from) > MaxTokens

(* The fence stack (#200): between fences of one kind and length, a code    *)
(* block goes on until as many bare fences as fences with an info string,   *)
(* its own opener included, have come, or to the end of the file: no        *)
(* heading inside a nested fence ends it, and no line after it is in it.    *)
CodeStaysWhole ==
  \A b \in 1 .. Len(blocks) :
    LET first == blocks[b].first
        last == blocks[b].last
        Same(k) == Fence(k) /\ Line(k).kind = Line(first).kind
        Opened(j) == 1 + Cardinality({k \in (first + 1) .. j : Same(k) /\ Line(k).info})
        Shut(j) == Cardinality({k \in (first + 1) .. j : Same(k) /\ ~Line(k).info})
    IN blocks[b].kind = "code" /\ (\A k \in first .. last : Same(k) => Line(k).n = Line(first).n)
         => /\ last = Last \/ Shut(last) = Opened(last)
            /\ \A j \in first .. (last - 1) : Shut(j) < Opened(j)

=============================================================================

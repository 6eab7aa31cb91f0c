------------------------------- MODULE Chunker --------------------------------
(***************************************************************************)
(* createChunker, code-intel/src/extraction/chunker.ts: the pieces of a    *)
(* file that are embedded and searched.  A file is the sequence of its     *)
(* lines, a line is "" when it is blank, and a hash is what is hashed.     *)
(* The length of a content is counted in lines, not in characters.         *)
(***************************************************************************)
EXTENDS Integers, Sequences, FiniteSets, SequencesExt, FiniteSetsExt

CONSTANTS maxChunkLines, minChunkLines, overlapLines, maxChunksPerFile,
          largeFileThreshold, maxFileContentLength   \* ChunkerConfig

LOCAL Smaller(m, n) == IF m < n THEN m ELSE n
LOCAL Larger(m, n) == IF m < n THEN n ELSE m

Blank(content) == \A i \in DOMAIN content : content[i] = ""

(* The row of the table has the id as its key.                             *)
ChunkNode(first, last, content, type, parent) ==
  [id |-> <<first, last, content>>, start_line |-> first, end_line |-> last,
   content |-> content, chunk_type |-> type, parent_symbol_id |-> parent]

createSymbolChunks(symbols) ==
  {ChunkNode(s.start_line, s.end_line, s.content, "symbol", s.id) :
     s \in {t \in symbols : ~t.is_external /\ t.content # <<>>}}

findGaps(lines, symbols) ==
  LET sorted == SetToSortSeq({s \in symbols : ~s.is_external},
                             LAMBDA s, t : s.start_line < t.start_line)
      Past(gaps, first, last) == IF first <= last THEN Append(gaps, <<first, last>>) ELSE gaps
      Skip(at, s) == [gaps |-> Past(at.gaps, at.currentLine, s.start_line - 1),
                      currentLine |-> Larger(at.currentLine, s.end_line + 1)]
      end == FoldLeft(Skip, [gaps |-> <<>>, currentLine |-> 1], sorted)
  IN Past(end.gaps, end.currentLine, Len(lines))

(* The windows of a gap from `startLine' on.  A blank window is passed     *)
(* over as a whole; a window that would not advance, too.                  *)
RECURSIVE Windows(_, _, _)
Windows(lines, startLine, gapEnd) ==
  LET endLine == Smaller(startLine + maxChunkLines - 1, gapEnd)
      content == SubSeq(lines, startLine, endLine)
      next == endLine + 1 - overlapLines
  IN IF startLine > gapEnd THEN <<>>
     ELSE IF Blank(content) THEN Windows(lines, endLine + 1, gapEnd)
     ELSE <<ChunkNode(startLine, endLine, content, "block", "")>>
            \o Windows(lines, IF next <= startLine THEN endLine + 1 ELSE next, gapEnd)

createBlockChunks(lines, gaps) ==
  LET Add(chunks, gap) ==
        IF gap[2] - gap[1] + 1 < minChunkLines THEN chunks ELSE chunks \o Windows(lines, gap[1], gap[2])
  IN FoldLeft(Add, <<>>, gaps)

createFileChunk(lines) ==
  LET endLine == Smaller(Len(lines), maxFileContentLength)
      content == SubSeq(lines, 1, endLine)
  IN IF Blank(content) THEN {} ELSE {ChunkNode(1, endLine, content, "file", "")}

(* With too many chunks the last blocks go, and only blocks.               *)
chunk(lines, symbols, autoGenerated) ==
  LET file == createFileChunk(lines)
      ofSymbols == createSymbolChunks(symbols)
      blocks == IF Len(lines) > largeFileThreshold THEN <<>>
                ELSE createBlockChunks(lines, findGaps(lines, symbols))
      remaining == maxChunksPerFile - Cardinality(ofSymbols) - Cardinality(file)
  IN IF autoGenerated THEN file
     ELSE ofSymbols \cup file \cup ToSet(SubSeq(blocks, 1, Smaller(Len(blocks), Larger(0, remaining))))
-----------------------------------------------------------------------------
(* What the windows promise ("Block: Sliding window for gaps between       *)
(* symbols", chunker.ts:6).                                                *)

Lines(part) == part[1]..part[2]
Inside(lines, symbols) ==
  UNION {s.start_line..s.end_line : s \in {t \in symbols : ~t.is_external}} \cap DOMAIN lines

(* The gaps are the longest runs of lines that are in no symbol.           *)
GapsAreExact(lines, symbols) ==
  LET gaps == findGaps(lines, symbols)
  IN /\ UNION {Lines(gaps[i]) : i \in DOMAIN gaps} = DOMAIN lines \ Inside(lines, symbols)
     /\ \A i \in DOMAIN gaps : gaps[i][1] <= gaps[i][2]
     /\ \A i \in 1..(Len(gaps) - 1) : gaps[i][2] + 1 < gaps[i + 1][1]

(* Every line that is not blank of a gap that is not tiny is in a block,   *)
(* no block leaves its gap, is blank or too long, and only a block that is *)
(* the overlap at the end of its gap is contained in the one before it.    *)
BlocksCover(lines, symbols) ==
  LET gaps == findGaps(lines, symbols)
      blocks == createBlockChunks(lines, gaps)
      Span(b) == b.start_line..b.end_line
      big == {i \in DOMAIN gaps : gaps[i][2] - gaps[i][1] + 1 >= minChunkLines}
  IN /\ \A i \in big, n \in DOMAIN lines :
          n \in Lines(gaps[i]) /\ lines[n] # "" => \E j \in DOMAIN blocks : n \in Span(blocks[j])
     /\ \A j \in DOMAIN blocks :
          /\ Cardinality(Span(blocks[j])) <= maxChunkLines
          /\ ~Blank(blocks[j].content)
          /\ \E i \in big : Span(blocks[j]) \subseteq Lines(gaps[i])
     /\ \A j \in 2..Len(blocks) :
          Span(blocks[j]) \subseteq Span(blocks[j - 1])
            => Cardinality(Span(blocks[j])) <= overlapLines /\ blocks[j].end_line = blocks[j - 1].end_line

(* Rows are replaced by id: what is lost is a symbol with the lines of     *)
(* another, or one, or a block, that is all of the file.                   *)
RowsLost(lines, symbols) ==
  LET chunks == chunk(lines, symbols, FALSE)
  IN \A c, d \in chunks :
       c # d /\ c.id = d.id =>
         \/ c.chunk_type = "symbol" /\ d.chunk_type = "symbol"
         \/ {c.chunk_type, d.chunk_type} \in {{"file", "symbol"}, {"file", "block"}}
              /\ c.end_line = Smaller(Len(lines), maxFileContentLength)

(* Only the chunks of symbols may be more than maxChunksPerFile.           *)
CapHolds(lines, symbols) ==
  Cardinality(chunk(lines, symbols, FALSE))
    <= Larger(maxChunksPerFile, Cardinality(createSymbolChunks(symbols)) + 1)
=============================================================================

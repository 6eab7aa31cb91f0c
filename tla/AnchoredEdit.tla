----------------------------- MODULE AnchoredEdit -----------------------------
(***************************************************************************)
(* The tool hash_anchored_edit, workspace/src/hash-anchor: a read shows    *)
(* each line with an anchor, a hash of the line, its number and the lines  *)
(* around it; an edit names the anchors of the lines it replaces and is    *)
(* refused if the file has changed there.  A text is the sequence of its   *)
(* lines, as split("\n") gives it: it ends with a newline when its last    *)
(* line is empty and not its only one.  A hash is what is hashed.          *)
(* Carriage returns, which every edit takes out of the file, are left out. *)
(***************************************************************************)
EXTENDS Integers, Sequences, FiniteSets, SequencesExt

LineAt(lines, i) == IF i \in DOMAIN lines THEN lines[i] ELSE ""

(* What is missing is hashed like an empty line.                           *)
buildHashAnchor(i, content, previous, next) ==
  [line |-> i, hash |-> <<i, previous, content, next>>]

(* A read shows the lines first to last, and only those are looked at.     *)
enhanceReadOutputWithAnchors(lines, first, last) ==
  LET shown == [i \in first..last |-> lines[i]]
      Shown(i) == IF i \in first..last THEN shown[i] ELSE ""
  IN [i \in first..last |-> buildHashAnchor(i, Shown(i), Shown(i - 1), Shown(i + 1))]

-----------------------------------------------------------------------------
Count(lines, kind) == Cardinality({i \in DOMAIN lines : lines[i] \in kind})
EndsWithNewline(lines) == Len(lines) > 1 /\ Last(lines) = ""

Heading == {"heading"}
CodeFence == {"codeFence"}
YamlFence == {"yamlFence"}

(* A part of a document may hold one heading, and fences in pairs; if it   *)
(* has either and several lines, its last one is empty.                    *)
BoundaryViolation(old, new) ==
  /\ old # <<"">>
  /\ \/ Count(old, Heading) > 1
     \/ \E fence \in {CodeFence, YamlFence}, lines \in {old, new} : Count(lines, fence) % 2 # 0
     \/ Count(old, Heading \cup CodeFence \cup YamlFence) > 0 /\ Len(old) > 1 /\ Last(old) # ""

(* parseAndValidateAnchorSet, for anchors that are well formed: they are   *)
(* sorted, and each must follow the one before.                            *)
Contiguous(anchors) ==
  LET Lines == {anchors[i].line : i \in DOMAIN anchors}
  IN /\ anchors # <<>>
     /\ Cardinality(Lines) = Len(anchors)
     /\ \A m, n \in Lines : m..n \subseteq Lines

validateHashAnchor(anchor, lines) ==
  /\ anchor.line \in DOMAIN lines
  /\ anchor = buildHashAnchor(anchor.line, lines[anchor.line],
                              LineAt(lines, anchor.line - 1), LineAt(lines, anchor.line + 1))

withEolPolicy(lines, hadTrailingNewline) ==
  IF hadTrailingNewline /\ ~EndsWithNewline(lines) THEN Append(lines, "")
  ELSE IF ~hadTrailingNewline /\ EndsWithNewline(lines) THEN Front(lines)
  ELSE lines

Refused == [ok |-> FALSE]

executeHashAnchoredEdit(lines, anchors, replacement) ==
  LET numbers == {anchors[i].line : i \in DOMAIN anchors}
      startLine == CHOOSE n \in numbers : \A m \in numbers : n <= m
      endLine == CHOOSE n \in numbers : \A m \in numbers : m <= n
  IN IF \/ ~Contiguous(anchors)
        \/ \E i \in DOMAIN anchors : ~validateHashAnchor(anchors[i], lines)
        \/ BoundaryViolation(SubSeq(lines, startLine, endLine), replacement)
     THEN Refused
     ELSE [ok |-> TRUE,
           text |-> withEolPolicy(SubSeq(lines, 1, startLine - 1) \o replacement
                                    \o SubSeq(lines, endLine + 1, Len(lines)),
                                  EndsWithNewline(lines))]
-----------------------------------------------------------------------------
(* What the tool promises ("strict hash-anchored file edits with           *)
(* deterministic preflight validation", index.ts:1273).                    *)

(* The anchors of lines i to j, in some order, in a read of all of `seen'. *)
AnchorsOf(seen, i, j) ==
  LET anchors == enhanceReadOutputWithAnchors(seen, 1, Len(seen))
  IN Reverse([k \in 1..(j - i + 1) |-> anchors[i + k - 1]])

(* Lines i to j and their neighbours are in both texts the same, up to     *)
(* empty lines that are not there.                                         *)
Unchanged(seen, now, i, j) ==
  /\ j <= Len(now)
  /\ \A n \in (i - 1)..(j + 1) : LineAt(seen, n) = LineAt(now, n)

(* An edit of a text that has changed since is accepted exactly when the   *)
(* lines and their neighbours have not.                                    *)
AcceptsExactly(seen, now, i, j, new) ==
  executeHashAnchoredEdit(now, AnchorsOf(seen, i, j), new).ok
    <=> Unchanged(seen, now, i, j) /\ ~BoundaryViolation(SubSeq(now, i, j), new)

(* It replaces those lines and no other, and a newline at the end stays.   *)
(* (The reverse does not hold: with an empty line before it, taking out    *)
(* the last line leaves a newline where there was none.)                   *)
ReplacesOnly(now, i, j, new) ==
  LET edit == executeHashAnchoredEdit(now, AnchorsOf(now, i, j), new)
      after == SubSeq(now, j + 1, Len(now))
  IN edit.ok =>
       /\ IsPrefix(SubSeq(now, 1, i - 1), edit.text)
       /\ after # <<>> => edit.text = SubSeq(now, 1, i - 1) \o new \o after
       /\ EndsWithNewline(now) => EndsWithNewline(edit.text)

(* Two edits made from one read of texts with a line between them that is  *)
(* kept are both accepted in either order, with the same result, if the    *)
(* lower does not move: its number of lines stays.                         *)
Commutes(now, i, j, newI, newJ) ==
  LET First(text) == executeHashAnchoredEdit(text, AnchorsOf(now, i, i), <<newI>>)
      Second(text) == executeHashAnchoredEdit(text, AnchorsOf(now, j, j), <<newJ>>)
  IN i + 1 < j /\ j < Len(now) /\ First(now).ok /\ Second(now).ok =>
       /\ First(Second(now).text).ok /\ Second(First(now).text).ok
       /\ First(Second(now).text).text = Second(First(now).text).text
=============================================================================

-------------------------------- MODULE Chunker --------------------------------
(***************************************************************************)
(* The chunker reads a document line by line into sections below their     *)
(* headings and packs the paragraphs of each into windows.  A paragraph is *)
(* a number and its length; a piece of one is an interval of it.  Two      *)
(* headings are joined by three characters, two pieces by two.             *)
(***************************************************************************)
EXTENDS Naturals, SequencesExt

CONSTANTS
  MaxChars,    \* 1000
  Overlap,     \* 100
  Levels,      \* of headings
  Lengths,     \* of paragraphs
  TitleLength, \* of every heading
  MaxLines     \* bound: headings and paragraphs of a document

ConstantsAssumption ==
  /\ MaxChars \in Nat \ {0}
  /\ Overlap \in Nat
  /\ Levels \subseteq Nat /\ Lengths \subseteq Nat \ {0}
  /\ TitleLength \in Nat \ {0}
  /\ MaxLines \in Nat

VARIABLES
  lines,     \* history: the document so far
  stack,     \* the open headings, the outermost first: line and level
  body,      \* the paragraphs since the last heading: line and length
  chunks     \* the chunks of the sections so far, each with its headings

vars == << lines, stack, body, chunks >>

Heading   == [line : 1 .. MaxLines, level : Levels]
Paragraph == [line : 1 .. MaxLines, length : Lengths]
Piece     == [line : 1 .. MaxLines, from : Nat \ {0}, to : Nat \ {0}]

TypeOK ==
  /\ lines \in Seq([kind : {"heading", "paragraph"}, n : Levels \cup Lengths])
  /\ stack \in Seq(Heading)
  /\ body \in Seq(Paragraph)
  /\ chunks \in Seq([under : Seq(1 .. MaxLines), pieces : Seq(Piece)])

Init == lines = << >> /\ stack = << >> /\ body = << >> /\ chunks = << >>

-----------------------------------------------------------------------------

Shorter(a, b) == IF a < b THEN a ELSE b
Longer(a, b)  == IF a < b THEN b ELSE a

\* The breadcrumb with the blank line below it.
PrefixLength(under) ==
  IF under = << >> THEN 0 ELSE Len(under) * TitleLength + (Len(under) - 1) * 3 + 2

Size(p) == p.to - p.from + 1

TextLength(pieces) ==
  LET length[n \in 0 .. Len(pieces)] ==
        IF n = 0 THEN 0 ELSE length[n - 1] + Size(pieces[n]) + (IF n = 1 THEN 0 ELSE 2)
  IN  length[Len(pieces)]

\* A bug: the windows of a long paragraph start a whole overlap too far.
CutApart(p, budget) ==
  LET step == budget + Overlap
      n    == (p.length - 1) \div step + 1
  IN  [i \in 1 .. n |-> [line |-> p.line, from |-> (i - 1) * step + 1,
                         to |-> Shorter(p.length, (i - 1) * step + budget)]]

\* A paragraph in one piece, or in windows that overlap.
Cut(p, budget) ==
  LET step == IF p.length <= budget THEN p.length
              ELSE IF budget > Overlap THEN budget - Overlap ELSE 1
      n    == (p.length - 1) \div step + 1
  IN  [i \in 1 .. n |-> [line |-> p.line, from |-> (i - 1) * step + 1,
                         to |-> Shorter(p.length, (i - 1) * step + budget)]]

\* A piece joins the last window as long as the text fits.
Pack(windows, p, budget) ==
  IF windows # << >> /\ TextLength(Append(Last(windows), p)) <= budget
  THEN [windows EXCEPT ![Len(windows)] = Append(@, p)]
  ELSE Append(windows, << p >>)

Packed(pieces, budget) ==
  LET packed[n \in 0 .. Len(pieces)] ==
        IF n = 0 THEN << >> ELSE Pack(packed[n - 1], pieces[n], budget)
  IN  packed[Len(pieces)]

\* A bug: nothing keeps long headings from leaving no room at all.
BudgetLeft(under) == MaxChars - PrefixLength(under)

Budget(under) ==
  IF PrefixLength(under) < MaxChars THEN MaxChars - PrefixLength(under) ELSE 1

\* _pack_paragraphs of a section and the prefix of its chunks.
Section(under, paragraphs) ==
  LET budget == Budget(under)
      pieces == FlattenSeq([i \in DOMAIN paragraphs |-> Cut(paragraphs[i], budget)])
      packed == Packed(pieces, budget)
  IN  [i \in DOMAIN packed |-> [under |-> under, pieces |-> packed[i]]]

Under == [i \in DOMAIN stack |-> stack[i].line]

Room == Len(lines) < MaxLines

\* A heading closes the section above it, and the open headings from the top of the stack on
\* that are not of a level above its own.
\* A section without text leaves no chunk.
ReadHeading ==
  /\ Room
  /\ \E level \in Levels :
       /\ lines' = Append(lines, [kind |-> "heading", n |-> level])
       /\ \E kept \in 0 .. Len(stack) :
            /\ kept > 0 => stack[kept].level < level
            /\ \A i \in kept + 1 .. Len(stack) : stack[i].level >= level
            /\ stack' = Append(SubSeq(stack, 1, kept),
                               [line |-> Len(lines) + 1, level |-> level])
  /\ chunks' = chunks \o Section(Under, body)
  /\ body' = << >>

ReadParagraph ==
  /\ Room
  /\ \E n \in Lengths :
       /\ lines' = Append(lines, [kind |-> "paragraph", n |-> n])
       /\ body' = Append(body, [line |-> Len(lines) + 1, length |-> n])
  /\ UNCHANGED << stack, chunks >>

Next == ReadHeading \/ ReadParagraph

Spec == Init /\ [][Next]_vars

-----------------------------------------------------------------------------
(* Properties.                                                             *)

Document == chunks \o Section(Under, body)  \* what chunk_markdown returns

Covers(c, line, at) ==
  \E p \in ToSet(c.pieces) : p.line = line /\ p.from <= at /\ at <= p.to

Precedes(p, q) == p.line < q.line \/ (p.line = q.line /\ p.from < q.from)

\* The headings a line is below: the last one before it, and outwards from there the
\* last one of a lower level.
IsAbove(h, line) ==
  /\ lines[h].kind = "heading" /\ h < line
  /\ \A k \in h + 1 .. line - 1 : lines[k].kind = "heading" => lines[k].n > lines[h].n

\* "Windows to avoid cutting ideas at hard boundaries" (chunker.py): every character of
\* every paragraph is in a chunk, below exactly the headings that are above it, in the
\* order of the document; a chunk fits MaxChars unless its headings alone do not.
NoTextIsLost ==
  /\ \A line \in DOMAIN lines : lines[line].kind = "paragraph" =>
       \A at \in 1 .. lines[line].n : \E c \in ToSet(Document) : Covers(c, line, at)
  /\ \A c \in ToSet(Document) :
       /\ PrefixLength(c.under) + TextLength(c.pieces) <=
            Longer(MaxChars, PrefixLength(c.under) + 1)
       /\ \A p \in ToSet(c.pieces), h \in DOMAIN lines :
            h \in ToSet(c.under) <=> IsAbove(h, p.line)
  /\ \A i \in DOMAIN Document :
       /\ \A m, n \in DOMAIN Document[i].pieces :
            m < n => Precedes(Document[i].pieces[m], Document[i].pieces[n])
       /\ \A j \in DOMAIN Document : i < j =>
            \A p \in ToSet(Document[i].pieces), q \in ToSet(Document[j].pieces) : Precedes(p, q)
=============================================================================
